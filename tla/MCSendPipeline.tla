--------------------------- MODULE MCSendPipeline ---------------------------
(***************************************************************************)
(* The way of a message to the store, its previews and the bots it calls   *)
(* share no state: a behaviour is about one of them.                       *)
(***************************************************************************)
EXTENDS SocketSend, MessageWorkers

CONSTANT Parts   \* the parts to look at, of "sockets", "previews" and "hooks"

VARIABLE part

vars == <<part, sendVars, workerVars>>

Init == part \in Parts /\ SendInit /\ WorkersInit /\ (part # "hooks" => bot = CHOOSE b \in Bots : TRUE)

Next ==
  \/ part = "sockets" /\ SendNext /\ UNCHANGED <<part, workerVars>>
  \/ part = "previews" /\ PreviewNext /\ UNCHANGED <<part, sendVars>>
  \/ part = "hooks" /\ HookNext /\ UNCHANGED <<part, sendVars>>

Spec == Init /\ [][Next]_vars /\ SendFairness

-----------------------------------------------------------------------------
CONSTANTS c1, c2, q1, q2, r1, r2, w1

MCUserOfConn == (c1 :> "ann") @@ (c2 :> "ann")
MCOwnerOf == (q1 :> "ann") @@ (q2 :> "zoe")
MCQueueOf == (r1 :> q1) @@ (r2 :> q1)
=============================================================================
