---------------------------- MODULE IdQueueSpec ----------------------------
(***************************************************************************)
(* What an EventQueue object promises its callers: each push gets the next *)
(* id and stays accounted for until a prune through that id, and contents  *)
(* turns everything queued into real events.  EventQueue.tla implements it.*)
(***************************************************************************)
EXTENDS IdQueue

VARIABLE eq   \* the queue

DoPush == \E full \in EventTypes : eq' = Push(eq, full, eq.next_event_id)

DoFetch == \E k \in -1 .. eq.next_event_id - 1 : eq' = Contents(Prune(eq, k))

Init == eq = NewQueue

Next == DoPush \/ DoFetch

Spec == Init /\ [][Next]_eq
=============================================================================
