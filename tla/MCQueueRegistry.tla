--------------------------- MODULE MCQueueRegistry ---------------------------
(***************************************************************************)
(* What tells people who are away: the registry of queues with its hook    *)
(* for missed messages, and the devices that are notified.  They keep      *)
(* their state apart, so one behaviour follows one of them.                *)
(***************************************************************************)
EXTENDS QueueRegistry, PushDevices, TLC

VARIABLE area   \* the part that this behaviour follows

MCVars == <<area, vars, pushVars>>

MCInit ==
  /\ area \in {"registry", "push"} /\ Init /\ PushInit
  /\ area = "push" => away = {}

MCNext ==
  /\ UNCHANGED area
  /\ \/ area = "registry" /\ Next /\ UNCHANGED pushVars
     \/ area = "push" /\ PushNext /\ UNCHANGED vars

MCSpec == MCInit /\ [][MCNext]_MCVars

-----------------------------------------------------------------------------
\* For QueueRegistry: ann has three queues, of which a3 takes no messages, and bob has one.
MCUsers == {"ann", "bob"}
MCQueues == {"a1", "a2", "a3", "b1"}
MCOwner == [c \in MCQueues |-> IF c = "b1" THEN "bob" ELSE "ann"]

\* For PushDevices: its users.
Symmetry == Permutations(Owners)
=============================================================================
