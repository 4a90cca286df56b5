------------------------------ MODULE IdQueue ------------------------------
(***************************************************************************)
(* One user's event queue, class EventQueue of                             *)
(* zerver/tornado/event_queue.py, seen through the ids of its events.      *)
(*                                                                         *)
(* The deque and the virtual_events dict are sets here: what the rest of   *)
(* Tornado relies on is which event ids are queued and what each of them   *)
(* stands for.  EventQueue.tla keeps the deque, the dict and the merge     *)
(* loop of contents(), and is shown to implement this view.                *)
(*                                                                         *)
(* Every call of push has a tag of its own, and an event "carries" the     *)
(* tags of the pushes it accounts for: its own, and for a virtual event    *)
(* also those it absorbed while it was coalesced (a later pointer or       *)
(* restart replaces the earlier one, flag events add up their messages).   *)
(***************************************************************************)
EXTENDS Integers

CONSTANTS PlainTypes,    \* full event types that push appends to the deque
          VirtualTypes   \* "pointer", "restart" and the "flags/..." types

ASSUME TypesAssumption ==
    /\ "heartbeat" \in PlainTypes
    /\ "restart" \in VirtualTypes
    /\ PlainTypes \cap VirtualTypes = {}

EventTypes == PlainTypes \cup VirtualTypes

Event        == [id : Nat, full : EventTypes, carries : SUBSET Nat]
VirtualEvent == [id : Nat, full : VirtualTypes, carries : SUBSET Nat]

(* The state of an EventQueue object.                                      *)
QueueState == [queue          : SUBSET Event,
               virtual_events : SUBSET VirtualEvent,
               next_event_id  : Nat]

NewQueue == [queue |-> {}, virtual_events |-> {}, next_event_id |-> 0]

AllEvents(q) == q.queue \cup q.virtual_events

(* The virtual event that a push of type full updates, if there is one.    *)
Absorbed(q, full) == {e \in q.virtual_events : e.full = full}

(* MUTANT of PushedEvent: the coalesced event forgets what it absorbed.    *)
MutPushForgets(q, full, tag) ==
    [id |-> q.next_event_id, full |-> full, carries |-> {tag}]

PushedEvent(q, full, tag) ==
    [id |-> q.next_event_id, full |-> full,
     carries |-> {tag} \cup UNION {e.carries : e \in Absorbed(q, full)}]

(* push: a virtual type takes the place of the virtual event of its type,  *)
(* with the new id and what it already accounted for; any other type joins *)
(* the deque.                                                              *)
Push(q, full, tag) ==
    LET event == PushedEvent(q, full, tag)
    IN  IF full \in VirtualTypes
        THEN [queue          |-> q.queue,
              virtual_events |-> (q.virtual_events \ Absorbed(q, full)) \cup {event},
              next_event_id  |-> q.next_event_id + 1]
        ELSE [queue          |-> q.queue \cup {event},
              virtual_events |-> q.virtual_events,
              next_event_id  |-> q.next_event_id + 1]

(* MUTANT of Prune: keeps the event through_id itself.                     *)
MutPruneBelow(q, through_id) ==
    [q EXCEPT !.queue = {e \in @ : e.id >= through_id}]

(* prune: drop what the client says it has seen.  Virtual events are not   *)
(* looked at.                                                              *)
Prune(q, through_id) ==
    [q EXCEPT !.queue = {e \in @ : e.id > through_id}]

(* contents: the virtual events become real events of the deque; all of    *)
(* AllEvents(q) is returned to the caller, by increasing id.               *)
Contents(q) ==
    [q EXCEPT !.queue = AllEvents(q), !.virtual_events = {}]

Empty(q) == q.queue = {} /\ q.virtual_events = {}

=============================================================================
