----------------------------- MODULE EventQueue -----------------------------
(***************************************************************************)
(* Class EventQueue of zerver/tornado/event_queue.py in full: the deque,   *)
(* the dict of virtual events, the coalescing of push, the pops of prune   *)
(* and the merge loop of contents, with the payloads that coalescing       *)
(* touches.  Beside it are a client that applies what it is sent, and the  *)
(* state (pointer and starred messages) that all events as they were       *)
(* pushed, each applied in its turn, amount to: the truth to compare with. *)
(***************************************************************************)
EXTENDS Integers, Sequences, FiniteSets, SequencesExt

CONSTANTS Messages,   \* message ids that are starred and unstarred
          Pointers,   \* values of the user's pointer
          MaxPushes   \* bound: events pushed onto the queue

ASSUME PushesAssumption == MaxPushes \in Nat

VARIABLES queue,           \* the deque
          virtual_events,  \* the dict, keyed by full event type
          next_event_id,
          truth,           \* history: all pushed events, applied one by one
          shown,           \* the client's copy of it
          last_event_id    \* the largest id the client has seen

queueVars == <<queue, virtual_events, next_event_id>>
dequeVars == <<queue, virtual_events, next_event_id, truth, shown, last_event_id>>

FlagTypes == {"flags/add/starred", "flags/remove/starred"}

VirtualTypes == {"pointer", "restart"} \cup FlagTypes

AllFlagTypes == {"all_flags/starred/add", "all_flags/starred/remove"}

PlainTypes == {"message", "heartbeat"} \cup AllFlagTypes

DequeInit ==
    /\ queue = <<>> /\ virtual_events = <<>> /\ next_event_id = 0
    /\ truth \in [pointer : Pointers, starred : {{}}]
    /\ shown = truth
    /\ last_event_id = -1

-----------------------------------------------------------------------------
(* How a client applies events in their order; data is the pointer's value *)
(* or the messages concerned.  The last event that sets a thing counts.    *)
Pointing(events) == {k \in DOMAIN events : events[k].full = "pointer"}

Starring(events, m) ==
    {k \in DOMAIN events : \/ events[k].full \in AllFlagTypes
                           \/ events[k].full \in FlagTypes /\ m \in ToSet(events[k].data)}

LastPlace(places) == CHOOSE k \in places : \A j \in places : j <= k

Applied(st, events) ==
    [pointer |-> IF Pointing(events) = {} THEN st.pointer
                 ELSE events[LastPlace(Pointing(events))].data[1],
     starred |-> {m \in Messages :
                    IF Starring(events, m) = {} THEN m \in st.starred
                    ELSE events[LastPlace(Starring(events, m))].full
                           \in {"flags/add/starred", "all_flags/starred/add"}}]

(* MUTANT of Push: the virtual pointer event gets the new id but keeps the *)
(* old pointer.                                                            *)
MutPushOldPointer(full, data) ==
    LET event  == [id |-> next_event_id, full |-> full, data |-> data,
                   carries |-> {next_event_id}]
    IN  /\ next_event_id' = next_event_id + 1
        /\ \/ /\ full \notin VirtualTypes
              /\ queue' = Append(queue, event) /\ UNCHANGED virtual_events
           \/ /\ full \in VirtualTypes
              /\ virtual_events' =
                    [t \in DOMAIN virtual_events \cup {full} |->
                        IF t \in DOMAIN virtual_events
                        THEN IF t = full
                             THEN [virtual_events[t] EXCEPT !.id = next_event_id,
                                                            !.carries = @ \cup {next_event_id}]
                             ELSE virtual_events[t]
                        ELSE event]
              /\ UNCHANGED queue

(* push: the first event of a virtual type is copied into the dict, a      *)
(* later one updates the copy: its id, and its payload (replaced for a     *)
(* pointer or a restart, added to for flags).                              *)
Push(full, data) ==
    LET event  == [id |-> next_event_id, full |-> full, data |-> data,
                   carries |-> {next_event_id}]
        merged == [id |-> next_event_id, full |-> full,
                   data |-> IF full \in FlagTypes
                            THEN virtual_events[full].data \o data ELSE data,
                   carries |-> virtual_events[full].carries \cup {next_event_id}]
        put(e) == [t \in DOMAIN virtual_events \cup {full} |->
                     IF t = full THEN e ELSE virtual_events[t]]
    IN  /\ next_event_id' = next_event_id + 1
        /\ \/ /\ full \notin VirtualTypes
              /\ queue' = Append(queue, event) /\ UNCHANGED virtual_events
           \/ /\ full \in VirtualTypes \ DOMAIN virtual_events
              /\ virtual_events' = put(event) /\ UNCHANGED queue
           \/ /\ full \in VirtualTypes \cap DOMAIN virtual_events
              /\ virtual_events' = put(merged) /\ UNCHANGED queue

(* prune: pop from the left while the head's id is not above through_id.   *)
Pruned(through_id) ==
    LET kept == {i \in 1 .. Len(queue) + 1 :
                    /\ i <= Len(queue) => queue[i].id > through_id
                    /\ \A j \in 1 .. i - 1 : queue[j].id <= through_id}
    IN  SubSeq(queue, CHOOSE i \in kept : TRUE, Len(queue))

Virtual == {virtual_events[t] : t \in DOMAIN virtual_events}

(* The order in which contents goes through the deque s and the virtual    *)
(* events, which it has sorted by id: before it emits an event of the      *)
(* deque it emits those of lower ids.                                      *)
EmittedBefore(s, d, e) ==
    \/ d \in Virtual /\ e \in Virtual /\ d.id < e.id
    \/ \E i, j \in DOMAIN s : i < j /\ s[i] = d /\ s[j] = e
    \/ d \in Virtual /\ \E i \in DOMAIN s : s[i] = e /\ \E j \in 1 .. i : d.id < s[j].id
    \/ e \in Virtual /\ \E i \in DOMAIN s : s[i] = d /\ \A j \in 1 .. i : e.id >= s[j].id

Emitted(s, events) ==
    [k \in 1 .. Cardinality(events) |->
        CHOOSE e \in events : Cardinality({d \in events : EmittedBefore(s, d, e)}) = k - 1]

(* MUTANT of Merged: the final loop is missing, virtual events newer than  *)
(* the whole deque are dropped.                                            *)
MutMergedNoTail(s) ==
    Emitted(s, ToSet(s) \cup {v \in Virtual : \E e \in ToSet(s) : v.id < e.id})

(* contents: merge the virtual events, by id, into the deque s.            *)
Merged(s) == Emitted(s, ToSet(s) \cup Virtual)

-----------------------------------------------------------------------------
(* process_event hands an event to the queue.                              *)
Change(full, data) ==
    /\ next_event_id < MaxPushes
    /\ Push(full, data)
    /\ truth' = Applied(truth, <<[full |-> full, data |-> data]>>)
    /\ UNCHANGED <<shown, last_event_id>>

(* The events that compute_full_event_type tells apart: a pointer, flags   *)
(* of some messages, and flags of all messages, in a category of their own.*)
UpdatePointer == \E p \in Pointers : Change("pointer", <<p>>)

UpdateMessageFlags ==
    \E full \in FlagTypes, m \in Messages : Change(full, <<m>>)

UpdateAllFlags ==
    \E full \in AllFlagTypes : Change(full, <<>>)

(* Events that change nothing the client shows here.                       *)
OtherEvent == \E full \in {"message", "restart"} : Change(full, <<>>)

(* A poll with the client's last_event_id: prune, then answer with         *)
(* contents(); the answer arrives and is applied in order, or is lost.     *)
Fetch ==
    LET contents == Merged(Pruned(last_event_id))
    IN  /\ queue' = contents /\ virtual_events' = <<>>
        /\ \/ /\ shown' = Applied(shown, contents)
              /\ last_event_id' = IF contents = <<>> THEN last_event_id
                                  ELSE contents[Len(contents)].id
           \/ UNCHANGED <<shown, last_event_id>>
        /\ UNCHANGED <<next_event_id, truth>>

DequeNext == UpdatePointer \/ UpdateMessageFlags \/ UpdateAllFlags \/ OtherEvent \/ Fetch

DequeSpec == DequeInit /\ [][DequeNext]_dequeVars

-----------------------------------------------------------------------------
EventRecord == [id : Nat, full : PlainTypes \cup VirtualTypes,
                data : Seq(Messages \cup Pointers), carries : SUBSET Nat]

DequeTypeOK ==
    /\ queue \in Seq(EventRecord)
    /\ DOMAIN virtual_events \subseteq VirtualTypes
    /\ \A t \in DOMAIN virtual_events :
         virtual_events[t] \in EventRecord /\ virtual_events[t].full = t
    /\ next_event_id \in 0 .. MaxPushes
    /\ {truth, shown} \subseteq [pointer : Pointers, starred : SUBSET Messages]
    /\ last_event_id \in -1 .. MaxPushes - 1

(* The deque stays ordered by id, also after contents merges the virtual   *)
(* events into it: prune stops at the first event it must keep, and the    *)
(* client's last_event_id acknowledges everything before it.               *)
QueueSorted == \A i, j \in DOMAIN queue : i < j => queue[i].id < queue[j].id

(* The events the client has yet to apply, in the order it will get them.  *)
Pending == Merged(Pruned(last_event_id))

Replayed == Applied(shown, Pending)

(* However pointer updates were coalesced and moved among the other        *)
(* events, a client that applies what is pending shows the pointer it      *)
(* would show had nothing been coalesced.  (Stars do not converge so:      *)
(* adding and removing them are coalesced apart.)                          *)
PointerConverges == Replayed.pointer = truth.pointer

(* The deque and the dict implement the id-level queue that the rest of    *)
(* the model uses.                                                         *)
IdView(e) == [id |-> e.id, full |-> e.full, carries |-> e.carries]

Abstract == INSTANCE IdQueueSpec WITH
    eq <- [queue          |-> {IdView(e) : e \in ToSet(queue)},
           virtual_events |-> {IdView(virtual_events[t]) : t \in DOMAIN virtual_events},
           next_event_id  |-> next_event_id]

ImplementsIdQueue == Abstract!Spec
=============================================================================
