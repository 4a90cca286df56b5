--------------------------- MODULE TornadoHandlers ---------------------------
(***************************************************************************)
(* The bookkeeping of requests in the Tornado process: the map handlers of *)
(* zerver/tornado/handlers.py, the map descriptors_by_handler_id of        *)
(* descriptors.py, and current_handler_id and the heartbeat timer of each  *)
(* ClientDescriptor.  A request allocates a handler id; it is answered in  *)
(* the callback that received it, or parked and answered by a later        *)
(* event, heartbeat, poll or deletion, or given up when its connection     *)
(* closes.                                                                 *)
(***************************************************************************)
EXTENDS Integers

CONSTANTS Queues,       \* event queues
          LastHandlerId \* bound: ids allocated

ASSUME HandlersAssumption == LastHandlerId \in Nat

Ids == 0 .. LastHandlerId
None == -1

VARIABLES
    handlers,           \* keys of the map from ids to handlers
    next_handler_id,    \* the module's counter
    descriptor_of,      \* the dict descriptors_by_handler_id
    current_handler_id, \* of each queue: the poll parked on it, or None
    timers,             \* of each queue: heartbeats due, by the poll they are for
    waiting,            \* history: requests that have no answer yet
    parked              \* history: requests that have been parked

vars == <<handlers, next_handler_id, descriptor_of, current_handler_id, timers,
          waiting, parked>>

Init ==
    /\ handlers = {} /\ next_handler_id = 0
    /\ descriptor_of = [h \in {} |-> None]
    /\ current_handler_id = [q \in Queues |-> None]
    /\ timers = [q \in Queues |-> {}] /\ waiting = {} /\ parked = {}

-----------------------------------------------------------------------------
(* MUTANT of Cleared: the maps are never cleared.                          *)
MutClearedNever(h) == {}

(* disconnect_handler clears the maps if self.current_handler_id, so not   *)
(* for None and not for id 0.                                              *)
Cleared(h) == IF h \in {None, 0} THEN {} ELSE {h}

Without(f, gone) == [h \in DOMAIN f \ gone |-> f[h]]

(* disconnect_handler: the maps and the queue forget the parked poll.      *)
DisconnectHandler(q) ==
    /\ handlers' = handlers \ Cleared(current_handler_id[q])
    /\ descriptor_of' = Without(descriptor_of, Cleared(current_handler_id[q]))
    /\ current_handler_id' = [current_handler_id EXCEPT ![q] = None]

(* The heartbeats that remain when the poll parked on q, if any, is        *)
(* disconnected.                                                           *)
TimersLeft(q) == IF current_handler_id[q] = None THEN timers[q] ELSE {}

(* finish_current_handler: answer the parked poll and disconnect it.       *)
FinishCurrentHandler(q) ==
    /\ DisconnectHandler(q)
    /\ timers' = [timers EXCEPT ![q] = TimersLeft(q)]
    /\ waiting' = waiting \ {current_handler_id[q]}

(* A poll that fetch_events answers at once: what was parked is finished,  *)
(* get_response clears the new id.                                         *)
PollAnswered(q) ==
    /\ next_handler_id <= LastHandlerId /\ next_handler_id' = next_handler_id + 1
    /\ FinishCurrentHandler(q) /\ UNCHANGED parked

(* MUTANT of PollParked: the descriptor is not entered in the map.         *)
MutPollParkedUnmapped(q) ==
    LET h    == next_handler_id
        gone == Cleared(current_handler_id[q])
    IN  /\ h <= LastHandlerId /\ next_handler_id' = h + 1
        /\ handlers' = (handlers \cup {h}) \ gone
        /\ descriptor_of' = Without(descriptor_of, gone)
        /\ current_handler_id' = [current_handler_id EXCEPT ![q] = h]
        /\ timers' = [timers EXCEPT ![q] = TimersLeft(q) \cup {h}]
        /\ waiting' = (waiting \ {current_handler_id[q]}) \cup {h}
        /\ parked' = parked \cup {h}

(* A poll that is parked: what was parked is finished, then                *)
(* connect_handler; the view returns RespondAsynchronously and the id      *)
(* stays in the map.                                                       *)
PollParked(q) ==
    LET h    == next_handler_id
        gone == Cleared(current_handler_id[q])
    IN  /\ h <= LastHandlerId /\ next_handler_id' = h + 1
        /\ handlers' = (handlers \cup {h}) \ gone
        /\ descriptor_of' = [i \in (DOMAIN descriptor_of \ gone) \cup {h} |->
                                IF i = h THEN q ELSE descriptor_of[i]]
        /\ current_handler_id' = [current_handler_id EXCEPT ![q] = h]
        /\ timers' = [timers EXCEPT ![q] = TimersLeft(q) \cup {h}]
        /\ waiting' = (waiting \ {current_handler_id[q]}) \cup {h}
        /\ parked' = parked \cup {h}

(* Any other request that a view answers or refuses (notify, an error of   *)
(* get_events_backend): the id is allocated and cleared.                   *)
Answered ==
    /\ next_handler_id <= LastHandlerId /\ next_handler_id' = next_handler_id + 1
    /\ UNCHANGED <<handlers, descriptor_of, current_handler_id, timers, waiting, parked>>

(* get_response without a view: request or view middleware responds, or    *)
(* the resolver raises.  The id is allocated; these paths do not clear it. *)
AnsweredEarly ==
    /\ next_handler_id <= LastHandlerId /\ next_handler_id' = next_handler_id + 1
    /\ handlers' = handlers \cup {next_handler_id}
    /\ UNCHANGED <<descriptor_of, current_handler_id, timers, waiting, parked>>

(* add_event on a queue with a parked poll.                                *)
AddEvent(q) ==
    /\ current_handler_id[q] # None
    /\ FinishCurrentHandler(q) /\ UNCHANGED <<next_handler_id, parked>>

(* timeout_callback: the heartbeat is an event like any other, whichever   *)
(* poll is parked when it fires.                                           *)
Heartbeat(q) ==
    \E t \in timers[q] :
        /\ DisconnectHandler(q)
        /\ timers' = [timers EXCEPT ![q] = @ \ {t}]
        /\ waiting' = waiting \ {current_handler_id[q]}
        /\ UNCHANGED <<next_handler_id, parked>>

(* DELETE /events: cleanup finishes the parked poll; the deletion itself   *)
(* is a request that is answered at once.                                  *)
CleanupEventQueue(q) ==
    /\ next_handler_id <= LastHandlerId /\ next_handler_id' = next_handler_id + 1
    /\ FinishCurrentHandler(q) /\ UNCHANGED parked

(* MUTANT of OnConnectionClose: the timer is not removed.                  *)
MutCloseKeepsTimer(h) ==
    /\ h \in waiting /\ h \in DOMAIN descriptor_of
    /\ DisconnectHandler(descriptor_of[h]) /\ waiting' = waiting \ {h}
    /\ UNCHANGED <<timers, next_handler_id, parked>>

(* on_connection_close of a request without an answer: the queue found in  *)
(* descriptors_by_handler_id disconnects whatever poll it has parked.      *)
OnConnectionClose(h) ==
    /\ h \in waiting /\ h \in DOMAIN descriptor_of
    /\ DisconnectHandler(descriptor_of[h]) /\ waiting' = waiting \ {h}
    /\ timers' = [timers EXCEPT ![descriptor_of[h]] = {}]
    /\ UNCHANGED <<next_handler_id, parked>>

Next ==
    \/ \E q \in Queues : \/ PollAnswered(q) \/ PollParked(q) \/ AddEvent(q)
                         \/ Heartbeat(q) \/ CleanupEventQueue(q)
    \/ Answered \/ AnsweredEarly
    \/ \E h \in Ids : OnConnectionClose(h)

Spec == Init /\ [][Next]_vars

-----------------------------------------------------------------------------
TypeOK ==
    /\ handlers \subseteq Ids /\ waiting \subseteq Ids
    /\ next_handler_id \in Nat /\ parked \subseteq Ids
    /\ descriptor_of \in [DOMAIN descriptor_of -> Queues]
    /\ DOMAIN descriptor_of \subseteq Ids
    /\ current_handler_id \in [Queues -> Ids \cup {None}]
    /\ timers \in [Queues -> SUBSET Ids]

(* No poll is left in the map of handlers once it has been answered,       *)
(* supplanted or closed, where nothing would free it: except the request   *)
(* with id 0, for which disconnect_handler clears nothing.                 *)
NoPollLeak == handlers \cap parked \subseteq waiting \cup {0}

(* The two maps and the queues agree on which poll is parked where, so     *)
(* that no del on a map raises and no closing connection takes down a poll *)
(* of another queue or a later poll of the same one; and every request     *)
(* that waits is parked somewhere and will get its answer.                 *)
MapsAgree ==
    /\ \A q \in Queues : current_handler_id[q] # None =>
          /\ current_handler_id[q] \in handlers \cap DOMAIN descriptor_of
          /\ descriptor_of[current_handler_id[q]] = q
    /\ \A h \in waiting : \E q \in Queues : current_handler_id[q] = h

(* A heartbeat is due for the poll that is parked and for no other: none   *)
(* fires for a poll that has been answered, supplanted or closed, and a    *)
(* parked poll has one, so its connection is not left silent.              *)
OneHeartbeatPerPoll ==
    \A q \in Queues : timers[q] = {current_handler_id[q]} \ {None}

(* The maps, the queues and the heartbeats agree on the parked polls.      *)
PollsAgree == MapsAgree /\ OneHeartbeatPerPoll

(* The inductive invariant behind them: ids are fresh, so no id in a map   *)
(* is handed out again.                                                    *)
HandlersInv ==
    /\ MapsAgree
    /\ \A h \in handlers \cup DOMAIN descriptor_of \cup parked : h < next_handler_id
=============================================================================
