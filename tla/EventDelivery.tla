---------------------------- MODULE EventDelivery ----------------------------
(***************************************************************************)
(* The get_events loop of one client session: the Tornado process with the *)
(* client's ClientDescriptor (zerver/tornado/event_queue.py), the requests *)
(* and responses on their way, and the client that polls.                  *)
(*                                                                         *)
(* One queue is followed through its life: registration, long polls that   *)
(* are answered at once or parked until an event or a heartbeat, requests  *)
(* the client gave up on and that arrive late, connections closed, garbage *)
(* collection, deletion, SIGTERM with a dump, a crash, and the restart     *)
(* that loads the dump.                                                    *)
(***************************************************************************)
EXTENDS IdQueue, FiniteSets

CONSTANTS MaxEvents,    \* bound: events pushed for one registration
          MaxQueues,    \* bound: registrations of the client
          MaxRestarts,  \* bound: times Tornado goes down
          MaxStale,     \* bound: abandoned requests still in the network
          QueueTimeout, \* idle time, in ticks, after which a queue is collected
          RenameWorks   \* whether setup_event_queue's os.rename succeeds

ASSUME BoundsAssumption ==
    /\ MaxEvents \in Nat /\ MaxQueues \in Nat /\ MaxRestarts \in Nat
    /\ MaxStale \in Nat /\ QueueTimeout \in Nat \ {0}
    /\ RenameWorks \in BOOLEAN

VARIABLES
    up,            \* the Tornado process runs
    q,             \* clients[queue_id], or NoQueue when there is none
    handler,       \* current_handler_id: which poll is parked, if any
    disk,          \* JSON_PERSISTENT_QUEUE_FILENAME
    restarts,      \* times the process went down
    req,           \* the client's outstanding poll while it is on its way
    stale,         \* polls the client gave up on, still on their way
    resp,          \* the answer to the outstanding poll, on its way back
    cstate,        \* the client: "none", "idle" (between polls), "waiting"
    cq,            \* the client's queue_id
    last_event_id, \* the largest event id the client has seen
    received,      \* history: tags of the events the client has applied
    pushed         \* history: events pushed since the client registered

serverVars == <<up, q, handler, disk, restarts>>
netVars    == <<req, stale, resp>>
clientVars == <<cstate, cq, last_event_id, received, pushed>>
vars       == <<up, q, handler, disk, restarts, req, stale, resp,
                cstate, cq, last_event_id, received, pushed>>

NoQueue  == [id |-> 0]
Corrupt  == [id |-> -1]
NoReq    == [qid |-> 0]
NoResp   == [type |-> "none"]
BadQueue == [type |-> "BAD_EVENT_QUEUE_ID"]

(* A ClientDescriptor: its EventQueue, the queue id, and age, the time     *)
(* since last_connection_time, counted up to the timeout.                  *)
Descriptor == [id : Nat \ {0}, eq : QueueState, age : 0 .. QueueTimeout]

Request == [qid : Nat \ {0}, last : Int, dont_block : BOOLEAN]

EventsResp(events) == [type |-> "events", events |-> events]

Response == {NoResp, BadQueue} \cup [type : {"events"}, events : SUBSET Event]

Init ==
    /\ up = TRUE /\ q = NoQueue /\ handler = "none" /\ disk = NoQueue
    /\ restarts = 0
    /\ req = NoReq /\ stale = {} /\ resp = NoResp
    /\ cstate = "none" /\ cq = 0 /\ last_event_id = -1
    /\ received = {} /\ pushed = 0

-----------------------------------------------------------------------------
(* The Tornado process.  Each of these runs to its end in one callback of  *)
(* the IOLoop.                                                             *)

(* finish_current_handler: a parked poll is answered with contents(),      *)
(* which resolves the virtual events, and is disconnected.  The answer     *)
(* reaches the client only if the client still waits for that poll.        *)
FinishedQueue(eq) == IF handler = "none" THEN eq ELSE Contents(eq)

FinishedResp(eq) ==
    IF handler = "current" THEN EventsResp(AllEvents(eq)) ELSE resp

(* add_event: push, then finish the parked poll.                           *)
AddEvent(full) ==
    /\ up /\ q # NoQueue /\ pushed < MaxEvents
    /\ LET eq == Push(q.eq, full, pushed + 1)
       IN  /\ q' = [q EXCEPT !.eq = FinishedQueue(eq)]
           /\ resp' = FinishedResp(eq)
    /\ pushed' = pushed + 1
    /\ handler' = "none"
    /\ UNCHANGED <<up, disk, restarts, req, stale,
                   cstate, cq, last_event_id, received>>

(* An event of the user's notice arrives over notify_tornado.              *)
Notify ==
    \E full \in EventTypes \ {"heartbeat", "restart"} : AddEvent(full)

(* timeout_callback of connect_handler: only a parked poll has a timer,    *)
(* disconnect_handler removes it.                                          *)
Heartbeat == handler # "none" /\ AddEvent("heartbeat")

(* MUTANT of FetchEvents: the answer leaves out the virtual events.        *)
MutFetchQueueOnly(r, who) ==
    LET pruned   == Prune(q.eq, r.last)
        eq       == FinishedQueue(pruned)
        answered == ~Empty(eq) \/ r.dont_block
    IN  /\ q' = [q EXCEPT !.eq  = IF answered THEN Contents(eq) ELSE eq,
                          !.age = IF answered THEN @ ELSE 0]
        /\ handler' = IF answered THEN "none" ELSE who
        /\ resp' = IF answered /\ who = "current"
                   THEN EventsResp(eq.queue) ELSE FinishedResp(pruned)

(* MUTANT of FetchEvents: a poll parks although virtual events are queued. *)
MutFetchIgnoresVirtual(r, who) ==
    LET pruned   == Prune(q.eq, r.last)
        eq       == FinishedQueue(pruned)
        answered == eq.queue # {} \/ r.dont_block
    IN  /\ q' = [q EXCEPT !.eq  = IF answered THEN Contents(eq) ELSE eq,
                          !.age = IF answered THEN @ ELSE 0]
        /\ handler' = IF answered THEN "none" ELSE who
        /\ resp' = IF answered /\ who = "current"
                   THEN EventsResp(AllEvents(eq)) ELSE FinishedResp(pruned)

(* fetch_events for a poll r that names an existing queue: prune, finish   *)
(* the poll parked before, then answer with what is queued or park r.      *)
(* who is "current" for the outstanding poll, "stale" for an abandoned one.*)
FetchEvents(r, who) ==
    LET pruned   == Prune(q.eq, r.last)
        eq       == FinishedQueue(pruned)
        answered == ~Empty(eq) \/ r.dont_block
    IN  /\ q' = [q EXCEPT !.eq  = IF answered THEN Contents(eq) ELSE eq,
                          !.age = IF answered THEN @ ELSE 0]
        /\ handler' = IF answered THEN "none" ELSE who
        /\ resp' = IF answered /\ who = "current"
                   THEN EventsResp(AllEvents(eq))
                   ELSE FinishedResp(pruned)

(* get_events_backend hands a poll to fetch_events.  A queue id that       *)
(* clients does not know is BadEventQueueIdError.                          *)
GetEvents ==
    /\ up /\ req # NoReq
    /\ \/ q.id = req.qid /\ FetchEvents(req, "current")
       \/ q.id # req.qid /\ resp' = BadQueue /\ UNCHANGED <<q, handler>>
    /\ req' = NoReq
    /\ UNCHANGED <<up, disk, restarts, stale, cstate, cq, last_event_id,
                   received, pushed>>

(* The same for a poll the client gave up on: nobody reads its answer, but *)
(* it prunes, and it disconnects the poll that is parked.                  *)
GetEventsLate ==
    /\ up
    /\ \E r \in stale :
         /\ \/ q.id = r.qid /\ FetchEvents(r, "stale")
            \/ q.id # r.qid /\ UNCHANGED <<q, handler, resp>>
         /\ stale' = stale \ {r}
    /\ UNCHANGED <<up, disk, restarts, req, cstate, cq, last_event_id,
                   received, pushed>>

(* on_connection_close: Tornado notices that a parked client is gone.      *)
ConnectionClose ==
    /\ up /\ handler = "stale" /\ handler' = "none"
    /\ UNCHANGED <<up, q, disk, restarts, netVars, clientVars>>

(* gc_event_queues, run by a PeriodicCallback, removes an idle queue.      *)
Idle == handler = "none" /\ q.age >= QueueTimeout

GcEventQueues ==
    /\ up /\ q # NoQueue /\ Idle
    /\ q' = NoQueue
    /\ UNCHANGED <<up, handler, disk, restarts, netVars, clientVars>>

(* cleanup_event_queue (DELETE /events) by any session of the same user:   *)
(* cleanup() finishes the parked poll and removes the queue.               *)
CleanupEventQueue ==
    /\ up /\ q # NoQueue
    /\ resp' = FinishedResp(q.eq)
    /\ handler' = "none" /\ q' = NoQueue
    /\ UNCHANGED <<up, disk, restarts, req, stale, clientVars>>

(* SIGTERM: sys.exit, and the atexit hook dump_event_queues writes every   *)
(* descriptor; current_handler_id is not part of to_dict.                  *)
Down(file) ==
    /\ up /\ restarts < MaxRestarts
    /\ up' = FALSE /\ restarts' = restarts + 1
    /\ q' = NoQueue /\ handler' = "none" /\ disk' = file
    /\ UNCHANGED <<netVars, clientVars>>

Shutdown == Down(q)

(* Killed without the hook, or while the hook overwrites the file.         *)
Crash == Down(disk) \/ Down(Corrupt)

(* MUTANT of Start: from_dict does not restore next_event_id.              *)
MutStartIdsReset ==
    /\ ~up /\ up' = TRUE
    /\ IF disk \in {NoQueue, Corrupt}
       THEN q' = NoQueue /\ pushed' = pushed
       ELSE /\ q' = [disk EXCEPT !.eq = Push([@ EXCEPT !.next_event_id = 0],
                                            "restart", pushed + 1)]
            /\ pushed' = pushed + 1
    /\ disk' = IF RenameWorks THEN NoQueue ELSE disk
    /\ UNCHANGED <<handler, restarts, netVars, cstate, cq,
                   last_event_id, received>>

(* setup_event_queue: load_event_queues (a file that does not parse is     *)
(* logged and ignored), move the file away (an OSError is ignored), and    *)
(* send_restart_events to every loaded queue.                              *)
Start ==
    /\ ~up /\ up' = TRUE
    /\ IF disk \in {NoQueue, Corrupt}
       THEN q' = NoQueue /\ pushed' = pushed
       ELSE /\ q' = [disk EXCEPT !.eq = Push(@, "restart", pushed + 1)]
            /\ pushed' = pushed + 1
    /\ disk' = IF RenameWorks THEN NoQueue ELSE disk
    /\ UNCHANGED <<handler, restarts, netVars, cstate, cq,
                   last_event_id, received>>

(* Time passes.  A tick is long against the heartbeat, which ends every    *)
(* park after at most 55 seconds, and the timeout is QueueTimeout ticks    *)
(* (600 seconds at least).  last_connection_time is dumped and reloaded.   *)
Later(n) == IF n < QueueTimeout THEN n + 1 ELSE n

Aged(d) == IF d \in {NoQueue, Corrupt} THEN d
           ELSE [d EXCEPT !.age = Later(@)]

Tick ==
    /\ handler = "none"
    /\ q' = Aged(q) /\ disk' = Aged(disk)
    /\ UNCHANGED <<up, handler, restarts, netVars, clientVars>>

-----------------------------------------------------------------------------
(* The client (a browser or an API client, outside this repository): it    *)
(* registers, polls with the largest id it has seen, applies the events of *)
(* an answer, retries after a failure with the same id, and registers      *)
(* again when told that its queue is gone.                                 *)

(* Registration; allocate_client_descriptor makes the queue.  Ids contain  *)
(* the server generation and a counter, so they are never reused.          *)
Register ==
    /\ up /\ cstate = "none" /\ cq < MaxQueues
    /\ cq' = cq + 1
    /\ q' = [id |-> cq + 1, eq |-> NewQueue, age |-> 0]
    /\ handler' = "none"
    /\ cstate' = "idle" /\ last_event_id' = -1 /\ received' = {} /\ pushed' = 0
    /\ UNCHANGED <<up, disk, restarts, netVars>>

Poll ==
    /\ cstate = "idle" /\ cstate' = "waiting"
    /\ \E b \in BOOLEAN :
         req' = [qid |-> cq, last |-> last_event_id, dont_block |-> b]
    /\ UNCHANGED <<serverVars, stale, resp, cq, last_event_id, received, pushed>>

ReceiveEvents ==
    /\ cstate = "waiting" /\ resp.type = "events"
    /\ LET ids == {e.id : e \in resp.events} \cup {last_event_id}
       IN  \E m \in ids : (\A i \in ids : i <= m) /\ last_event_id' = m
    /\ received' = received \cup UNION {e.carries : e \in resp.events}
    /\ cstate' = "idle" /\ resp' = NoResp
    /\ UNCHANGED <<serverVars, req, stale, cq, pushed>>

ReceiveBadQueue ==
    /\ cstate = "waiting" /\ resp = BadQueue
    /\ cstate' = "none" /\ resp' = NoResp
    /\ UNCHANGED <<serverVars, req, stale, cq, last_event_id, received, pushed>>

(* The client gives up on its poll: a timeout, a broken connection, a      *)
(* gateway error.  The poll may still be on its way, or parked, or its     *)
(* answer may be the one that is lost.                                     *)
Abandon ==
    /\ cstate = "waiting" /\ cstate' = "idle"
    /\ \/ stale' = stale
       \/ req # NoReq /\ Cardinality(stale) < MaxStale /\ stale' = stale \cup {req}
    /\ req' = NoReq /\ resp' = NoResp
    /\ handler' = IF handler = "current" THEN "stale" ELSE handler
    /\ UNCHANGED <<up, q, disk, restarts, cq, last_event_id, received, pushed>>

(* A request that never arrives.                                           *)
DropLate ==
    /\ \E r \in stale : stale' = stale \ {r}
    /\ UNCHANGED <<serverVars, req, resp, clientVars>>

-----------------------------------------------------------------------------
Next ==
    \/ Notify \/ Heartbeat \/ GetEvents \/ GetEventsLate \/ ConnectionClose
    \/ GcEventQueues \/ CleanupEventQueue \/ Shutdown \/ Crash \/ Start \/ Tick
    \/ Register \/ Poll \/ ReceiveEvents \/ ReceiveBadQueue \/ Abandon \/ DropLate

Spec == Init /\ [][Next]_vars

(* The poll was cut off (the process that had it parked is gone, or its    *)
(* arrival failed): nothing is coming back for it.                         *)
PollLost == req = NoReq /\ resp = NoResp /\ handler # "current"

(* The supervisor restarts Tornado; the client keeps polling, and notices  *)
(* a broken connection; the network does not fail every poll, and the      *)
(* IOLoop serves the polls that arrive.                                    *)
Fairness ==
    /\ WF_vars(Start) /\ WF_vars(Register) /\ WF_vars(Poll)
    /\ WF_vars(PollLost /\ Abandon)
    /\ SF_vars(GetEvents) /\ SF_vars(ReceiveEvents) /\ SF_vars(ReceiveBadQueue)

FairSpec == Spec /\ Fairness

-----------------------------------------------------------------------------
TypeOK ==
    /\ up \in BOOLEAN
    /\ q \in Descriptor \cup {NoQueue}
    /\ handler \in {"none", "current", "stale"}
    /\ disk \in Descriptor \cup {NoQueue, Corrupt}
    /\ restarts \in Nat
    /\ req \in Request \cup {NoReq}
    /\ stale \in SUBSET Request
    /\ resp \in Response
    /\ cstate \in {"none", "idle", "waiting"}
    /\ cq \in Nat /\ (cstate # "none" => cq > 0)
    /\ last_event_id \in Int
    /\ received \in SUBSET Nat
    /\ pushed \in Nat

(* Where the client's queue is: in memory, or in the dump of a process     *)
(* that is down.                                                           *)
TheQueue == IF up THEN q ELSE disk

(* No event is lost while the client's queue lives: every event ever       *)
(* pushed for it was applied by the client or is accounted for by an event *)
(* still queued, through lost answers, late polls that prune, coalescing,  *)
(* and a dump and reload (prune, contents, push, load_event_queues).       *)
NothingLost ==
    TheQueue.id = cq /\ cq # 0 =>
        \A t \in 1 .. pushed :
            \/ t \in received
            \/ \E e \in AllEvents(TheQueue.eq) : t \in e.carries

(* An answer the client will apply holds only events it has not applied,   *)
(* with ids above every id it has seen, and no event twice, although the   *)
(* queue keeps what it has sent until a later poll prunes it.              *)
AtMostOnce ==
    resp.type = "events" =>
        /\ \A e \in resp.events :
             e.id > last_event_id /\ e.carries \cap received = {}
        /\ \A e, f \in resp.events : e # f => e.carries \cap f.carries = {}

(* An answer leaves no gap: what the client will acknowledge by the answer *)
(* it has received, so the next prune cannot drop an event unseen.         *)
NoGap ==
    resp.type = "events" /\ TheQueue.id = cq =>
        \A e \in AllEvents(TheQueue.eq), r \in resp.events :
            e.id <= r.id => e.id <= last_event_id \/ e \in resp.events

(* The ids the server will give out lie above every id the client has      *)
(* acknowledged, across dump and reload: otherwise the next poll prunes    *)
(* new events that the client has never seen.                              *)
AckBelowNextId ==
    TheQueue.id = cq /\ cq # 0 => last_event_id < TheQueue.eq.next_event_id

(* Nothing is skipped: an acknowledgement covers only what the client has  *)
(* seen, now and after the queue was dumped and loaded again.              *)
NothingSkipped == NoGap /\ AckBelowNextId

(* Nobody waits on a queue that holds events: a parked poll means an empty *)
(* queue, virtual events included, whichever poll parked or was supplanted.*)
NoStuckPoll == handler # "none" => Empty(q.eq)

(* The inductive invariant behind them.  Accounts: a queue x whose client  *)
(* has seen ids up to last and applied the tags in rec accounts for all of *)
(* the pushes 1 .. n, each at most once.                                   *)
Accounts(x, last, rec, n) ==
    /\ last < x.next_event_id
    /\ \A e \in AllEvents(x) :
         /\ e.id < x.next_event_id
         /\ e.carries \subseteq 1 .. n
         /\ e.id <= last => e.carries \subseteq rec
         /\ e.id > last => e.carries \cap rec = {}
    /\ \A e \in x.virtual_events : e.id > last /\ e \notin x.queue
    /\ \A e, f \in AllEvents(x) : e # f => e.id # f.id /\ e.carries \cap f.carries = {}
    /\ \A t \in 1 .. n : t \in rec \/ \E e \in AllEvents(x) : t \in e.carries

(* An answer R is news to such a client.                                   *)
News(R, last, rec, n) ==
    /\ \A r \in R : r.id > last /\ r.carries \cap rec = {} /\ r.carries \subseteq 1 .. n
    /\ \A r, s \in R : r # s => r.carries \cap s.carries = {}

(* The answer R agrees with the queue x: what they share is the same       *)
(* event, and x holds nothing older that R leaves out.                     *)
Agrees(R, x, last) ==
    /\ \A r \in R : r.id < x.next_event_id
    /\ \A r \in R, e \in x.virtual_events : r.id < e.id
    /\ \A r \in R, e \in AllEvents(x) :
         /\ e # r => e.id # r.id /\ e.carries \cap r.carries = {}
         /\ e.id <= r.id => e.id <= last \/ e \in R

Live == cq > 0 /\ TheQueue.id = cq

(* The dump is consumed at startup, and a process that is down has         *)
(* neither queue nor parked poll.                                          *)
ProcessInv ==
    /\ up => disk \in {NoQueue, Corrupt}
    /\ ~up => q = NoQueue /\ handler = "none"
    /\ TheQueue.id <= cq
    /\ handler # "none" => q # NoQueue /\ Empty(q.eq)

(* At most one of poll under way, poll parked, answer under way.           *)
PollInv ==
    /\ req # NoReq => /\ cstate = "waiting" /\ resp = NoResp /\ handler # "current"
                      /\ req.qid = cq /\ req.last = last_event_id
    /\ resp # NoResp => cstate = "waiting" /\ handler # "current"
    /\ handler = "current" => cstate = "waiting" /\ q.id = cq
    /\ \A r \in stale : r.qid <= cq /\ (r.qid = cq => r.last <= last_event_id)

(* The process, the polls, the queue, the history and the answer agree, at *)
(* every point of every interleaving; the properties above follow.         *)
DeliveryInv ==
    /\ ProcessInv
    /\ PollInv
    /\ received \subseteq 1 .. pushed
    /\ Live => Accounts(TheQueue.eq, last_event_id, received, pushed)
    /\ resp.type = "events" => News(resp.events, last_event_id, received, pushed)
    /\ Live /\ resp.type = "events" =>
           Agrees(resp.events, TheQueue.eq, last_event_id)

(* Every event pushed for the client's queue is applied by the client, or  *)
(* the client learns that the queue is gone and registers anew.            *)
Undelivered(t) == t \in 1 .. pushed /\ t \notin received /\ cstate # "none"

EventuallyDelivered == \A t \in 1 .. MaxEvents : Undelivered(t) ~> ~Undelivered(t)

=============================================================================
