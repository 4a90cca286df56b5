------------------------- MODULE EventDeliveryProofs -------------------------
(* Theorems about EventDelivery, for every value of its constants.         *)
EXTENDS EventDelivery, TLAPS

(* push, prune and contents keep a queue a queue.                          *)
LEMMA PushType ==
    ASSUME NEW x \in QueueState, NEW full \in EventTypes, NEW tag \in Nat
    PROVE  Push(x, full, tag) \in QueueState
<1>1. PushedEvent(x, full, tag) \in Event
  BY DEF Event, VirtualEvent, QueueState, PushedEvent, Absorbed
<1>2. full \in VirtualTypes => PushedEvent(x, full, tag) \in VirtualEvent
  BY <1>1 DEF Event, VirtualEvent, PushedEvent
<1> QED BY <1>1, <1>2 DEF Push, QueueState

\* Pruning a queue gives a queue.
LEMMA PruneType ==
    ASSUME NEW x \in QueueState, NEW k \in Int
    PROVE  Prune(x, k) \in QueueState
BY DEF Prune, QueueState

\* Its contents are events.
LEMMA ContentsType ==
    ASSUME NEW x \in QueueState
    PROVE  /\ Contents(x) \in QueueState
           /\ AllEvents(x) \in SUBSET Event
BY DEF Contents, AllEvents, QueueState, Event, VirtualEvent, EventTypes

\* The empty queue is a queue.
LEMMA NewQueueType == NewQueue \in QueueState
BY DEF NewQueue, QueueState

\* A descriptor with one field changed.
LEMMA DescriptorUpdate ==
    ASSUME NEW d \in Descriptor, NEW x \in QueueState, NEW a \in 0 .. QueueTimeout
    PROVE  /\ [d EXCEPT !.eq = x, !.age = a] \in Descriptor
           /\ [d EXCEPT !.eq = x] \in Descriptor
BY DEF Descriptor

\* A descriptor some time later.
LEMMA AgedType ==
    ASSUME NEW d \in Descriptor \cup {NoQueue, Corrupt}
    PROVE  /\ Aged(d) \in Descriptor \cup {NoQueue, Corrupt}
           /\ Aged(d).id = d.id
           /\ d # Corrupt => Aged(d) # Corrupt
           /\ d \in Descriptor => /\ Aged(d) \in Descriptor
                                 /\ Aged(d).eq = d.eq
           /\ d \notin Descriptor => Aged(d) = d
BY BoundsAssumption DEF Aged, Later, Descriptor, NoQueue, Corrupt

(* The state has its type after every step of every handler and client.    *)
LEMMA TypeStep == TypeOK /\ [Next]_vars => TypeOK'
<1> SUFFICES ASSUME TypeOK, [Next]_vars PROVE TypeOK'
  OBVIOUS
<1> USE DEF TypeOK
<1>1. ASSUME NEW x \in QueueState
      PROVE  FinishedQueue(x) \in QueueState /\ FinishedResp(x) \in Response
  BY ContentsType DEF FinishedQueue, FinishedResp, EventsResp, Response
<1>2. q # NoQueue => q \in Descriptor /\ q.eq \in QueueState
  BY DEF Descriptor, NoQueue
<1>3. ASSUME NEW full \in EventTypes, AddEvent(full) PROVE TypeOK'
  <2> DEFINE x == Push(q.eq, full, pushed + 1)
  <2>1. x \in QueueState
    BY <1>2, <1>3, PushType DEF AddEvent
  <2>2. FinishedQueue(x) \in QueueState /\ FinishedResp(x) \in Response
    BY <1>1, <2>1
  <2> HIDE DEF x
  <2>3. q' = [q EXCEPT !.eq = FinishedQueue(x)] /\ resp' = FinishedResp(x)
    BY <1>3 DEF AddEvent, x
  <2>4. q' \in Descriptor
    BY <1>2, <1>3, <2>2, <2>3 DEF AddEvent, Descriptor
  <2> QED BY <1>3, <2>2, <2>3, <2>4 DEF AddEvent
<1>4. CASE Notify
  BY <1>3, <1>4 DEF Notify
<1>5. CASE Heartbeat
  BY <1>3, <1>5, TypesAssumption DEF Heartbeat, EventTypes
<1>6. ASSUME NEW r \in Request, NEW who \in {"current", "stale"},
             q.id = r.qid, FetchEvents(r, who)
      PROVE  /\ q' \in Descriptor /\ handler' \in {"none", "current", "stale"}
             /\ resp' \in Response
  <2> DEFINE p == Prune(q.eq, r.last)
             x == FinishedQueue(p)
  <2>1. q \in Descriptor /\ q.eq \in QueueState
    BY <1>2, <1>6 DEF Request, NoQueue
  <2>2. p \in QueueState
    BY <2>1, PruneType DEF Request
  <2>3. x \in QueueState /\ FinishedResp(p) \in Response
    BY <1>1, <2>2
  <2>4. Contents(x) \in QueueState /\ EventsResp(AllEvents(x)) \in Response
    BY <2>3, ContentsType DEF EventsResp, Response
  <2>5. /\ \/ q' = [q EXCEPT !.eq = Contents(x), !.age = q.age]
           \/ q' = [q EXCEPT !.eq = x, !.age = 0]
        /\ handler' \in {"none", who}
        /\ resp' \in {EventsResp(AllEvents(x)), FinishedResp(p)}
    BY <1>6 DEF FetchEvents
  <2> HIDE DEF x, p
  <2>6. q' \in Descriptor
    <3>1. q.age \in 0 .. QueueTimeout /\ 0 \in 0 .. QueueTimeout
      BY <2>1, BoundsAssumption DEF Descriptor
    <3>2. [q EXCEPT !.eq = Contents(x), !.age = q.age] \in Descriptor
      BY <2>1, <2>4, <3>1, DescriptorUpdate
    <3>3. [q EXCEPT !.eq = x, !.age = 0] \in Descriptor
      BY <2>1, <2>3, <3>1, DescriptorUpdate
    <3> QED BY <2>5, <3>2, <3>3
  <2> QED BY <2>3, <2>4, <2>5, <2>6, BoundsAssumption
<1>7. CASE GetEvents
  <2>1. req \in Request /\ req # NoReq
    BY <1>7 DEF GetEvents
  <2>2. CASE q.id = req.qid /\ FetchEvents(req, "current")
    BY <1>6, <1>7, <2>1, <2>2 DEF GetEvents
  <2>3. CASE q.id # req.qid /\ resp' = BadQueue /\ UNCHANGED <<q, handler>>
    BY <1>7, <2>3 DEF GetEvents, Response
  <2> QED BY <1>7, <2>2, <2>3 DEF GetEvents
<1>8. CASE GetEventsLate
  <2>1. PICK r \in stale :
          /\ \/ q.id = r.qid /\ FetchEvents(r, "stale")
             \/ q.id # r.qid /\ UNCHANGED <<q, handler, resp>>
          /\ stale' = stale \ {r}
    BY <1>8 DEF GetEventsLate
  <2>2. CASE q.id = r.qid /\ FetchEvents(r, "stale")
    BY <1>6, <1>8, <2>1, <2>2 DEF GetEventsLate
  <2>3. CASE q.id # r.qid /\ UNCHANGED <<q, handler, resp>>
    BY <1>8, <2>1, <2>3 DEF GetEventsLate
  <2> QED BY <2>1, <2>2, <2>3
<1>9. CASE ConnectionClose
  BY <1>9 DEF ConnectionClose, netVars, clientVars
<1>10. CASE GcEventQueues
  BY <1>10 DEF GcEventQueues, netVars, clientVars
<1>11. CASE CleanupEventQueue
  BY <1>1, <1>2, <1>11 DEF CleanupEventQueue, clientVars
<1>12. ASSUME NEW file \in Descriptor \cup {NoQueue, Corrupt}, Down(file)
       PROVE  TypeOK'
  <2>1. restarts' \in Nat /\ disk' = file /\ q' = NoQueue
    BY <1>12 DEF Down
  <2> QED BY <1>12, <2>1 DEF Down, netVars, clientVars
<1>13. CASE Shutdown \/ Crash
  BY <1>12, <1>13 DEF Shutdown, Crash
<1>14. CASE Start
  <2>1. CASE disk \in {NoQueue, Corrupt}
    BY <1>14, <2>1 DEF Start, netVars
  <2>2. CASE disk \notin {NoQueue, Corrupt}
    <3> DEFINE x == Push(disk.eq, "restart", pushed + 1)
    <3>1. disk \in Descriptor /\ disk.eq \in QueueState
      BY <2>2 DEF Descriptor
    <3>2. x \in QueueState
      BY <3>1, PushType, TypesAssumption DEF EventTypes
    <3>3. q' = [disk EXCEPT !.eq = x] /\ pushed' = pushed + 1
      BY <1>14, <2>2 DEF Start
    <3> HIDE DEF x
    <3>4. q' \in Descriptor
      BY <3>1, <3>2, <3>3 DEF Descriptor
    <3> QED BY <1>14, <3>3, <3>4 DEF Start, netVars
  <2> QED BY <2>1, <2>2
<1>15. CASE Tick
  <2>1. q' \in Descriptor \cup {NoQueue} /\ disk' \in Descriptor \cup {NoQueue, Corrupt}
    BY <1>15, AgedType DEF Tick, NoQueue, Corrupt, Descriptor
  <2> QED BY <1>15, <2>1 DEF Tick, netVars, clientVars
<1>16. CASE Register
  BY <1>16, NewQueueType, BoundsAssumption DEF Register, netVars, Descriptor
<1>17. CASE Poll
  <2>1. req' \in Request
    BY <1>17 DEF Poll, Request
  <2> QED BY <1>17, <2>1 DEF Poll, serverVars
<1>18. CASE ReceiveEvents
  <2>1. resp.events \in SUBSET Event
    BY <1>18 DEF ReceiveEvents, Response, NoResp, BadQueue
  <2>2. last_event_id' \in Int
    BY <1>18, <2>1 DEF ReceiveEvents, Event
  <2>3. received' \in SUBSET Nat
    <3>1. \A e \in resp.events : e.carries \subseteq Nat
      BY <2>1 DEF Event
    <3>2. UNION {e.carries : e \in resp.events} \subseteq Nat
      BY <3>1
    <3> QED BY <1>18, <3>2 DEF ReceiveEvents
  <2> QED BY <1>18, <2>2, <2>3 DEF ReceiveEvents, serverVars, Response
<1>19. CASE ReceiveBadQueue
  BY <1>19 DEF ReceiveBadQueue, serverVars, Response
<1>20. CASE Abandon
  BY <1>20 DEF Abandon, Response
<1>21. CASE DropLate
  BY <1>21 DEF DropLate, serverVars, clientVars
<1>22. CASE UNCHANGED vars
  BY <1>22 DEF vars
<1> QED
  BY <1>4, <1>5, <1>7, <1>8, <1>9, <1>10, <1>11, <1>13, <1>14, <1>15,
     <1>16, <1>17, <1>18, <1>19, <1>20, <1>21, <1>22 DEF Next

\* Every variable of the event queues keeps its type, whatever the clients and the server do.
THEOREM TypeCorrect == Spec => []TypeOK
<1>1. Init => TypeOK
  BY BoundsAssumption DEF Init, TypeOK, Response
<1> QED BY <1>1, TypeStep, PTL DEF Spec

-----------------------------------------------------------------------------
(* How the queue operations act on Accounts, News and Agrees.              *)

\* All events of a queue are those of its contents.
LEMMA AllEventsContents ==
    ASSUME NEW x \in QueueState
    PROVE  /\ AllEvents(Contents(x)) = AllEvents(x)
           /\ Contents(x).virtual_events = {}
           /\ Contents(x).next_event_id = x.next_event_id
BY DEF AllEvents, Contents, QueueState

\* Pruning removes the acknowledged events and no others.
LEMMA AllEventsPrune ==
    ASSUME NEW x \in QueueState, NEW k \in Int
    PROVE  /\ AllEvents(Prune(x, k)) = {e \in AllEvents(x) : e.id > k} \cup x.virtual_events
           /\ Prune(x, k).virtual_events = x.virtual_events
           /\ Prune(x, k).next_event_id = x.next_event_id
BY DEF AllEvents, Prune, QueueState

\* Pushing adds one event.
LEMMA AllEventsPush ==
    ASSUME NEW x \in QueueState, NEW full \in EventTypes, NEW tag \in Nat
    PROVE  /\ AllEvents(Push(x, full, tag))
                = (x.queue \cup (x.virtual_events \ Absorbed(x, full)))
                  \cup {PushedEvent(x, full, tag)}
           /\ Push(x, full, tag).next_event_id = x.next_event_id + 1
           /\ Push(x, full, tag).virtual_events
                \subseteq x.virtual_events \cup {PushedEvent(x, full, tag)}
<1>1. CASE full \in VirtualTypes
  BY <1>1 DEF AllEvents, Push
<1>2. CASE full \notin VirtualTypes
  <2>1. Absorbed(x, full) = {}
    BY <1>2 DEF Absorbed, QueueState, VirtualEvent
  <2> QED BY <1>2, <2>1 DEF AllEvents, Push
<1> QED BY <1>1, <1>2

\* Asking for the contents keeps every event accounted for.
LEMMA ContentsAccounts ==
    ASSUME NEW x \in QueueState, NEW last \in Int, NEW rec, NEW n,
           Accounts(x, last, rec, n)
    PROVE  Accounts(Contents(x), last, rec, n)
BY AllEventsContents DEF Accounts

\* So does pruning.
LEMMA PruneAccounts ==
    ASSUME NEW x \in QueueState, NEW last \in Int, NEW rec, NEW n,
           NEW k \in Int, k <= last, Accounts(x, last, rec, n)
    PROVE  Accounts(Prune(x, k), last, rec, n)
<1> DEFINE y == Prune(x, k)
<1>1. /\ AllEvents(y) = {e \in AllEvents(x) : e.id > k} \cup x.virtual_events
      /\ y.virtual_events = x.virtual_events
      /\ y.next_event_id = x.next_event_id
  BY AllEventsPrune
<1>2. AllEvents(y) \subseteq AllEvents(x)
  BY <1>1 DEF AllEvents
<1>3. AllEvents(x) \subseteq Event /\ y.queue \subseteq x.queue
  BY ContentsType DEF Prune, QueueState
<1> HIDE DEF y
<1>4. ASSUME NEW t \in 1 .. n, t \notin rec
      PROVE  \E e \in AllEvents(y) : t \in e.carries
  <2>1. PICK e \in AllEvents(x) : t \in e.carries
    BY <1>4 DEF Accounts
  <2>2. ~(e.id <= last)
    BY <1>4, <2>1 DEF Accounts
  <2>3. e.id > k
    BY <1>3, <2>2 DEF Event
  <2> QED BY <1>1, <2>1, <2>3
<1> QED BY <1>1, <1>2, <1>3, <1>4 DEF Accounts, y

\* So does pushing.
LEMMA PushAccounts ==
    ASSUME NEW x \in QueueState, NEW last \in Int, NEW rec \in SUBSET Nat,
           NEW n \in Nat, NEW full \in EventTypes, rec \subseteq 1 .. n,
           Accounts(x, last, rec, n)
    PROVE  Accounts(Push(x, full, n + 1), last, rec, n + 1)
<1> DEFINE y == Push(x, full, n + 1)
           p == PushedEvent(x, full, n + 1)
           kept == x.queue \cup (x.virtual_events \ Absorbed(x, full))
<1>1. /\ AllEvents(y) = kept \cup {p}
      /\ y.next_event_id = x.next_event_id + 1
      /\ y.virtual_events \subseteq x.virtual_events \cup {p}
  BY AllEventsPush
<1>2. AllEvents(x) \subseteq Event /\ x.next_event_id \in Nat
  BY ContentsType DEF QueueState
<1>3. kept \subseteq AllEvents(x) /\ Absorbed(x, full) \subseteq x.virtual_events
  BY DEF AllEvents, Absorbed
<1>4. p.id = x.next_event_id /\ p.carries = {n + 1} \cup UNION {e.carries : e \in Absorbed(x, full)}
  BY DEF PushedEvent
<1> HIDE DEF y, p, kept
<1>5. /\ \A e \in AllEvents(x) :
           /\ e.id \in Nat /\ e.id < x.next_event_id
           /\ e.carries \subseteq 1 .. n
           /\ e.id <= last => e.carries \subseteq rec
           /\ e.id > last => e.carries \cap rec = {}
      /\ \A e, f \in AllEvents(x) : e # f => e.id # f.id /\ e.carries \cap f.carries = {}
      /\ last < x.next_event_id
  BY <1>2 DEF Accounts, Event
<1>6. \A e \in Absorbed(x, full) : e \in AllEvents(x) /\ e \notin kept /\ e.id > last
  BY <1>3 DEF Accounts, kept, AllEvents
<1>7. p.carries \subseteq 1 .. n + 1 /\ p.carries \cap rec = {}
  <2>1. \A t \in p.carries : t = n + 1 \/ \E e \in Absorbed(x, full) : t \in e.carries
    BY <1>4
  <2>2. n + 1 \notin rec /\ n + 1 \in 1 .. n + 1 /\ 1 .. n \subseteq 1 .. n + 1
    OBVIOUS
  <2> QED BY <1>5, <1>6, <2>1, <2>2
<1>8. \A e \in kept : e.carries \cap p.carries = {} /\ e.id # p.id /\ e \in AllEvents(x)
  <2> SUFFICES ASSUME NEW e \in kept
               PROVE  e.carries \cap p.carries = {} /\ e.id # p.id /\ e \in AllEvents(x)
    OBVIOUS
  <2>1. e \in AllEvents(x) /\ n + 1 \notin e.carries
    BY <1>3, <1>5
  <2>2. \A f \in Absorbed(x, full) : e.carries \cap f.carries = {}
    BY <1>5, <1>6, <2>1
  <2>3. e.id # p.id
    BY <1>4, <1>5, <2>1
  <2> QED BY <1>4, <2>1, <2>2, <2>3
<1>9. ASSUME NEW t \in 1 .. n + 1, t \notin rec
      PROVE  \E e \in AllEvents(y) : t \in e.carries
  <2>1. CASE t = n + 1
    BY <1>1, <1>4, <2>1
  <2>2. CASE t \in 1 .. n
    <3>1. PICK e \in AllEvents(x) : t \in e.carries
      BY <1>9, <2>2 DEF Accounts
    <3>2. CASE e \in Absorbed(x, full)
      BY <1>1, <1>4, <3>1, <3>2
    <3>3. CASE e \notin Absorbed(x, full)
      BY <1>1, <3>1, <3>3 DEF AllEvents, kept
    <3> QED BY <3>2, <3>3
  <2> QED BY <2>1, <2>2
<1>10. \A e \in AllEvents(y) :
         /\ e.id < y.next_event_id
         /\ e.carries \subseteq 1 .. n + 1
         /\ e.id <= last => e.carries \subseteq rec
         /\ e.id > last => e.carries \cap rec = {}
  <2>1. 1 .. n \subseteq 1 .. n + 1
    OBVIOUS
  <2>2. \A e \in kept : e.id < y.next_event_id /\ e.carries \subseteq 1 .. n + 1
    BY <1>1, <1>2, <1>5, <1>8, <2>1
  <2>3. p.id < y.next_event_id /\ p.id > last
    BY <1>1, <1>2, <1>4, <1>5
  <2>4. ~(p.id <= last)
    BY <1>2, <1>4, <1>5
  <2>5. \A e \in kept : /\ e.id <= last => e.carries \subseteq rec
                        /\ e.id > last => e.carries \cap rec = {}
    BY <1>5, <1>8
  <2> QED BY <1>1, <1>7, <2>2, <2>3, <2>4, <2>5
<1>11. \A e, f \in AllEvents(y) : e # f => e.id # f.id /\ e.carries \cap f.carries = {}
  BY <1>1, <1>5, <1>8
<1>12. \A e \in y.virtual_events : e.id > last /\ e \notin y.queue
  <2>1. p.id > last /\ p \notin AllEvents(x)
    BY <1>2, <1>4, <1>5
  <2>2. CASE full \in VirtualTypes
    <3>1. y.queue = x.queue
      BY <2>2 DEF y, Push
    <3> QED BY <1>1, <2>1, <3>1 DEF Accounts, AllEvents
  <2>3. CASE full \notin VirtualTypes
    <3>1. y.queue = x.queue \cup {p} /\ y.virtual_events = x.virtual_events
      BY <2>3 DEF y, p, Push
    <3> QED BY <2>1, <3>1 DEF Accounts, AllEvents
  <2> QED BY <2>2, <2>3
<1>13. last < y.next_event_id
  BY <1>1, <1>2, <1>5
<1> QED BY <1>9, <1>10, <1>11, <1>12, <1>13 DEF Accounts, y

\* What an answer brings is new to the client.
LEMMA AnswerNews ==
    ASSUME NEW x \in QueueState, NEW last \in Int, NEW rec, NEW n,
           Accounts(x, last, rec, n), \A e \in AllEvents(x) : e.id > last
    PROVE  /\ News(AllEvents(x), last, rec, n)
           /\ Agrees(AllEvents(x), Contents(x), last)
BY AllEventsContents DEF Accounts, News, Agrees

\* Asking for the contents keeps what the queue says of virtual events.
LEMMA ContentsAgrees ==
    ASSUME NEW x \in QueueState, NEW last \in Int, NEW R, Agrees(R, x, last)
    PROVE  Agrees(R, Contents(x), last)
BY AllEventsContents DEF Agrees

\* So does pruning.
LEMMA PruneAgrees ==
    ASSUME NEW x \in QueueState, NEW last \in Int, NEW k \in Int, NEW R,
           Agrees(R, x, last)
    PROVE  Agrees(R, Prune(x, k), last)
<1>1. AllEvents(Prune(x, k)) \subseteq AllEvents(x)
  BY AllEventsPrune DEF AllEvents
<1> QED BY <1>1, AllEventsPrune DEF Agrees

\* So does pushing.
LEMMA PushAgrees ==
    ASSUME NEW x \in QueueState, NEW last \in Int, NEW rec, NEW n \in Nat,
           NEW full \in EventTypes, NEW R \in SUBSET Event,
           News(R, last, rec, n), Agrees(R, x, last)
    PROVE  Agrees(R, Push(x, full, n + 1), last)
<1> DEFINE y == Push(x, full, n + 1)
           p == PushedEvent(x, full, n + 1)
<1>1. /\ AllEvents(y) \subseteq AllEvents(x) \cup {p}
      /\ y.next_event_id = x.next_event_id + 1
      /\ y.virtual_events \subseteq x.virtual_events \cup {p}
  BY AllEventsPush DEF AllEvents
<1>2. p.id = x.next_event_id /\ p.carries = {n + 1} \cup UNION {e.carries : e \in Absorbed(x, full)}
  BY DEF PushedEvent
<1>3. x.next_event_id \in Nat
  BY DEF QueueState
<1> HIDE DEF y, p
<1>4. ASSUME NEW r \in R
      PROVE  /\ r.id \in Nat /\ r.id < x.next_event_id
             /\ p.carries \cap r.carries = {}
  <2>1. r.id \in Nat /\ r.id < x.next_event_id /\ n + 1 \notin r.carries
    BY DEF News, Agrees, Event
  <2>2. \A f \in Absorbed(x, full) :
          f \in AllEvents(x) /\ f \in x.virtual_events /\ f.id \in Nat
    BY DEF Absorbed, AllEvents, QueueState, VirtualEvent
  <2>3. \A f \in Absorbed(x, full) : f.carries \cap r.carries = {}
    BY <2>1, <2>2 DEF Agrees
  <2> QED BY <1>2, <2>1, <2>3
<1>5. \A r \in R : /\ r.id < y.next_event_id /\ r.id < p.id /\ ~(p.id <= r.id)
                   /\ p.id # r.id
  BY <1>1, <1>2, <1>3, <1>4
<1>6. \A r \in R, e \in y.virtual_events : r.id < e.id
  BY <1>1, <1>5 DEF Agrees
<1> QED BY <1>1, <1>4, <1>5, <1>6 DEF Agrees, y

\* The client applies an answer: its events move from the queue to what it has seen.
LEMMA ApplyAccounts ==
    ASSUME NEW x \in QueueState, NEW last \in Int, NEW rec \in SUBSET Nat,
           NEW n \in Nat, NEW R \in SUBSET Event, NEW m \in Int,
           Accounts(x, last, rec, n), News(R, last, rec, n), Agrees(R, x, last),
           m \in {r.id : r \in R} \cup {last},
           \A i \in {r.id : r \in R} \cup {last} : i <= m
    PROVE  Accounts(x, m, rec \cup UNION {r.carries : r \in R}, n)
<1> DEFINE new == rec \cup UNION {r.carries : r \in R}
<1>1. \A e \in AllEvents(x) : e.id \in Nat
  BY ContentsType DEF Event
<1>2. x.next_event_id \in Nat /\ last <= m /\ \A r \in R : r.id \in Nat /\ r.id <= m
  BY DEF QueueState, Event
<1>3. m < x.next_event_id
  BY DEF Accounts, Agrees
<1>4. ASSUME NEW e \in AllEvents(x), e.id <= m PROVE e.carries \subseteq new
  <2>1. CASE e.id <= last
    BY <2>1 DEF Accounts
  <2>2. CASE ~(e.id <= last)
    <3>1. PICK r \in R : m = r.id
      BY <1>4, <2>2
    <3>2. e \in R
      BY <1>4, <2>2, <3>1 DEF Agrees
    <3> QED BY <3>2
  <2> QED BY <2>1, <2>2
<1>5. ASSUME NEW e \in AllEvents(x), e.id > m PROVE e.carries \cap new = {}
  <2>1. e.carries \cap rec = {}
    BY <1>1, <1>2, <1>5 DEF Accounts
  <2>2. \A r \in R : e # r
    BY <1>1, <1>2, <1>5
  <2>3. \A r \in R : e.carries \cap r.carries = {}
    BY <2>2 DEF Agrees
  <2> QED BY <2>1, <2>3
<1>6. \A e \in x.virtual_events : e.id > m /\ e \notin x.queue
  <2>1. \A e \in x.virtual_events : e.id > last /\ e \notin x.queue
    BY DEF Accounts
  <2>2. \A e \in x.virtual_events, r \in R : r.id < e.id
    BY DEF Agrees
  <2> QED BY <1>1, <2>1, <2>2
<1>7. rec \subseteq new
  OBVIOUS
<1> HIDE DEF new
<1> QED BY <1>3, <1>4, <1>5, <1>6, <1>7 DEF Accounts, new

-----------------------------------------------------------------------------
(* The steps of the process and of the client preserve DeliveryInv.        *)

\* A queue that is there has a descriptor.
LEMMA LiveQueue ==
    ASSUME TypeOK, Live
    PROVE  TheQueue \in Descriptor /\ TheQueue.eq \in QueueState
BY DEF TypeOK, Live, TheQueue, Descriptor, NoQueue, Corrupt

\* The events of an answer on its way.
LEMMA RespEvents ==
    ASSUME TypeOK, resp.type = "events"
    PROVE  resp.events \in SUBSET Event
BY DEF TypeOK, Response, NoResp, BadQueue

\* An event reaches the queue, and the poll that waits.
LEMMA AddEventStep ==
    ASSUME TypeOK, DeliveryInv, NEW full \in EventTypes, AddEvent(full)
    PROVE  DeliveryInv'
<1> DEFINE y == Push(q.eq, full, pushed + 1)
<1>1. /\ up /\ up' /\ q # NoQueue /\ q \in Descriptor /\ q.eq \in QueueState
      /\ q' = [q EXCEPT !.eq = FinishedQueue(y)] /\ resp' = FinishedResp(y)
      /\ pushed' = pushed + 1 /\ handler' = "none" /\ pushed \in Nat
      /\ last_event_id \in Int /\ received \in SUBSET Nat
  BY DEF AddEvent, TypeOK, Descriptor, NoQueue
<1>2. UNCHANGED <<up, disk, req, stale, cstate, cq, last_event_id, received>>
  BY DEF AddEvent
<1>3. y \in QueueState
  BY <1>1, PushType
<1> HIDE DEF y
<1>4. /\ q'.id = q.id /\ q' # NoQueue
      /\ handler = "none" => q'.eq = y
      /\ handler # "none" => q'.eq = Contents(y)
  BY <1>1 DEF FinishedQueue, Descriptor, NoQueue
<1>5. TheQueue = q /\ TheQueue' = q' /\ Live' = Live
  BY <1>1, <1>2, <1>4 DEF TheQueue, Live
<1>6. received' \subseteq 1 .. pushed'
  <2>1. 1 .. pushed \subseteq 1 .. pushed + 1
    BY <1>1
  <2> QED BY <1>1, <1>2, <2>1 DEF DeliveryInv
<1>7. Live => Accounts(y, last_event_id, received, pushed + 1)
  BY <1>1, <1>5, PushAccounts DEF DeliveryInv, y
<1>8. Live' => Accounts(TheQueue.eq, last_event_id, received, pushed)'
  BY <1>1, <1>2, <1>3, <1>4, <1>5, <1>7, ContentsAccounts
<1>9. CASE handler = "current"
  <2>1. cstate = "waiting" /\ Live /\ req = NoReq /\ resp' = EventsResp(AllEvents(y))
    BY <1>1, <1>5, <1>9 DEF DeliveryInv, PollInv, Live, TypeOK, FinishedResp
  <2>2. \A e \in AllEvents(y) : e.id > last_event_id
    <3>1. q.eq.queue = {} /\ q.eq.virtual_events = {}
      BY <1>9 DEF DeliveryInv, ProcessInv, Empty
    <3>2. AllEvents(y) \subseteq {PushedEvent(q.eq, full, pushed + 1)}
      BY <1>1, <3>1, AllEventsPush DEF y
    <3>3. last_event_id < q.eq.next_event_id
      BY <1>5, <2>1 DEF DeliveryInv, Accounts
    <3>4. q.eq.next_event_id \in Nat
      BY <1>1 DEF QueueState
    <3> QED BY <1>1, <3>2, <3>3, <3>4 DEF PushedEvent
  <2>3. /\ News(AllEvents(y), last_event_id, received, pushed + 1)
        /\ Agrees(AllEvents(y), Contents(y), last_event_id)
    BY <1>1, <1>3, <1>7, <2>1, <2>2, AnswerNews
  <2>4. /\ News(resp.events, last_event_id, received, pushed)'
        /\ Agrees(resp.events, TheQueue.eq, last_event_id)'
    BY <1>1, <1>2, <1>4, <1>5, <1>9, <2>1, <2>3 DEF EventsResp
  <2>5. ProcessInv' /\ PollInv'
    BY <1>1, <1>2, <1>4, <1>5, <2>1 DEF DeliveryInv, ProcessInv, PollInv
  <2> QED BY <1>6, <1>8, <2>4, <2>5 DEF DeliveryInv
<1>10. CASE handler # "current"
  <2>1. resp' = resp
    BY <1>1, <1>10 DEF FinishedResp
  <2>2. resp.type = "events" => News(resp.events, last_event_id, received, pushed)'
    <3>1. 1 .. pushed \subseteq 1 .. pushed + 1
      BY <1>1
    <3> QED BY <1>1, <1>2, <2>1, <3>1 DEF DeliveryInv, News
  <2>3. resp.type = "events" /\ Live => Agrees(resp.events, y, last_event_id)
    BY <1>1, <1>5, RespEvents, PushAgrees DEF DeliveryInv, y
  <2>4. resp.type = "events" /\ Live => Agrees(resp.events, TheQueue.eq, last_event_id)'
    BY <1>1, <1>2, <1>3, <1>4, <1>5, <2>1, <2>3, ContentsAgrees
  <2>5. ProcessInv' /\ PollInv'
    BY <1>1, <1>2, <1>4, <1>5, <2>1 DEF DeliveryInv, ProcessInv, PollInv
  <2> QED BY <1>5, <1>6, <1>8, <2>1, <2>2, <2>4, <2>5 DEF DeliveryInv
<1> QED BY <1>9, <1>10

(* fetch_events for the outstanding poll or for a late one.  The caller's  *)
(* own variables (req, stale) are left to the two lemmas that follow.      *)
LEMMA FetchStep ==
    ASSUME TypeOK, DeliveryInv, up, NEW r \in Request, NEW who \in {"current", "stale"},
           q.id = r.qid, FetchEvents(r, who),
           UNCHANGED <<up, disk, cstate, cq, last_event_id, received, pushed>>,
           r.qid = cq => r.last <= last_event_id,
           who = "current" => /\ r.qid = cq /\ r.last = last_event_id
                              /\ cstate = "waiting" /\ handler # "current"
                              /\ resp = NoResp
    PROVE  /\ ProcessInv'
           /\ (Live => Accounts(TheQueue.eq, last_event_id, received, pushed))'
           /\ (resp.type = "events" => News(resp.events, last_event_id, received, pushed))'
           /\ (Live /\ resp.type = "events" =>
                  Agrees(resp.events, TheQueue.eq, last_event_id))'
           /\ resp' # NoResp => cstate = "waiting" /\ handler' # "current"
           /\ resp' # resp => who = "current" \/ handler = "current"
           /\ handler' = "current" => who = "current"
           /\ q'.id = q.id
<1> DEFINE p == Prune(q.eq, r.last)
           x == FinishedQueue(p)
           answered == ~Empty(x) \/ r.dont_block
<1>1. /\ q \in Descriptor /\ q.eq \in QueueState /\ r.last \in Int /\ r.qid # 0
      /\ last_event_id \in Int /\ q # NoQueue
  BY DEF TypeOK, Descriptor, NoQueue, Request
<1>2. p \in QueueState
  BY <1>1, PruneType
<1>3. x \in QueueState /\ Contents(x) \in QueueState /\ AllEvents(x) = AllEvents(p)
  BY <1>2, ContentsType, AllEventsContents DEF FinishedQueue
<1>4. /\ q' = [q EXCEPT !.eq  = IF answered THEN Contents(x) ELSE x,
                        !.age = IF answered THEN q.age ELSE 0]
      /\ handler' = IF answered THEN "none" ELSE who
      /\ resp' = IF answered /\ who = "current" THEN EventsResp(AllEvents(x))
                 ELSE FinishedResp(p)
  BY DEF FetchEvents
<1>5. x = p \/ x = Contents(p)
  BY DEF FinishedQueue
<1>6. ~answered => Empty(x)
  OBVIOUS
<1> HIDE DEF p, x, answered
<1>7. /\ q'.id = q.id /\ q' # NoQueue
      /\ answered => q'.eq = Contents(x)
      /\ ~answered => q'.eq = x
  BY <1>1, <1>4 DEF Descriptor, NoQueue
<1>8. TheQueue = q /\ TheQueue' = q' /\ Live' = Live /\ (Live <=> r.qid = cq)
  BY <1>1, <1>7 DEF TheQueue, Live, Request, TypeOK
<1>9. ProcessInv'
  BY <1>4, <1>6, <1>7, <1>8 DEF DeliveryInv, ProcessInv
<1>10. Live => Accounts(x, last_event_id, received, pushed)
  <2>1. Live => Accounts(p, last_event_id, received, pushed)
    BY <1>1, <1>8, PruneAccounts DEF DeliveryInv, p
  <2> QED BY <1>1, <1>2, <1>5, <2>1, ContentsAccounts
<1>11. (Live => Accounts(TheQueue.eq, last_event_id, received, pushed))'
  BY <1>1, <1>3, <1>7, <1>8, <1>10, ContentsAccounts
<1>12. CASE answered /\ who = "current"
  <2>1. Live /\ r.last = last_event_id /\ resp' = EventsResp(AllEvents(x))
    BY <1>4, <1>8, <1>12
  <2>2. \A e \in AllEvents(x) : e.id > last_event_id
    <3>1. \A e \in q.eq.virtual_events : e.id > last_event_id
      BY <1>8, <2>1 DEF DeliveryInv, Accounts
    <3> QED BY <1>1, <1>3, <2>1, <3>1, AllEventsPrune DEF p
  <2>3. /\ News(AllEvents(x), last_event_id, received, pushed)
        /\ Agrees(AllEvents(x), Contents(x), last_event_id)
    BY <1>1, <1>3, <1>10, <2>1, <2>2, AnswerNews
  <2>4. /\ News(resp.events, last_event_id, received, pushed)'
        /\ Agrees(resp.events, TheQueue.eq, last_event_id)'
    BY <1>7, <1>8, <1>12, <2>1, <2>3 DEF EventsResp
  <2> QED BY <1>4, <1>7, <1>9, <1>11, <1>12, <2>4
<1>13. CASE ~(answered /\ who = "current") /\ handler = "current"
  <2>1. resp' = EventsResp({}) /\ who = "stale" /\ cstate = "waiting"
    <3>1. q.eq.queue = {} /\ q.eq.virtual_events = {}
      BY <1>13 DEF DeliveryInv, ProcessInv, Empty
    <3>2. AllEvents(p) = {}
      BY <1>1, <3>1, AllEventsPrune DEF p, AllEvents
    <3> QED BY <1>4, <1>13, <3>2 DEF FinishedResp, DeliveryInv, PollInv
  <2>2. /\ News({}, last_event_id, received, pushed)
        /\ Agrees({}, q'.eq, last_event_id)
    BY DEF News, Agrees
  <2>3. /\ News(resp.events, last_event_id, received, pushed)'
        /\ Agrees(resp.events, TheQueue.eq, last_event_id)'
    BY <1>8, <2>1, <2>2 DEF EventsResp
  <2> QED BY <1>4, <1>7, <1>9, <1>11, <1>13, <2>1, <2>3
<1>14. CASE ~(answered /\ who = "current") /\ handler # "current"
  <2>1. resp' = resp
    BY <1>4, <1>14 DEF FinishedResp
  <2>2. (resp.type = "events" => News(resp.events, last_event_id, received, pushed))'
    BY <2>1 DEF DeliveryInv
  <2>3. resp.type = "events" /\ Live => Agrees(resp.events, x, last_event_id)
    <3>1. resp.type = "events" /\ Live => Agrees(resp.events, p, last_event_id)
      BY <1>1, <1>8, PruneAgrees DEF DeliveryInv, p
    <3> QED BY <1>1, <1>2, <1>5, <3>1, ContentsAgrees
  <2>4. (Live /\ resp.type = "events" =>
            Agrees(resp.events, TheQueue.eq, last_event_id))'
    BY <1>1, <1>3, <1>7, <1>8, <2>1, <2>3, ContentsAgrees
  <2>5. resp # NoResp => cstate = "waiting" /\ handler' # "current"
    BY <1>4 DEF DeliveryInv, PollInv
  <2> QED BY <1>4, <1>7, <1>9, <1>11, <1>14, <2>1, <2>2, <2>4, <2>5
<1> QED BY <1>12, <1>13, <1>14

\* A client polls.
LEMMA GetEventsStep ==
    ASSUME TypeOK, DeliveryInv, GetEvents
    PROVE  DeliveryInv'
<1>1. /\ up /\ req \in Request /\ req # NoReq /\ req.qid = cq /\ req.last = last_event_id
      /\ last_event_id \in Int
      /\ cstate = "waiting" /\ handler # "current" /\ resp = NoResp
  BY DEF GetEvents, TypeOK, DeliveryInv, PollInv
<1>2. /\ UNCHANGED <<up, disk, cstate, cq, last_event_id, received, pushed, stale>>
      /\ req' = NoReq
  BY DEF GetEvents
<1>3. CASE q.id = req.qid /\ FetchEvents(req, "current")
  <2>1. /\ ProcessInv'
        /\ (Live => Accounts(TheQueue.eq, last_event_id, received, pushed))'
        /\ (resp.type = "events" => News(resp.events, last_event_id, received, pushed))'
        /\ (Live /\ resp.type = "events" =>
               Agrees(resp.events, TheQueue.eq, last_event_id))'
        /\ resp' # NoResp => cstate = "waiting" /\ handler' # "current"
        /\ q'.id = q.id
    BY <1>1, <1>2, <1>3, FetchStep
  <2>2. PollInv'
    BY <1>1, <1>2, <1>3, <2>1 DEF DeliveryInv, PollInv
  <2> QED BY <1>2, <2>1, <2>2 DEF DeliveryInv
<1>4. CASE q.id # req.qid /\ resp' = BadQueue /\ UNCHANGED <<q, handler>>
  <2>1. TheQueue' = TheQueue /\ Live' = Live /\ resp'.type # "events"
    BY <1>2, <1>4 DEF TheQueue, Live, BadQueue
  <2>2. ProcessInv' /\ PollInv'
    BY <1>1, <1>2, <1>4, <2>1 DEF DeliveryInv, ProcessInv, PollInv
  <2> QED BY <1>2, <2>1, <2>2 DEF DeliveryInv
<1> QED BY <1>3, <1>4 DEF GetEvents

\* A poll that was overtaken arrives.
LEMMA GetEventsLateStep ==
    ASSUME TypeOK, DeliveryInv, GetEventsLate
    PROVE  DeliveryInv'
<1>1. PICK r \in stale :
        /\ \/ q.id = r.qid /\ FetchEvents(r, "stale")
           \/ q.id # r.qid /\ UNCHANGED <<q, handler, resp>>
        /\ stale' = stale \ {r}
  BY DEF GetEventsLate
<1>2. /\ up /\ r \in Request /\ (r.qid = cq => r.last <= last_event_id)
      /\ UNCHANGED <<up, disk, cstate, cq, last_event_id, received, pushed, req>>
  BY DEF GetEventsLate, TypeOK, DeliveryInv, PollInv
<1>3. CASE q.id = r.qid /\ FetchEvents(r, "stale")
  <2>1. /\ ProcessInv'
        /\ (Live => Accounts(TheQueue.eq, last_event_id, received, pushed))'
        /\ (resp.type = "events" => News(resp.events, last_event_id, received, pushed))'
        /\ (Live /\ resp.type = "events" =>
               Agrees(resp.events, TheQueue.eq, last_event_id))'
        /\ resp' # NoResp => cstate = "waiting" /\ handler' # "current"
        /\ resp' # resp => handler = "current"
        /\ handler' # "current"
    BY <1>2, <1>3, FetchStep
  <2>2. PollInv'
    BY <1>1, <1>2, <2>1 DEF DeliveryInv, PollInv
  <2> QED BY <1>2, <2>1, <2>2 DEF DeliveryInv
<1>4. CASE q.id # r.qid /\ UNCHANGED <<q, handler, resp>>
  <2>1. TheQueue' = TheQueue /\ Live' = Live
    BY <1>2, <1>4 DEF TheQueue, Live
  <2>2. ProcessInv' /\ PollInv'
    BY <1>1, <1>2, <1>4, <2>1 DEF DeliveryInv, ProcessInv, PollInv
  <2> QED BY <1>2, <1>4, <2>1, <2>2 DEF DeliveryInv
<1> QED BY <1>1, <1>3, <1>4

\* The client receives an answer.
LEMMA ReceiveEventsStep ==
    ASSUME TypeOK, DeliveryInv, ReceiveEvents
    PROVE  DeliveryInv'
<1> DEFINE R   == resp.events
           ids == {e.id : e \in R} \cup {last_event_id}
           new == received \cup UNION {e.carries : e \in R}
<1>1. /\ cstate = "waiting" /\ resp.type = "events" /\ resp # NoResp
      /\ received' = new /\ cstate' = "idle" /\ resp' = NoResp
      /\ UNCHANGED <<up, q, handler, disk, req, stale, cq, pushed>>
  BY DEF ReceiveEvents, NoResp, serverVars
<1>2. PICK m \in ids : (\A i \in ids : i <= m) /\ last_event_id' = m
  BY DEF ReceiveEvents
<1>3. /\ R \in SUBSET Event /\ m \in Int /\ last_event_id \in Int /\ last_event_id <= m
      /\ received \in SUBSET Nat /\ pushed \in Nat
  BY <1>1, <1>2, RespEvents DEF TypeOK, Event
<1>4. TheQueue' = TheQueue /\ Live' = Live /\ resp'.type # "events"
  BY <1>1 DEF TheQueue, Live, NoResp
<1>5. Live => Accounts(TheQueue.eq, m, new, pushed)
  BY <1>1, <1>2, <1>3, LiveQueue, ApplyAccounts DEF DeliveryInv
<1>6. new \subseteq 1 .. pushed
  <2>1. \A e \in R : e.carries \subseteq 1 .. pushed
    BY <1>1 DEF DeliveryInv, News
  <2> QED BY <2>1 DEF DeliveryInv
<1>7. req = NoReq /\ handler # "current"
  BY <1>1 DEF DeliveryInv, PollInv
<1>8. PollInv'
  <2>1. \A r \in stale : r.last \in Int
    BY DEF TypeOK, Request
  <2> QED BY <1>1, <1>2, <1>3, <1>7, <2>1 DEF DeliveryInv, PollInv
<1>9. ProcessInv'
  BY <1>1, <1>4 DEF DeliveryInv, ProcessInv
<1> HIDE DEF new
<1> QED BY <1>1, <1>2, <1>4, <1>5, <1>6, <1>8, <1>9 DEF DeliveryInv

\* The server starts with what it dumped.
LEMMA StartStep ==
    ASSUME RenameWorks, TypeOK, DeliveryInv, Start
    PROVE  DeliveryInv'
<1>1. /\ ~up /\ up' /\ disk' = NoQueue /\ handler = "none" /\ q = NoQueue
      /\ UNCHANGED <<handler, req, stale, resp, cstate, cq, last_event_id, received>>
  BY DEF Start, netVars, DeliveryInv, ProcessInv
<1>2. TheQueue = disk /\ TheQueue' = q'
  BY <1>1 DEF TheQueue
<1>3. CASE disk \in {NoQueue, Corrupt}
  <2>1. q' = NoQueue /\ pushed' = pushed
    BY <1>3 DEF Start
  <2>2. ~Live'
    BY <1>2, <2>1 DEF Live, NoQueue
  <2>3. ProcessInv' /\ PollInv'
    BY <1>1, <1>2, <2>1 DEF DeliveryInv, ProcessInv, PollInv, NoQueue, TypeOK
  <2> QED BY <1>1, <2>1, <2>2, <2>3 DEF DeliveryInv
<1>4. CASE disk \notin {NoQueue, Corrupt}
  <2> DEFINE y == Push(disk.eq, "restart", pushed + 1)
  <2>1. /\ disk \in Descriptor /\ disk.eq \in QueueState /\ "restart" \in EventTypes
        /\ pushed \in Nat /\ last_event_id \in Int /\ received \in SUBSET Nat
        /\ q' = [disk EXCEPT !.eq = y] /\ pushed' = pushed + 1
    BY <1>4, TypesAssumption DEF Start, TypeOK, Descriptor, EventTypes
  <2>2. y \in QueueState
    BY <2>1, PushType
  <2> HIDE DEF y
  <2>3. q'.id = disk.id /\ q'.eq = y /\ Live' = Live
    BY <1>1, <1>2, <2>1 DEF Descriptor, Live
  <2>4. 1 .. pushed \subseteq 1 .. pushed + 1
    BY <2>1
  <2>5. received' \subseteq 1 .. pushed'
    BY <1>1, <2>1, <2>4 DEF DeliveryInv
  <2>6. (Live => Accounts(TheQueue.eq, last_event_id, received, pushed))'
    BY <1>1, <1>2, <2>1, <2>3, PushAccounts DEF DeliveryInv, y
  <2>7. (resp.type = "events" => News(resp.events, last_event_id, received, pushed))'
    BY <1>1, <2>1, <2>4 DEF DeliveryInv, News
  <2>8. (Live /\ resp.type = "events" =>
            Agrees(resp.events, TheQueue.eq, last_event_id))'
    BY <1>1, <1>2, <2>1, <2>3, RespEvents, PushAgrees DEF DeliveryInv, y
  <2>9. ProcessInv' /\ PollInv'
    BY <1>1, <1>2, <2>1, <2>3 DEF DeliveryInv, ProcessInv, PollInv, NoQueue
  <2> QED BY <2>5, <2>6, <2>7, <2>8, <2>9 DEF DeliveryInv
<1> QED BY <1>3, <1>4

\* The server goes down, with or without dumping.
LEMMA DownStep ==
    ASSUME TypeOK, DeliveryInv, NEW file, Down(file), file \in {q, disk, Corrupt}
    PROVE  DeliveryInv'
<1>1. /\ up /\ ~up' /\ q' = NoQueue /\ handler' = "none" /\ disk' = file
      /\ UNCHANGED <<req, stale, resp, cstate, cq, last_event_id, received, pushed>>
  BY DEF Down, netVars, clientVars
<1>2. TheQueue = q /\ TheQueue' = file
  BY <1>1 DEF TheQueue
<1>3. file = q \/ file \in {NoQueue, Corrupt}
  BY <1>1 DEF DeliveryInv, ProcessInv
<1>4. ProcessInv'
  BY <1>1, <1>2, <1>3 DEF DeliveryInv, ProcessInv, NoQueue, Corrupt, TypeOK
<1>5. PollInv'
  BY <1>1 DEF DeliveryInv, PollInv
<1>6. CASE file = q
  <2>1. Live' = Live /\ TheQueue' = TheQueue
    BY <1>1, <1>2, <1>6 DEF Live
  <2> QED BY <1>1, <1>4, <1>5, <2>1 DEF DeliveryInv
<1>7. CASE file \in {NoQueue, Corrupt}
  <2>1. ~Live'
    BY <1>2, <1>7 DEF Live, NoQueue, Corrupt
  <2> QED BY <1>1, <1>4, <1>5, <2>1 DEF DeliveryInv
<1> QED BY <1>3, <1>6, <1>7

\* The client registers anew.
LEMMA RegisterStep ==
    ASSUME TypeOK, DeliveryInv, Register
    PROVE  DeliveryInv'
<1>1. /\ up /\ up' /\ cstate = "none" /\ cstate' = "idle" /\ cq' = cq + 1 /\ cq \in Nat
      /\ q' = [id |-> cq + 1, eq |-> NewQueue, age |-> 0] /\ handler' = "none"
      /\ last_event_id' = -1 /\ received' = {} /\ pushed' = 0
      /\ UNCHANGED <<disk, req, stale, resp>>
  BY DEF Register, netVars, TypeOK
<1>2. req = NoReq /\ resp = NoResp
  BY <1>1 DEF DeliveryInv, PollInv
<1>3. TheQueue' = q' /\ q'.id = cq' /\ q'.eq = NewQueue /\ q' # NoQueue
  BY <1>1 DEF TheQueue, NoQueue
<1>4. Accounts(NewQueue, -1, {}, 0)
  BY DEF Accounts, NewQueue, AllEvents
<1>5. ProcessInv'
  BY <1>1, <1>3 DEF DeliveryInv, ProcessInv
<1>6. PollInv'
  <2>1. \A r \in stale : r.qid \in Nat /\ r.qid # cq + 1 /\ r.qid <= cq + 1
    BY <1>1 DEF DeliveryInv, PollInv, TypeOK, Request
  <2> QED BY <1>1, <1>2, <2>1 DEF PollInv
<1> QED BY <1>1, <1>2, <1>3, <1>4, <1>5, <1>6 DEF DeliveryInv, NoResp

\* The client learns that its queue is gone.
LEMMA QueueGoneStep ==
    ASSUME TypeOK, DeliveryInv, GcEventQueues \/ CleanupEventQueue
    PROVE  DeliveryInv'
<1>1. /\ up /\ up' /\ q # NoQueue /\ q' = NoQueue /\ handler' = "none"
      /\ UNCHANGED <<disk, req, stale, cstate, cq, last_event_id, received, pushed>>
  BY DEF GcEventQueues, CleanupEventQueue, Idle, netVars, clientVars
<1>2. ~Live' /\ TheQueue' = NoQueue
  BY <1>1 DEF Live, TheQueue, NoQueue
<1>3. ProcessInv'
  BY <1>1, <1>2 DEF DeliveryInv, ProcessInv, NoQueue, TypeOK
<1>4. CASE resp' = resp
  BY <1>1, <1>2, <1>3, <1>4 DEF DeliveryInv, PollInv
<1>5. CASE handler = "current" /\ resp' = EventsResp({})
  <2>1. PollInv'
    BY <1>1, <1>5 DEF DeliveryInv, PollInv
  <2>2. News({}, last_event_id, received, pushed) /\ resp'.events = {}
    BY <1>5 DEF News, EventsResp
  <2> QED BY <1>1, <1>2, <1>3, <2>1, <2>2 DEF DeliveryInv
<1>6. resp' = resp \/ (handler = "current" /\ resp' = EventsResp({}))
  <2>1. handler = "current" => AllEvents(q.eq) = {}
    BY DEF DeliveryInv, ProcessInv, Empty, AllEvents
  <2> QED BY <2>1 DEF GcEventQueues, CleanupEventQueue, FinishedResp, netVars
<1> QED BY <1>4, <1>5, <1>6

\* Time passes and queues expire.
LEMMA TickStep ==
    ASSUME TypeOK, DeliveryInv, Tick
    PROVE  DeliveryInv'
<1>1. /\ handler = "none" /\ q' = Aged(q) /\ disk' = Aged(disk)
      /\ UNCHANGED <<up, handler, req, stale, resp, cstate, cq, last_event_id,
                     received, pushed>>
  BY DEF Tick, netVars, clientVars
<1>2. TheQueue' = Aged(TheQueue) /\ TheQueue \in Descriptor \cup {NoQueue, Corrupt}
  BY <1>1 DEF TheQueue, TypeOK
<1>3. Aged(TheQueue).id = TheQueue.id /\ (Live => Aged(TheQueue).eq = TheQueue.eq)
  BY <1>2, AgedType, LiveQueue
<1>4. Live' = Live
  BY <1>1, <1>2, <1>3 DEF Live
<1>5. /\ disk \in {NoQueue, Corrupt} => disk' \in {NoQueue, Corrupt}
      /\ q = NoQueue => q' = NoQueue
  BY <1>1 DEF Aged
<1>6. ProcessInv'
  BY <1>1, <1>2, <1>3, <1>5 DEF DeliveryInv, ProcessInv
<1>7. PollInv'
  BY <1>1 DEF DeliveryInv, PollInv
<1> QED BY <1>1, <1>2, <1>3, <1>4, <1>6, <1>7 DEF DeliveryInv

(* Steps that leave the queue, its history and the handler's queue alone.  *)
LEMMA OtherStep ==
    ASSUME TypeOK, DeliveryInv,
           \/ ConnectionClose \/ Poll \/ ReceiveBadQueue \/ Abandon \/ DropLate
           \/ UNCHANGED vars
    PROVE  DeliveryInv'
<1>1. /\ UNCHANGED <<up, q, disk, cq, last_event_id, received, pushed>>
      /\ resp' \in {resp, NoResp} /\ handler' \in {handler, "none", "stale"}
      /\ handler' # "none" => handler # "none"
  BY DEF ConnectionClose, Poll, ReceiveBadQueue, Abandon, DropLate, vars,
         netVars, clientVars, serverVars
<1>2. TheQueue' = TheQueue /\ Live' = Live
  BY <1>1 DEF TheQueue, Live
<1>3. ProcessInv'
  BY <1>1, <1>2 DEF DeliveryInv, ProcessInv
<1>4. PollInv'
  <2>1. CASE ConnectionClose
    BY <2>1 DEF ConnectionClose, DeliveryInv, PollInv, netVars, clientVars
  <2>2. CASE Poll
    BY <2>2 DEF Poll, DeliveryInv, PollInv, serverVars
  <2>3. CASE ReceiveBadQueue
    <3>1. req = NoReq /\ handler # "current"
      BY <2>3 DEF ReceiveBadQueue, DeliveryInv, PollInv, BadQueue, NoResp
    <3> QED BY <2>3, <3>1 DEF ReceiveBadQueue, DeliveryInv, PollInv, serverVars
  <2>4. CASE Abandon
    <3>1. last_event_id \in Int /\ cq \in Nat
      BY DEF TypeOK
    <3> QED BY <2>4, <3>1 DEF Abandon, DeliveryInv, PollInv
  <2>5. CASE DropLate \/ UNCHANGED vars
    BY <2>5 DEF DropLate, DeliveryInv, PollInv, serverVars, clientVars, vars
  <2> QED BY <2>1, <2>2, <2>3, <2>4, <2>5
<1> QED BY <1>1, <1>2, <1>3, <1>4 DEF DeliveryInv, NoResp

\* Every step accounts for every event.
LEMMA DeliveryStep ==
    ASSUME RenameWorks, TypeOK, DeliveryInv, [Next]_vars
    PROVE  DeliveryInv'
<1>1. CASE Notify \/ Heartbeat
  BY <1>1, AddEventStep, TypesAssumption DEF Notify, Heartbeat, EventTypes
<1>2. CASE Shutdown \/ Crash
  BY <1>2, DownStep DEF Shutdown, Crash
<1> QED
  BY <1>1, <1>2, GetEventsStep, GetEventsLateStep, ReceiveEventsStep, StartStep,
     RegisterStep, QueueGoneStep, TickStep, OtherStep DEF Next

(* The inductive invariant holds for any number of events, registrations,  *)
(* restarts and late polls, provided that setup_event_queue manages to     *)
(* move the dump it has loaded out of the way.                             *)
THEOREM DeliveryInvariant ==
    ASSUME RenameWorks
    PROVE  Spec => []DeliveryInv
<1>1. Init => DeliveryInv
  BY DEF Init, DeliveryInv, ProcessInv, PollInv, Live, TheQueue, NoResp, NoQueue
<1>2. TypeOK /\ DeliveryInv /\ [Next]_vars => DeliveryInv'
  BY DeliveryStep
<1> QED BY <1>1, <1>2, TypeCorrect, PTL DEF Spec

(* No event is lost while its queue lives: every push of add_event is      *)
(* applied by the client or still accounted for in the queue.              *)
THEOREM NoEventLost ==
    ASSUME RenameWorks
    PROVE  Spec => []NothingLost
<1>1. TypeOK /\ DeliveryInv => NothingLost
  BY DEF Live, TypeOK, DeliveryInv, Accounts, NothingLost
<1> QED BY <1>1, TypeCorrect, DeliveryInvariant, PTL

(* No answer of fetch_events or finish_current_handler that the client     *)
(* will apply repeats an event it has applied.                             *)
THEOREM AppliedAtMostOnce ==
    ASSUME RenameWorks
    PROVE  Spec => []AtMostOnce
<1>1. DeliveryInv => AtMostOnce
  BY DEF DeliveryInv, News, AtMostOnce
<1> QED BY <1>1, DeliveryInvariant, PTL

(* No answer skips an event that the acknowledgement of the answer would   *)
(* prune.                                                                  *)
THEOREM AnswersLeaveNoGap ==
    ASSUME RenameWorks
    PROVE  Spec => []NoGap
<1>1. TypeOK /\ DeliveryInv => NoGap
  <2> SUFFICES ASSUME TypeOK, DeliveryInv PROVE NoGap
    OBVIOUS
  <2>1. resp.type = "events" => cq > 0
    BY DEF DeliveryInv, PollInv, NoResp, TypeOK
  <2> QED BY <2>1 DEF DeliveryInv, Agrees, NoGap, Live
<1> QED BY <1>1, TypeCorrect, DeliveryInvariant, PTL

(* Ids given out after a dump and a reload stay above every id the client  *)
(* has acknowledged.                                                       *)
THEOREM IdsStayAhead ==
    ASSUME RenameWorks
    PROVE  Spec => []AckBelowNextId
<1>1. TypeOK /\ DeliveryInv => AckBelowNextId
  BY DEF Live, TypeOK, DeliveryInv, Accounts, AckBelowNextId
<1> QED BY <1>1, TypeCorrect, DeliveryInvariant, PTL

(* Neither the answers nor a dump and reload let an acknowledgement cover  *)
(* an event that the client has not seen.                                  *)
THEOREM AcknowledgedIsSeen ==
    ASSUME RenameWorks
    PROVE  Spec => []NothingSkipped
<1>1. NoGap /\ AckBelowNextId => NothingSkipped
  BY DEF NothingSkipped
<1> QED BY <1>1, AnswersLeaveNoGap, IdsStayAhead, PTL

(* A poll is parked only on an empty queue, so no client waits beside an   *)
(* event that is there.                                                    *)
THEOREM PollsNeverStuck ==
    ASSUME RenameWorks
    PROVE  Spec => []NoStuckPoll
<1>1. DeliveryInv => NoStuckPoll
  BY DEF DeliveryInv, ProcessInv, NoStuckPoll
<1> QED BY <1>1, DeliveryInvariant, PTL
=============================================================================
