---------------------------- MODULE WorkersProofs ----------------------------
(***************************************************************************)
(* Proofs about what runs behind the requests: sending over sockets, the   *)
(* workers after it, mail about missed messages with its replies, exports  *)
(* of a realm, and the job that counts for analytics, for any sockets,     *)
(* queues, users, workers, realms and lengths of a day and any number of   *)
(* faults.                                                                 *)
(***************************************************************************)
EXTENDS SocketSend, MessageWorkers, MissedMail, RealmExport, Analytics,
        FiniteSetTheorems, WellFoundedInduction, TLAPS

-----------------------------------------------------------------------------
(* What a sequence holds, and whether once, as calls come to it and leave.   *)

\* An element is in a sequence at one place at most.
Once(s, x) == \A i, j \in 1..Len(s) : s[i] = x /\ s[j] = x => i = j

\* The places of a sequence and its range.
LEMMA InRange ==
  ASSUME NEW T, NEW s \in Seq(T)
  PROVE  /\ \A i \in 1..Len(s) : s[i] \in Range(s)
         /\ \A x \in Range(s) : \E i \in 1..Len(s) : s[i] = x
BY DEF Range

\* Nothing is in the empty sequence.
LEMMA EmptyHolds ==
  ASSUME NEW T PROVE <<>> \in Seq(T) /\ Range(<<>>) = {} /\ \A x : Once(<<>>, x)
BY DEF Range, Once

\* A sequence of one element.
LEMMA SingleHolds ==
  ASSUME NEW T, NEW r \in T
  PROVE  <<r>> \in Seq(T) /\ Range(<<r>>) = {r} /\ \A x : Once(<<r>>, x)
BY DEF Range, Once

\* An answer published twice.
LEMMA DoubleHolds ==
  ASSUME NEW T, NEW r \in T PROVE <<r, r>> \in Seq(T) /\ Range(<<r, r>>) = {r}
BY DEF Range

\* What Append adds to the range, and when an element is there once after it.
LEMMA AppendHolds ==
  ASSUME NEW T, NEW s \in Seq(T), NEW r \in T
  PROVE  /\ Append(s, r) \in Seq(T)
         /\ Range(Append(s, r)) = Range(s) \cup {r}
         /\ \A x : Once(s, x) /\ (x = r => x \notin Range(s)) => Once(Append(s, r), x)
<1>1. Append(s, r) \in Seq(T) /\ Len(Append(s, r)) = Len(s) + 1 /\ Append(s, r)[Len(s) + 1] = r
      /\ \A i \in 1..Len(s) : Append(s, r)[i] = s[i]
  OBVIOUS
<1>2. Range(Append(s, r)) = Range(s) \cup {r}
  BY <1>1 DEF Range
<1>3. ASSUME NEW x, Once(s, x), x = r => x \notin Range(s) PROVE Once(Append(s, r), x)
  BY <1>1, <1>3 DEF Range, Once
<1> QED BY <1>1, <1>2, <1>3

\* What Head and Tail take from the range; an element that was there once is gone with the head.
LEMMA TailHolds ==
  ASSUME NEW T, NEW s \in Seq(T), s # <<>>
  PROVE  /\ Head(s) \in T /\ Tail(s) \in Seq(T)
         /\ Range(s) = {Head(s)} \cup Range(Tail(s))
         /\ \A x : Once(s, x) => Once(Tail(s), x) /\ (x = Head(s) => x \notin Range(Tail(s)))
<1>1. /\ Tail(s) \in Seq(T) /\ Len(Tail(s)) = Len(s) - 1 /\ Len(s) > 0 /\ Head(s) = s[1] /\ Head(s) \in T
      /\ \A i \in 1..(Len(s) - 1) : Tail(s)[i] = s[i + 1]
  OBVIOUS
<1>2. Range(s) = {Head(s)} \cup Range(Tail(s))
  <2>1. ASSUME NEW i \in 1..Len(s) PROVE s[i] \in {Head(s)} \cup Range(Tail(s))
    <3>1. CASE i = 1
      BY <1>1, <3>1
    <3>2. CASE i # 1
      <4>1. i - 1 \in 1..Len(Tail(s)) /\ Tail(s)[i - 1] = s[i]
        BY <1>1, <3>2
      <4>2. Tail(s)[i - 1] \in Range(Tail(s))
        BY <1>1, <4>1, InRange
      <4> QED BY <4>1, <4>2
    <3> QED BY <3>1, <3>2
  <2> QED BY <1>1, <2>1 DEF Range
<1>3. ASSUME NEW x, Once(s, x) PROVE Once(Tail(s), x) /\ (x = Head(s) => x \notin Range(Tail(s)))
  BY <1>1, <1>3 DEF Range, Once
<1> QED BY <1>1, <1>2, <1>3

\* The range of a concatenation, and when an element is there once in it.
LEMMA ConcatHolds ==
  ASSUME NEW T, NEW s \in Seq(T), NEW t \in Seq(T)
  PROVE  /\ s \o t \in Seq(T)
         /\ Range(s \o t) = Range(s) \cup Range(t)
         /\ \A x : Once(s, x) /\ Once(t, x) /\ (x \in Range(s) => x \notin Range(t)) => Once(s \o t, x)
<1>1. /\ s \o t \in Seq(T) /\ Len(s \o t) = Len(s) + Len(t)
      /\ \A i \in 1..Len(s) : (s \o t)[i] = s[i]
  OBVIOUS
<1>2. \A i \in 1..Len(t) : (s \o t)[i + Len(s)] = t[i]
  OBVIOUS
<1>3. ASSUME NEW i \in 1..Len(s \o t)
      PROVE  \/ i \in 1..Len(s) /\ (s \o t)[i] = s[i]
             \/ i - Len(s) \in 1..Len(t) /\ (s \o t)[i] = t[i - Len(s)]
  BY <1>1
<1> HIDE DEF Range
<1>4. Range(s \o t) = Range(s) \cup Range(t)
  <2>1. \A i \in 1..Len(t) : i + Len(s) \in 1..Len(s \o t)
    BY <1>1
  <2>2. \A i \in 1..Len(s) : i \in 1..Len(s \o t)
    BY <1>1
  <2>3. ASSUME NEW x \in Range(s) \cup Range(t) PROVE x \in Range(s \o t)
    <3>1. CASE x \in Range(s)
      <4>1. PICK i \in 1..Len(s) : s[i] = x
        BY <3>1, InRange
      <4>2. (s \o t)[i] \in Range(s \o t)
        BY <1>1, <2>2, InRange
      <4> QED BY <1>1, <4>1, <4>2
    <3>2. CASE x \in Range(t)
      <4>1. PICK i \in 1..Len(t) : t[i] = x
        BY <3>2, InRange
      <4>2. (s \o t)[i + Len(s)] \in Range(s \o t)
        BY <1>1, <2>1, InRange
      <4> QED BY <1>2, <4>1, <4>2
    <3> QED BY <3>1, <3>2
  <2>4. ASSUME NEW x \in Range(s \o t) PROVE x \in Range(s) \cup Range(t)
    BY <1>1, <1>3 DEF Range
  <2> QED BY <2>3, <2>4
<1>5. ASSUME NEW x, Once(s, x), Once(t, x), x \in Range(s) => x \notin Range(t) PROVE Once(s \o t, x)
  <2> SUFFICES ASSUME NEW i \in 1..Len(s \o t), NEW j \in 1..Len(s \o t), (s \o t)[i] = x, (s \o t)[j] = x
               PROVE  i = j
    BY DEF Once
  <2>1. i \in 1..Len(s) => x \in Range(s) /\ s[i] = x
    BY <1>1 DEF Range
  <2>2. j \in 1..Len(s) => x \in Range(s) /\ s[j] = x
    BY <1>1 DEF Range
  <2>3. i \notin 1..Len(s) => i - Len(s) \in 1..Len(t) /\ t[i - Len(s)] = x /\ x \in Range(t)
    BY <1>3 DEF Range
  <2>4. j \notin 1..Len(s) => j - Len(s) \in 1..Len(t) /\ t[j - Len(s)] = x /\ x \in Range(t)
    BY <1>3 DEF Range
  <2> QED BY <1>5, <2>1, <2>2, <2>3, <2>4 DEF Once
<1> QED BY <1>1, <1>4, <1>5

-----------------------------------------------------------------------------
(* The registry of sockets.                                                  *)

ConnRows == [state : ConnStates, client_id : Queues \cup {None}]

RegistryInv ==
  /\ conn \in [Conns -> ConnRows] /\ connections \in [Queues -> Conns \cup {None}]
  /\ \A c \in Conns : (conn[c].state = "auth" => conn[c].client_id \in Queues) /\ (conn[c].state = "open" => conn[c].client_id = None)
  /\ \A c \in Conns : conn[c].state = "none" => conn[c].client_id = None
  /\ RegistryIsLive

\* A registered socket is authenticated, with the id of its queue.
LEMMA RegisteredIsAuth ==
  ASSUME RegistryInv, NEW p \in Queues, connections[p] # None
  PROVE  /\ connections[p] \in Conns
         /\ conn[connections[p]].state = "auth"
         /\ conn[connections[p]].client_id = p
<1>1. connections[p] \in Conns
  BY DEF RegistryInv
<1>2. PICK e : e = conn[connections[p]]
  OBVIOUS
<1>3. e = [state |-> "auth", client_id |-> p]
  BY <1>2 DEF RegistryInv, RegistryIsLive
<1>4. e.state = "auth" /\ e.client_id = p
  BY <1>3
<1> QED BY <1>1, <1>2, <1>4

\* A socket that is not authenticated is registered for no queue.
LEMMA OthersUnregistered ==
  ASSUME RegistryInv, NEW c \in Conns, conn[c].state # "auth"
  PROVE  \A p \in Queues : connections[p] # c
<1>1. c # None
  BY NoneIsNobody DEF None
<1>2. ASSUME NEW p \in Queues, connections[p] = c PROVE FALSE
  BY <1>1, <1>2, RegisteredIsAuth
<1> QED BY <1>2

\* A socket goes, and its registration with it.
LEMMA SocketGoes ==
  ASSUME RegistryInv, NEW c \in Conns, conn[c].state \in {"open", "auth"},
         connections' = deregister_connection(connections, c), conn' = [conn EXCEPT ![c].state = "closed"]
  PROVE  RegistryInv'
<1> DEFINE row0 == [conn[c] EXCEPT !.state = "closed"]
           q == conn[c].client_id
<1>1. row0 \in ConnRows /\ row0.state = "closed" /\ conn' = [conn EXCEPT ![c] = row0]
  BY DEF RegistryInv, ConnRows, ConnStates
<1> HIDE DEF row0
<1>2. conn'[c] = row0 /\ \A d \in Conns : d # c => conn'[d] = conn[d]
  BY <1>1 DEF RegistryInv
<1>3. CASE conn[c].state = "open"
  <2>1. q = None /\ connections' = connections
    BY <1>3 DEF RegistryInv, deregister_connection
  <2>2. \A p \in Queues : connections[p] # c
    BY <1>3, OthersUnregistered
  <2> QED BY <1>1, <1>2, <2>1, <2>2 DEF RegistryInv, RegistryIsLive
<1>4. CASE conn[c].state = "auth"
  <2>1. q \in Queues /\ connections[q] = c
    BY <1>4 DEF RegistryInv, RegistryIsLive
  <2>2. connections' = [connections EXCEPT ![q] = None]
    BY <2>1, NoneIsNobody DEF deregister_connection, None
  <2>3. \A p \in Queues : p # q => connections[p] # c
    <3>1. c # None
      BY NoneIsNobody DEF None
    <3>2. ASSUME NEW p \in Queues, p # q, connections[p] = c PROVE FALSE
      BY <3>1, <3>2, RegisteredIsAuth
    <3> QED BY <3>2
  <2>4. \A d \in Conns : d # c /\ conn[d].state = "auth" => conn[d].client_id # q
    BY <2>1 DEF RegistryInv, RegistryIsLive
  <2> HIDE DEF q
  <2> QED BY <1>1, <1>2, <2>1, <2>2, <2>3, <2>4 DEF RegistryInv, RegistryIsLive
<1> QED BY <1>3, <1>4

\* register_connection replaces the socket of the queue, closes it and leaves the others.
LEMMA RegisterStep ==
  ASSUME RegistryInv, NEW c \in Conns, NEW q \in Queues, conn[c].state = "open", UserOfConn[c] = OwnerOf[q],
         register_connection(q, c)
  PROVE  RegistryInv'
<1> DEFINE old == connections[q]
           new == [state |-> "auth", client_id |-> q]
<1>0. new \in ConnRows /\ new.state = "auth" /\ new.client_id = q /\ c # None /\ q # None
  BY NoneIsNobody DEF ConnRows, ConnStates, None
<1>1. connections' = [connections EXCEPT ![q] = c]
  <2>1. CASE old = None
    BY <2>1 DEF register_connection
  <2>2. CASE old # None
    <3>1. conn[old].client_id = q
      BY <2>2, RegisteredIsAuth
    <3>2. deregister_connection(connections, old) = [connections EXCEPT ![q] = None]
      BY <1>0, <3>1 DEF deregister_connection
    <3> QED BY <2>2, <3>2 DEF register_connection, RegistryInv
  <2> QED BY <2>1, <2>2
<1>2. \A p \in Queues : connections[p] # c
  BY OthersUnregistered
<1>3. /\ conn'[c] = new
      /\ \A d \in Conns : d # c /\ d # old => conn'[d] = conn[d]
      /\ old \in Conns => conn'[old] = [conn[old] EXCEPT !.state = "closed"]
  BY <1>2 DEF register_connection, RegistryInv
<1>4. old \in Conns => conn'[old] \in ConnRows /\ conn'[old].state = "closed"
  BY <1>3 DEF RegistryInv, ConnRows, ConnStates
<1>5. conn' \in [Conns -> ConnRows]
  <2>1. \A d \in Conns : conn'[d] \in ConnRows
    BY <1>0, <1>3, <1>4 DEF RegistryInv
  <2>2. \E f : conn' = [d \in Conns |-> f[d]]
    <3>1. conn' = [d \in Conns |-> conn'[d]]
      BY DEF register_connection
    <3> QED BY <3>1
  <2> QED BY <2>1, <2>2
<1> HIDE DEF new
<1>6. ASSUME NEW d \in Conns
      PROVE  /\ conn'[d].state = "auth" => conn'[d].client_id \in Queues
             /\ conn'[d].state \in {"open", "none"} => conn'[d].client_id = None
             /\ conn'[d].state = "auth" => connections'[conn'[d].client_id] = d
  <2>1. CASE d = c
    BY <1>0, <1>1, <1>3, <2>1 DEF RegistryInv
  <2>2. CASE d # c /\ d = old
    BY <1>4, <2>2
  <2>3. CASE d # c /\ d # old
    <3>1. conn'[d] = conn[d] /\ (conn[d].state = "auth" => conn[d].client_id \in Queues /\ connections[conn[d].client_id] = d)
      BY <1>3, <2>3 DEF RegistryInv, RegistryIsLive
    <3>2. conn[d].state = "auth" => conn[d].client_id # q
      BY <2>3, <3>1
    <3> QED BY <1>1, <3>1, <3>2 DEF RegistryInv
  <2> QED BY <2>1, <2>2, <2>3
<1>7. ASSUME NEW p \in Queues, connections'[p] # None
      PROVE  conn'[connections'[p]] = [state |-> "auth", client_id |-> p] /\ UserOfConn[connections'[p]] = OwnerOf[p]
  <2>1. CASE p = q
    BY <1>1, <1>3, <2>1 DEF RegistryInv, new
  <2>2. CASE p # q
    <3>1. connections'[p] = connections[p] /\ conn[connections[p]] = [state |-> "auth", client_id |-> p] /\ connections[p] \in Conns
      BY <1>1, <1>7, <2>2 DEF RegistryInv, RegistryIsLive
    <3>2. UserOfConn[connections[p]] = OwnerOf[p]
      BY <1>7, <3>1 DEF RegistryInv, RegistryIsLive
    <3>3. connections[p] # c
      BY <1>2
    <3>4. connections[p] # old
      <4>1. old # None => conn[old].client_id = q
        BY RegisteredIsAuth
      <4>2. conn[connections[p]].client_id = p
        BY <1>7, <3>1, RegisteredIsAuth
      <4> QED BY <1>7, <2>2, <3>1, <4>1, <4>2
    <3> QED BY <1>3, <3>1, <3>2, <3>3, <3>4
  <2> QED BY <2>1, <2>2
<1>8. connections' \in [Queues -> Conns \cup {None}]
  BY <1>1 DEF RegistryInv
<1> QED BY <1>5, <1>6, <1>7, <1>8 DEF RegistryInv, RegistryIsLive

\* Every step keeps the registry.
LEMMA RegistryNext == RegistryInv /\ [SendNext]_sendVars => RegistryInv'
<1> SUFFICES ASSUME RegistryInv, [SendNext]_sendVars PROVE RegistryInv'
  OBVIOUS
<1>1. CASE UNCHANGED <<conn, connections>>
  BY <1>1 DEF RegistryInv, RegistryIsLive
<1>2. ASSUME NEW c \in Conns, on_open(c) \/ auth_timeout(c) \/ on_close(c) \/ \E r \in Requests : LostOnWire(c, r)
      PROVE  RegistryInv'
  <2>1. CASE on_open(c)
    <3>1. PICK state \in {"open", "closed"} : conn' = [conn EXCEPT ![c].state = state]
      BY <2>1 DEF on_open
    <3> DEFINE new == [conn[c] EXCEPT !.state = state]
    <3>2. new \in ConnRows /\ new.state = state /\ new.client_id = conn[c].client_id /\ conn' = [conn EXCEPT ![c] = new]
      BY <3>1 DEF RegistryInv, ConnRows, ConnStates
    <3> HIDE DEF new
    <3>3. conn[c].state = "none" /\ conn[c].client_id = None /\ UNCHANGED connections
      BY <2>1 DEF on_open, RegistryInv
    <3>4. \A q \in Queues : connections[q] # c
      BY <3>3, OthersUnregistered
    <3> QED BY <3>2, <3>3, <3>4 DEF RegistryInv, RegistryIsLive
  <2>2. CASE auth_timeout(c)
    <3>1. connections' = deregister_connection(connections, c)
      BY <2>2 DEF auth_timeout, deregister_connection, RegistryInv
    <3> QED BY <2>2, <3>1, SocketGoes DEF auth_timeout
  <2>3. CASE on_close(c) \/ \E r \in Requests : LostOnWire(c, r)
    BY <2>3, SocketGoes DEF on_close, LostOnWire
  <2> QED BY <1>2, <2>1, <2>2, <2>3
<1>3. ASSUME NEW c \in Conns, NEW q \in Queues, authenticate_client(c, q) PROVE RegistryInv'
  BY <1>3, RegisterStep DEF authenticate_client
<1>4. CASE TornadoStops
  <2>1. \A q \in Queues : connections'[q] = None
    BY <1>4 DEF TornadoStops
  <2>2. ASSUME NEW c \in Conns PROVE conn'[c] \in ConnRows /\ conn'[c].state \in {"none", "closed"} /\ (conn'[c].state = "none" => conn'[c].client_id = None)
    BY <1>4 DEF TornadoStops, RegistryInv, ConnRows, ConnStates
  <2>3. conn' \in [Conns -> ConnRows]
    <3>1. conn' = [c \in Conns |-> conn'[c]]
      BY <1>4 DEF TornadoStops
    <3> QED BY <2>2, <3>1
  <2>4. connections' \in [Queues -> Conns \cup {None}]
    BY <1>4 DEF TornadoStops
  <2> QED BY <2>1, <2>2, <2>3, <2>4 DEF RegistryInv, RegistryIsLive
<1>5. CASE UNCHANGED sendVars
  BY <1>1, <1>5 DEF sendVars
<1>6. ASSUME NEW c \in Conns, NEW r \in Requests, on_message(c, r) PROVE RegistryInv'
  BY <1>1, <1>6 DEF on_message, sockets
<1>7. CASE RabbitNext
  BY <1>1, <1>7 DEF RabbitNext, on_channel_open, DeclareOk, on_connection_closed, on_timeout, sockets
<1>8. CASE WorkerNext
  BY <1>1, <1>8 DEF WorkerNext, Deliver, get_response, MarkComplete, PublishResult, basic_ack, ConsumeFails, WorkerStops, sockets
<1>9. CASE respond_send_message \/ RespondRaises
  BY <1>1, <1>9 DEF respond_send_message, RespondRaises, sockets
<1> QED BY <1>2, <1>3, <1>4, <1>5, <1>6, <1>7, <1>8, <1>9 DEF SendNext, SocketNext

\* Answers go to the right browser, for any sockets and queues, through replacement, closing and
\* restarts of Tornado.
THEOREM RegistryStaysLive == SendSpec => []RegistryIsLive
<1>1. SendInit => RegistryInv
  BY NoneIsNobody DEF SendInit, RegistryInv, RegistryIsLive, ConnRows, ConnStates
<1>2. RegistryInv => RegistryIsLive
  BY DEF RegistryInv
<1> QED BY <1>1, <1>2, RegistryNext, PTL DEF SendSpec

-----------------------------------------------------------------------------
(* The way of a request.                                                     *)

ReqSeqs == Seq(Requests)
QueueClients == [link : {"connecting", "up", "down"}, channel : BOOLEAN, declared : BOOLEAN,
                 cbs : ReqSeqs, declaring : ReqSeqs, timer : BOOLEAN]
ReadyQueues == [message_sender : ReqSeqs, tornado_return : ReqSeqs]
WorkerRows == [req : Requests \cup {None}, step : WorkerSteps]

PipeTypeOK ==
  /\ redis \in [Requests -> {"absent", "received", "complete"}] /\ client \in [Requests -> {"new", "sent", "answered"}]
  /\ tq \in QueueClients /\ ready \in ReadyQueues /\ unacked \in ReqSeqs
  /\ worker \in [Workers -> WorkerRows] /\ stored \in [Requests -> Nat]
  /\ \A w \in Workers : worker[w].step # "idle" <=> worker[w].req \in Requests

Holding(w, r, steps) == worker[w].req = r /\ worker[w].step \in steps
Answering(r) == r \in Range(ready.tornado_return) \/ r \in Range(unacked)

\* What redis does not know is nowhere.
Unsent(r) ==
  /\ client[r] = "new" => redis[r] = "absent"
  /\ redis[r] = "absent" => ~InFlight(r) /\ ~Answering(r) /\ stored[r] = 0

\* What redis calls received is somewhere, and what a worker has marked is complete.
Kept(r) ==
  /\ redis[r] = "received" => InFlight(r) \/ r \in dropped
  /\ \A w \in Workers : Holding(w, r, {"return", "ack"}) => redis[r] = "complete"

\* An answer comes after the message.
Settled(r) ==
  IF r \in Refused THEN stored[r] = 0
  ELSE (\E w \in Workers : Holding(w, r, {"respond", "return", "ack"})) \/ redis[r] = "complete" \/ Answering(r) \/ client[r] = "answered"
       => stored[r] > 0

\* A request that was never handled again is at one place of the way, and stored at its end.
Single(r) ==
  /\ Once(tq.cbs, r)
  /\ r \notin exposed =>
       /\ Once(tq.declaring, r) /\ Once(ready.message_sender, r)
       /\ r \in Range(tq.declaring) => r \notin Range(ready.message_sender)
       /\ r \in Range(tq.declaring) \cup Range(ready.message_sender) => stored[r] = 0 /\ \A w \in Workers : worker[w].req # r
       /\ \A v, w \in Workers : worker[v].req = r /\ worker[w].req = r => v = w
       /\ stored[r] <= 1
       /\ stored[r] = 1 => \A w \in Workers : ~Holding(w, r, {"consume"})

OnItsWay(r) == Unsent(r) /\ Kept(r) /\ Settled(r) /\ Single(r)
PipeInv == PipeTypeOK /\ \A r \in Requests : OnItsWay(r)

\* A worker without a request holds none.
LEMMA NoneHeld == None \notin Requests
BY NoneIsNobody DEF None

\* The empty pipeline.
LEMMA PipeInvInit == SendInit => PipeInv
<1> SUFFICES ASSUME SendInit PROVE PipeInv
  OBVIOUS
<1>1. <<>> \in ReqSeqs /\ Range(<<>>) = {} /\ \A x : Once(<<>>, x)
  BY EmptyHolds DEF ReqSeqs
<1>2. PipeTypeOK
  BY <1>1, NoneHeld DEF SendInit, PipeTypeOK, QueueClients, ReadyQueues, WorkerRows, WorkerSteps, NewClient
<1>3. tq.cbs = <<>> /\ tq.declaring = <<>> /\ ready.message_sender = <<>> /\ ready.tornado_return = <<>>
  BY DEF SendInit, NewClient
<1>4. ASSUME NEW r \in Requests PROVE OnItsWay(r)
  <2>1. ~InFlight(r) /\ ~Answering(r)
    BY <1>1, <1>3, NoneHeld DEF SendInit, InFlight, Parked, Answering
  <2>2. stored[r] = 0 /\ redis[r] = "absent" /\ client[r] = "new" /\ \A w \in Workers : worker[w].req # r
    BY NoneHeld DEF SendInit
  <2>3. Single(r)
    BY <1>1, <1>3, <2>1, <2>2 DEF Single, Holding
  <2> QED BY <2>1, <2>2, <2>3 DEF OnItsWay, Unsent, Kept, Settled, Holding
<1> QED BY <1>2, <1>4 DEF PipeInv

\* What a step leaves of the sockets says nothing of a request.
LEMMA PipeKept ==
  ASSUME PipeInv, UNCHANGED <<redis, tq, ready, unacked, worker, stored, client, exposed, dropped>>
  PROVE  PipeInv'
BY DEF PipeInv, PipeTypeOK, OnItsWay, Unsent, Kept, Settled, Single, InFlight, Parked, Answering, Holding

\* The parts a step moves, for one request.
LEMMA QueuesTyped ==
  ASSUME PipeTypeOK
  PROVE  tq.cbs \in Seq(Requests) /\ tq.declaring \in Seq(Requests)
         /\ ready.message_sender \in Seq(Requests) /\ ready.tornado_return \in Seq(Requests) /\ unacked \in Seq(Requests)
BY DEF PipeTypeOK, QueueClients, ReadyQueues, ReqSeqs

\* json_publish puts the request at one place: the queue, the declarations or the parked calls.
LEMMA JsonPublish ==
  ASSUME PipeTypeOK, NEW r \in Requests, NEW p, p = json_publish(tq, r), tq' = p.client,
         ready' = [ready EXCEPT !.message_sender = @ \o p.out]
  PROVE  /\ tq' \in QueueClients /\ ready' \in ReadyQueues /\ ready'.tornado_return = ready.tornado_return
         /\ \A x \in Requests : x # r =>
              /\ (x \in Range(tq'.cbs) <=> x \in Range(tq.cbs)) /\ (x \in Range(tq'.declaring) <=> x \in Range(tq.declaring))
              /\ (x \in Range(ready'.message_sender) <=> x \in Range(ready.message_sender))
              /\ Once(tq.cbs, x) => Once(tq'.cbs, x)
              /\ Once(tq.declaring, x) => Once(tq'.declaring, x)
              /\ Once(ready.message_sender, x) => Once(ready'.message_sender, x)
         /\ r \notin Range(tq.cbs) \cup Range(tq.declaring) \cup Range(ready.message_sender) /\ Once(tq.cbs, r) /\ Once(tq.declaring, r) /\ Once(ready.message_sender, r) =>
              /\ Once(tq'.cbs, r) /\ Once(tq'.declaring, r) /\ Once(ready'.message_sender, r)
              /\ r \in Range(tq'.cbs) \cup Range(tq'.declaring) \cup Range(ready'.message_sender)
              /\ ~(r \in Range(tq'.declaring) /\ r \in Range(ready'.message_sender))
<1>0. /\ tq.cbs \in Seq(Requests) /\ tq.declaring \in Seq(Requests) /\ ready.message_sender \in Seq(Requests)
  BY QueuesTyped
<1>1. CASE tq.channel /\ tq.link = "up" /\ tq.declared
  <2>1. tq' = tq /\ p.out = <<r>>
    BY <1>1 DEF json_publish
  <2> DEFINE ms == ready.message_sender \o <<r>>
  <2>2. /\ ms \in Seq(Requests) /\ Range(ms) = Range(ready.message_sender) \cup {r}
        /\ \A x : Once(ready.message_sender, x) /\ (x \in Range(ready.message_sender) => x # r) => Once(ms, x)
    <3>1. <<r>> \in Seq(Requests) /\ Range(<<r>>) = {r} /\ \A x : Once(<<r>>, x)
      BY SingleHolds
    <3>2. ms \in Seq(Requests) /\ Range(ms) = Range(ready.message_sender) \cup Range(<<r>>)
      BY <1>0, <3>1, ConcatHolds
    <3>3. \A x : Once(ready.message_sender, x) /\ Once(<<r>>, x) /\ (x \in Range(ready.message_sender) => x \notin Range(<<r>>)) => Once(ms, x)
      BY <1>0, <3>1, ConcatHolds
    <3> HIDE DEF ms
    <3> QED BY <3>1, <3>2, <3>3
  <2>3. ready' = [ready EXCEPT !.message_sender = ms]
    BY <2>1
  <2> HIDE DEF ms
  <2>4. ready'.message_sender = ms /\ ready'.tornado_return = ready.tornado_return /\ ready' \in ReadyQueues
    BY <2>2, <2>3 DEF PipeTypeOK, ReadyQueues, ReqSeqs
  <2> QED BY <2>1, <2>2, <2>4 DEF PipeTypeOK
<1>2. CASE ~(tq.channel /\ tq.link = "up" /\ tq.declared)
  <2>1. p.out = <<>>
    BY <1>2 DEF json_publish
  <2>2. ready.message_sender \o <<>> = ready.message_sender
    BY <1>0
  <2>3. ready' = ready
    BY <2>1, <2>2 DEF PipeTypeOK, ReadyQueues
  <2>4. CASE tq.channel /\ tq.link = "up"
    <3> DEFINE dec == Append(tq.declaring, r)
    <3>1. tq' = [tq EXCEPT !.declaring = dec]
      BY <1>2, <2>4 DEF json_publish
    <3>2. /\ dec \in Seq(Requests) /\ Range(dec) = Range(tq.declaring) \cup {r}
          /\ \A x : Once(tq.declaring, x) /\ (x = r => x \notin Range(tq.declaring)) => Once(dec, x)
      BY <1>0, AppendHolds
    <3> HIDE DEF dec
    <3>3. tq'.declaring = dec /\ tq'.cbs = tq.cbs /\ tq' \in QueueClients
      BY <3>1, <3>2 DEF PipeTypeOK, QueueClients, ReqSeqs
    <3> QED BY <2>3, <3>2, <3>3 DEF PipeTypeOK
  <2>5. CASE ~(tq.channel /\ tq.link = "up")
    <3> DEFINE cbs == Append(tq.cbs, r)
               u == IF tq.channel \/ tq.declared THEN reconnect(tq) ELSE tq
    <3>1. u \in QueueClients /\ u.cbs = tq.cbs /\ u.declaring = tq.declaring
      BY DEF reconnect, PipeTypeOK, QueueClients
    <3>2. tq' = [u EXCEPT !.cbs = cbs]
      BY <2>5, <3>1 DEF json_publish
    <3>3. /\ cbs \in Seq(Requests) /\ Range(cbs) = Range(tq.cbs) \cup {r}
          /\ \A x : Once(tq.cbs, x) /\ (x = r => x \notin Range(tq.cbs)) => Once(cbs, x)
      BY <1>0, AppendHolds
    <3> HIDE DEF cbs, u
    <3>4. tq'.cbs = cbs /\ tq'.declaring = tq.declaring /\ tq' \in QueueClients
      BY <3>1, <3>2, <3>3 DEF QueueClients, ReqSeqs
    <3> QED BY <2>3, <3>3, <3>4 DEF PipeTypeOK
  <2> QED BY <2>4, <2>5
<1> QED BY <1>1, <1>2

\* on_message: a request that redis did not know starts on its way.
LEMMA MessageStep ==
  ASSUME PipeInv, NEW c \in Conns, NEW r \in Requests, on_message(c, r)
  PROVE  PipeInv'
<1>1. redis[r] = "absent" /\ ~InFlight(r) /\ ~Answering(r) /\ stored[r] = 0
  BY DEF on_message, PipeInv, OnItsWay, Unsent
<1>2. PICK p : p = json_publish(tq, r) /\ tq' = p.client /\ ready' = [ready EXCEPT !.message_sender = @ \o p.out]
  BY DEF on_message
<1> DEFINE
  New == /\ tq' \in QueueClients /\ ready' \in ReadyQueues /\ ready'.tornado_return = ready.tornado_return
  Other == \A x \in Requests : x # r =>
             /\ (x \in Range(tq'.cbs) <=> x \in Range(tq.cbs)) /\ (x \in Range(tq'.declaring) <=> x \in Range(tq.declaring))
             /\ (x \in Range(ready'.message_sender) <=> x \in Range(ready.message_sender))
             /\ Once(tq.cbs, x) => Once(tq'.cbs, x)
             /\ Once(tq.declaring, x) => Once(tq'.declaring, x)
             /\ Once(ready.message_sender, x) => Once(ready'.message_sender, x)
<1>3. New /\ Other
  BY <1>2, JsonPublish DEF PipeInv
<1>4. UNCHANGED <<unacked, worker, stored, dropped, exposed>> /\ redis' = [redis EXCEPT ![r] = "received"]
      /\ client' = [client EXCEPT ![r] = "sent"]
  BY DEF on_message, history
<1>5. PipeTypeOK'
  BY <1>3, <1>4 DEF PipeInv, PipeTypeOK
<1>6. ASSUME NEW x \in Requests, x # r PROVE OnItsWay(x)'
  <2>1. OnItsWay(x) /\ redis'[x] = redis[x] /\ client'[x] = client[x]
    BY <1>4, <1>6 DEF PipeInv, PipeTypeOK
  <2>2. InFlight(x)' = InFlight(x) /\ Answering(x)' = Answering(x)
    BY <1>3, <1>4, <1>6 DEF InFlight, Parked, Answering
  <2> QED BY <1>3, <1>4, <1>6, <2>1, <2>2 DEF OnItsWay, Unsent, Kept, Settled, Single, Holding
<1>7. OnItsWay(r)'
  <2>1. redis'[r] = "received" /\ client'[r] = "sent" /\ \A w \in Workers : worker[w].req # r
    BY <1>1, <1>4 DEF PipeInv, PipeTypeOK, InFlight
  <2>2. r \notin Range(tq.cbs) \cup Range(tq.declaring) \cup Range(ready.message_sender)
    BY <1>1 DEF InFlight, Parked
  <2>3. Once(tq.cbs, r) /\ Once(tq.declaring, r) /\ Once(ready.message_sender, r)
    BY <2>2, QueuesTyped, InRange DEF PipeInv, Once
  <2>4. /\ Once(tq'.cbs, r) /\ Once(tq'.declaring, r) /\ Once(ready'.message_sender, r)
        /\ r \in Range(tq'.cbs) \cup Range(tq'.declaring) \cup Range(ready'.message_sender)
        /\ ~(r \in Range(tq'.declaring) /\ r \in Range(ready'.message_sender))
    BY <1>2, <2>2, <2>3, JsonPublish DEF PipeInv
  <2>5. ~Answering(r)' /\ InFlight(r)'
    BY <1>1, <1>3, <1>4, <2>4 DEF Answering, InFlight, Parked
  <2>6. Single(r)'
    BY <1>1, <1>4, <2>1, <2>4 DEF Single, Holding
  <2> QED BY <1>1, <1>4, <2>1, <2>5, <2>6 DEF OnItsWay, Unsent, Kept, Settled, Holding, PipeInv
<1> QED BY <1>5, <1>6, <1>7 DEF PipeInv

\* What a socket tells its client: a request may be sent again only if redis does not know it, and
\* is answered only after it was stored.
LEMMA SocketStep ==
  ASSUME PipeInv, UNCHANGED <<redis, tq, ready, unacked, worker, stored, exposed, dropped>>,
         client' \in [Requests -> {"new", "sent", "answered"}],
         \A r \in Requests : \/ client'[r] = client[r] \/ client'[r] = "sent"
                             \/ client'[r] = "new" /\ redis[r] = "absent"
                             \/ client'[r] = "answered" /\ (redis[r] = "complete" \/ Answering(r))
  PROVE  PipeInv'
<1>1. PipeTypeOK'
  BY DEF PipeInv, PipeTypeOK
<1>2. ASSUME NEW r \in Requests PROVE OnItsWay(r)'
  <2>1. InFlight(r)' = InFlight(r) /\ Answering(r)' = Answering(r) /\ OnItsWay(r)
    BY DEF InFlight, Parked, Answering, PipeInv
  <2>2. Single(r)'
    BY <2>1 DEF Single, OnItsWay, Holding
  <2> QED BY <2>1, <2>2 DEF OnItsWay, Unsent, Kept, Settled, Holding
<1> QED BY <1>1, <1>2 DEF PipeInv

\* Sockets open, authenticate, close and lose what was on the wire.
LEMMA ConnStep ==
  ASSUME PipeInv, NEW c \in Conns,
         \/ on_open(c) \/ auth_timeout(c) \/ on_close(c) \/ \E q \in Queues : authenticate_client(c, q)
         \/ \E r \in Requests : LostOnWire(c, r)
  PROVE  PipeInv'
<1>1. CASE on_open(c) \/ auth_timeout(c) \/ on_close(c)
  BY <1>1, PipeKept DEF on_open, auth_timeout, on_close, rabbit, history
<1>2. ASSUME NEW q \in Queues, authenticate_client(c, q) PROVE PipeInv'
  <2>1. ASSUME NEW r \in Requests
        PROVE /\ client'[r] \in {"new", "sent", "answered"}
              /\ \/ client'[r] = client[r] \/ client'[r] = "sent"
                 \/ client'[r] = "new" /\ redis[r] = "absent"
                 \/ client'[r] = "answered" /\ redis[r] = "complete"
    BY <1>2 DEF authenticate_client, PipeInv, PipeTypeOK
  <2>2. client' \in [Requests -> {"new", "sent", "answered"}]
    <3>1. client' = [r \in Requests |-> client'[r]]
      BY <1>2 DEF authenticate_client
    <3> QED BY <2>1, <3>1
  <2>3. UNCHANGED <<redis, tq, ready, unacked, worker, stored, exposed, dropped>>
    BY <1>2 DEF authenticate_client, rabbit, history
  <2> QED BY <2>1, <2>2, <2>3, SocketStep
<1>3. ASSUME NEW r \in Requests, LostOnWire(c, r) PROVE PipeInv'
  <2>1. UNCHANGED <<redis, tq, ready, unacked, worker, stored, exposed, dropped>> /\ client' = [client EXCEPT ![r] = "sent"]
    BY <1>3 DEF LostOnWire, rabbit, history
  <2>2. client' \in [Requests -> {"new", "sent", "answered"}]
    BY <2>1 DEF PipeInv, PipeTypeOK
  <2>3. \A x \in Requests : client'[x] = client[x] \/ client'[x] = "sent"
    BY <2>1 DEF PipeInv, PipeTypeOK
  <2> QED BY <2>1, <2>2, <2>3, SocketStep
<1> QED BY <1>1, <1>2, <1>3

\* Declaring calls move on: the rest of the way is as before.
LEMMA ChannelStep ==
  ASSUME PipeInv, on_channel_open
  PROVE  PipeInv'
<1> DEFINE dec == tq.declaring \o tq.cbs
<1>0. tq.cbs \in Seq(Requests) /\ tq.declaring \in Seq(Requests)
  BY QueuesTyped DEF PipeInv
<1>1. dec \in Seq(Requests) /\ Range(dec) = Range(tq.declaring) \cup Range(tq.cbs)
  BY <1>0, ConcatHolds
<1>2. \A x : Once(tq.declaring, x) /\ Once(tq.cbs, x) /\ (x \in Range(tq.declaring) => x \notin Range(tq.cbs)) => Once(dec, x)
  BY <1>0, ConcatHolds
<1>3. tq' = [tq EXCEPT !.link = "up", !.channel = TRUE, !.declaring = dec]
  BY DEF on_channel_open
<1> HIDE DEF dec
<1>4. tq' \in QueueClients /\ tq'.cbs = tq.cbs /\ tq'.declaring = dec
  BY <1>1, <1>3 DEF PipeInv, PipeTypeOK, QueueClients, ReqSeqs
<1>5. UNCHANGED <<redis, ready, unacked, worker, stored, client, dropped>>
  BY DEF on_channel_open
<1>5a. exposed' = exposed \cup {r \in Range(tq.cbs) : stored[r] > 0 \/ r \in Range(ready.message_sender)
                                                   \/ (\E w \in Workers : worker[w].req = r) \/ r \in Range(tq.declaring)}
  BY DEF on_channel_open
<1>6. ASSUME NEW r \in Requests PROVE OnItsWay(r)'
  <2>1. OnItsWay(r) /\ InFlight(r)' = InFlight(r) /\ Answering(r)' = Answering(r)
    BY <1>1, <1>4, <1>5 DEF InFlight, Parked, Answering, PipeInv
  <2>2. Single(r)'
    <3>1. r \notin exposed' => r \notin exposed /\ (r \in Range(tq.cbs) => /\ ~(stored[r] > 0) /\ r \notin Range(ready.message_sender)
                                                     /\ r \notin Range(tq.declaring) /\ \A w \in Workers : worker[w].req # r)
      BY <1>5a
    <3>2. stored[r] \in Nat
      BY DEF PipeInv, PipeTypeOK
    <3> QED BY <1>1, <1>2, <1>4, <1>5, <2>1, <3>1, <3>2 DEF OnItsWay, Single, Holding
  <2> QED BY <1>5, <2>1, <2>2 DEF OnItsWay, Unsent, Kept, Settled, Holding
<1> QED BY <1>4, <1>5, <1>6 DEF PipeInv, PipeTypeOK

\* DeclareOk: the first declaration is published or given up.
LEMMA DeclareStep ==
  ASSUME PipeInv, DeclareOk
  PROVE  PipeInv'
<1>1. PICK h : h = Head(tq.declaring)
  OBVIOUS
<1> DEFINE rest == Tail(tq.declaring)
<1>2. tq.declaring \in Seq(Requests) /\ tq.declaring # <<>> /\ ready.message_sender \in Seq(Requests)
  BY QueuesTyped DEF PipeInv, DeclareOk
<1>3. h \in Requests /\ rest \in Seq(Requests) /\ Range(tq.declaring) = {h} \cup Range(rest)
  BY <1>1, <1>2, TailHolds
<1>4. \A x : Once(tq.declaring, x) => Once(rest, x) /\ (x = h => x \notin Range(rest))
  BY <1>1, <1>2, TailHolds
<1>5. tq' = [tq EXCEPT !.declaring = rest, !.declared = TRUE]
  BY DEF DeclareOk
<1> HIDE DEF rest
<1>6. tq' \in QueueClients /\ tq'.cbs = tq.cbs /\ tq'.declaring = rest
  BY <1>3, <1>5 DEF PipeInv, PipeTypeOK, QueueClients, ReqSeqs
<1>7. UNCHANGED <<redis, unacked, worker, stored, client, exposed>>
  BY DEF DeclareOk
<1>8. CASE tq.channel /\ tq.link = "up"
  <2> DEFINE ms == Append(ready.message_sender, h)
  <2>1. ready' = [ready EXCEPT !.message_sender = ms] /\ UNCHANGED dropped
    BY <1>1, <1>8 DEF DeclareOk
  <2>2. ms \in Seq(Requests) /\ Range(ms) = Range(ready.message_sender) \cup {h}
    BY <1>2, <1>3, AppendHolds
  <2>3. \A x : Once(ready.message_sender, x) /\ (x = h => x \notin Range(ready.message_sender)) => Once(ms, x)
    BY <1>2, <1>3, AppendHolds
  <2> HIDE DEF ms
  <2>4. ready' \in ReadyQueues /\ ready'.message_sender = ms /\ ready'.tornado_return = ready.tornado_return
    BY <2>1, <2>2 DEF PipeInv, PipeTypeOK, ReadyQueues, ReqSeqs
  <2>5. ASSUME NEW r \in Requests PROVE OnItsWay(r)'
    <3>1. OnItsWay(r) /\ InFlight(r)' = InFlight(r) /\ Answering(r)' = Answering(r)
      BY <1>3, <1>6, <1>7, <2>2, <2>4 DEF InFlight, Parked, Answering, PipeInv
    <3>2. Single(r)'
      BY <1>3, <1>4, <1>6, <1>7, <2>2, <2>3, <2>4, <3>1 DEF OnItsWay, Single, Holding
    <3> QED BY <1>7, <2>1, <3>1, <3>2 DEF OnItsWay, Unsent, Kept, Settled, Holding
  <2> QED BY <1>6, <1>7, <2>4, <2>5 DEF PipeInv, PipeTypeOK
<1>9. CASE ~(tq.channel /\ tq.link = "up")
  <2>1. dropped' = dropped \cup ({h} \ Range(tq.cbs)) /\ UNCHANGED ready
    BY <1>1, <1>9 DEF DeclareOk
  <2>2. ASSUME NEW r \in Requests PROVE OnItsWay(r)'
    <3>1. OnItsWay(r) /\ (InFlight(r)' => InFlight(r)) /\ (InFlight(r) => InFlight(r)' \/ r \in dropped') /\ Answering(r)' = Answering(r)
      BY <1>3, <1>6, <1>7, <2>1 DEF InFlight, Parked, Answering, PipeInv
    <3>2. Single(r)'
      BY <1>3, <1>4, <1>6, <1>7, <2>1, <3>1 DEF OnItsWay, Single, Holding
    <3> QED BY <1>7, <2>1, <3>1, <3>2 DEF OnItsWay, Unsent, Kept, Settled, Holding
  <2> QED BY <1>6, <1>7, <2>1, <2>2 DEF PipeInv, PipeTypeOK
<1> QED BY <1>8, <1>9

\* Answers that were not acknowledged come again.
LEMMA AnswersAgain ==
  ASSUME PipeTypeOK, ready' = [ready EXCEPT !.tornado_return = unacked \o @], unacked' = <<>>
  PROVE  /\ ready' \in ReadyQueues /\ unacked' \in ReqSeqs /\ ready'.message_sender = ready.message_sender
         /\ \A r \in Requests : Answering(r)' <=> Answering(r)
<1> DEFINE tr == unacked \o ready.tornado_return
<1>1. unacked \in Seq(Requests) /\ ready.tornado_return \in Seq(Requests)
  BY QueuesTyped
<1>2. tr \in Seq(Requests) /\ Range(tr) = Range(unacked) \cup Range(ready.tornado_return)
  BY <1>1, ConcatHolds
<1>3. ready' = [ready EXCEPT !.tornado_return = tr] /\ <<>> \in Seq(Requests) /\ Range(<<>>) = {}
  BY EmptyHolds
<1> HIDE DEF tr
<1>4. ready' \in ReadyQueues /\ ready'.tornado_return = tr /\ ready'.message_sender = ready.message_sender
  BY <1>2, <1>3 DEF PipeTypeOK, ReadyQueues, ReqSeqs
<1> QED BY <1>2, <1>3, <1>4 DEF Answering, ReqSeqs

\* The link to RabbitMQ closes and comes back.
LEMMA ClosedStep ==
  ASSUME PipeInv, on_connection_closed \/ on_timeout
  PROVE  PipeInv'
<1>1. CASE on_connection_closed
  <2>1. tq' \in QueueClients /\ tq'.cbs = tq.cbs /\ tq'.declaring = <<>>
    BY <1>1, EmptyHolds DEF on_connection_closed, PipeInv, PipeTypeOK, QueueClients, ReqSeqs
  <2>2. /\ ready' \in ReadyQueues /\ unacked' \in ReqSeqs /\ ready'.message_sender = ready.message_sender
        /\ \A r \in Requests : Answering(r)' <=> Answering(r)
    BY <1>1, AnswersAgain DEF on_connection_closed, PipeInv
  <2>3. UNCHANGED <<redis, worker, stored, client, exposed>> /\ dropped' = dropped \cup (Range(tq.declaring) \ Range(tq.cbs))
    BY <1>1 DEF on_connection_closed
  <2>4. Range(<<>>) = {} /\ \A x : Once(<<>>, x)
    BY EmptyHolds
  <2>5. ASSUME NEW r \in Requests PROVE OnItsWay(r)'
    <3>1. OnItsWay(r) /\ (InFlight(r)' => InFlight(r)) /\ (InFlight(r) => InFlight(r)' \/ r \in dropped')
      BY <2>1, <2>2, <2>3, <2>4 DEF InFlight, Parked, PipeInv
    <3>2. Single(r)'
      BY <2>1, <2>2, <2>3, <2>4, <3>1 DEF OnItsWay, Single, Holding
    <3> QED BY <2>2, <2>3, <3>1, <3>2 DEF OnItsWay, Unsent, Kept, Settled, Holding
  <2> QED BY <2>1, <2>2, <2>3, <2>5 DEF PipeInv, PipeTypeOK
<1>2. CASE on_timeout
  <2>1. tq' \in QueueClients /\ tq'.cbs = tq.cbs /\ tq'.declaring = tq.declaring
    BY <1>2 DEF on_timeout, reconnect, PipeInv, PipeTypeOK, QueueClients
  <2>2. UNCHANGED <<redis, ready, unacked, worker, stored, client, exposed, dropped>>
    BY <1>2 DEF on_timeout, history
  <2> QED BY <2>1, <2>2 DEF PipeInv, PipeTypeOK, OnItsWay, Unsent, Kept, Settled, Single, InFlight, Parked, Answering, Holding
<1> QED BY <1>1, <1>2

\* Tornado stops: what it held is dropped.
LEMMA StopStep ==
  ASSUME PipeInv, TornadoStops
  PROVE  PipeInv'
<1>1. PICK cut \in {{}} \cup {{r} : r \in {x \in Requests : client[x] = "new" /\ connections[QueueOf[x]] # None}} :
        /\ redis' = [r \in Requests |-> IF r \in cut THEN "received" ELSE redis[r]]
        /\ client' = [r \in Requests |-> IF r \in cut THEN "sent" ELSE client[r]]
        /\ dropped' = dropped \cup cut \cup Range(tq.cbs) \cup Range(tq.declaring)
  BY DEF TornadoStops
<1>2. \A r \in cut : r \in Requests /\ client[r] = "new"
  OBVIOUS
<1>3. tq' \in QueueClients /\ tq'.cbs = <<>> /\ tq'.declaring = <<>>
  BY EmptyHolds DEF TornadoStops, NewClient, QueueClients, ReqSeqs
<1>4. /\ ready' \in ReadyQueues /\ unacked' \in ReqSeqs /\ ready'.message_sender = ready.message_sender
      /\ \A r \in Requests : Answering(r)' <=> Answering(r)
  BY AnswersAgain DEF TornadoStops, PipeInv
<1>5. UNCHANGED <<worker, stored, exposed>>
  BY DEF TornadoStops
<1>6. Range(<<>>) = {} /\ \A x : Once(<<>>, x)
  BY EmptyHolds
<1>7. ASSUME NEW r \in Requests PROVE OnItsWay(r)'
  <2>1. OnItsWay(r) /\ (InFlight(r)' => InFlight(r)) /\ (InFlight(r) => InFlight(r)' \/ r \in dropped')
    BY <1>1, <1>3, <1>4, <1>5, <1>6 DEF InFlight, Parked, PipeInv
  <2>2. Single(r)'
    BY <1>3, <1>4, <1>5, <1>6, <2>1 DEF OnItsWay, Single, Holding
  <2>3. CASE r \in cut
    <3>1. redis[r] = "absent" /\ redis'[r] = "received" /\ client'[r] = "sent" /\ r \in dropped'
      BY <1>1, <1>2, <2>1, <2>3 DEF OnItsWay, Unsent
    <3> QED BY <1>4, <1>5, <2>1, <2>2, <3>1 DEF OnItsWay, Unsent, Kept, Settled, Holding, InFlight
  <2>4. CASE r \notin cut
    <3>1. redis'[r] = redis[r] /\ client'[r] = client[r] /\ (r \in dropped => r \in dropped')
      BY <1>1, <2>4
    <3> QED BY <1>4, <1>5, <2>1, <2>2, <3>1 DEF OnItsWay, Unsent, Kept, Settled, Holding
  <2> QED BY <2>3, <2>4
<1>8. redis' \in [Requests -> {"absent", "received", "complete"}] /\ client' \in [Requests -> {"new", "sent", "answered"}]
  BY <1>1 DEF PipeInv, PipeTypeOK
<1> QED BY <1>3, <1>4, <1>5, <1>7, <1>8 DEF PipeInv, PipeTypeOK

-----------------------------------------------------------------------------

\* One worker changes its row.
LEMMA WorkerMoves ==
  ASSUME PipeTypeOK, NEW w \in Workers, NEW new \in WorkerRows, worker' = [worker EXCEPT ![w] = new],
         new.step # "idle" <=> new.req \in Requests
  PROVE  /\ worker' \in [Workers -> WorkerRows]
         /\ worker'[w] = new /\ \A v \in Workers : v # w => worker'[v] = worker[v]
         /\ \A v \in Workers : worker'[v].step # "idle" <=> worker'[v].req \in Requests
BY DEF PipeTypeOK

\* A worker goes on with the request it holds.
LEMMA WorkerGoes ==
  ASSUME PipeTypeOK, NEW w \in Workers, worker[w].step # "idle", NEW step \in {"respond", "return", "ack"}, GoTo(w, step)
  PROVE  /\ worker' \in [Workers -> WorkerRows]
         /\ \A v \in Workers : worker'[v].step # "idle" <=> worker'[v].req \in Requests
         /\ worker[w].req \in Requests /\ worker'[w].step = step
         /\ \A v \in Workers : worker'[v].req = worker[v].req /\ (v # w => worker'[v] = worker[v])
<1> DEFINE new == [worker[w] EXCEPT !.step = step]
<1>1. new \in WorkerRows /\ new.step = step /\ new.req = worker[w].req /\ worker[w].req \in Requests /\ step # "idle"
  BY DEF PipeTypeOK, WorkerRows, WorkerSteps
<1>2. worker' = [worker EXCEPT ![w] = new]
  BY DEF GoTo, PipeTypeOK
<1> HIDE DEF new
<1>3. /\ worker' \in [Workers -> WorkerRows]
      /\ worker'[w] = new /\ \A v \in Workers : v # w => worker'[v] = worker[v]
      /\ \A v \in Workers : worker'[v].step # "idle" <=> worker'[v].req \in Requests
  BY <1>1, <1>2, WorkerMoves
<1> QED BY <1>1, <1>3

\* A worker that is done, or stops, holds nothing.
LEMMA WorkerRests ==
  ASSUME PipeTypeOK, NEW w \in Workers, worker' = [worker EXCEPT ![w] = [req |-> None, step |-> "idle"]]
  PROVE  /\ worker' \in [Workers -> WorkerRows]
         /\ \A v \in Workers : worker'[v].step # "idle" <=> worker'[v].req \in Requests
         /\ \A r \in Requests : worker'[w].req # r
         /\ \A v \in Workers : v # w => worker'[v] = worker[v]
<1> DEFINE new == [req |-> None, step |-> "idle"]
<1>1. new \in WorkerRows /\ new.step = "idle" /\ new.req = None /\ None \notin Requests
  BY NoneHeld DEF WorkerRows, WorkerSteps
<1>2. worker' = [worker EXCEPT ![w] = new]
  OBVIOUS
<1> HIDE DEF new
<1>3. /\ worker' \in [Workers -> WorkerRows]
      /\ worker'[w] = new /\ \A v \in Workers : v # w => worker'[v] = worker[v]
      /\ \A v \in Workers : worker'[v].step # "idle" <=> worker'[v].req \in Requests
  BY <1>1, <1>2, WorkerMoves
<1> QED BY <1>1, <1>3

\* Deliver: the head of message_sender is with a worker.
LEMMA DeliverStep ==
  ASSUME PipeInv, NEW w \in Workers, Deliver(w)
  PROVE  PipeInv'
<1>1. PICK h : h = Head(ready.message_sender)
  OBVIOUS
<1> DEFINE rest == Tail(ready.message_sender)
           new == [req |-> h, step |-> "consume"]
<1>2. ready.message_sender \in Seq(Requests) /\ ready.message_sender # <<>> /\ worker[w].step = "idle"
  BY QueuesTyped DEF PipeInv, Deliver
<1>3. h \in Requests /\ rest \in Seq(Requests) /\ Range(ready.message_sender) = {h} \cup Range(rest)
  BY <1>1, <1>2, TailHolds
<1>4. \A x : Once(ready.message_sender, x) => Once(rest, x) /\ (x = h => x \notin Range(rest))
  BY <1>1, <1>2, TailHolds
<1>5. new \in WorkerRows /\ new.req = h /\ new.step = "consume" /\ worker' = [worker EXCEPT ![w] = new]
  BY <1>1, <1>3 DEF Deliver, WorkerRows, WorkerSteps
<1>6. ready' = [ready EXCEPT !.message_sender = rest] /\ UNCHANGED <<redis, tq, unacked, stored, client, dropped, exposed>>
  BY DEF Deliver, history
<1> HIDE DEF rest, new
<1>7. ready' \in ReadyQueues /\ ready'.message_sender = rest /\ ready'.tornado_return = ready.tornado_return
  BY <1>3, <1>6 DEF PipeInv, PipeTypeOK, ReadyQueues, ReqSeqs
<1>8. /\ worker' \in [Workers -> WorkerRows]
      /\ worker'[w] = new /\ \A v \in Workers : v # w => worker'[v] = worker[v]
      /\ \A v \in Workers : worker'[v].step # "idle" <=> worker'[v].req \in Requests
  BY <1>3, <1>5, WorkerMoves DEF PipeInv
<1>9. ASSUME NEW r \in Requests PROVE OnItsWay(r)'
  <2>1. worker[w].req # r
    BY <1>2 DEF PipeInv, PipeTypeOK
  <2>2. OnItsWay(r) /\ (InFlight(r)' <=> InFlight(r)) /\ (Answering(r)' <=> Answering(r))
    BY <1>3, <1>5, <1>6, <1>7, <1>8, <2>1 DEF InFlight, Parked, Answering, PipeInv
  <2>3. Single(r)'
    BY <1>3, <1>4, <1>5, <1>6, <1>7, <1>8, <2>1, <2>2 DEF OnItsWay, Single, Holding
  <2> QED BY <1>5, <1>6, <1>8, <2>1, <2>2, <2>3 DEF OnItsWay, Unsent, Kept, Settled, Holding
<1> QED BY <1>6, <1>7, <1>8, <1>9 DEF PipeInv, PipeTypeOK

\* get_response stores the message of a request that was not stored, or that is exposed.
LEMMA ResponseStep ==
  ASSUME PipeInv, NEW w \in Workers, get_response(w)
  PROVE  PipeInv'
<1>1. PICK h : h = worker[w].req
  OBVIOUS
<1>2. worker[w].step = "consume" /\ GoTo(w, "respond") /\ UNCHANGED <<redis, tq, ready, unacked, client, dropped, exposed>>
  BY DEF get_response, rabbit, history
<1>3. stored' = [stored EXCEPT ![h] = IF h \in Refused THEN stored[h] ELSE stored[h] + 1]
  BY <1>1 DEF get_response
<1>4. /\ worker' \in [Workers -> WorkerRows]
      /\ \A v \in Workers : worker'[v].step # "idle" <=> worker'[v].req \in Requests
      /\ h \in Requests /\ worker'[w].step = "respond"
      /\ \A v \in Workers : worker'[v].req = worker[v].req /\ (v # w => worker'[v] = worker[v])
  BY <1>1, <1>2, WorkerGoes DEF PipeInv
<1>5. stored' \in [Requests -> Nat]
  BY <1>3, <1>4 DEF PipeInv, PipeTypeOK
<1>6. ASSUME NEW r \in Requests PROVE OnItsWay(r)'
  <2>1. OnItsWay(r) /\ (InFlight(r)' <=> InFlight(r)) /\ (Answering(r)' <=> Answering(r)) /\ stored[r] \in Nat /\ stored'[r] \in Nat
    BY <1>2, <1>4, <1>5 DEF InFlight, Parked, Answering, PipeInv, PipeTypeOK
  <2>2. CASE r # h
    <3>1. stored'[r] = stored[r] /\ \A v \in Workers : worker[v].req = r => worker'[v] = worker[v]
      BY <1>1, <1>3, <1>4, <2>2 DEF PipeInv, PipeTypeOK
    <3>2. Single(r)'
      BY <1>2, <1>4, <2>1, <3>1 DEF OnItsWay, Single, Holding
    <3> QED BY <1>2, <1>4, <2>1, <3>1, <3>2 DEF OnItsWay, Unsent, Kept, Settled, Holding
  <2>3. CASE r = h
    <3>1. stored'[r] = IF r \in Refused THEN stored[r] ELSE stored[r] + 1
      BY <1>3, <1>4, <2>3 DEF PipeInv, PipeTypeOK
    <3>2. worker[w].req = r /\ worker[w].step = "consume" /\ redis[r] # "absent"
      BY <1>1, <1>2, <2>1, <2>3 DEF OnItsWay, Unsent, InFlight
    <3>3. r \notin exposed => r \notin Range(tq.declaring) \cup Range(ready.message_sender) /\ stored[r] = 0
      BY <2>1, <3>2 DEF OnItsWay, Single, Holding
    <3>4. Single(r)'
      BY <1>2, <1>4, <2>1, <3>1, <3>2, <3>3 DEF OnItsWay, Single, Holding
    <3>5. Kept(r)' /\ Unsent(r)'
      BY <1>2, <1>4, <2>1, <3>1, <3>2 DEF OnItsWay, Kept, Unsent, Holding
    <3>6. Settled(r)'
      BY <1>2, <1>4, <2>1, <3>1 DEF OnItsWay, Settled
    <3> QED BY <3>4, <3>5, <3>6 DEF OnItsWay
  <2> QED BY <2>2, <2>3
<1> QED BY <1>2, <1>4, <1>5, <1>6 DEF PipeInv, PipeTypeOK

\* MarkComplete: the message is stored by now.
LEMMA CompleteStep ==
  ASSUME PipeInv, NEW w \in Workers, MarkComplete(w)
  PROVE  PipeInv'
<1>1. PICK h : h = worker[w].req
  OBVIOUS
<1>2. /\ worker[w].step = "respond" /\ GoTo(w, "return") /\ redis' = [redis EXCEPT ![h] = "complete"]
      /\ UNCHANGED <<tq, ready, unacked, stored, client, dropped, exposed>>
  BY <1>1 DEF MarkComplete, rabbit, history
<1>3. /\ worker' \in [Workers -> WorkerRows]
      /\ \A v \in Workers : worker'[v].step # "idle" <=> worker'[v].req \in Requests
      /\ h \in Requests /\ worker'[w].step = "return"
      /\ \A v \in Workers : worker'[v].req = worker[v].req /\ (v # w => worker'[v] = worker[v])
  BY <1>1, <1>2, WorkerGoes DEF PipeInv
<1>4. redis' \in [Requests -> {"absent", "received", "complete"}]
  BY <1>2, <1>3 DEF PipeInv, PipeTypeOK
<1>5. ASSUME NEW r \in Requests PROVE OnItsWay(r)'
  <2>1. OnItsWay(r) /\ (InFlight(r)' <=> InFlight(r)) /\ (Answering(r)' <=> Answering(r))
    BY <1>2, <1>3 DEF InFlight, Parked, Answering, PipeInv
  <2>2. Single(r)'
    BY <1>2, <1>3, <2>1 DEF OnItsWay, Single, Holding
  <2>3. CASE r # h
    <3>1. redis'[r] = redis[r] /\ \A v \in Workers : worker[v].req = r => worker'[v] = worker[v]
      BY <1>1, <1>2, <1>3, <2>3 DEF PipeInv, PipeTypeOK
    <3> QED BY <1>2, <1>3, <2>1, <2>2, <3>1 DEF OnItsWay, Unsent, Kept, Settled, Holding
  <2>4. CASE r = h
    <3>1. redis'[r] = "complete" /\ worker[w].req = r /\ worker[w].step = "respond" /\ redis[r] # "absent"
      BY <1>1, <1>2, <1>3, <2>1, <2>4 DEF PipeInv, PipeTypeOK, OnItsWay, Unsent, InFlight
    <3>2. r \notin Refused => stored[r] > 0
      BY <2>1, <3>1 DEF OnItsWay, Settled, Holding
    <3> QED BY <1>2, <2>1, <2>2, <3>1, <3>2 DEF OnItsWay, Unsent, Kept, Settled, Holding
  <2> QED BY <2>3, <2>4
<1> QED BY <1>2, <1>3, <1>4, <1>5 DEF PipeInv, PipeTypeOK

\* PublishResult: the answer goes out, maybe twice.
LEMMA PublishStep ==
  ASSUME PipeInv, NEW w \in Workers, PublishResult(w)
  PROVE  PipeInv'
<1>1. PICK h : h = worker[w].req
  OBVIOUS
<1>2. worker[w].step = "return" /\ GoTo(w, "ack") /\ UNCHANGED <<redis, tq, unacked, stored, client, dropped, exposed>>
  BY DEF PublishResult, history
<1>3. /\ worker' \in [Workers -> WorkerRows]
      /\ \A v \in Workers : worker'[v].step # "idle" <=> worker'[v].req \in Requests
      /\ h \in Requests /\ worker'[w].step = "ack"
      /\ \A v \in Workers : worker'[v].req = worker[v].req /\ (v # w => worker'[v] = worker[v])
  BY <1>1, <1>2, WorkerGoes DEF PipeInv
<1>4. PICK out \in {<<h>>, <<h, h>>} : ready' = [ready EXCEPT !.tornado_return = @ \o out]
  BY <1>1 DEF PublishResult
<1>5. out \in Seq(Requests) /\ Range(out) = {h}
  BY <1>3, SingleHolds, DoubleHolds
<1> DEFINE tr == ready.tornado_return \o out
<1>6. tr \in Seq(Requests) /\ Range(tr) = Range(ready.tornado_return) \cup Range(out)
  BY <1>5, QueuesTyped, ConcatHolds DEF PipeInv
<1>7. ready' = [ready EXCEPT !.tornado_return = tr]
  BY <1>4
<1> HIDE DEF tr
<1>8. ready' \in ReadyQueues /\ ready'.message_sender = ready.message_sender /\ ready'.tornado_return = tr
  BY <1>6, <1>7 DEF PipeInv, PipeTypeOK, ReadyQueues, ReqSeqs
<1>9. ASSUME NEW r \in Requests PROVE OnItsWay(r)'
  <2>1. OnItsWay(r) /\ (InFlight(r)' <=> InFlight(r)) /\ (Answering(r)' <=> Answering(r) \/ r = h)
    BY <1>2, <1>3, <1>5, <1>6, <1>8 DEF InFlight, Parked, Answering, PipeInv
  <2>2. Single(r)'
    BY <1>2, <1>3, <1>8, <2>1 DEF OnItsWay, Single, Holding
  <2>3. r = h => redis[r] = "complete" /\ (r \notin Refused => stored[r] > 0)
    BY <1>1, <1>2, <2>1 DEF OnItsWay, Kept, Settled, Holding
  <2>4. \A v \in Workers : worker[v].req = r /\ worker'[v] # worker[v] => r = h
    BY <1>1, <1>3
  <2> QED BY <1>2, <1>3, <2>1, <2>2, <2>3, <2>4 DEF OnItsWay, Unsent, Kept, Settled, Holding
<1> QED BY <1>2, <1>3, <1>8, <1>9 DEF PipeInv, PipeTypeOK

\* A worker acknowledges what is complete, or gives it up.
LEMMA RestStep ==
  ASSUME PipeInv, NEW w \in Workers, basic_ack(w) \/ ConsumeFails(w)
  PROVE  PipeInv'
<1>1. /\ worker' = [worker EXCEPT ![w] = [req |-> None, step |-> "idle"]]
      /\ UNCHANGED <<redis, tq, ready, unacked, stored, client, exposed>>
      /\ dropped \subseteq dropped' /\ (worker[w].step = "ack" \/ worker[w].req \in dropped')
  BY DEF basic_ack, ConsumeFails, rabbit, history
<1>2. /\ worker' \in [Workers -> WorkerRows]
      /\ \A v \in Workers : worker'[v].step # "idle" <=> worker'[v].req \in Requests
      /\ \A r \in Requests : worker'[w].req # r
      /\ \A v \in Workers : v # w => worker'[v] = worker[v]
  BY <1>1, WorkerRests DEF PipeInv
<1>3. ASSUME NEW r \in Requests PROVE OnItsWay(r)'
  <2>1. OnItsWay(r) /\ (InFlight(r)' => InFlight(r)) /\ (Answering(r)' <=> Answering(r))
    BY <1>1, <1>2 DEF InFlight, Parked, Answering, PipeInv
  <2>2. redis[r] = "received" => InFlight(r)' \/ r \in dropped'
    <3>1. worker[w].req = r /\ worker[w].step = "ack" => redis[r] = "complete"
      BY <2>1 DEF OnItsWay, Kept, Holding
    <3> QED BY <1>1, <1>2, <2>1, <3>1 DEF OnItsWay, Kept, InFlight, Parked
  <2>3. Single(r)'
    BY <1>1, <1>2, <2>1 DEF OnItsWay, Single, Holding
  <2> QED BY <1>1, <1>2, <2>1, <2>2, <2>3 DEF OnItsWay, Unsent, Kept, Settled, Holding
<1> QED BY <1>1, <1>2, <1>3 DEF PipeInv, PipeTypeOK

\* A killed worker: its request is at the head of the queue again, and exposed if it was handled.
LEMMA KilledStep ==
  ASSUME PipeInv, NEW w \in Workers, WorkerStops(w)
  PROVE  PipeInv'
<1>1. PICK h : h = worker[w].req
  OBVIOUS
<1> DEFINE ms == <<h>> \o ready.message_sender
<1>2. h \in Requests
  BY <1>1 DEF WorkerStops, PipeInv, PipeTypeOK
<1>3. <<h>> \in Seq(Requests) /\ Range(<<h>>) = {h} /\ \A x : Once(<<h>>, x)
  BY <1>2, SingleHolds
<1>4. ready.message_sender \in Seq(Requests)
  BY QueuesTyped DEF PipeInv
<1>5. ms \in Seq(Requests) /\ Range(ms) = Range(<<h>>) \cup Range(ready.message_sender)
  BY <1>3, <1>4, ConcatHolds
<1>6. \A x : Once(<<h>>, x) /\ Once(ready.message_sender, x) /\ (x \in Range(<<h>>) => x \notin Range(ready.message_sender)) => Once(ms, x)
  BY <1>3, <1>4, ConcatHolds
<1>7. /\ ready' = [ready EXCEPT !.message_sender = ms] /\ UNCHANGED <<redis, tq, unacked, stored, client, dropped>>
      /\ exposed' = IF worker[w].step = "consume" THEN exposed ELSE exposed \cup {h}
      /\ worker' = [worker EXCEPT ![w] = [req |-> None, step |-> "idle"]] /\ worker[w].step # "idle"
  BY <1>1 DEF WorkerStops
<1> HIDE DEF ms
<1>8. ready' \in ReadyQueues /\ ready'.message_sender = ms /\ ready'.tornado_return = ready.tornado_return
  BY <1>5, <1>7 DEF PipeInv, PipeTypeOK, ReadyQueues, ReqSeqs
<1>9. /\ worker' \in [Workers -> WorkerRows]
      /\ \A v \in Workers : worker'[v].step # "idle" <=> worker'[v].req \in Requests
      /\ \A r \in Requests : worker'[w].req # r
      /\ \A v \in Workers : v # w => worker'[v] = worker[v]
  BY <1>7, WorkerRests DEF PipeInv
<1>10. ASSUME NEW r \in Requests PROVE OnItsWay(r)'
  <2>1. OnItsWay(r) /\ (InFlight(r)' <=> InFlight(r)) /\ (Answering(r)' <=> Answering(r))
    BY <1>1, <1>3, <1>5, <1>7, <1>8, <1>9 DEF InFlight, Parked, Answering, PipeInv
  <2>2. Single(r)'
    <3>1. CASE r # h
      <4>1. Range(ms) \cap {r} = Range(ready.message_sender) \cap {r} /\ worker[w].req # r /\ (r \in exposed' <=> r \in exposed)
        BY <1>1, <1>3, <1>5, <1>7, <3>1
      <4>2. Once(ready.message_sender, r) => Once(ms, r)
        BY <1>3, <1>6, <3>1
      <4>3. r \in Range(ms) <=> r \in Range(ready.message_sender)
        BY <4>1
      <4> QED BY <1>7, <1>8, <1>9, <2>1, <4>1, <4>2, <4>3 DEF OnItsWay, Single, Holding
    <3>2. CASE r = h /\ worker[w].step # "consume"
      BY <1>7, <2>1, <3>2 DEF OnItsWay, Single
    <3>3. CASE r = h /\ worker[w].step = "consume"
      <4>1. r \notin exposed => /\ r \notin Range(tq.declaring) \cup Range(ready.message_sender) /\ stored[r] = 0
                                /\ \A v \in Workers : v # w => worker[v].req # r
        <5>1. stored[r] \in Nat
          BY DEF PipeInv, PipeTypeOK
        <5> QED BY <1>1, <2>1, <3>3, <5>1 DEF OnItsWay, Single, Holding
      <4>2. r \notin exposed => Once(ms, r) /\ \A v \in Workers : worker'[v].req # r
        BY <1>3, <1>6, <1>9, <2>1, <4>1 DEF OnItsWay, Single
      <4> QED BY <1>7, <1>8, <2>1, <3>3, <4>1, <4>2 DEF OnItsWay, Single, Holding
    <3> QED BY <3>1, <3>2, <3>3
  <2> QED BY <1>7, <1>9, <2>1, <2>2 DEF OnItsWay, Unsent, Kept, Settled, Holding
<1> QED BY <1>7, <1>8, <1>9, <1>10 DEF PipeInv, PipeTypeOK

\* Tornado answers, or its consumer raises and the answer waits.
LEMMA AnswerStep ==
  ASSUME PipeInv, respond_send_message \/ RespondRaises
  PROVE  PipeInv'
<1>1. PICK h : h = Head(ready.tornado_return)
  OBVIOUS
<1> DEFINE rest == Tail(ready.tornado_return)
<1>2. ready.tornado_return \in Seq(Requests) /\ ready.tornado_return # <<>> /\ unacked \in Seq(Requests)
  BY QueuesTyped DEF PipeInv, respond_send_message, RespondRaises
<1>3. h \in Requests /\ rest \in Seq(Requests) /\ Range(ready.tornado_return) = {h} \cup Range(rest)
  BY <1>1, <1>2, TailHolds
<1>4. ready' = [ready EXCEPT !.tornado_return = rest] /\ UNCHANGED <<redis, tq, worker, stored, dropped, exposed>>
  BY DEF respond_send_message, RespondRaises, history
<1> HIDE DEF rest
<1>5. ready' \in ReadyQueues /\ ready'.message_sender = ready.message_sender /\ ready'.tornado_return = rest
  BY <1>3, <1>4 DEF PipeInv, PipeTypeOK, ReadyQueues, ReqSeqs
<1>6. unacked' \in Seq(Requests) /\ \A r \in Requests : Answering(r)' => Answering(r)
  <2>1. CASE respond_send_message
    BY <1>2, <1>3, <1>5, <2>1 DEF respond_send_message, Answering
  <2>2. CASE RespondRaises
    <3>1. unacked' = Append(unacked, h)
      BY <1>1, <2>2 DEF RespondRaises
    <3>2. unacked' \in Seq(Requests) /\ Range(unacked') = Range(unacked) \cup {h}
      BY <1>2, <1>3, <3>1, AppendHolds
    <3> QED BY <1>3, <1>5, <3>2 DEF Answering
  <2> QED BY <2>1, <2>2
<1>7. client' = client \/ client' = [client EXCEPT ![h] = "answered"]
  BY <1>1 DEF respond_send_message, RespondRaises
<1>8. client' \in [Requests -> {"new", "sent", "answered"}] /\ \A r \in Requests : client'[r] = client[r] \/ (r = h /\ client'[r] = "answered")
  BY <1>3, <1>7 DEF PipeInv, PipeTypeOK
<1>9. ASSUME NEW r \in Requests PROVE OnItsWay(r)'
  <2>1. OnItsWay(r) /\ (InFlight(r)' <=> InFlight(r)) /\ (Answering(r)' => Answering(r)) /\ (r = h => Answering(r))
    BY <1>3, <1>4, <1>5, <1>6 DEF InFlight, Parked, Answering, PipeInv
  <2>2. Single(r)'
    BY <1>4, <1>5, <2>1 DEF OnItsWay, Single, Holding
  <2> QED BY <1>4, <1>8, <2>1, <2>2 DEF OnItsWay, Unsent, Kept, Settled, Holding
<1> QED BY <1>4, <1>5, <1>6, <1>8, <1>9 DEF PipeInv, PipeTypeOK, ReqSeqs

\* Every step keeps every request on its way.
LEMMA PipeInvNext == PipeInv /\ [SendNext]_sendVars => PipeInv'
<1> SUFFICES ASSUME PipeInv, [SendNext]_sendVars PROVE PipeInv'
  OBVIOUS
<1>1. CASE UNCHANGED sendVars
  BY <1>1, PipeKept DEF sendVars
<1>2. CASE SocketNext
  BY <1>2, ConnStep, MessageStep DEF SocketNext
<1>3. CASE RabbitNext
  BY <1>3, ChannelStep, DeclareStep, ClosedStep DEF RabbitNext
<1>4. CASE WorkerNext
  BY <1>4, DeliverStep, ResponseStep, CompleteStep, PublishStep, RestStep, KilledStep DEF WorkerNext
<1>5. CASE respond_send_message \/ RespondRaises \/ TornadoStops
  BY <1>5, AnswerStep, StopStep
<1> QED BY <1>1, <1>2, <1>3, <1>4, <1>5 DEF SendNext

\* A request that redis calls received is on its way or dropped, for any requests, workers, sockets
\* and faults: the status inquiry of a client that connects again is answered truthfully.
THEOREM ReceivedStaysKept == SendSpec => []ReceivedIsKept
<1>1. PipeInv => ReceivedIsKept
  BY DEF PipeInv, OnItsWay, Kept, ReceivedIsKept
<1> QED BY <1>1, PipeInvInit, PipeInvNext, PTL DEF SendSpec

\* No message is stored twice unless its worker stopped after storing it or a parked publish ran
\* again, and whoever has an answer has a stored message or a refusal.
THEOREM AnswersAreStored == SendSpec => []StoredAsAnswered
<1>1. PipeInv => StoredAsAnswered
  <2>1. ASSUME PipeInv, NEW r \in Requests
        PROVE  (stored[r] > 1 => r \in exposed) /\ (client[r] = "answered" /\ r \notin Refused => stored[r] > 0)
    <3>1. OnItsWay(r) /\ stored[r] \in Nat
      BY <2>1 DEF PipeInv, PipeTypeOK
    <3> QED BY <3>1 DEF OnItsWay, Single, Settled
  <2> QED BY <2>1 DEF StoredAsAnswered
<1> QED BY <1>1, PipeInvInit, PipeInvNext, PTL DEF SendSpec

-----------------------------------------------------------------------------
(* Previews.                                                                 *)

TextSeqs == Seq(Contents)
Rows == [present : BOOLEAN, content : Contents \cup {NoText}, rendered : Contents \cup {NoText}, preview : BOOLEAN]
Jobs == [step : {"idle", "fetched", "checked"}, text : Contents \cup {NoText}]

\* The text of a row without previews is on its way to the worker or with it.
Awaited == \/ row.content \in Range(embeds)
           \/ embedder.step # "idle" /\ embedder.text = row.content

PreviewInv ==
  /\ row \in Rows /\ edit \in Contents \cup {NoText} /\ embeds \in TextSeqs /\ embedder \in Jobs /\ spoiled \in BOOLEAN
  /\ embedder.step # "idle" => embedder.text \in Contents
  /\ row.present => /\ row.rendered = row.content
                    /\ row.preview \/ spoiled \/ Awaited

\* An idle FetchLinksEmbedData has no job.
LEMMA IdleJob == NoJob \in Jobs /\ NoJob.step = "idle"
BY DEF NoJob, Jobs

\* Every step keeps the previews awaited.
LEMMA PreviewInvNext == PreviewInv /\ [PreviewNext \/ HookNext]_workerVars => PreviewInv'
<1> SUFFICES ASSUME PreviewInv, [PreviewNext \/ HookNext]_workerVars PROVE PreviewInv'
  OBVIOUS
<1>0. embeds \in Seq(Contents)
  BY DEF PreviewInv, TextSeqs
<1>1. CASE UNCHANGED embedVars
  BY <1>1 DEF embedVars, PreviewInv, Awaited
<1>2. CASE Send
  <2>1. PICK text \in Contents : do_send_messages(text)
    BY <1>2 DEF Send
  <2>2. <<text>> \in Seq(Contents) /\ Range(<<text>>) = {text}
    BY SingleHolds
  <2>3. row' \in Rows /\ row'.content = text /\ row'.rendered = text
    BY <2>1 DEF do_send_messages, Rows
  <2>4. embeds' = <<text>> /\ UNCHANGED <<edit, embedder, spoiled>>
    BY <2>1 DEF do_send_messages
  <2> QED BY <2>2, <2>3, <2>4 DEF PreviewInv, Awaited, TextSeqs
<1>3. ASSUME NEW text \in Contents, StartEdit(text) PROVE PreviewInv'
  BY <1>3 DEF StartEdit, PreviewInv, Awaited
<1>4. CASE do_update_message
  <2>1. CASE row.present
    <3>1. edit \in Contents /\ embeds' = Append(embeds, edit) /\ edit' = NoText /\ UNCHANGED <<embedder, spoiled>>
      BY <1>4, <2>1 DEF do_update_message, PreviewInv
    <3>2. row' \in Rows /\ row'.content = edit /\ row'.rendered = edit
      BY <1>4, <2>1, <3>1 DEF do_update_message, PreviewInv, Rows
    <3>3. embeds' \in Seq(Contents) /\ Range(embeds') = Range(embeds) \cup {edit}
      BY <1>0, <3>1, AppendHolds
    <3> QED BY <3>1, <3>2, <3>3 DEF PreviewInv, Awaited, TextSeqs
  <2>2. CASE ~row.present
    BY <1>4, <2>2 DEF do_update_message, PreviewInv
  <2> QED BY <2>1, <2>2
<1>5. CASE do_delete_message
  <2>1. row' \in Rows /\ row'.present = FALSE /\ UNCHANGED <<edit, embeds, embedder, spoiled>>
    BY <1>5 DEF do_delete_message, PreviewInv, Rows
  <2> QED BY <2>1 DEF PreviewInv
<1>6. CASE FetchLinks
  <2>1. PICK h : h = Head(embeds)
    OBVIOUS
  <2>2. h \in Contents /\ Tail(embeds) \in Seq(Contents) /\ Range(embeds) = {h} \cup Range(Tail(embeds))
    BY <1>0, <1>6, <2>1, TailHolds DEF FetchLinks
  <2>3. embedder' \in Jobs /\ embedder'.step = "fetched" /\ embedder'.text = h
    BY <1>6, <2>1, <2>2 DEF FetchLinks, Jobs
  <2>4. embedder.step = "idle" /\ embeds' = Tail(embeds) /\ UNCHANGED <<row, edit, spoiled>>
    BY <1>6 DEF FetchLinks
  <2> QED BY <2>2, <2>3, <2>4 DEF PreviewInv, Awaited, TextSeqs
<1>7. CASE CheckContent
  <2>1. UNCHANGED <<row, edit, embeds, spoiled>> /\ embedder.step = "fetched"
    BY <1>7 DEF CheckContent
  <2>2. CASE row.present /\ row.content = embedder.text
    <3>1. embedder' \in Jobs /\ embedder'.step = "checked" /\ embedder'.text = embedder.text
      BY <1>7, <2>2 DEF CheckContent, PreviewInv, Jobs
    <3> QED BY <2>1, <2>2, <3>1 DEF PreviewInv, Awaited
  <2>3. CASE ~(row.present /\ row.content = embedder.text)
    <3>1. embedder' = NoJob
      BY <1>7, <2>3 DEF CheckContent
    <3> QED BY <2>1, <2>3, <3>1, IdleJob DEF PreviewInv, Awaited
  <2> QED BY <2>2, <2>3
<1>8. CASE do_update_embedded_data
  <2>1. UNCHANGED <<edit, embeds, spoiled>> /\ embedder.step = "checked" /\ embedder' = NoJob /\ embedder.text \in Contents
    BY <1>8 DEF do_update_embedded_data, PreviewInv
  <2>2. row' \in Rows /\ (row'.present => row'.rendered = row'.content /\ row'.preview = TRUE)
    BY <1>8, <2>1 DEF do_update_embedded_data, PreviewInv, Rows
  <2> QED BY <2>1, <2>2, IdleJob DEF PreviewInv
<1>9. CASE EmbedderStops
  <2>1. embedder.step # "idle" /\ embedder.text \in Contents /\ embedder' = NoJob /\ UNCHANGED <<row, edit>>
    BY <1>9 DEF EmbedderStops, PreviewInv
  <2>2. CASE embeds' = <<embedder.text>> \o embeds /\ UNCHANGED spoiled
    <3>1. PICK again \in Seq(Contents) : again = <<embedder.text>> /\ Range(again) = {embedder.text}
      BY <2>1, SingleHolds
    <3>2. embeds' \in Seq(Contents) /\ Range(embeds') = Range(again) \cup Range(embeds)
      BY <1>0, <2>2, <3>1, ConcatHolds
    <3> QED BY <2>1, <2>2, <3>1, <3>2, IdleJob DEF PreviewInv, Awaited, TextSeqs
  <2>3. CASE spoiled' = TRUE /\ UNCHANGED embeds
    BY <2>1, <2>3, IdleJob DEF PreviewInv
  <2> QED BY <1>9, <2>2, <2>3 DEF EmbedderStops
<1>10. CASE TakeHook \/ process_event \/ do_rest_call \/ handle_message \/ HookDone \/ HookerStops
  BY <1>1, <1>10 DEF TakeHook, process_event, do_rest_call, handle_message, HookDone, HookerStops, Called
<1>11. CASE UNCHANGED workerVars
  BY <1>1, <1>11 DEF workerVars, embedVars
<1> QED BY <1>2, <1>3, <1>4, <1>5, <1>6, <1>7, <1>8, <1>9, <1>10, <1>11 DEF PreviewNext, HookNext

\* Text and rendering of the row agree, and a quiet queue leaves the text its previews, for any
\* edits and stops of the worker embed_links.
THEOREM PreviewsDoSettle == WorkersSpec => []PreviewsSettle
<1>1. WorkersInit => PreviewInv
  <2> SUFFICES ASSUME WorkersInit PROVE PreviewInv
    OBVIOUS
  <2>1. row \in Rows /\ row.present = FALSE
    BY DEF WorkersInit, Rows
  <2>2. embeds \in TextSeqs
    BY EmptyHolds DEF WorkersInit, TextSeqs
  <2> QED BY <2>1, <2>2, IdleJob DEF WorkersInit, PreviewInv
<1>2. PreviewInv => PreviewsSettle
  <2> SUFFICES ASSUME PreviewInv, row.present PROVE row.rendered = row.content /\ (EmbedsQuiet /\ ~spoiled => row.preview)
    BY DEF PreviewsSettle
  <2>1. EmbedsQuiet => ~Awaited
    BY IdleJob, EmptyHolds DEF EmbedsQuiet, Awaited
  <2> QED BY <2>1 DEF PreviewInv
<1> QED BY <1>1, <1>2, PreviewInvNext, PTL DEF WorkersSpec

-----------------------------------------------------------------------------
(* Outgoing webhooks.                                                        *)

Tries == 0..MAX_REQUEST_RETRIES
ServiceLists == Seq(Services)
TryLists == Seq(Nat)
HookRows == [step : {"idle", "call"}, tries : Nat, first : Nat, left : ServiceLists]
BotRows == [type : {"outgoing_webhooks", "embedded_bots"}, services : ServiceLists]

\* No service was called more often than n times.
CalledAtMost(n) == \A s \in Services : calls[s] <= n

\* The trigger of a bot with one service is in the queue with the tries it has had, or with the
\* worker before the call, or done with.
HookInv ==
  /\ bot \in BotRows /\ hooker \in HookRows /\ calls \in [Services -> Nat] /\ replies \in Nat /\ stops \in Nat
  /\ hooks \in TryLists
  /\ Len(bot.services) = 1 /\ stops = 0 =>
       /\ edits = <<>> => hooks = <<>> /\ hooker.left = <<>> /\ replies = 0 /\ CalledAtMost(0)
       /\ \/ \E k \in Tries : hooks = <<k>> /\ hooker.left = <<>> /\ replies = 0 /\ CalledAtMost(k)
          \/ hooks = <<>> /\ Len(hooker.left) = 1 /\ hooker.tries \in Tries /\ replies = 0 /\ CalledAtMost(hooker.tries)
          \/ hooks = <<>> /\ hooker.left = <<>> /\ replies <= 1 /\ CalledAtMost(MAX_REQUEST_RETRIES + 1)

\* A finite set as a sequence of its elements.
LEMMA SetToSeqTyped ==
  ASSUME NEW S, IsFiniteSet(S)
  PROVE  SetToSeq(S) \in Seq(S)
<1>1. Cardinality(S) \in Nat /\ ExistsBijection(1..Cardinality(S), S)
  BY FS_CardinalityType
<1>2. PICK f : f \in [1..Cardinality(S) -> S] /\ IsInjective(f)
  BY <1>1 DEF ExistsBijection, Bijection, Injection
<1>3. SetToSeq(S) \in [1..Cardinality(S) -> S]
  BY <1>2 DEF SetToSeq
<1> QED BY <1>1, <1>3

\* get_bot_services lists services.
LEMMA BotsTyped == Bots \subseteq BotRows
<1>1. ASSUME NEW S \in SUBSET Services PROVE SetToSeq(S) \in ServiceLists
  <2>1. IsFiniteSet(S)
    BY ServicesAreFinite, FS_Subset
  <2>2. SetToSeq(S) \in Seq(S)
    BY <2>1, SetToSeqTyped
  <2> QED BY <2>2 DEF ServiceLists
<1> QED BY <1>1 DEF Bots, BotRows

\* A worker of outgoing_webhooks between two events.
LEMMA RestingHook == NoHook \in HookRows /\ NoHook.left = <<>>
<1>1. <<>> \in ServiceLists
  BY DEF ServiceLists
<1> QED BY <1>1 DEF NoHook, HookRows

\* A call counts once, and leaves the services after it.
LEMMA CalledStep ==
  ASSUME HookInv, NEW tries \in Nat, Called(tries)
  PROVE  /\ hooker' \in HookRows /\ hooker'.left = Tail(hooker.left) /\ (Len(hooker.left) = 1 => hooker'.left = <<>>)
         /\ calls' \in [Services -> Nat] /\ \A n \in Nat : CalledAtMost(n) => CalledAtMost(n + 1)'
         /\ hooker.left # <<>> /\ UNCHANGED <<edits, bot, stops>>
<1>1. hooker.left \in Seq(Services) /\ hooker.left # <<>>
  BY DEF Called, HookInv, HookRows, ServiceLists
<1>2. PICK h \in Services : h = Head(hooker.left)
  BY <1>1
<1>3. calls' = [calls EXCEPT ![h] = calls[h] + 1]
  BY <1>2 DEF Called
<1>4. calls' \in [Services -> Nat]
  BY <1>3 DEF HookInv
<1>5. ASSUME NEW n \in Nat, CalledAtMost(n) PROVE CalledAtMost(n + 1)'
  BY <1>3, <1>5 DEF HookInv, CalledAtMost
<1>6. PICK rest \in Seq(Services) : rest = Tail(hooker.left)
  BY <1>1, TailHolds
<1>7. hooker' = [hooker EXCEPT !.left = rest, !.tries = tries]
  BY <1>6 DEF Called
<1>8. hooker' \in HookRows /\ hooker'.left = rest
  BY <1>7 DEF HookInv, HookRows, ServiceLists
<1>9. Len(hooker.left) = 1 => rest = <<>>
  BY <1>1, <1>6
<1> QED BY <1>1, <1>4, <1>5, <1>6, <1>8, <1>9 DEF Called, embedVars

\* A call and what comes of it: a reply, nothing, or a try more in the queue.
LEMMA CallStep ==
  ASSUME HookInv, NEW tries \in Nat, Called(tries),
         \/ UNCHANGED <<hooks, replies>>
         \/ replies' = replies + 1 /\ hooks' = hooks \o <<>>
         \/ hooker.tries + 1 <= MAX_REQUEST_RETRIES /\ hooks' = Append(hooks, hooker.tries + 1) /\ UNCHANGED replies
  PROVE  HookInv'
<1>1. /\ hooker' \in HookRows /\ (Len(hooker.left) = 1 => hooker'.left = <<>>)
      /\ calls' \in [Services -> Nat] /\ \A n \in Nat : CalledAtMost(n) => CalledAtMost(n + 1)'
      /\ hooker.left # <<>> /\ UNCHANGED <<edits, bot, stops>>
  BY CalledStep
<1>2. replies' \in Nat /\ hooker.tries \in Nat
  BY DEF HookInv, HookRows
<1>2a. hooks' \in TryLists
  <2>1. hooks \in Seq(Nat) /\ hooker.tries + 1 \in Nat
    BY <1>2 DEF HookInv, TryLists
  <2>2. hooks \o <<>> = hooks /\ Append(hooks, hooker.tries + 1) \in Seq(Nat)
    BY <2>1, AppendHolds
  <2> QED BY <2>1, <2>2 DEF TryLists
<1>3. ASSUME Len(bot.services) = 1, stops = 0
      PROVE  /\ edits # <<>>
             /\ \/ \E k \in Tries : hooks' = <<k>> /\ hooker'.left = <<>> /\ replies' = 0 /\ CalledAtMost(k)'
                \/ hooks' = <<>> /\ hooker'.left = <<>> /\ replies' <= 1 /\ CalledAtMost(MAX_REQUEST_RETRIES + 1)'
  <2>1. edits # <<>> /\ hooks = <<>> /\ Len(hooker.left) = 1 /\ hooker.tries \in Tries /\ replies = 0 /\ CalledAtMost(hooker.tries)
    BY <1>1, <1>3 DEF HookInv
  <2>2. PICK k \in Nat : k = hooker.tries /\ k <= MAX_REQUEST_RETRIES
    BY <2>1 DEF Tries
  <2>3. CalledAtMost(k + 1)' /\ hooker'.left = <<>>
    BY <1>1, <2>1, <2>2
  <2>4. CalledAtMost(MAX_REQUEST_RETRIES + 1)'
    BY <1>1, <2>2, <2>3, RetriesAreNatural DEF CalledAtMost
  <2>5. CASE UNCHANGED <<hooks, replies>> \/ (replies' = replies + 1 /\ hooks' = hooks \o <<>>)
    <3>1. hooks' = <<>> /\ replies' <= 1
      BY <2>1, <2>5
    <3> QED BY <2>1, <2>3, <2>4, <3>1
  <2>6. CASE hooker.tries + 1 <= MAX_REQUEST_RETRIES /\ hooks' = Append(hooks, hooker.tries + 1) /\ UNCHANGED replies
    <3>1. hooks' = <<k + 1>> /\ replies' = 0 /\ k + 1 \in Tries
      BY <2>1, <2>2, <2>6, RetriesAreNatural DEF Tries
    <3> QED BY <2>1, <2>3, <3>1
  <2> QED BY <2>5, <2>6
<1> QED BY <1>1, <1>2, <1>2a, <1>3 DEF HookInv

\* TakeHook: the event is with the worker, with the tries it has had.
LEMMA TakeStep ==
  ASSUME HookInv, TakeHook
  PROVE  HookInv'
<1>1. PICK k : k = Head(hooks)
  OBVIOUS
<1>2. /\ hooker' = [step |-> "call", tries |-> k, first |-> k, left |-> bot.services]
      /\ hooks # <<>> /\ hooks' = Tail(hooks) /\ UNCHANGED <<edits, bot, calls, replies, stops>>
  BY <1>1 DEF TakeHook, embedVars
<1>3. hooks \in Seq(Nat) /\ bot.services \in ServiceLists
  BY DEF HookInv, TryLists, BotRows
<1>4. k \in Nat /\ hooks' \in Seq(Nat)
  BY <1>1, <1>2, <1>3, TailHolds
<1>5. hooker' \in HookRows /\ hooker'.left = bot.services /\ hooker'.tries = k
  BY <1>2, <1>3, <1>4 DEF HookRows
<1>6. ASSUME Len(bot.services) = 1, stops = 0
      PROVE  /\ edits # <<>> /\ hooks' = <<>> /\ Len(hooker'.left) = 1 /\ hooker'.tries \in Tries
             /\ replies = 0 /\ CalledAtMost(hooker'.tries)
  <2>1. PICK n \in Tries : hooks = <<n>> /\ replies = 0 /\ CalledAtMost(n) /\ edits # <<>>
    BY <1>2, <1>6 DEF HookInv
  <2>2. Head(<<n>>) = n /\ Tail(<<n>>) = <<>>
    OBVIOUS
  <2>3. k = n /\ hooks' = <<>>
    BY <1>1, <1>2, <2>1, <2>2
  <2> QED BY <1>5, <1>6, <2>1, <2>3
<1> QED BY <1>2, <1>4, <1>5, <1>6 DEF HookInv, CalledAtMost, TryLists

\* Every step keeps the trigger at one place.
LEMMA HookInvNext == HookInv /\ [PreviewNext \/ HookNext]_workerVars => HookInv'
<1> SUFFICES ASSUME HookInv, [PreviewNext \/ HookNext]_workerVars PROVE HookInv'
  OBVIOUS
<1>1. CASE Send
  <2>1. PICK text : do_send_messages(text)
    BY <1>1 DEF Send
  <2>2. edits = <<>> /\ edits' = <<text>> /\ hooks' = <<0>> /\ UNCHANGED <<bot, hooker, calls, replies, stops>>
    BY <2>1 DEF do_send_messages, ServiceQueueEvents
  <2>3. edits' # <<>> /\ 0 \in Tries /\ hooks' \in TryLists
    BY <2>2, RetriesAreNatural DEF Tries, TryLists
  <2> QED BY <2>2, <2>3 DEF HookInv, CalledAtMost
<1>2. CASE UNCHANGED hookVars /\ (edits' = edits \/ edits' # <<>>) /\ stops' \in Nat /\ stops' >= stops
  <2>1. stops' = 0 => stops = 0
    BY <1>2 DEF HookInv
  <2> QED BY <1>2, <2>1 DEF HookInv, hookVars, CalledAtMost
<1>3. CASE (\E text \in Contents : StartEdit(text)) \/ do_update_message \/ do_delete_message \/ FetchLinks
           \/ CheckContent \/ do_update_embedded_data \/ EmbedderStops \/ UNCHANGED workerVars
  <2>1. UNCHANGED hookVars
    BY <1>3 DEF StartEdit, do_update_message, do_delete_message, FetchLinks, CheckContent, do_update_embedded_data,
                EmbedderStops, workerVars, hookVars
  <2>2. edits' = edits \/ edits' = Append(edits, edit)
    BY <1>3 DEF StartEdit, do_update_message, do_delete_message, FetchLinks, CheckContent, do_update_embedded_data,
                EmbedderStops, workerVars
  <2>3. stops' = stops \/ stops' = stops + 1
    BY <1>3 DEF StartEdit, do_update_message, do_delete_message, FetchLinks, CheckContent, do_update_embedded_data,
                EmbedderStops, workerVars
  <2>4. stops' \in Nat /\ stops' >= stops
    BY <2>3 DEF HookInv
  <2> QED BY <1>2, <2>1, <2>2, <2>4
<1>4. CASE TakeHook
  BY <1>4, TakeStep
<1>5. CASE process_event \/ HookDone
  <2>1. hooker' = NoHook /\ UNCHANGED <<edits, bot, hooks, calls, replies, stops>>
    BY <1>5 DEF process_event, HookDone, embedVars
  <2> QED BY <2>1, RestingHook, RetriesAreNatural DEF HookInv, CalledAtMost, Tries
<1>6. CASE do_rest_call \/ handle_message
  <2>1. hooker.tries \in Nat /\ hooker.tries + 1 \in Nat
    BY DEF HookInv, HookRows
  <2>2. ServiceQueueEvents(TRUE, TRUE) = <<>> /\ ServiceQueueEvents(FALSE, FALSE) = <<>>
    BY DEF ServiceQueueEvents
  <2>3. CASE handle_message
    BY <2>1, <2>2, <2>3, CallStep DEF handle_message, send_reply
  <2>4. CASE Called(hooker.tries + 1) /\ request_retry
    <3>1. CASE hooker.tries + 1 > MAX_REQUEST_RETRIES
      BY <2>1, <2>2, <2>4, <3>1, CallStep DEF request_retry, send_response_message
    <3>2. CASE ~(hooker.tries + 1 > MAX_REQUEST_RETRIES)
      <4>1. hooker.tries + 1 <= MAX_REQUEST_RETRIES
        BY <2>1, <3>2, RetriesAreNatural
      <4> QED BY <2>1, <2>4, <3>2, <4>1, CallStep DEF request_retry
    <3> QED BY <3>1, <3>2
  <2>5. CASE Called(hooker.tries) /\ (send_response_message \/ UNCHANGED <<hooks, replies>>)
    BY <2>1, <2>2, <2>5, CallStep DEF send_response_message
  <2> QED BY <1>6, <2>3, <2>4, <2>5 DEF do_rest_call
<1>7. CASE HookerStops
  <2>1. stops' = stops + 1 /\ hooker' = NoHook /\ UNCHANGED <<edits, bot, calls, replies>>
    BY <1>7 DEF HookerStops, embedVars
  <2>2. stops' \in Nat /\ stops' # 0
    BY <2>1 DEF HookInv
  <2>3. hooks' \in TryLists
    <3>1. PICK n \in Nat : hooks' = <<n>> \o hooks
      BY <1>7 DEF HookerStops, HookInv, HookRows
    <3>2. <<n>> \in Seq(Nat) /\ hooks \in Seq(Nat)
      BY SingleHolds DEF HookInv, TryLists
    <3> QED BY <3>1, <3>2, ConcatHolds DEF TryLists
  <2> QED BY <2>1, <2>2, <2>3, RestingHook DEF HookInv
<1> QED BY <1>1, <1>3, <1>4, <1>5, <1>6, <1>7 DEF PreviewNext, HookNext

\* One reply at most, after at most MAX_REQUEST_RETRIES + 1 calls, for any number of retries.
THEOREM WebhooksAnswerOnce == WorkersSpec => []WebhookAnswersOnce
<1>1. WorkersInit => HookInv
  <2> SUFFICES ASSUME WorkersInit PROVE HookInv
    OBVIOUS
  <2>1. bot \in BotRows
    BY BotsTyped DEF WorkersInit
  <2>2. CalledAtMost(0) /\ CalledAtMost(MAX_REQUEST_RETRIES + 1) /\ calls \in [Services -> Nat]
    BY RetriesAreNatural DEF CalledAtMost, WorkersInit
  <2>3. hooks \in TryLists
    BY EmptyHolds DEF WorkersInit, TryLists
  <2> QED BY <2>1, <2>2, <2>3, RestingHook DEF WorkersInit, HookInv
<1>2. HookInv => WebhookAnswersOnce
  BY RetriesAreNatural DEF HookInv, WebhookAnswersOnce, CalledAtMost, Tries
<1> QED BY <1>1, <1>2, HookInvNext, PTL DEF WorkersSpec

-----------------------------------------------------------------------------
(* RealmExport. *)

\* The people of the realm, and the clients' ids on its server.
Realm == Staff \union {Joiner}
ClientHere == [website |-> "c2", mobile |-> "c1", api |-> NewClientId]

\* Stages of an export that goes well, each set without those of the set before.
Reading == {"clients", "users", "personal", "subscriptions", "streams", "huddles", "uploads"}
Collecting == Reading \union {"received", "sent"}
AfterSent == {"attachments", "launch", "batches", "import", "links", "imported"}
AfterReceived == AfterSent \union {"sent"}
AfterUploads == AfterReceived \union {"received"}
AfterHuddles == AfterUploads \union {"uploads"}
AfterStreams == AfterHuddles \union {"huddles"}
AfterSubs == AfterStreams \union {"streams"}
AfterPersonal == AfterSubs \union {"subscriptions"}
AfterUsers == AfterPersonal \union {"personal"}
Stages == AfterUsers \union {"clients", "users", "failed"}

\* Whom of the realm's people the export takes, if it took nobody else from now on.
Known == IF stage \in {"clients", "users"} THEN people ELSE dump.users

SentMessage == [sender : {t.sender : t \in Traffic}, to : {t.to : t \in Traffic},
                client : {"c1", "c2", "c3"}, clientName : DOMAIN ClientThere, early : BOOLEAN,
                file : {t.file : t \in Traffic}, rows : SUBSET Realm]
Shard == [msg : Nat, state : {"partial", "locked", "json"}, rows : SUBSET Realm]
Dump == [clients : {dump.clients}, users : {dump.users}, dummies : {dump.dummies},
         personal : {dump.personal}, streamSubs : {dump.streamSubs}, streams : {dump.streams},
         huddles : {dump.huddles}, uploads : {dump.uploads}, min : {dump.min},
         attachments : {dump.attachments}]
Target == [clientMap : {target.clientMap}, userMap : {target.userMap}, users : {target.users},
           recipients : {target.recipients}, msgs : {target.msgs}, rows : {target.rows},
           files : {target.files}, attachments : {target.attachments}]

ImportedMessages == {ImportedMessage(i) : i \in Nat}

\* What the server says.
ServerInv ==
  /\ people \in SUBSET Realm /\ Staff \subseteq people
  /\ {"website", "mobile"} \subseteq DOMAIN clients
  /\ DOMAIN clients \subseteq DOMAIN ClientHere /\ \A n \in DOMAIN clients : clients[n] = ClientHere[n]
  /\ \A s \in DOMAIN streams : streams[s] \in SUBSET people
  /\ sent \in Seq(SentMessage)
  /\ \A i \in DOMAIN sent :
       /\ \E t \in Traffic : sent[i].sender = t.sender /\ sent[i].to = t.to
       /\ sent[i].client = ClientHere[sent[i].clientName]
       /\ sent[i].to.type = "stream" => sent[i].to.who \subseteq DOMAIN streams

\* What the tables say of it.
TablesInv ==
  /\ stage \in Stages /\ dump \in Dump
  /\ DOMAIN dump.clients \subseteq DOMAIN ClientHere
  /\ \A n \in DOMAIN dump.clients : dump.clients[n] = ClientHere[n]
  /\ Known \in SUBSET people
  /\ stage \in AfterUsers => dump.dummies = Dummies /\ Staff \subseteq dump.users
  /\ stage \notin AfterUsers => dump.dummies \subseteq Dummies /\ dump.users \subseteq people
  /\ dump.min \in Nat /\ dump.min <= Len(sent)
  /\ stage \notin {"received", "sent"} => dump.min = 0
  /\ \A f \in DOMAIN dump.attachments : dump.attachments[f] \subseteq Exported

\* The early messages will be found: their senders and recipients are in the tables.
EarlyInv ==
  \A i \in DOMAIN sent : sent[i].early =>
    /\ sent[i].sender \in Known \union Dummies \union {BotHere}
    /\ Joiner \in sent[i].to.who => Joiner \in Known
    /\ sent[i].to.type = "personal" /\ stage \in AfterPersonal =>
         \/ sent[i].to \in dump.personal
         \/ sent[i].sender \in dump.users /\ sent[i].to \in TheirRecipients
    /\ sent[i].to.type = "stream" /\ stage \in AfterStreams => sent[i].to \in dump.streams
    /\ sent[i].to.type = "huddle" /\ stage \in AfterHuddles
         /\ sent[i].to.who \subseteq people \union Dummies => sent[i].to \in dump.huddles

\* The files of messages hold messages that were to be exported, and no early one is passed over.
ShardsInv ==
  /\ shards \in Seq(Shard)
  /\ stage \in Reading => shards = <<>>
  /\ \A n \in DOMAIN shards :
       /\ shards[n].msg \in messages_we_received \union messages_we_sent_to_them
       /\ shards[n].rows \subseteq dump.users
  /\ stage = "received" => \A i \in messages_we_received : i <= dump.min => i \in Exported
  /\ stage = "sent" => \A i \in messages_we_sent_to_them : i <= dump.min => i \in Exported
  /\ stage \in AfterReceived => \A i \in messages_we_received : sent[i].early => i \in Exported
  /\ stage \in AfterSent => \A i \in messages_we_sent_to_them : sent[i].early => i \in Exported

\* While no process fails, every file is to be taken by all, taken by one, or done.
ThreadsInv ==
  /\ failures \in Nat
  /\ globbed \in [Threads -> SUBSET DOMAIN shards] /\ claimed \in [Threads -> {0} \union DOMAIN shards]
  /\ stage # "batches" => \A t \in Threads : globbed[t] = {} /\ claimed[t] = 0
  /\ stage \in Collecting \union {"attachments", "launch"} => \A n \in DOMAIN shards : shards[n].state = "partial"
  /\ stage = "batches" /\ failures = 0 =>
       \A n \in DOMAIN shards :
         \/ shards[n].state = "json"
         \/ shards[n].state = "partial" /\ \A t \in Threads : n \in globbed[t]
         \/ shards[n].state = "locked" /\ \E t \in Threads : claimed[t] = n
  /\ stage \in {"import", "links", "imported"} /\ failures = 0 => \A n \in DOMAIN shards : shards[n].state = "json"

\* What the other server has: the messages of the first files, as they were sent.
TargetInv ==
  /\ stage \notin {"import", "links", "imported", "failed"} => target = NoTarget
  /\ target \in Target
  /\ target.msgs \in Seq(ImportedMessages)
  /\ target # NoTarget =>
       /\ target.clientMap = ClientMap /\ target.userMap = UserMap
       /\ target.users = dump.users \union dump.dummies \union {BotThere}
       /\ target.recipients = OurRecipients
  /\ stage \in {"links", "imported"} => target # NoTarget
  /\ Len(target.msgs) <= Len(shards)
  /\ \A k \in DOMAIN target.msgs : target.msgs[k] = ImportedMessage(shards[k].msg)
  /\ \A r \in target.rows : r.user \in target.users /\ r.msg \in ImportedIds
  /\ \A f \in DOMAIN target.attachments : target.attachments[f] \subseteq ImportedIds
  /\ stage \in {"links", "imported"} /\ failures = 0 => Len(target.msgs) = Len(shards)

ExportInv == ServerInv /\ TablesInv /\ EarlyInv /\ ShardsInv /\ ThreadsInv /\ TargetInv

\* The actions, by what they touch.
ServerStep == (\E t \in Traffic : Sends(t)) \/ Joins \/ \E us \in {{}, Staff} : MakesStream(us)
TableStep == ExportClients \/ fetch_user_profile \/ ExportPersonal \/ ExportStreamSubs
             \/ ExportStreams \/ fetch_huddle_objects \/ ExportUploads \/ fetch_attachment_data
WriteStep == \/ WritePartial("received", messages_we_received, "sent")
             \/ WritePartial("sent", messages_we_sent_to_them, "attachments")
BatchStep == \E t \in Threads : \/ \E n \in globbed[t] : ClaimFile(t, n)
                                \/ export_usermessages_batch(t)
                                \/ \E state \in {"partial", "locked"} : BatchFails(t, state)
ThreadStep == LaunchThreads \/ ExportEnds \/ BatchStep
ImportStep == ImportRealm \/ import_message_data \/ import_attachments

LEMMA ExportGroups ==
  /\ ExportNext => ServerStep \/ TableStep \/ WriteStep \/ ThreadStep \/ ImportStep
  /\ ServerStep => UNCHANGED <<stage, dump, shards, globbed, claimed, failures, target>> /\ Exporting
  /\ TableStep => UNCHANGED <<sourceVars, shards, globbed, claimed, failures, target>>
  /\ WriteStep => UNCHANGED <<sourceVars, globbed, claimed, failures, target>>
  /\ ThreadStep => UNCHANGED <<sourceVars, dump, target>>
  /\ ImportStep => UNCHANGED <<sourceVars, dump, shards, globbed, claimed, failures>>
<1>1. ExportNext => ServerStep \/ TableStep \/ WriteStep \/ ThreadStep \/ ImportStep
  BY DEF ExportNext, ServerStep, TableStep, WriteStep, ThreadStep, BatchStep, ImportStep
<1>2. ServerStep => UNCHANGED <<stage, dump, shards, globbed, claimed, failures, target>> /\ Exporting
  BY DEF ServerStep, Sends, Joins, MakesStream
<1>3. TableStep => UNCHANGED <<sourceVars, shards, globbed, claimed, failures, target>>
  BY DEF TableStep, Export, ExportClients, fetch_user_profile, ExportPersonal, ExportStreamSubs,
         ExportStreams, fetch_huddle_objects, ExportUploads, fetch_attachment_data
<1>4. WriteStep => UNCHANGED <<sourceVars, globbed, claimed, failures, target>>
  BY DEF WriteStep, WritePartial
<1>5. ThreadStep => UNCHANGED <<sourceVars, dump, target>>
  BY DEF ThreadStep, LaunchThreads, ExportEnds, BatchStep, ClaimFile, export_usermessages_batch, BatchFails
<1>6. ImportStep => UNCHANGED <<sourceVars, dump, shards, globbed, claimed, failures>>
  BY DEF ImportStep, ImportRealm, import_message_data, import_attachments
<1> QED BY <1>1, <1>2, <1>3, <1>4, <1>5, <1>6

\* What a message that is sent is, and that only it is new.
LEMMA SentGrows ==
  ASSUME ServerInv, NEW t \in Traffic, Sends(t)
  PROVE  /\ sent' \in Seq(SentMessage) /\ Len(sent) \in Nat /\ Len(sent') = Len(sent) + 1
         /\ DOMAIN sent = 1 .. Len(sent) /\ DOMAIN sent' = 1 .. Len(sent) + 1
         /\ \A i \in DOMAIN sent : sent'[i] = sent[i]
         /\ sent'[Len(sent) + 1] =
              [sender |-> t.sender, to |-> t.to, client |-> ClientHere[t.client],
               clientName |-> t.client, early |-> stage = "clients",
               file |-> t.file, rows |-> Receivers(t)]
         /\ DOMAIN clients' \subseteq DOMAIN ClientHere /\ \A n \in DOMAIN clients' : clients'[n] = ClientHere[n]
<1>1. t.client \in {"website", "mobile", "api"}
  BY RealmExportAssumption DEF ClientThere
<1>2. clients' = IF t.client \in DOMAIN clients THEN clients
                 ELSE [n \in DOMAIN clients \union {t.client} |->
                         IF n = t.client THEN NewClientId ELSE clients[n]]
  BY DEF Sends
<1>3. {"website", "mobile"} \subseteq DOMAIN clients
  BY DEF ServerInv
<1>4. /\ clients'[t.client] = ClientHere[t.client]
      /\ DOMAIN clients' \subseteq DOMAIN ClientHere /\ \A n \in DOMAIN clients' : clients'[n] = ClientHere[n]
  BY <1>1, <1>2, <1>3 DEF ServerInv, ClientHere
<1> DEFINE m == [sender |-> t.sender, to |-> t.to, client |-> ClientHere[t.client],
                 clientName |-> t.client, early |-> stage = "clients",
                 file |-> t.file, rows |-> Receivers(t)]
<1>5. sent' = Append(sent, m)
  BY <1>4 DEF Sends
<1>6. m \in SentMessage
  <2>1. ClientHere[t.client] \in {"c1", "c2", "c3"}
    BY <1>1 DEF ClientHere, NewClientId
  <2>2. Receivers(t) \in SUBSET Realm
    <3>1. CASE t.to.type = "stream"
      <4>1. t.to.who \subseteq DOMAIN streams
        BY <3>1 DEF Sends
      <4> QED BY <3>1, <4>1 DEF Receivers, ServerInv
    <3>2. CASE t.to.type # "stream"
      BY <3>2 DEF Receivers, ServerInv
    <3> QED BY <3>1, <3>2
  <2>3. (stage = "clients") \in BOOLEAN
    OBVIOUS
  <2>4. t.client \in DOMAIN ClientThere
    BY RealmExportAssumption
  <2> QED BY <2>1, <2>2, <2>3, <2>4 DEF SentMessage
<1> HIDE DEF m
<1>7. sent \in Seq(SentMessage)
  BY DEF ServerInv
<1>8. /\ sent' \in Seq(SentMessage) /\ Len(sent) \in Nat /\ Len(sent') = Len(sent) + 1
      /\ DOMAIN sent = 1 .. Len(sent) /\ DOMAIN sent' = 1 .. Len(sent) + 1
      /\ \A i \in DOMAIN sent : sent'[i] = sent[i]
      /\ sent'[Len(sent) + 1] = m
  BY <1>5, <1>6, <1>7
<1> QED BY <1>4, <1>8 DEF m

\* The server's tables stay in order, and nothing of it goes away.
LEMMA ServerKept ==
  ASSUME ServerInv, ExportNext
  PROVE  /\ ServerInv' /\ people \subseteq people' /\ Len(sent) \in Nat /\ Len(sent) <= Len(sent')
         /\ DOMAIN sent = 1 .. Len(sent) /\ DOMAIN sent' = 1 .. Len(sent')
         /\ \A i \in DOMAIN sent : sent'[i] = sent[i]
         /\ \A i \in DOMAIN sent' : i \in DOMAIN sent \/ sent'[i].early = (stage = "clients")
<1>0. sent \in Seq(SentMessage) /\ Len(sent) \in Nat /\ DOMAIN sent = 1 .. Len(sent)
  BY DEF ServerInv
<1>1. ASSUME NEW t \in Traffic, Sends(t)
      PROVE  /\ ServerInv' /\ people \subseteq people' /\ Len(sent) <= Len(sent')
             /\ DOMAIN sent' = 1 .. Len(sent')
             /\ \A i \in DOMAIN sent : sent'[i] = sent[i]
             /\ \A i \in DOMAIN sent' : i \in DOMAIN sent \/ sent'[i].early = (stage = "clients")
  <2>1. people' = people /\ streams' = streams /\ (t.to.type = "stream" => t.to.who \subseteq DOMAIN streams)
    BY <1>1 DEF Sends
  <2>2. /\ sent' \in Seq(SentMessage) /\ Len(sent) \in Nat /\ Len(sent') = Len(sent) + 1
        /\ DOMAIN sent = 1 .. Len(sent) /\ DOMAIN sent' = 1 .. Len(sent) + 1
        /\ \A i \in DOMAIN sent : sent'[i] = sent[i]
        /\ DOMAIN clients' \subseteq DOMAIN ClientHere /\ \A n \in DOMAIN clients' : clients'[n] = ClientHere[n]
    BY <1>1, SentGrows
  <2> DEFINE m == sent'[Len(sent) + 1]
  <2>3. /\ m.client = ClientHere[m.clientName] /\ m.sender = t.sender /\ m.to = t.to /\ m.early = (stage = "clients")
    <3>1. m = [sender |-> t.sender, to |-> t.to, client |-> ClientHere[t.client],
               clientName |-> t.client, early |-> stage = "clients",
               file |-> t.file, rows |-> Receivers(t)]
      BY <1>1, SentGrows
    <3> HIDE DEF m
    <3>2. m.client = ClientHere[m.clientName] /\ m.sender = t.sender /\ m.to = t.to
      BY <3>1
    <3>3. m.early = (stage = "clients")
      BY <3>1, Zenon
    <3> QED BY <3>2, <3>3
  <2> HIDE DEF m
  <2>4. \A i \in DOMAIN sent' : i \in DOMAIN sent \/ sent'[i] = m
    BY <2>2 DEF m
  <2>5. \A i \in DOMAIN sent' : /\ \E tt \in Traffic : sent'[i].sender = tt.sender /\ sent'[i].to = tt.to
                                /\ sent'[i].client = ClientHere[sent'[i].clientName]
                                /\ sent'[i].to.type = "stream" => sent'[i].to.who \subseteq DOMAIN streams'
    BY <2>1, <2>2, <2>3, <2>4 DEF ServerInv
  <2>6. {"website", "mobile"} \subseteq DOMAIN clients'
    BY <1>1 DEF Sends, ServerInv
  <2>7. ServerInv'
    BY <2>1, <2>2, <2>5, <2>6 DEF ServerInv
  <2> QED BY <2>1, <2>2, <2>3, <2>4, <2>7
<1>2. CASE Joins
  <2>1. /\ people' = people \union {Joiner} /\ streams' = [streams EXCEPT ![HomeStream] = @ \union {Joiner}]
        /\ clients' = clients /\ sent' = sent
    BY <1>2 DEF Joins
  <2>2. DOMAIN streams' = DOMAIN streams /\ \A s \in DOMAIN streams : streams'[s] \in SUBSET people'
    BY <2>1 DEF ServerInv
  <2>3. ServerInv'
    BY <2>1, <2>2 DEF ServerInv, Realm
  <2> QED BY <1>0, <2>1, <2>3
<1>3. ASSUME NEW us \in {{}, Staff}, MakesStream(us) PROVE ServerInv' /\ people' = people /\ sent' = sent
  <2>1. /\ streams' = [s \in DOMAIN streams \union {LateStream} |-> IF s = LateStream THEN us ELSE streams[s]]
        /\ people' = people /\ clients' = clients /\ sent' = sent
    BY <1>3 DEF MakesStream
  <2>2. DOMAIN streams \subseteq DOMAIN streams' /\ \A s \in DOMAIN streams' : streams'[s] \in SUBSET people
    BY <2>1 DEF ServerInv
  <2> QED BY <2>1, <2>2 DEF ServerInv
<1>4. ASSUME UNCHANGED sourceVars PROVE ServerInv' /\ people' = people /\ sent' = sent
  BY <1>4 DEF ServerInv, sourceVars
<1>5. CASE ServerStep
  BY <1>0, <1>1, <1>2, <1>3, <1>5 DEF ServerStep
<1>6. CASE ~ServerStep
  BY <1>0, <1>4, <1>6, ExportGroups
<1> QED BY <1>5, <1>6

\* A nonempty set of ids has a least one.
LEMMA LeastId ==
  ASSUME NEW T \in SUBSET Nat, T # {}
  PROVE  Min(T) \in T /\ \A m \in T : Min(T) <= m
<1>1. \E n \in T : \A m \in T : ~(<<m, n>> \in OpToRel(<, Nat))
  BY NatLessThanWellFounded, WFMin, Zenon
<1>2. \A m, n \in Nat : <<m, n>> \in OpToRel(<, Nat) <=> m < n
  BY DEF OpToRel
<1>3. \A m, n \in T : ~(m < n) => n <= m
  OBVIOUS
<1>4. \E n \in T : \A m \in T : n <= m
  BY <1>1, <1>2, <1>3, Zenon
<1> QED BY <1>4 DEF Min

\* What is wanted of a query: ids of messages there are.
LEMMA WantedAreSent ==
  messages_we_received \subseteq DOMAIN sent /\ messages_we_sent_to_them \subseteq DOMAIN sent
BY DEF messages_we_received, messages_we_sent_to_them

\* A chunk of a query goes to a new file, or there is none and the query is done.
LEMMA ChunkWritten ==
  ASSUME ServerInv, dump \in Dump, dump.min \in Nat, shards \in Seq(Shard),
         NEW query, NEW wanted \in SUBSET DOMAIN sent, NEW next, WritePartial(query, wanted, next)
  PROVE  /\ dump' \in Dump' /\ stage = query /\ dump' = [dump EXCEPT !.min = dump'.min]
         /\ \/ /\ stage' = next /\ shards' = shards /\ dump'.min = 0
               /\ \A i \in wanted : i <= dump.min
            \/ /\ stage' = stage /\ \E i \in wanted :
                    /\ shards' = Append(shards, [msg |-> i, state |-> "partial", rows |-> {}])
                    /\ dump'.min = i /\ dump.min < i /\ \A j \in wanted : dump.min < j => i <= j
<1> DEFINE rest == {i \in wanted : i > dump.min}
<1>1. wanted \in SUBSET Nat
  <2>1. DOMAIN sent \in SUBSET Nat
    BY DEF ServerInv
  <2> QED BY <2>1
<1>2. CASE rest = {}
  <2>1. stage = query /\ stage' = next /\ shards' = shards /\ dump' = [dump EXCEPT !.min = 0]
    BY <1>2 DEF WritePartial
  <2>2. \A i \in wanted : i <= dump.min
    BY <1>1, <1>2
  <2> HIDE DEF rest
  <2> QED BY <2>1, <2>2 DEF Dump
<1>3. CASE rest # {}
  <2> DEFINE i == Min(rest)
  <2>1. /\ stage = query /\ stage' = stage /\ dump' = [dump EXCEPT !.min = i]
        /\ shards' = Append(shards, [msg |-> i, state |-> "partial", rows |-> {}])
    BY <1>3 DEF WritePartial
  <2>2. rest \in SUBSET Nat
    BY <1>1
  <2>3. i \in rest /\ \A j \in rest : i <= j
    BY <1>3, <2>2, LeastId
  <2> HIDE DEF i
  <2>4. i \in wanted /\ dump.min < i /\ \A j \in wanted : dump.min < j => i <= j
    BY <1>1, <2>3
  <2> HIDE DEF rest
  <2>5. dump' \in Dump' /\ dump'.min = i /\ dump' = [dump EXCEPT !.min = dump'.min]
    BY <2>1 DEF Dump
  <2> QED BY <2>1, <2>4, <2>5
<1> QED BY <1>2, <1>3

\* The numbered files keep their messages, and are of that type.
LEMMA ShardsGrow ==
  ASSUME ServerInv, TablesInv, ShardsInv, ThreadsInv, ExportNext
  PROVE  /\ shards' \in Seq(Shard) /\ Len(shards) \in Nat /\ DOMAIN shards = 1 .. Len(shards)
         /\ DOMAIN shards \subseteq DOMAIN shards' /\ DOMAIN shards' = 1 .. Len(shards')
         /\ \A n \in DOMAIN shards : shards'[n].msg = shards[n].msg
         /\ Exported \subseteq Exported'
         /\ ~WriteStep => DOMAIN shards' = DOMAIN shards
                           /\ \A n \in DOMAIN shards : shards'[n].rows = shards[n].rows \/ shards'[n].rows \subseteq dump.users
<1>1. shards \in Seq(Shard) /\ Len(shards) \in Nat /\ DOMAIN shards = 1 .. Len(shards)
  BY DEF ShardsInv
<1> DEFINE Goal == /\ shards' \in Seq(Shard)
                   /\ DOMAIN shards \subseteq DOMAIN shards' /\ DOMAIN shards' = 1 .. Len(shards')
                   /\ \A n \in DOMAIN shards : shards'[n].msg = shards[n].msg
                   /\ ~WriteStep =>
                        /\ DOMAIN shards' = DOMAIN shards
                        /\ \A n \in DOMAIN shards : shards'[n].rows = shards[n].rows \/ shards'[n].rows \subseteq dump.users
<1>2. ASSUME shards' = shards PROVE Goal
  BY <1>1, <1>2
<1>3. ASSUME NEW i \in Nat, WriteStep, shards' = Append(shards, [msg |-> i, state |-> "partial", rows |-> {}])
      PROVE  Goal
  <2>1. [msg |-> i, state |-> "partial", rows |-> {}] \in Shard
    BY DEF Shard
  <2> QED BY <1>1, <1>3, <2>1
<1>4. ASSUME NEW n \in DOMAIN shards, NEW state \in {"partial", "locked", "json"},
             shards' = [shards EXCEPT ![n].state = state]
      PROVE  Goal
  <2>1. /\ DOMAIN shards' = DOMAIN shards /\ shards'[n] = [shards[n] EXCEPT !.state = state]
        /\ \A k \in DOMAIN shards : k # n => shards'[k] = shards[k]
    BY <1>1, <1>4
  <2>2. \A k \in DOMAIN shards : shards[k] \in Shard
    BY <1>1
  <2>3. shards'[n] \in Shard /\ shards'[n].msg = shards[n].msg /\ shards'[n].rows = shards[n].rows
    BY <2>1, <2>2 DEF Shard
  <2>4. \A k \in DOMAIN shards : shards'[k] \in Shard
    BY <2>1, <2>2, <2>3
  <2>5. shards' \in Seq(Shard)
    BY <1>1, <1>4, <2>1, <2>4
  <2>6. DOMAIN shards' = 1 .. Len(shards') /\ DOMAIN shards \subseteq DOMAIN shards'
    BY <1>1, <2>1, <2>5
  <2>7. \A k \in DOMAIN shards : shards'[k].msg = shards[k].msg /\ shards'[k].rows = shards[k].rows
    BY <2>1, <2>3
  <2> QED BY <2>1, <2>5, <2>6, <2>7
<1>5. ASSUME NEW n \in DOMAIN shards,
             shards' = [shards EXCEPT ![n].state = "json", ![n].rows = sent[shards[n].msg].rows \intersect dump.users]
      PROVE  Goal
  <2>1. /\ DOMAIN shards' = DOMAIN shards
        /\ shards'[n] = [shards[n] EXCEPT !.state = "json", !.rows = sent[shards[n].msg].rows \intersect dump.users]
        /\ \A k \in DOMAIN shards : k # n => shards'[k] = shards[k]
    BY <1>1, <1>5
  <2>2. \A k \in DOMAIN shards : shards[k] \in Shard
    BY <1>1
  <2>3. shards[n].msg \in DOMAIN sent
    BY WantedAreSent DEF ShardsInv
  <2>4. sent[shards[n].msg] \in SentMessage
    BY <2>3 DEF ServerInv
  <2>5. sent[shards[n].msg].rows \in SUBSET Realm
    BY <2>4 DEF SentMessage
  <2>6. /\ shards'[n] \in Shard /\ shards'[n].msg = shards[n].msg
        /\ shards'[n].rows = sent[shards[n].msg].rows \intersect dump.users
    BY <2>1, <2>2, <2>5 DEF Shard
  <2>7. \A k \in DOMAIN shards : shards'[k] \in Shard
    BY <2>1, <2>2, <2>6
  <2>8. shards' \in Seq(Shard)
    <3>1. shards' = [k \in 1 .. Len(shards) |-> shards'[k]]
      BY <1>1, <1>5
    <3> QED BY <1>1, <2>7, <3>1
  <2>9. DOMAIN shards' = 1 .. Len(shards') /\ DOMAIN shards' = DOMAIN shards
    BY <1>1, <2>1, <2>8
  <2>10. \A k \in DOMAIN shards :
           /\ shards'[k].msg = shards[k].msg
           /\ shards'[k].rows = shards[k].rows \/ shards'[k].rows \subseteq dump.users
    BY <2>1, <2>6
  <2> QED BY <2>8, <2>9, <2>10
<1>6. ASSUME Goal PROVE Exported \subseteq Exported'
  BY <1>6 DEF Exported
<1> HIDE DEF Goal
<1>7. ASSUME ServerStep \/ TableStep \/ ImportStep PROVE Goal
  BY <1>2, <1>7, ExportGroups
<1>8. ASSUME WriteStep PROVE Goal
  <2>1. ASSUME NEW query, NEW wanted \in SUBSET DOMAIN sent, NEW next, WritePartial(query, wanted, next) PROVE Goal
    <3>1. \/ shards' = shards
          \/ \E i \in wanted : shards' = Append(shards, [msg |-> i, state |-> "partial", rows |-> {}])
      BY <1>1, <2>1, ChunkWritten DEF TablesInv
    <3>2. \A i \in wanted : i \in Nat
      BY DEF ServerInv
    <3> QED BY <1>2, <1>3, <1>8, <3>1, <3>2
  <2> QED BY <1>8, <2>1, WantedAreSent DEF WriteStep
<1>9. ASSUME ThreadStep PROVE Goal
  <2>1. ASSUME LaunchThreads \/ ExportEnds PROVE Goal
    BY <1>2, <2>1 DEF LaunchThreads, ExportEnds
  <2>2. ASSUME NEW t \in Threads, NEW n \in globbed[t], ClaimFile(t, n) PROVE Goal
    <3>1. n \in DOMAIN shards
      BY DEF ThreadsInv
    <3>2. shards' = shards \/ shards' = [shards EXCEPT ![n].state = "locked"]
      BY <2>2 DEF ClaimFile
    <3> QED BY <1>2, <1>4, <3>1, <3>2
  <2>3. ASSUME NEW t \in Threads, export_usermessages_batch(t) PROVE Goal
    <3>1. claimed[t] \in DOMAIN shards
      BY <2>3 DEF ThreadsInv, export_usermessages_batch
    <3> QED BY <1>5, <2>3, <3>1 DEF export_usermessages_batch
  <2>4. ASSUME NEW t \in Threads, NEW state \in {"partial", "locked"}, BatchFails(t, state) PROVE Goal
    <3>1. claimed[t] \in DOMAIN shards
      BY <2>4 DEF ThreadsInv, BatchFails
    <3> QED BY <1>4, <2>4, <3>1 DEF BatchFails
  <2> QED BY <1>9, <2>1, <2>2, <2>3, <2>4 DEF ThreadStep, BatchStep
<1>10. Goal
  BY <1>7, <1>8, <1>9, ExportGroups
<1> QED BY <1>1, <1>6, <1>10 DEF Goal

\* What one table's export writes.
LEMMA TableWritten ==
  ASSUME dump \in Dump, TableStep
  PROVE  /\ dump' \in Dump'
         /\ \/ /\ stage = "clients" /\ stage' = "users"
               /\ dump' = [dump EXCEPT !.clients = clients]
            \/ /\ stage = "users" /\ stage' = "personal"
               /\ dump' = [dump EXCEPT !.users = people, !.dummies = Dummies]
            \/ /\ stage = "personal" /\ stage' = "subscriptions"
               /\ dump' = [dump EXCEPT !.personal = {Personal(u) : u \in dump.users}]
            \/ /\ stage = "subscriptions" /\ stage' = "streams"
               /\ dump' = [dump EXCEPT !.streamSubs = dump'.streamSubs]
            \/ /\ stage = "streams" /\ stage' = "huddles"
               /\ dump' = [dump EXCEPT !.streams = {InStream(s) : s \in DOMAIN streams}]
            \/ stage = "streams" /\ stage' = "failed" /\ dump' = dump
            \/ /\ stage = "huddles" /\ stage' = "uploads"
               /\ dump' = [dump EXCEPT !.huddles = {h \in HuddlesOf(dump.users) : h.who \subseteq people \union Dummies}]
            \/ /\ stage = "uploads" /\ stage' = "received"
               /\ dump' = [dump EXCEPT !.uploads = files]
            \/ /\ stage = "attachments" /\ stage' = "launch"
               /\ dump' = [dump EXCEPT !.attachments =
                             [f \in {g \in files : LinkedMessages(g) # {}} |-> LinkedMessages(f)]]
<1>1. CASE ExportClients
  BY <1>1 DEF ExportClients, Export, Dump
<1>2. CASE fetch_user_profile
  BY <1>2 DEF fetch_user_profile, Dump
<1>3. CASE ExportPersonal
  BY <1>3 DEF ExportPersonal, Export, Dump
<1>4. CASE ExportStreamSubs
  BY <1>4 DEF ExportStreamSubs, Export, Dump
<1>5. CASE ExportStreams
  BY <1>5 DEF ExportStreams, Export, Dump
<1>6. CASE fetch_huddle_objects
  BY <1>6 DEF fetch_huddle_objects, Export, Dump
<1>7. CASE ExportUploads
  BY <1>7 DEF ExportUploads, Export, Dump
<1>8. CASE fetch_attachment_data
  BY <1>8 DEF fetch_attachment_data, Export, Dump
<1> QED BY <1>1, <1>2, <1>3, <1>4, <1>5, <1>6, <1>7, <1>8 DEF TableStep

\* How the stage moves, but for the tables.
LEMMA StageMoves ==
  ASSUME ServerInv, TablesInv, ShardsInv, ThreadsInv, ExportNext
  PROVE  /\ ServerStep => stage' = stage /\ Exporting
         /\ WriteStep => \/ stage \in {"received", "sent"} /\ stage' = stage
                         \/ stage = "received" /\ stage' = "sent"
                         \/ stage = "sent" /\ stage' = "attachments"
         /\ ThreadStep => \/ stage = "batches" /\ stage' = stage
                          \/ stage = "launch" /\ stage' = "batches"
                          \/ stage = "batches" /\ stage' = "import"
         /\ ImportStep => \/ stage = "import" /\ stage' \in {"import", "links"}
                          \/ stage = "links" /\ stage' \in {"imported", "failed"}
<1>1. ServerStep => stage' = stage /\ Exporting
  BY ExportGroups
<1>2. ASSUME WriteStep
      PROVE  \/ stage \in {"received", "sent"} /\ stage' = stage
             \/ stage = "received" /\ stage' = "sent"
             \/ stage = "sent" /\ stage' = "attachments"
  <2>1. ASSUME NEW query, NEW wanted \in SUBSET DOMAIN sent, NEW next, WritePartial(query, wanted, next)
        PROVE  stage = query /\ stage' \in {query, next}
    BY <2>1, ChunkWritten DEF TablesInv, ShardsInv
  <2> QED BY <1>2, <2>1, WantedAreSent DEF WriteStep
<1>3. ASSUME ThreadStep
      PROVE  \/ stage = "batches" /\ stage' = stage
             \/ stage = "launch" /\ stage' = "batches"
             \/ stage = "batches" /\ stage' = "import"
  <2>1. ASSUME NEW t \in Threads, export_usermessages_batch(t) PROVE stage = "batches" /\ stage' = stage
    BY <2>1 DEF export_usermessages_batch, ThreadsInv
  <2>2. ASSUME NEW t \in Threads, NEW state, BatchFails(t, state) PROVE stage = "batches" /\ stage' = stage
    BY <2>2 DEF BatchFails, ThreadsInv
  <2>3. ASSUME NEW t \in Threads, NEW n, ClaimFile(t, n) PROVE stage = "batches" /\ stage' = stage
    BY <2>3 DEF ClaimFile
  <2>4. ASSUME LaunchThreads \/ ExportEnds
        PROVE  \/ stage = "launch" /\ stage' = "batches"
               \/ stage = "batches" /\ stage' = "import"
    BY <2>4 DEF LaunchThreads, ExportEnds
  <2> QED BY <1>3, <2>1, <2>2, <2>3, <2>4 DEF ThreadStep, BatchStep
<1>4. ImportStep => \/ stage = "import" /\ stage' \in {"import", "links"}
                    \/ stage = "links" /\ stage' \in {"imported", "failed"}
  BY DEF ImportStep, ImportRealm, import_message_data, import_attachments
<1> QED BY <1>1, <1>2, <1>3, <1>4

\* The tables keep saying what the server says.
LEMMA TablesKept ==
  ASSUME ServerInv, TablesInv, ShardsInv, ThreadsInv, ExportNext
  PROVE  TablesInv'
<1> USE DEF Stages, AfterUsers, AfterPersonal, AfterSubs, AfterStreams, AfterHuddles, AfterUploads,
            AfterReceived, AfterSent
<1>1. people \subseteq people' /\ Len(sent) \in Nat /\ Len(sent') \in Nat /\ Len(sent) <= Len(sent')
  <2>1. ServerInv' /\ people \subseteq people' /\ Len(sent) \in Nat /\ Len(sent) <= Len(sent')
    BY ServerKept
  <2> QED BY <2>1 DEF ServerInv
<1>2. Exported \subseteq Exported'
  BY ShardsGrow
<1>3. ASSUME dump' = dump \/ (dump'.min \in Nat /\ dump'.min <= Len(sent) /\ dump' \in Dump' /\ dump' = [dump EXCEPT !.min = dump'.min]),
             stage' \in Stages, stage = stage' \/ (stage \in AfterUsers /\ stage' \in AfterUsers \union {"failed"}),
             dump'.min = 0 \/ stage' \in {"received", "sent"}
      PROVE  TablesInv'
  <2>1. /\ dump' \in Dump' /\ dump'.clients = dump.clients /\ dump'.users = dump.users /\ dump'.dummies = dump.dummies
        /\ dump'.attachments = dump.attachments /\ dump'.min \in Nat /\ dump'.min <= Len(sent)
    BY <1>3 DEF TablesInv, Dump
  <2>2. Known' \in SUBSET people'
    BY <1>1, <1>3, <2>1 DEF TablesInv, Known
  <2>3. \A f \in DOMAIN dump'.attachments : dump'.attachments[f] \subseteq Exported'
    BY <1>2, <2>1 DEF TablesInv
  <2>4. /\ stage' \in AfterUsers => dump'.dummies = Dummies /\ Staff \subseteq dump'.users
        /\ stage' \notin AfterUsers => dump'.dummies \subseteq Dummies /\ dump'.users \subseteq people'
    BY <1>1, <1>3, <2>1, <2>2 DEF TablesInv, Known
  <2>5. dump'.min <= Len(sent')
    BY <1>1, <2>1
  <2> QED BY <1>3, <2>1, <2>2, <2>3, <2>4, <2>5 DEF TablesInv
<1>4. CASE ServerStep
  <2>1. dump' = dump /\ stage' = stage
    BY <1>4, ExportGroups
  <2> QED BY <1>3, <2>1 DEF TablesInv
<1>5. CASE ThreadStep \/ ImportStep
  <2>1. dump' = dump
    BY <1>5, ExportGroups
  <2>2. stage \in AfterUsers \ {"received", "sent"} /\ stage' \in AfterUsers \union {"failed"}
    BY <1>5, StageMoves
  <2>3. dump.min = 0
    BY <2>2 DEF TablesInv
  <2> QED BY <1>3, <2>1, <2>2, <2>3
<1>6. CASE WriteStep
  <2>1. ASSUME NEW query, NEW wanted \in SUBSET DOMAIN sent, NEW next, WritePartial(query, wanted, next)
        PROVE  /\ dump'.min \in Nat /\ dump'.min <= Len(sent) /\ dump' \in Dump' /\ dump' = [dump EXCEPT !.min = dump'.min]
               /\ dump'.min = 0 \/ stage' = stage
    <3>1. /\ dump' \in Dump' /\ stage = query /\ dump' = [dump EXCEPT !.min = dump'.min]
          /\ dump'.min = 0 \/ (stage' = stage /\ \E i \in wanted : dump'.min = i)
      BY <2>1, ChunkWritten DEF TablesInv, ShardsInv
    <3>2. \A i \in wanted : i \in Nat /\ i <= Len(sent)
      BY DEF ServerInv
    <3> QED BY <1>1, <3>1, <3>2
  <2>2. /\ dump'.min \in Nat /\ dump'.min <= Len(sent) /\ dump' \in Dump' /\ dump' = [dump EXCEPT !.min = dump'.min]
        /\ dump'.min = 0 \/ stage' = stage
    BY <1>6, <2>1, WantedAreSent DEF WriteStep
  <2>3. stage \in {"received", "sent"} /\ stage' \in {"received", "sent", "attachments"}
    BY <1>6, StageMoves
  <2> QED BY <1>3, <2>2, <2>3
<1>7. CASE TableStep
  <2>0. sourceVars' = sourceVars /\ shards' = shards /\ people' = people /\ sent' = sent /\ dump \in Dump
    BY <1>7, ExportGroups DEF sourceVars, TablesInv
  <2>1. dump' \in Dump'
    BY <1>7, <2>0, TableWritten
  <2>2. CASE stage = "clients" /\ stage' = "users" /\ dump' = [dump EXCEPT !.clients = clients]
    <3>1. /\ dump'.clients = clients /\ dump'.users = dump.users /\ dump'.dummies = dump.dummies
          /\ dump'.attachments = dump.attachments /\ dump'.min = dump.min
      BY <2>0, <2>2 DEF Dump
    <3>2. Known' \in SUBSET people'
      BY <1>1, <2>2 DEF Known
    <3> QED BY <1>1, <1>2, <2>0, <2>1, <2>2, <3>1, <3>2 DEF TablesInv, ServerInv
  <2>3. CASE stage = "users" /\ stage' = "personal" /\ dump' = [dump EXCEPT !.users = people, !.dummies = Dummies]
    <3>1. /\ dump'.clients = dump.clients /\ dump'.users = people /\ dump'.dummies = Dummies
          /\ dump'.attachments = dump.attachments /\ dump'.min = dump.min
      BY <2>0, <2>3 DEF Dump
    <3>2. Known' \in SUBSET people'
      BY <1>1, <2>3, <3>1 DEF Known
    <3> QED BY <1>1, <1>2, <2>0, <2>1, <2>3, <3>1, <3>2 DEF TablesInv, ServerInv
  <2>4. ASSUME /\ dump'.clients = dump.clients /\ dump'.users = dump.users /\ dump'.dummies = dump.dummies
               /\ dump'.min = dump.min,
               stage \in AfterUsers \ {"received", "sent"}, stage' \in AfterUsers \union {"failed"},
               \A f \in DOMAIN dump'.attachments : dump'.attachments[f] \subseteq Exported'
        PROVE  TablesInv'
    <3>1. Known' \in SUBSET people'
      BY <1>1, <2>4 DEF Known, TablesInv
    <3>2. dump.min = 0
      BY <2>4 DEF TablesInv
    <3> QED BY <1>1, <2>1, <2>4, <3>1, <3>2 DEF TablesInv, Known
  <2>5. ASSUME dump'.attachments = dump.attachments
        PROVE  \A f \in DOMAIN dump'.attachments : dump'.attachments[f] \subseteq Exported'
    BY <1>2, <2>5 DEF TablesInv
  <2>6. CASE stage = "attachments" /\ stage' = "launch"
             /\ dump' = [dump EXCEPT !.attachments =
                             [f \in {g \in files : LinkedMessages(g) # {}} |-> LinkedMessages(f)]]
    <3>1. /\ dump'.clients = dump.clients /\ dump'.users = dump.users /\ dump'.dummies = dump.dummies
          /\ dump'.min = dump.min
          /\ dump'.attachments = [f \in {g \in files : LinkedMessages(g) # {}} |-> LinkedMessages(f)]
      BY <2>0, <2>6 DEF Dump
    <3>2. \A f \in DOMAIN dump'.attachments : dump'.attachments[f] \subseteq Exported
      BY <3>1 DEF LinkedMessages
    <3> QED BY <1>2, <2>4, <2>6, <3>1, <3>2
  <2>7. CASE stage \notin {"clients", "users", "attachments"}
    <3>1. /\ dump'.clients = dump.clients /\ dump'.users = dump.users /\ dump'.dummies = dump.dummies
          /\ dump'.min = dump.min /\ dump'.attachments = dump.attachments
      BY <1>7, <2>0, <2>7, TableWritten DEF Dump
    <3>2. stage \in AfterUsers \ {"received", "sent"} /\ stage' \in AfterUsers \union {"failed"}
      BY <1>7, <2>0, <2>7, TableWritten
    <3> QED BY <2>4, <2>5, <3>1, <3>2
  <2> QED BY <1>7, <2>0, <2>2, <2>3, <2>6, <2>7, TableWritten
<1> QED BY <1>4, <1>5, <1>6, <1>7, ExportGroups

\* Whom a message can be to.
LEMMA WhomTo ==
  ASSUME ServerInv, NEW i \in DOMAIN sent
  PROVE  \/ sent[i].to.type = "stream" /\ \E s \in {HomeStream, LateStream} : sent[i].to = InStream(s)
         \/ sent[i].to.type = "huddle" /\ sent[i].to.who \intersect Realm # {}
         \/ sent[i].to.type = "personal" /\ \E u \in Realm \union Dummies \union {BotHere} :
              sent[i].to = Personal(u) /\ (u \in Realm \/ sent[i].sender \in Realm)
<1>1. PICK t \in Traffic : sent[i].sender = t.sender /\ sent[i].to = t.to
  BY DEF ServerInv
<1>2. CASE t.to \in {InStream(HomeStream), InStream(LateStream)}
  BY <1>1, <1>2 DEF InStream
<1>3. CASE t.to = Huddle(t.to.who) /\ t.to.who \intersect (Staff \union {Joiner}) # {}
  BY <1>1, <1>3 DEF Huddle, Realm
<1>4. CASE \E u \in Staff \union Dummies \union {Joiner, BotHere} :
             t.to = Personal(u) /\ {t.sender, u} \intersect (Staff \union {Joiner}) # {}
  <2>1. PICK u \in Staff \union Dummies \union {Joiner, BotHere} :
          t.to = Personal(u) /\ {t.sender, u} \intersect (Staff \union {Joiner}) # {}
    BY <1>4
  <2>2. u \in Realm \/ t.sender \in Realm
    BY <2>1 DEF Realm
  <2>3. u \in Realm \union Dummies \union {BotHere}
    BY <2>1 DEF Realm
  <2>4. t.to.type = "personal"
    BY <2>1 DEF Personal
  <2> QED BY <1>1, <2>1, <2>2, <2>3, <2>4
<1> QED BY <1>1, <1>2, <1>3, <1>4, RealmExportAssumption

\* The early messages stay in reach of the tables.
LEMMA EarlyKept ==
  ASSUME ServerInv, TablesInv, EarlyInv, ShardsInv, ThreadsInv, ExportNext
  PROVE  EarlyInv'
<1> USE DEF Stages, AfterUsers, AfterPersonal, AfterSubs, AfterStreams, AfterHuddles, AfterUploads,
            AfterReceived, AfterSent
<1>1. CASE ServerStep
  <2>1. /\ stage' = stage /\ dump' = dump /\ people \subseteq people' /\ stage \in Stages
        /\ \A i \in DOMAIN sent : sent'[i] = sent[i]
        /\ \A i \in DOMAIN sent' : i \in DOMAIN sent \/ sent'[i].early = (stage = "clients")
    BY <1>1, ExportGroups, ServerKept DEF TablesInv
  <2>2. Known \subseteq Known' /\ TheirRecipients' = TheirRecipients
    BY <2>1 DEF Known, TheirRecipients, PossibleSenders
  <2>3. people' \subseteq people \union {Joiner}
    BY <1>1 DEF ServerStep, Sends, Joins, MakesStream
  <2>4. ASSUME NEW i \in DOMAIN sent, sent'[i].early
        PROVE  /\ sent'[i].sender \in Known' \union Dummies \union {BotHere}
               /\ Joiner \in sent'[i].to.who => Joiner \in Known'
               /\ sent'[i].to.type = "personal" /\ stage' \in AfterPersonal =>
                    \/ sent'[i].to \in dump'.personal
                    \/ sent'[i].sender \in dump'.users /\ sent'[i].to \in TheirRecipients'
               /\ sent'[i].to.type = "stream" /\ stage' \in AfterStreams => sent'[i].to \in dump'.streams
               /\ sent'[i].to.type = "huddle" /\ stage' \in AfterHuddles
                    /\ sent'[i].to.who \subseteq people' \union Dummies => sent'[i].to \in dump'.huddles
    <3>1. sent'[i] = sent[i] /\ sent[i].early
      BY <2>1, <2>4
    <3>2. stage \in AfterHuddles /\ sent[i].to.who \subseteq people' \union Dummies => sent[i].to.who \subseteq people \union Dummies
      BY <2>3, <3>1 DEF EarlyInv, TablesInv, Known
    <3> QED BY <2>1, <2>2, <3>1, <3>2 DEF EarlyInv
  <2>5. ASSUME NEW i \in DOMAIN sent', i \notin DOMAIN sent, sent'[i].early
        PROVE  /\ stage = "clients" /\ sent'[i].sender \in Known' \union Dummies \union {BotHere}
               /\ Joiner \in sent'[i].to.who => Joiner \in Known'
    <3>1. stage = "clients"
      BY <2>1, <2>5
    <3>2. PICK t \in Traffic : Sends(t)
      BY <1>1, <2>5 DEF ServerStep, Joins, MakesStream
    <3>3. i = Len(sent) + 1 /\ sent'[i].sender = t.sender /\ sent'[i].to = t.to
      <4>1. i = Len(sent) + 1
        <5>1. Len(sent) \in Nat /\ DOMAIN sent = 1 .. Len(sent) /\ DOMAIN sent' = 1 .. Len(sent) + 1
          BY <3>2, SentGrows
        <5> QED BY <2>5, <5>1
      <4>2. sent'[Len(sent) + 1] =
              [sender |-> t.sender, to |-> t.to, client |-> ClientHere[t.client],
               clientName |-> t.client, early |-> stage = "clients",
               file |-> t.file, rows |-> Receivers(t)]
        BY <3>2, SentGrows
      <4> QED BY <4>1, <4>2
    <3>4. t.sender \in people \union Dummies \union {BotHere} /\ (Joiner \in t.to.who => Joiner \in people)
      BY <3>2 DEF Sends
    <3> QED BY <2>1, <3>1, <3>3, <3>4 DEF Known
  <2> QED BY <2>1, <2>4, <2>5 DEF EarlyInv
<1>2. CASE WriteStep \/ ThreadStep \/ ImportStep
  <2>1. sent' = sent /\ people' = people
    BY <1>2, ExportGroups DEF sourceVars
  <2>2. /\ dump'.users = dump.users /\ dump'.dummies = dump.dummies /\ dump'.personal = dump.personal
        /\ dump'.streams = dump.streams /\ dump'.huddles = dump.huddles
    <3>1. CASE WriteStep
      <4>1. ASSUME NEW query, NEW wanted \in SUBSET DOMAIN sent, NEW next, WritePartial(query, wanted, next)
            PROVE  dump' = [dump EXCEPT !.min = dump'.min]
        BY <4>1, ChunkWritten DEF TablesInv, ShardsInv
      <4>2. dump' = [dump EXCEPT !.min = dump'.min]
        BY <3>1, <4>1, WantedAreSent DEF WriteStep
      <4> QED BY <4>2 DEF TablesInv, Dump
    <3>2. CASE ~WriteStep
      BY <1>2, <3>2, ExportGroups
    <3> QED BY <3>1, <3>2
  <2>3. stage \in AfterUploads /\ stage' \in AfterUploads \union {"failed"}
    BY <1>2, StageMoves
  <2>4. Known' = Known /\ TheirRecipients' = TheirRecipients
    BY <2>2, <2>3 DEF Known, TheirRecipients, PossibleSenders
  <2> QED BY <2>1, <2>2, <2>3, <2>4 DEF EarlyInv
<1>3. CASE TableStep
  <2>1. sent' = sent /\ people' = people /\ dump \in Dump /\ streams' = streams
    BY <1>3, ExportGroups DEF sourceVars, TablesInv
  <2> SUFFICES ASSUME NEW i \in DOMAIN sent, sent[i].early
               PROVE  /\ sent[i].sender \in Known' \union Dummies \union {BotHere}
                      /\ Joiner \in sent[i].to.who => Joiner \in Known'
                      /\ sent[i].to.type = "personal" /\ stage' \in AfterPersonal =>
                           \/ sent[i].to \in dump'.personal
                           \/ sent[i].sender \in dump'.users /\ sent[i].to \in TheirRecipients'
                      /\ sent[i].to.type = "stream" /\ stage' \in AfterStreams => sent[i].to \in dump'.streams
                      /\ sent[i].to.type = "huddle" /\ stage' \in AfterHuddles
                           /\ sent[i].to.who \subseteq people \union Dummies => sent[i].to \in dump'.huddles
    BY <2>1 DEF EarlyInv
  <2>2. /\ sent[i].sender \in Known \union Dummies \union {BotHere}
        /\ Joiner \in sent[i].to.who => Joiner \in Known
        /\ sent[i].to.type = "personal" /\ stage \in AfterPersonal =>
             \/ sent[i].to \in dump.personal
             \/ sent[i].sender \in dump.users /\ sent[i].to \in TheirRecipients
        /\ sent[i].to.type = "stream" /\ stage \in AfterStreams => sent[i].to \in dump.streams
        /\ sent[i].to.type = "huddle" /\ stage \in AfterHuddles
             /\ sent[i].to.who \subseteq people \union Dummies => sent[i].to \in dump.huddles
    BY DEF EarlyInv
  <2>3. CASE stage = "clients" /\ stage' = "users"
    BY <2>1, <2>2, <2>3 DEF Known
  <2>4. CASE stage = "users" /\ stage' = "personal" /\ dump' = [dump EXCEPT !.users = people, !.dummies = Dummies]
    <3>1. dump'.users = people
      BY <2>1, <2>4 DEF Dump
    <3> QED BY <2>2, <2>4, <3>1 DEF Known
  <2>5. CASE stage = "personal" /\ stage' = "subscriptions"
             /\ dump' = [dump EXCEPT !.personal = {Personal(u) : u \in dump.users}]
    <3>1. dump'.users = dump.users /\ dump'.dummies = dump.dummies /\ dump'.personal = {Personal(u) : u \in dump.users}
      BY <2>1, <2>5 DEF Dump
    <3>2. Known' = Known /\ Known = dump.users
      BY <2>5, <3>1 DEF Known
    <3>3. dump.dummies = Dummies /\ Staff \subseteq dump.users
      BY <2>5 DEF TablesInv
    <3>4. ASSUME sent[i].to.type = "personal"
          PROVE  \/ sent[i].to \in dump'.personal
                 \/ sent[i].sender \in dump'.users /\ sent[i].to \in TheirRecipients'
      <4>1. PICK u \in Realm \union Dummies \union {BotHere} :
              sent[i].to = Personal(u) /\ (u \in Realm \/ sent[i].sender \in Realm)
        BY <3>4, WhomTo
      <4>2. \A v \in Realm : v \in dump.users \/ v = Joiner
        BY <3>3 DEF Realm
      <4>3. CASE u \in dump.users
        BY <3>1, <4>1, <4>3
      <4>4. CASE u \notin dump.users
        <5>1. u \notin Realm
          BY <2>2, <3>2, <4>1, <4>2, <4>4 DEF Personal
        <5>2. sent[i].to \in TheirRecipients'
          BY <3>1, <3>3, <4>1, <4>4, <5>1 DEF TheirRecipients, PossibleSenders
        <5>3. sent[i].sender \in dump.users
          BY <2>2, <3>2, <4>1, <5>1, RealmExportAssumption DEF Realm
        <5> QED BY <3>1, <5>2, <5>3
      <4> QED BY <4>3, <4>4
    <3> QED BY <2>2, <2>5, <3>2, <3>4
  <2>6. CASE stage = "subscriptions" /\ stage' = "streams" /\ dump' = [dump EXCEPT !.streamSubs = dump'.streamSubs]
    <3>1. /\ dump'.users = dump.users /\ dump'.dummies = dump.dummies /\ dump'.personal = dump.personal
      BY <2>1, <2>6 DEF Dump
    <3>2. Known' = Known /\ TheirRecipients' = TheirRecipients
      BY <2>6, <3>1 DEF Known, TheirRecipients, PossibleSenders
    <3> QED BY <2>2, <2>6, <3>1, <3>2
  <2>7. CASE stage = "streams" /\ stage' = "huddles"
             /\ dump' = [dump EXCEPT !.streams = {InStream(s) : s \in DOMAIN streams}]
    <3>1. /\ dump'.users = dump.users /\ dump'.dummies = dump.dummies /\ dump'.personal = dump.personal
          /\ dump'.streams = {InStream(s) : s \in DOMAIN streams}
      BY <2>1, <2>7 DEF Dump
    <3>2. Known' = Known /\ TheirRecipients' = TheirRecipients
      BY <2>7, <3>1 DEF Known, TheirRecipients, PossibleSenders
    <3>3. sent[i].to.type = "stream" => sent[i].to \in dump'.streams
      <4>1. sent[i].to.type = "stream" => sent[i].to.who \subseteq DOMAIN streams
        BY DEF ServerInv
      <4>2. sent[i].to.type = "stream" => \E s \in {HomeStream, LateStream} : sent[i].to = InStream(s)
        BY WhomTo
      <4>3. \A s : InStream(s).who = {s}
        BY DEF InStream
      <4> QED BY <3>1, <4>1, <4>2, <4>3
    <3> QED BY <2>2, <2>7, <3>1, <3>2, <3>3
  <2>8. CASE stage = "streams" /\ stage' = "failed" /\ dump' = dump
    BY <2>1, <2>2, <2>8 DEF Known
  <2>9. CASE stage = "huddles" /\ stage' = "uploads"
             /\ dump' = [dump EXCEPT !.huddles = {h \in HuddlesOf(dump.users) : h.who \subseteq people \union Dummies}]
    <3>1. /\ dump'.users = dump.users /\ dump'.dummies = dump.dummies /\ dump'.personal = dump.personal
          /\ dump'.streams = dump.streams
          /\ dump'.huddles = {h \in HuddlesOf(dump.users) : h.who \subseteq people \union Dummies}
      BY <2>1, <2>9 DEF Dump
    <3>2. Known' = Known /\ TheirRecipients' = TheirRecipients /\ Known = dump.users
      BY <2>9, <3>1 DEF Known, TheirRecipients, PossibleSenders
    <3>3. sent[i].to.type = "huddle" => sent[i].to \in HuddlesOf(dump.users)
      <4>1. Staff \subseteq dump.users
        BY <2>9 DEF TablesInv
      <4>2. sent[i].to.type = "huddle" => sent[i].to.who \intersect Realm # {}
        BY WhomTo
      <4>3. sent[i].to.type = "huddle" => sent[i].to.who \intersect dump.users # {}
        BY <2>2, <3>2, <4>1, <4>2 DEF Realm
      <4> QED BY <4>3 DEF HuddlesOf
    <3> QED BY <2>2, <2>9, <3>1, <3>2, <3>3
  <2>10. CASE stage \in {"uploads", "attachments"} /\ stage' \in {"received", "launch"}
              /\ dump'.users = dump.users /\ dump'.dummies = dump.dummies /\ dump'.personal = dump.personal
              /\ dump'.streams = dump.streams /\ dump'.huddles = dump.huddles
    <3>1. Known' = Known /\ TheirRecipients' = TheirRecipients
      BY <2>10 DEF Known, TheirRecipients, PossibleSenders
    <3> QED BY <2>2, <2>10, <3>1
  <2>11. CASE stage = "uploads" /\ stage' = "received" /\ dump' = [dump EXCEPT !.uploads = files]
    <3>1. /\ dump'.users = dump.users /\ dump'.dummies = dump.dummies /\ dump'.personal = dump.personal
          /\ dump'.streams = dump.streams /\ dump'.huddles = dump.huddles
      BY <2>1, <2>11 DEF Dump
    <3> QED BY <2>10, <2>11, <3>1
  <2>12. CASE stage = "attachments" /\ stage' = "launch"
              /\ dump' = [dump EXCEPT !.attachments =
                             [f \in {g \in files : LinkedMessages(g) # {}} |-> LinkedMessages(f)]]
    <3>1. /\ dump'.users = dump.users /\ dump'.dummies = dump.dummies /\ dump'.personal = dump.personal
          /\ dump'.streams = dump.streams /\ dump'.huddles = dump.huddles
      BY <2>1, <2>12 DEF Dump
    <3> QED BY <2>10, <2>12, <3>1
  <2>13. \/ /\ stage = "clients" /\ stage' = "users"
            /\ dump' = [dump EXCEPT !.clients = clients]
         \/ /\ stage = "users" /\ stage' = "personal"
            /\ dump' = [dump EXCEPT !.users = people, !.dummies = Dummies]
         \/ /\ stage = "personal" /\ stage' = "subscriptions"
            /\ dump' = [dump EXCEPT !.personal = {Personal(u) : u \in dump.users}]
         \/ /\ stage = "subscriptions" /\ stage' = "streams"
            /\ dump' = [dump EXCEPT !.streamSubs = dump'.streamSubs]
         \/ /\ stage = "streams" /\ stage' = "huddles"
            /\ dump' = [dump EXCEPT !.streams = {InStream(s) : s \in DOMAIN streams}]
         \/ stage = "streams" /\ stage' = "failed" /\ dump' = dump
         \/ /\ stage = "huddles" /\ stage' = "uploads"
            /\ dump' = [dump EXCEPT !.huddles = {h \in HuddlesOf(dump.users) : h.who \subseteq people \union Dummies}]
         \/ /\ stage = "uploads" /\ stage' = "received"
            /\ dump' = [dump EXCEPT !.uploads = files]
         \/ /\ stage = "attachments" /\ stage' = "launch"
            /\ dump' = [dump EXCEPT !.attachments =
                          [f \in {g \in files : LinkedMessages(g) # {}} |-> LinkedMessages(f)]]
    BY <1>3, <2>1, TableWritten
  <2> QED BY <2>3, <2>4, <2>5, <2>6, <2>7, <2>8, <2>9, <2>11, <2>12, <2>13
<1> QED BY <1>1, <1>2, <1>3, ExportGroups

\* What the queries of messages want of the old messages stays, once the tables are
\* read; of the new ones, none was there when the export began.
LEMMA WantedKept ==
  ASSUME ServerInv, TablesInv, ShardsInv, ThreadsInv, ExportNext, stage \notin Reading
  PROVE  /\ dump'.users = dump.users
         /\ \A i \in DOMAIN sent : /\ i \in messages_we_received' <=> i \in messages_we_received
                                   /\ i \in messages_we_sent_to_them' <=> i \in messages_we_sent_to_them
         /\ \A i \in messages_we_received' \union messages_we_sent_to_them' :
              i \in DOMAIN sent \/ (i > dump.min /\ ~sent'[i].early)
<1>1. /\ dump'.users = dump.users /\ dump'.dummies = dump.dummies /\ dump'.personal = dump.personal
      /\ dump'.streams = dump.streams /\ dump'.huddles = dump.huddles
  <2>1. CASE WriteStep
    <3>1. ASSUME NEW query, NEW wanted \in SUBSET DOMAIN sent, NEW next, WritePartial(query, wanted, next)
          PROVE  dump' = [dump EXCEPT !.min = dump'.min]
      BY <3>1, ChunkWritten DEF TablesInv, ShardsInv
    <3>2. dump' = [dump EXCEPT !.min = dump'.min]
      BY <2>1, <3>1, WantedAreSent DEF WriteStep
    <3> QED BY <3>2 DEF TablesInv, Dump
  <2>2. CASE TableStep
    <3>1. dump \in Dump
      BY DEF TablesInv
    <3>2. dump' = [dump EXCEPT !.attachments =
                             [f \in {g \in files : LinkedMessages(g) # {}} |-> LinkedMessages(f)]]
      BY <2>2, <3>1, TableWritten DEF Reading
    <3> QED BY <3>1, <3>2 DEF Dump
  <2>3. CASE ~WriteStep /\ ~TableStep
    BY <2>3, ExportGroups
  <2> QED BY <2>1, <2>2, <2>3
<1>2. PossibleSenders' = PossibleSenders /\ OurRecipients' = OurRecipients /\ TheirRecipients' = TheirRecipients
  BY <1>1 DEF PossibleSenders, OurRecipients, TheirRecipients
<1>3. /\ DOMAIN sent = 1 .. Len(sent) /\ DOMAIN sent' = 1 .. Len(sent') /\ Len(sent) \in Nat
      /\ Len(sent) <= Len(sent') /\ Len(sent') \in Nat
      /\ \A i \in DOMAIN sent : sent'[i] = sent[i]
      /\ \A i \in DOMAIN sent' : i \in DOMAIN sent \/ sent'[i].early = (stage = "clients")
  <2>1. ServerInv'
    BY ServerKept
  <2>2. Len(sent') \in Nat
    BY <2>1 DEF ServerInv
  <2> QED BY <2>2, ServerKept
<1>4. ASSUME NEW i \in DOMAIN sent
      PROVE  /\ i \in messages_we_received' <=> i \in messages_we_received
             /\ i \in messages_we_sent_to_them' <=> i \in messages_we_sent_to_them
  <2>1. i \in DOMAIN sent' /\ sent'[i] = sent[i]
    BY <1>3
  <2>2. i \in messages_we_received' <=> i \in messages_we_received
    BY <1>2, <2>1 DEF messages_we_received
  <2>3. i \in messages_we_sent_to_them' <=> i \in messages_we_sent_to_them
    BY <1>1, <1>2, <2>1 DEF messages_we_sent_to_them
  <2> QED BY <2>2, <2>3
<1>5. ASSUME NEW i \in messages_we_received' \union messages_we_sent_to_them', i \notin DOMAIN sent
      PROVE  i > dump.min /\ ~sent'[i].early
  <2>1. i \in DOMAIN sent'
    BY DEF messages_we_received, messages_we_sent_to_them
  <2>2. i > dump.min
    BY <1>3, <1>5, <2>1 DEF TablesInv
  <2>3. stage # "clients"
    BY DEF Reading
  <2>4. ~sent'[i].early
    BY <1>3, <1>5, <2>1, <2>3
  <2> QED BY <2>2, <2>4
<1> QED BY <1>1, <1>4, <1>5

\* The files stay those of what was wanted, and nothing early is passed over.
LEMMA ShardsKept ==
  ASSUME ServerInv, TablesInv, ShardsInv, ThreadsInv, ExportNext
  PROVE  ShardsInv'
<1> USE DEF AfterReceived, AfterSent
<1>1. /\ shards' \in Seq(Shard) /\ Len(shards) \in Nat /\ DOMAIN shards = 1 .. Len(shards)
      /\ DOMAIN shards' = 1 .. Len(shards') /\ Exported \subseteq Exported'
      /\ \A n \in DOMAIN shards : shards'[n].msg = shards[n].msg
      /\ ~WriteStep => DOMAIN shards' = DOMAIN shards
                        /\ \A n \in DOMAIN shards : shards'[n].rows = shards[n].rows \/ shards'[n].rows \subseteq dump.users
  BY ShardsGrow
<1>2. TablesInv' /\ ServerInv'
  BY TablesKept, ServerKept
<1>3. CASE stage \in Reading
  <2>1. ServerStep \/ TableStep
    BY <1>3, StageMoves, ExportGroups DEF Reading
  <2>2. shards = <<>> /\ shards' = <<>>
    BY <1>3, <2>1, ExportGroups DEF ShardsInv
  <2>3. stage' \in Reading \union {"received", "failed"}
    <3>1. CASE ServerStep
      BY <1>3, <3>1, ExportGroups
    <3>2. CASE TableStep
      BY <1>3, <3>2, TableWritten DEF Reading, TablesInv
    <3> QED BY <2>1, <3>1, <3>2
  <2>4. stage' = "received" => dump'.min = 0
    <3>1. CASE ServerStep
      BY <1>3, <3>1, ExportGroups DEF Reading
    <3>2. CASE TableStep
      <4>1. dump \in Dump
        BY DEF TablesInv
      <4>2. stage' = "received" => stage = "uploads" /\ dump' = [dump EXCEPT !.uploads = files]
        BY <1>3, <3>2, <4>1, TableWritten DEF Reading
      <4>3. stage = "uploads" => dump.min = 0
        BY DEF TablesInv
      <4> QED BY <4>1, <4>2, <4>3 DEF Dump
    <3> QED BY <2>1, <3>1, <3>2
  <2>5. \A i \in messages_we_received' : i \in Nat /\ i > 0
    BY <1>2 DEF messages_we_received, ServerInv
  <2>6. stage' = "received" => \A i \in messages_we_received' : i <= dump'.min => i \in Exported'
    BY <2>4, <2>5
  <2>7. stage' \in Reading => shards' = <<>>
    BY <2>2
  <2>8. stage' \notin AfterReceived /\ stage' # "sent"
    BY <2>3 DEF Reading
  <2>9. DOMAIN shards' = {}
    BY <2>2
  <2> QED BY <1>1, <2>6, <2>7, <2>8, <2>9 DEF ShardsInv
<1>4. CASE stage \notin Reading
  <2>1. /\ dump'.users = dump.users
        /\ \A i \in DOMAIN sent : /\ i \in messages_we_received' <=> i \in messages_we_received
                                  /\ i \in messages_we_sent_to_them' <=> i \in messages_we_sent_to_them
        /\ \A i \in messages_we_received' \union messages_we_sent_to_them' :
             i \in DOMAIN sent \/ (i > dump.min /\ ~sent'[i].early)
    BY <1>4, WantedKept
  <2>2. \A i \in DOMAIN sent : sent'[i] = sent[i]
    BY ServerKept
  <2>3. stage' \notin Reading
    BY <1>4, StageMoves, TableWritten, ExportGroups DEF Reading, TablesInv
  <2>4. \A n \in DOMAIN shards :
          /\ shards'[n].msg \in messages_we_received' \union messages_we_sent_to_them'
          /\ shards[n].rows \subseteq dump'.users
    <3>1. \A n \in DOMAIN shards : /\ shards[n].msg \in messages_we_received \union messages_we_sent_to_them
                                   /\ shards[n].rows \subseteq dump.users
      BY DEF ShardsInv
    <3> QED BY <1>1, <2>1, <3>1, WantedAreSent
  <2>5. CASE ~WriteStep
    <3>1. \A n \in DOMAIN shards' :
            /\ shards'[n].msg \in messages_we_received' \union messages_we_sent_to_them'
            /\ shards'[n].rows \subseteq dump'.users
      BY <1>1, <2>1, <2>4, <2>5
    <3>2. stage' \in {"received", "sent"} => stage = stage' /\ dump' = dump
      BY <1>4, <2>5, StageMoves, TableWritten, ExportGroups DEF Reading, TablesInv
    <3>3. /\ stage' \in AfterReceived => stage \in AfterReceived
          /\ stage' \in AfterSent => stage \in AfterSent
      BY <1>4, <2>5, StageMoves, TableWritten, ExportGroups DEF Reading, TablesInv
    <3>4. stage' = "received" => \A i \in messages_we_received' : i <= dump'.min => i \in Exported'
      <4>1. ASSUME NEW i \in messages_we_received', stage' = "received", i <= dump'.min PROVE i \in Exported
        <5>1. i \in DOMAIN sent /\ stage = "received" /\ i <= dump.min
          <6>1. i \in DOMAIN sent' /\ i \in Nat /\ dump.min \in Nat
            BY <1>2 DEF messages_we_received, ServerInv, TablesInv
          <6> QED BY <2>1, <3>2, <4>1, <6>1
        <5> QED BY <2>1, <5>1 DEF ShardsInv
      <4> QED BY <1>1, <4>1
    <3>5. stage' = "sent" => \A i \in messages_we_sent_to_them' : i <= dump'.min => i \in Exported'
      <4>1. ASSUME NEW i \in messages_we_sent_to_them', stage' = "sent", i <= dump'.min PROVE i \in Exported
        <5>1. i \in DOMAIN sent /\ stage = "sent" /\ i <= dump.min
          <6>1. i \in DOMAIN sent' /\ i \in Nat /\ dump.min \in Nat
            BY <1>2 DEF messages_we_sent_to_them, ServerInv, TablesInv
          <6> QED BY <2>1, <3>2, <4>1, <6>1
        <5> QED BY <2>1, <5>1 DEF ShardsInv
      <4> QED BY <1>1, <4>1
    <3>6. stage' \in AfterReceived => \A i \in messages_we_received' : sent'[i].early => i \in Exported'
      BY <1>1, <2>1, <2>2, <3>3 DEF ShardsInv
    <3>7. stage' \in AfterSent => \A i \in messages_we_sent_to_them' : sent'[i].early => i \in Exported'
      BY <1>1, <2>1, <2>2, <3>3 DEF ShardsInv
    <3> QED BY <1>1, <2>3, <3>1, <3>4, <3>5, <3>6, <3>7 DEF ShardsInv
  <2>6. CASE WriteStep
    <3>1. sent' = sent /\ dump \in Dump /\ dump.min \in Nat /\ shards \in Seq(Shard) /\ dump'.min \in Nat
      BY <1>2, <2>6, ExportGroups DEF sourceVars, TablesInv, ShardsInv
    <3>2. messages_we_received' = messages_we_received /\ messages_we_sent_to_them' = messages_we_sent_to_them
      BY <2>1, <3>1, WantedAreSent DEF messages_we_received, messages_we_sent_to_them
    <3>3. \A i \in messages_we_received \union messages_we_sent_to_them : i \in Nat /\ i > 0
      BY WantedAreSent DEF ServerInv
    <3>4. ASSUME NEW query, NEW wanted \in SUBSET DOMAIN sent, NEW next, WritePartial(query, wanted, next),
                 wanted \subseteq messages_we_received \union messages_we_sent_to_them,
                 \A i \in wanted : i <= dump.min => i \in Exported
          PROVE  /\ stage = query
                 /\ \A n \in DOMAIN shards' :
                      /\ shards'[n].msg \in messages_we_received' \union messages_we_sent_to_them'
                      /\ shards'[n].rows \subseteq dump'.users
                 /\ \/ stage' = next /\ dump'.min = 0 /\ \A i \in wanted : i \in Exported'
                    \/ stage' = query /\ \A i \in wanted : i <= dump'.min => i \in Exported'
      <4>0. stage = query
        BY <3>1, <3>4, ChunkWritten
      <4>1. CASE stage' = next /\ shards' = shards /\ dump'.min = 0 /\ \A i \in wanted : i <= dump.min
        BY <1>1, <2>4, <3>2, <3>4, <4>0, <4>1
      <4>2. ASSUME stage' = stage, NEW i \in wanted,
                   shards' = Append(shards, [msg |-> i, state |-> "partial", rows |-> {}]),
                   dump'.min = i, dump.min < i, \A j \in wanted : dump.min < j => i <= j
            PROVE  /\ \A n \in DOMAIN shards' :
                        /\ shards'[n].msg \in messages_we_received' \union messages_we_sent_to_them'
                        /\ shards'[n].rows \subseteq dump'.users
                   /\ stage' = query /\ \A j \in wanted : j <= dump'.min => j \in Exported'
        <5> DEFINE n == Len(shards) + 1
        <5>1. /\ DOMAIN shards' = 1 .. n /\ shards'[n] = [msg |-> i, state |-> "partial", rows |-> {}]
              /\ \A k \in DOMAIN shards : shards'[k] = shards[k]
              /\ DOMAIN shards' = DOMAIN shards \union {n}
          <6> DEFINE m == [msg |-> i, state |-> "partial", rows |-> {}]
          <6>1. i \in Nat
            BY <3>3, <3>4, <4>2
          <6>2. m \in Shard /\ shards' = Append(shards, m)
            BY <4>2, <6>1 DEF Shard
          <6> HIDE DEF m
          <6>0. Len(shards) \in Nat /\ DOMAIN shards = 1 .. Len(shards) /\ shards \in Seq(Shard)
            BY <1>1, <3>1
          <6>3. /\ DOMAIN shards' = 1 .. Len(shards) + 1 /\ shards'[Len(shards) + 1] = m
                /\ \A k \in DOMAIN shards : shards'[k] = shards[k]
            BY <6>0, <6>2
          <6>4. DOMAIN shards' = DOMAIN shards \union {n}
            BY <6>0, <6>3
          <6> QED BY <6>3, <6>4 DEF m
        <5>2. shards'[n].msg = i /\ shards'[n].rows = {} /\ i \in Exported'
          BY <5>1 DEF Exported
        <5>3. \A k \in DOMAIN shards' :
                /\ shards'[k].msg \in messages_we_received' \union messages_we_sent_to_them'
                /\ shards'[k].rows \subseteq dump'.users
          <6> HIDE DEF n
          <6> QED BY <2>4, <3>2, <3>4, <5>1, <5>2
        <5>4. ASSUME NEW j \in wanted, j <= dump'.min PROVE j \in Exported'
          <6>1. j \in Nat /\ i \in Nat
            BY <3>3, <3>4
          <6>2. CASE j <= dump.min
            BY <1>1, <3>4, <6>2
          <6>3. CASE ~(j <= dump.min)
            <7>1. j = i
              BY <3>1, <4>2, <5>4, <6>1, <6>3
            <7> QED BY <5>2, <7>1
          <6> QED BY <6>2, <6>3
        <5> QED BY <4>0, <4>2, <5>3, <5>4
      <4>3. \/ stage' = next /\ shards' = shards /\ dump'.min = 0 /\ \A i \in wanted : i <= dump.min
            \/ /\ stage' = stage /\ \E i \in wanted :
                    /\ shards' = Append(shards, [msg |-> i, state |-> "partial", rows |-> {}])
                    /\ dump'.min = i /\ dump.min < i /\ \A j \in wanted : dump.min < j => i <= j
        BY <3>1, <3>4, ChunkWritten
      <4> QED BY <4>0, <4>1, <4>2, <4>3
    <3>5. CASE WritePartial("received", messages_we_received, "sent")
      <4>1. stage = "received"
        BY <3>5 DEF WritePartial
      <4>2. \A i \in messages_we_received : i <= dump.min => i \in Exported
        BY <4>1 DEF ShardsInv
      <4>3. /\ \A n \in DOMAIN shards' :
                 /\ shards'[n].msg \in messages_we_received' \union messages_we_sent_to_them'
                 /\ shards'[n].rows \subseteq dump'.users
            /\ \/ stage' = "sent" /\ dump'.min = 0 /\ \A i \in messages_we_received : i \in Exported'
               \/ stage' = "received" /\ \A i \in messages_we_received : i <= dump'.min => i \in Exported'
        BY <3>4, <3>5, <4>2, WantedAreSent
      <4>4. CASE stage' = "sent" /\ dump'.min = 0 /\ \A i \in messages_we_received : i \in Exported'
        <5>1. \A i \in messages_we_sent_to_them' : i <= dump'.min => i \in Exported'
          BY <3>2, <3>3, <4>4
        <5> QED BY <1>1, <2>3, <3>2, <4>3, <4>4, <5>1 DEF ShardsInv
      <4>5. CASE stage' = "received" /\ \A i \in messages_we_received : i <= dump'.min => i \in Exported'
        BY <1>1, <2>3, <3>2, <4>3, <4>5 DEF ShardsInv
      <4> QED BY <4>3, <4>4, <4>5
    <3>6. CASE WritePartial("sent", messages_we_sent_to_them, "attachments")
      <4>1. stage = "sent"
        BY <3>6 DEF WritePartial
      <4>2. \A i \in messages_we_sent_to_them : i <= dump.min => i \in Exported
        BY <4>1 DEF ShardsInv
      <4>3. /\ \A n \in DOMAIN shards' :
                 /\ shards'[n].msg \in messages_we_received' \union messages_we_sent_to_them'
                 /\ shards'[n].rows \subseteq dump'.users
            /\ \/ stage' = "attachments" /\ dump'.min = 0 /\ \A i \in messages_we_sent_to_them : i \in Exported'
               \/ stage' = "sent" /\ \A i \in messages_we_sent_to_them : i <= dump'.min => i \in Exported'
        BY <3>4, <3>6, <4>2, WantedAreSent
      <4>4. \A i \in messages_we_received' : sent'[i].early => i \in Exported'
        BY <1>1, <3>1, <3>2, <4>1 DEF ShardsInv
      <4> QED BY <1>1, <2>3, <3>2, <4>3, <4>4 DEF ShardsInv
    <3> QED BY <2>6, <3>5, <3>6 DEF WriteStep
  <2> QED BY <2>5, <2>6
<1> QED BY <1>3, <1>4

\* A file is claimed by one, as long as no process fails, and done when all have ended.
LEMMA ThreadsKept ==
  ASSUME ServerInv, TablesInv, ShardsInv, ThreadsInv, ExportNext
  PROVE  ThreadsInv'
<1>0. /\ shards' \in Seq(Shard) /\ Len(shards) \in Nat /\ DOMAIN shards = 1 .. Len(shards)
      /\ DOMAIN shards' = 1 .. Len(shards') /\ DOMAIN shards \subseteq DOMAIN shards'
      /\ ~WriteStep => DOMAIN shards' = DOMAIN shards
  BY ShardsGrow
<1>1. shards \in Seq(Shard) /\ \A n \in DOMAIN shards : shards[n] \in Shard /\ n # 0
  BY DEF ShardsInv
<1>2. /\ failures \in Nat
      /\ globbed \in [Threads -> SUBSET DOMAIN shards] /\ claimed \in [Threads -> {0} \union DOMAIN shards]
  BY DEF ThreadsInv
<1>3. CASE WriteStep
  <2>1. globbed' = globbed /\ claimed' = claimed /\ failures' = failures
    BY <1>3, ExportGroups
  <2>2. stage \in {"received", "sent"} /\ stage' \in {"received", "sent", "attachments"}
    BY <1>3, StageMoves
  <2>3. \A n \in DOMAIN shards : shards[n].state = "partial"
    BY <2>2 DEF ThreadsInv, Collecting
  <2>4. /\ globbed' \in [Threads -> SUBSET DOMAIN shards']
        /\ claimed' \in [Threads -> {0} \union DOMAIN shards']
    BY <1>0, <1>2, <2>1
  <2>5. \A n \in DOMAIN shards' : shards'[n].state = "partial"
    <3>1. ASSUME NEW query, NEW wanted \in SUBSET DOMAIN sent, NEW next, WritePartial(query, wanted, next)
          PROVE  \A n \in DOMAIN shards' : shards'[n].state = "partial"
      <4>1. \/ shards' = shards
            \/ \E i \in wanted : shards' = Append(shards, [msg |-> i, state |-> "partial", rows |-> {}])
        BY <1>1, <3>1, ChunkWritten DEF TablesInv
      <4>2. ASSUME NEW i \in wanted, shards' = Append(shards, [msg |-> i, state |-> "partial", rows |-> {}])
            PROVE  \A n \in DOMAIN shards' : shards'[n].state = "partial"
        <5> DEFINE m == [msg |-> i, state |-> "partial", rows |-> {}]
        <5>1. m.state = "partial" /\ shards' = Append(shards, m)
          BY <4>2
        <5>2. m \in Shard
          <6>1. i \in Nat
            BY DEF ServerInv
          <6> QED BY <6>1 DEF Shard
        <5> HIDE DEF m
        <5>3. Len(shards) \in Nat /\ DOMAIN shards = 1 .. Len(shards) /\ shards \in Seq(Shard)
          BY <1>0, <1>1
        <5>4. /\ DOMAIN shards' = 1 .. Len(shards) + 1 /\ shards'[Len(shards) + 1] = m
              /\ \A k \in DOMAIN shards : shards'[k] = shards[k]
          BY <5>1, <5>2, <5>3
        <5>5. DOMAIN shards' = DOMAIN shards \union {Len(shards) + 1}
          BY <5>3, <5>4
        <5> QED BY <2>3, <5>1, <5>4, <5>5
      <4> QED BY <2>3, <4>1, <4>2
    <3> QED BY <1>3, <3>1, WantedAreSent DEF WriteStep
  <2> QED BY <1>2, <2>1, <2>2, <2>4, <2>5 DEF ThreadsInv
<1>4. CASE ServerStep \/ TableStep \/ ImportStep
  <2>1. shards' = shards /\ globbed' = globbed /\ claimed' = claimed /\ failures' = failures
    BY <1>4, ExportGroups
  <2>2. /\ stage' = "batches" <=> stage = "batches"
        /\ stage' \in Collecting \union {"attachments", "launch"} => stage \in Collecting \union {"attachments", "launch"}
        /\ stage' \in {"import", "links", "imported"} => stage \in {"import", "links", "imported"}
    <3>1. CASE ServerStep
      BY <3>1, ExportGroups
    <3>2. CASE TableStep
      <4>1. dump \in Dump
        BY DEF TablesInv
      <4> QED BY <3>2, <4>1, TableWritten DEF Collecting, Reading
    <3>3. CASE ImportStep
      BY <3>3, StageMoves DEF Collecting, Reading
    <3> QED BY <1>4, <3>1, <3>2, <3>3
  <2> QED BY <2>1, <2>2 DEF ThreadsInv
<1>5. CASE ThreadStep
  <2>1. CASE LaunchThreads
    <3>1. /\ stage = "launch" /\ stage' = "batches" /\ shards' = shards /\ claimed' = claimed /\ failures' = failures
          /\ globbed' = [t \in Threads |-> {n \in DOMAIN shards : shards[n].state = "partial"}]
      BY <2>1 DEF LaunchThreads
    <3>2. \A n \in DOMAIN shards : shards[n].state = "partial"
      BY <3>1 DEF ThreadsInv
    <3>3. \A t \in Threads : globbed'[t] = DOMAIN shards
      BY <3>1, <3>2
    <3>4. globbed' \in [Threads -> SUBSET DOMAIN shards]
      BY <3>1
    <3>5. stage' \notin Collecting \union {"attachments", "launch"}
      BY <3>1 DEF Collecting, Reading
    <3> QED BY <1>2, <3>1, <3>2, <3>3, <3>4, <3>5 DEF ThreadsInv
  <2>2. CASE ExportEnds
    <3>1. /\ stage = "batches" /\ stage' = "import" /\ shards' = shards /\ claimed' = claimed /\ failures' = failures
          /\ globbed' = globbed /\ \A t \in Threads : globbed[t] = {} /\ claimed[t] = 0
      BY <2>2 DEF ExportEnds
    <3>2. failures = 0 => \A n \in DOMAIN shards : shards[n].state = "json"
      <4>1. failures = 0 => \A n \in DOMAIN shards :
              \/ shards[n].state = "json"
              \/ shards[n].state = "partial" /\ \A t \in Threads : n \in globbed[t]
              \/ shards[n].state = "locked" /\ \E t \in Threads : claimed[t] = n
        BY <3>1 DEF ThreadsInv
      <4> QED BY <1>1, <3>1, <4>1, RealmExportAssumption
    <3>3. stage' \notin Collecting \union {"attachments", "launch"}
      BY <3>1 DEF Collecting, Reading
    <3> QED BY <1>2, <3>1, <3>2, <3>3 DEF ThreadsInv
  <2>3. CASE BatchStep
    <3>1. stage = "batches" /\ stage' = "batches" /\ stage' \notin Collecting \union {"attachments", "launch"}
      <4>1. stage' = stage
        BY <2>3 DEF BatchStep, ClaimFile, export_usermessages_batch, BatchFails
      <4>2. stage = "batches"
        BY <2>3 DEF BatchStep, ClaimFile, export_usermessages_batch, BatchFails, ThreadsInv
      <4> QED BY <4>1, <4>2 DEF Collecting, Reading
    <3>2. failures = 0 => \A n \in DOMAIN shards :
            \/ shards[n].state = "json"
            \/ shards[n].state = "partial" /\ \A t \in Threads : n \in globbed[t]
            \/ shards[n].state = "locked" /\ \E t \in Threads : claimed[t] = n
      BY <3>1 DEF ThreadsInv
    <3> DEFINE Claims == \A n \in DOMAIN shards' :
                   \/ shards'[n].state = "json"
                   \/ shards'[n].state = "partial" /\ \A t \in Threads : n \in globbed'[t]
                   \/ shards'[n].state = "locked" /\ \E t \in Threads : claimed'[t] = n
    <3>3. DOMAIN shards' = DOMAIN shards
      <4>1. ~WriteStep
        BY <3>1, StageMoves
      <4> QED BY <1>0, <4>1
    <3>4. ASSUME NEW t \in Threads, NEW n \in globbed[t], ClaimFile(t, n)
          PROVE  /\ failures' = failures /\ (failures = 0 => Claims)
                 /\ globbed' \in [Threads -> SUBSET DOMAIN shards] /\ claimed' \in [Threads -> {0} \union DOMAIN shards]
      <4>1. /\ claimed[t] = 0 /\ globbed' = [globbed EXCEPT ![t] = @ \ {n}] /\ n \in DOMAIN shards
            /\ failures' = failures
        BY <1>2, <3>4 DEF ClaimFile
      <4>2. CASE shards[n].state = "partial"
        <5>1. shards' = [shards EXCEPT ![n].state = "locked"] /\ claimed' = [claimed EXCEPT ![t] = n]
          BY <3>4, <4>2 DEF ClaimFile
        <5>2. shards'[n].state = "locked" /\ \A k \in DOMAIN shards : k # n => shards'[k] = shards[k]
          BY <1>1, <4>1, <5>1 DEF Shard
        <5>3. claimed'[t] = n /\ \A u \in Threads : u # t => claimed'[u] = claimed[u]
          BY <1>2, <5>1
        <5>4. \A u \in Threads, k \in DOMAIN shards : k # n /\ k \in globbed[u] => k \in globbed'[u]
          BY <1>2, <4>1
        <5>5. ASSUME failures = 0, NEW k \in DOMAIN shards
              PROVE  \/ shards'[k].state = "json"
                     \/ shards'[k].state = "partial" /\ \A u \in Threads : k \in globbed'[u]
                     \/ shards'[k].state = "locked" /\ \E u \in Threads : claimed'[u] = k
          <6>1. CASE k = n
            BY <5>2, <5>3, <6>1
          <6>2. CASE k # n
            BY <1>1, <3>2, <4>1, <5>2, <5>3, <5>4, <5>5, <6>2
          <6> QED BY <6>1, <6>2
        <5>6. globbed' \in [Threads -> SUBSET DOMAIN shards] /\ claimed' \in [Threads -> {0} \union DOMAIN shards]
          BY <1>2, <4>1, <5>1
        <5> QED BY <3>3, <4>1, <5>5, <5>6
      <4>3. CASE shards[n].state # "partial"
        <5>1. shards' = shards /\ claimed' = claimed
          BY <3>4, <4>3 DEF ClaimFile
        <5>2. \A u \in Threads, k \in DOMAIN shards : k # n /\ k \in globbed[u] => k \in globbed'[u]
          BY <1>2, <4>1
        <5>3. globbed' \in [Threads -> SUBSET DOMAIN shards]
          BY <1>2, <4>1
        <5> QED BY <1>2, <3>2, <4>1, <4>3, <5>1, <5>2, <5>3
      <4> QED BY <4>2, <4>3
    <3>5. ASSUME NEW t \in Threads, export_usermessages_batch(t)
          PROVE  /\ failures' = failures /\ (failures = 0 => Claims)
                 /\ globbed' \in [Threads -> SUBSET DOMAIN shards] /\ claimed' \in [Threads -> {0} \union DOMAIN shards]
      <4> DEFINE n == claimed[t]
      <4>1. /\ n \in DOMAIN shards /\ globbed' = globbed /\ failures' = failures
            /\ claimed' = [claimed EXCEPT ![t] = 0]
        BY <1>2, <3>5 DEF export_usermessages_batch
      <4>2. shards' = [shards EXCEPT ![n].state = "json", ![n].rows = sent[shards[n].msg].rows \intersect dump.users]
        BY <3>5 DEF export_usermessages_batch
      <4>3. \A u \in Threads : u # t => claimed'[u] = claimed[u]
        BY <1>2, <4>1
      <4>4. claimed' \in [Threads -> {0} \union DOMAIN shards]
        BY <1>2, <4>1
      <4>5. \A u \in Threads : claimed[u] # n => claimed'[u] = claimed[u]
        BY <4>3
      <4> HIDE DEF n
      <4>6. shards'[n].state = "json" /\ \A k \in DOMAIN shards : k # n => shards'[k] = shards[k]
        <5>1. /\ shards'[n] = [shards[n] EXCEPT !.state = "json", !.rows = sent[shards[n].msg].rows \intersect dump.users]
              /\ \A k \in DOMAIN shards : k # n => shards'[k] = shards[k]
          BY <1>1, <4>1, <4>2
        <5> QED BY <1>1, <4>1, <5>1 DEF Shard
      <4>7. failures = 0 => Claims
        BY <3>2, <3>3, <4>1, <4>5, <4>6
      <4> QED BY <1>2, <4>1, <4>4, <4>7
    <3>6. ASSUME NEW t \in Threads, NEW state \in {"partial", "locked"}, BatchFails(t, state)
          PROVE  /\ failures' = failures + 1
                 /\ globbed' \in [Threads -> SUBSET DOMAIN shards] /\ claimed' \in [Threads -> {0} \union DOMAIN shards]
      BY <1>2, <3>6 DEF BatchFails
    <3>7. /\ globbed' \in [Threads -> SUBSET DOMAIN shards] /\ claimed' \in [Threads -> {0} \union DOMAIN shards]
          /\ \/ failures' = failures /\ (failures = 0 => Claims)
             \/ failures' = failures + 1
      <4> HIDE DEF Claims
      <4> QED BY <2>3, <3>4, <3>5, <3>6 DEF BatchStep
    <3>8. failures' \in Nat /\ (failures' = 0 => Claims)
      <4> HIDE DEF Claims
      <4> QED BY <1>2, <3>7
    <3> QED BY <3>1, <3>3, <3>7, <3>8 DEF ThreadsInv
  <2> QED BY <1>5, <2>1, <2>2, <2>3 DEF ThreadStep
<1> QED BY <1>3, <1>4, <1>5, ExportGroups

\* The other server keeps what was imported, message after message.
LEMMA TargetKept ==
  ASSUME ServerInv, TablesInv, ShardsInv, ThreadsInv, TargetInv, ExportNext
  PROVE  TargetInv'
<1>0. shards \in Seq(Shard) /\ Len(shards) \in Nat /\ DOMAIN shards = 1 .. Len(shards) /\ Len(shards') \in Nat
  <2>1. shards' \in Seq(Shard)
    BY ShardsGrow
  <2> QED BY <2>1 DEF ShardsInv
<1>1. ASSUME target' = NoTarget, stage' \notin {"links", "imported"} PROVE TargetInv'
  <2>1. NoTarget.msgs = <<>> /\ NoTarget.rows = {} /\ NoTarget.attachments = <<>>
    BY DEF NoTarget
  <2>2. target' \in Target'
    BY <1>1 DEF Target, NoTarget
  <2>3. /\ target'.msgs \in Seq(ImportedMessages') /\ Len(target'.msgs) = 0 /\ DOMAIN target'.msgs = {}
        /\ target'.rows = {} /\ DOMAIN target'.attachments = {}
    BY <1>1, <2>1
  <2> QED BY <1>0, <1>1, <2>2, <2>3 DEF TargetInv
<1>2. CASE ~ImportStep
  <2>1. target' = target
    BY <1>2, ExportGroups
  <2>2. stage \notin {"import", "links", "imported", "failed"}
    <3>1. CASE ServerStep
      BY <3>1, ExportGroups DEF Exporting
    <3>2. CASE TableStep
      <4>1. dump \in Dump
        BY DEF TablesInv
      <4> QED BY <3>2, <4>1, TableWritten
    <3>3. CASE WriteStep \/ ThreadStep
      BY <3>3, StageMoves
    <3> QED BY <1>2, <3>1, <3>2, <3>3, ExportGroups
  <2>3. stage' \notin {"links", "imported"}
    <3>1. CASE ServerStep
      BY <2>2, <3>1, ExportGroups
    <3>2. CASE TableStep
      <4>1. dump \in Dump
        BY DEF TablesInv
      <4> QED BY <3>2, <4>1, TableWritten
    <3>3. CASE WriteStep \/ ThreadStep
      BY <3>3, StageMoves
    <3> QED BY <1>2, <3>1, <3>2, <3>3, ExportGroups
  <2> QED BY <1>1, <2>1, <2>2, <2>3 DEF TargetInv
<1>3. CASE ImportStep
  <2>1. /\ sent' = sent /\ dump' = dump /\ shards' = shards /\ failures' = failures
        /\ target \in Target
    BY <1>3, ExportGroups DEF sourceVars, TargetInv
  <2>2. CASE ImportRealm
    <3>1. /\ stage' = "import" /\ target = NoTarget
          /\ target' = [NoTarget EXCEPT !.clientMap = ClientMap, !.userMap = UserMap,
                          !.users = dump.users \union dump.dummies \union {BotThere},
                          !.recipients = OurRecipients, !.files = dump.uploads]
      BY <2>2 DEF ImportRealm
    <3>2. /\ target' \in Target'
          /\ target'.clientMap = ClientMap /\ target'.userMap = UserMap
          /\ target'.users = dump.users \union dump.dummies \union {BotThere}
          /\ target'.recipients = OurRecipients
          /\ target'.msgs = <<>> /\ target'.rows = {} /\ target'.attachments = <<>>
      BY <3>1 DEF NoTarget, Target
    <3>3. ClientMap' = ClientMap /\ UserMap' = UserMap /\ OurRecipients' = OurRecipients
      BY <2>1 DEF ClientMap, UserMap, OurRecipients
    <3>4. target'.msgs \in Seq(ImportedMessages') /\ Len(target'.msgs) = 0 /\ DOMAIN target'.msgs = {}
          /\ DOMAIN target'.attachments = {}
      BY <3>2
    <3> QED BY <1>0, <2>1, <3>1, <3>2, <3>3, <3>4 DEF TargetInv
  <2>3. ASSUME stage \in {"import", "links"}, target # NoTarget,
               target' \in Target', target'.clientMap = target.clientMap, target'.userMap = target.userMap,
               target'.users = target.users, target'.recipients = target.recipients
        PROVE  /\ ClientMap' = ClientMap /\ UserMap' = UserMap
               /\ target'.clientMap = ClientMap' /\ target'.userMap = UserMap'
               /\ target'.users = dump'.users \union dump'.dummies \union {BotThere}
               /\ target'.recipients = OurRecipients'
               /\ ImportedMessages' = ImportedMessages
               /\ \A i : ImportedMessage(i)' = ImportedMessage(i)
    <3>1. ClientMap' = ClientMap /\ UserMap' = UserMap /\ OurRecipients' = OurRecipients
      BY <2>1 DEF ClientMap, UserMap, OurRecipients
    <3>2. \A i : ImportedMessage(i)' = ImportedMessage(i)
      BY <2>1, <2>3 DEF ImportedMessage, re_map_foreign_keys
    <3>3. ImportedMessages' = ImportedMessages
      BY <3>2 DEF ImportedMessages
    <3> QED BY <2>1, <2>3, <3>1, <3>2, <3>3 DEF TargetInv
  <2> DEFINE n == Len(target.msgs)
  <2>4. /\ target.msgs \in Seq(ImportedMessages) /\ n \in Nat /\ DOMAIN target.msgs = 1 .. n /\ n <= Len(shards)
        /\ \A k \in DOMAIN target.msgs : target.msgs[k] = ImportedMessage(shards[k].msg)
    BY DEF TargetInv
  <2>5. NextFile = n + 1
    <3>1. PICK len \in Nat : len = n
      BY <2>4
    <3>2. Cardinality(1 .. len) = IF 1 > len THEN 0 ELSE len - 1 + 1
      BY FS_Interval
    <3>3. Cardinality(1 .. len) = len
      BY <3>2
    <3>4. DOMAIN target.msgs = 1 .. len
      BY <2>4, <3>1
    <3> QED BY <3>1, <3>3, <3>4 DEF NextFile
  <2>6. CASE import_message_data
    <3>0. stage = "import" /\ target # NoTarget
      BY <2>6 DEF import_message_data
    <3>1. CASE NextFile \in DOMAIN shards /\ shards[NextFile].state = "json"
      <4> DEFINE s == shards[n + 1]
                 m == ImportedMessage(s.msg)
                 more == {[user |-> u, msg |-> s.msg] : u \in s.rows}
      <4>1. /\ target' = [target EXCEPT !.msgs = Append(@, m), !.rows = @ \union more]
            /\ stage' = "import" /\ n + 1 \in DOMAIN shards
        BY <2>5, <2>6, <3>0, <3>1 DEF import_message_data
      <4>2. s \in Shard /\ s.msg \in Nat
        <5>1. s \in Shard
          BY <1>0, <4>1
        <5> QED BY <5>1 DEF Shard
      <4>3. s.rows \subseteq dump.users
        BY <4>1 DEF ShardsInv
      <4>4. m \in ImportedMessages /\ m.id = s.msg
        BY <4>2 DEF ImportedMessages, ImportedMessage
      <4> HIDE DEF s, m, more
      <4>5. /\ target' \in Target' /\ target'.clientMap = target.clientMap /\ target'.userMap = target.userMap
            /\ target'.users = target.users /\ target'.recipients = target.recipients
            /\ target'.attachments = target.attachments
            /\ target'.msgs = Append(target.msgs, m) /\ target'.rows = target.rows \union more
        BY <2>1, <4>1 DEF Target
      <4> HIDE DEF n
      <4>6. /\ target'.msgs \in Seq(ImportedMessages) /\ Len(target'.msgs) = n + 1 /\ DOMAIN target'.msgs = 1 .. n + 1
            /\ target'.msgs[n + 1] = m /\ \A k \in DOMAIN target.msgs : target'.msgs[k] = target.msgs[k]
        <5>1. n = Len(target.msgs)
          BY DEF n
        <5> QED BY <2>4, <4>4, <4>5, <5>1
      <4>7. DOMAIN target'.msgs = DOMAIN target.msgs \union {n + 1}
        BY <2>4, <4>6
      <4>8. ImportedIds \subseteq ImportedIds' /\ s.msg \in ImportedIds'
        <5>1. Range(target'.msgs) = Range(target.msgs) \union {m}
          BY <4>6, <4>7 DEF Range
        <5> QED BY <4>4, <5>1 DEF ImportedIds
      <4>9. target # NoTarget /\ target' # NoTarget
        <5>1. BotThere \in target.users
          BY <3>0 DEF TargetInv
        <5>2. BotThere \notin NoTarget.users
          BY DEF NoTarget
        <5> QED BY <3>0, <4>5, <5>1, <5>2
      <4>10. \A k \in DOMAIN target'.msgs : target'.msgs[k] = ImportedMessage(shards[k].msg)
        <5>1. target'.msgs[n + 1] = ImportedMessage(shards[n + 1].msg)
          BY <4>6 DEF s, m
        <5> QED BY <2>4, <4>6, <4>7, <5>1
      <4>11. (\A k \in DOMAIN target.msgs : target.msgs[k] = ImportedMessage(shards[k].msg))'
        BY <2>1, <2>3, <3>0, <4>5, <4>10 DEF ImportedMessage, re_map_foreign_keys
      <4>12. \A r \in target'.rows : r.user \in target'.users /\ r.msg \in ImportedIds'
        <5>1. \A r \in more : r.user \in target'.users /\ r.msg \in ImportedIds'
          <6>1. dump.users \subseteq target'.users
            BY <3>0, <4>5 DEF TargetInv
          <6> QED BY <4>3, <4>8, <6>1 DEF more
        <5>2. \A r \in target.rows : r.user \in target'.users /\ r.msg \in ImportedIds'
          BY <4>5, <4>8 DEF TargetInv
        <5> QED BY <4>5, <5>1, <5>2
      <4>13. \A f \in DOMAIN target'.attachments : target'.attachments[f] \subseteq ImportedIds'
        BY <4>5, <4>8 DEF TargetInv
      <4>14. target'.msgs \in Seq(ImportedMessages') /\ Len(target'.msgs) <= Len(shards')
        BY <1>0, <2>1, <2>3, <2>4, <3>0, <4>1, <4>5, <4>6
      <4> QED BY <2>3, <3>0, <4>1, <4>5, <4>9, <4>11, <4>12, <4>13, <4>14 DEF TargetInv
    <3>2. CASE ~(NextFile \in DOMAIN shards /\ shards[NextFile].state = "json")
      <4>1. target' = target /\ stage' = "links"
        BY <2>6, <3>2 DEF import_message_data
      <4>2. failures = 0 => n = Len(shards)
        <5>1. failures = 0 => \A k \in DOMAIN shards : shards[k].state = "json"
          BY <3>0 DEF ThreadsInv
        <5> QED BY <1>0, <2>4, <2>5, <3>2, <5>1
      <4>3. target' \in Target'
        BY <2>1, <4>1 DEF Target
      <4>4. /\ ClientMap' = ClientMap /\ UserMap' = UserMap
            /\ target'.clientMap = ClientMap' /\ target'.userMap = UserMap'
            /\ target'.users = dump'.users \union dump'.dummies \union {BotThere}
            /\ target'.recipients = OurRecipients'
            /\ ImportedMessages' = ImportedMessages
            /\ \A i : ImportedMessage(i)' = ImportedMessage(i)
        BY <2>3, <3>0, <4>1, <4>3
      <4>5. (\A k \in DOMAIN target.msgs : target.msgs[k] = ImportedMessage(shards[k].msg))'
        BY <2>1, <2>4, <4>1 DEF ImportedMessage, re_map_foreign_keys
      <4>6. ImportedIds' = ImportedIds
        BY <4>1 DEF ImportedIds
      <4> QED BY <2>1, <2>4, <3>0, <4>1, <4>2, <4>3, <4>4, <4>5, <4>6 DEF TargetInv
    <3> QED BY <3>1, <3>2
  <2>7. CASE import_attachments
    <3>0. stage = "links" /\ target # NoTarget
      BY <2>7 DEF import_attachments, TargetInv
    <3>1. \/ /\ UNION Range(dump.attachments) \subseteq ImportedIds
             /\ stage' = "imported" /\ target' = [target EXCEPT !.attachments = dump.attachments]
          \/ stage' = "failed" /\ target' = target
      BY <2>7 DEF import_attachments
    <3>2. /\ target' \in Target' /\ target'.clientMap = target.clientMap /\ target'.userMap = target.userMap
          /\ target'.users = target.users /\ target'.recipients = target.recipients
          /\ target'.msgs = target.msgs /\ target'.rows = target.rows
          /\ \/ target'.attachments = target.attachments
             \/ UNION Range(dump.attachments) \subseteq ImportedIds /\ target'.attachments = dump.attachments
      BY <2>1, <3>1 DEF Target
    <3>3. ImportedIds' = ImportedIds
      BY <3>2 DEF ImportedIds
    <3>4. \A f \in DOMAIN target'.attachments : target'.attachments[f] \subseteq ImportedIds'
      <4>1. ASSUME UNION Range(dump.attachments) \subseteq ImportedIds
            PROVE  \A f \in DOMAIN dump.attachments : dump.attachments[f] \subseteq ImportedIds
        BY <4>1 DEF Range
      <4> QED BY <3>2, <3>3, <4>1 DEF TargetInv
    <3>5. /\ ClientMap' = ClientMap /\ UserMap' = UserMap
          /\ target'.clientMap = ClientMap' /\ target'.userMap = UserMap'
          /\ target'.users = dump'.users \union dump'.dummies \union {BotThere}
          /\ target'.recipients = OurRecipients'
          /\ ImportedMessages' = ImportedMessages
          /\ \A i : ImportedMessage(i)' = ImportedMessage(i)
      BY <2>3, <3>0, <3>2
    <3>6. (\A k \in DOMAIN target.msgs : target.msgs[k] = ImportedMessage(shards[k].msg))'
      BY <2>1, <2>4, <3>2 DEF ImportedMessage, re_map_foreign_keys
    <3>7. target' # NoTarget
      <4>1. BotThere \in target.users
        BY <3>0 DEF TargetInv
      <4>2. BotThere \notin NoTarget.users
        BY DEF NoTarget
      <4> QED BY <3>2, <4>1, <4>2
    <3>8. failures = 0 => n = Len(shards)
      BY <3>0 DEF TargetInv
    <3>9. \A r \in target'.rows : r.user \in target'.users /\ r.msg \in ImportedIds'
      BY <3>2, <3>3 DEF TargetInv
    <3>10. stage' \in {"imported", "failed"}
      BY <3>1
    <3> QED BY <2>1, <2>4, <3>2, <3>4, <3>5, <3>6, <3>7, <3>8, <3>9, <3>10 DEF TargetInv
  <2> QED BY <1>3, <2>2, <2>6, <2>7 DEF ImportStep
<1> QED BY <1>2, <1>3

LEMMA ExportInvInit == ExportInit => ExportInv
<1> SUFFICES ASSUME ExportInit PROVE ExportInv
  OBVIOUS
<1>1. /\ people = Staff /\ clients = FirstClients /\ streams = [s \in {HomeStream} |-> Staff]
      /\ sent = <<>> /\ stage = "clients" /\ dump = NoDump /\ shards = <<>>
      /\ globbed = [t \in Threads |-> {}] /\ claimed = [t \in Threads |-> 0]
      /\ failures = 0 /\ target = NoTarget
  BY DEF ExportInit
<1>2. DOMAIN sent = {} /\ DOMAIN shards = {} /\ Len(sent) = 0 /\ Len(shards) = 0
  BY <1>1
<1>3. ServerInv
  <2>1. clients = [website |-> "c2", mobile |-> "c1"]
    BY <1>1 DEF FirstClients
  <2>2. /\ DOMAIN clients = {"website", "mobile"} /\ DOMAIN ClientHere = {"website", "mobile", "api"}
        /\ clients["website"] = ClientHere["website"] /\ clients["mobile"] = ClientHere["mobile"]
    BY <2>1 DEF ClientHere
  <2>3. sent \in Seq(SentMessage)
    BY <1>1
  <2>4. people \in SUBSET Realm /\ Staff \subseteq people
    BY <1>1 DEF Realm
  <2>5. \A s \in DOMAIN streams : streams[s] \in SUBSET people
    BY <1>1
  <2> QED BY <1>2, <2>2, <2>3, <2>4, <2>5 DEF ServerInv
<1>4. TablesInv
  <2>1. /\ dump \in Dump /\ dump.clients = <<>> /\ dump.dummies = {} /\ dump.users = {} /\ dump.min = 0
        /\ dump.attachments = <<>>
    BY <1>1 DEF NoDump, Dump
  <2>2. DOMAIN dump.clients = {} /\ DOMAIN dump.attachments = {}
    BY <2>1
  <2>3. Known \in SUBSET people
    BY <1>1 DEF Known
  <2>4. stage \in Stages /\ stage \notin AfterUsers
    BY <1>1 DEF Stages, AfterUsers, AfterPersonal, AfterSubs, AfterStreams, AfterHuddles, AfterUploads,
                AfterReceived, AfterSent
  <2> QED BY <1>1, <1>2, <2>1, <2>2, <2>3, <2>4 DEF TablesInv
<1>5. EarlyInv
  BY <1>2 DEF EarlyInv
<1>6. ShardsInv
  <2>1. stage \notin AfterReceived /\ stage \notin AfterSent
    BY <1>1 DEF AfterReceived, AfterSent
  <2>2. shards \in Seq(Shard)
    BY <1>1
  <2> QED BY <1>1, <1>2, <2>1, <2>2 DEF ShardsInv
<1>7. ThreadsInv
  BY <1>1, <1>2 DEF ThreadsInv
<1>8. TargetInv
  <2>1. NoTarget.msgs = <<>> /\ NoTarget.rows = {} /\ NoTarget.attachments = <<>>
    BY DEF NoTarget
  <2>2. target \in Target
    BY <1>1 DEF Target, NoTarget
  <2>3. /\ target.msgs \in Seq(ImportedMessages) /\ Len(target.msgs) = 0 /\ DOMAIN target.msgs = {}
        /\ target.rows = {} /\ DOMAIN target.attachments = {}
    BY <1>1, <2>1
  <2> QED BY <1>1, <1>2, <2>2, <2>3 DEF TargetInv
<1> QED BY <1>3, <1>4, <1>5, <1>6, <1>7, <1>8 DEF ExportInv

LEMMA ExportInvStep == ExportInv /\ [ExportNext]_exportVars => ExportInv'
<1>1. ASSUME ExportInv, ExportNext PROVE ExportInv'
  <2>1. ServerInv /\ TablesInv /\ EarlyInv /\ ShardsInv /\ ThreadsInv /\ TargetInv
    BY <1>1 DEF ExportInv
  <2>2. ServerInv'
    BY <1>1, <2>1, ServerKept
  <2>3. TablesInv'
    BY <1>1, <2>1, TablesKept
  <2>4. EarlyInv'
    BY <1>1, <2>1, EarlyKept
  <2>5. ShardsInv'
    BY <1>1, <2>1, ShardsKept
  <2>6. ThreadsInv'
    BY <1>1, <2>1, ThreadsKept
  <2>7. TargetInv'
    BY <1>1, <2>1, TargetKept
  <2> QED BY <2>2, <2>3, <2>4, <2>5, <2>6, <2>7 DEF ExportInv
<1>2. ASSUME ExportInv, UNCHANGED exportVars PROVE ExportInv'
  <2>1. /\ people' = people /\ clients' = clients /\ streams' = streams /\ sent' = sent /\ files' = files
        /\ stage' = stage /\ dump' = dump /\ shards' = shards /\ globbed' = globbed /\ claimed' = claimed
        /\ failures' = failures /\ target' = target
    BY <1>2 DEF exportVars, sourceVars
  <2>2. ServerInv'
    BY <1>2, <2>1 DEF ExportInv, ServerInv
  <2>3. Exported' = Exported
    BY <2>1 DEF Exported
  <2>4. TablesInv'
    BY <1>2, <2>1, <2>3 DEF ExportInv, TablesInv, Dump, Known
  <2>5. TheirRecipients' = TheirRecipients /\ OurRecipients' = OurRecipients /\ PossibleSenders' = PossibleSenders
    BY <2>1 DEF TheirRecipients, OurRecipients, PossibleSenders
  <2>6. EarlyInv'
    BY <1>2, <2>1, <2>5 DEF ExportInv, EarlyInv, Known
  <2>7. messages_we_received' = messages_we_received /\ messages_we_sent_to_them' = messages_we_sent_to_them
    BY <2>1, <2>5 DEF messages_we_received, messages_we_sent_to_them
  <2>8. ShardsInv'
    BY <1>2, <2>1, <2>3, <2>7 DEF ExportInv, ShardsInv
  <2>9. ThreadsInv'
    BY <1>2, <2>1 DEF ExportInv, ThreadsInv
  <2>10. ClientMap' = ClientMap /\ UserMap' = UserMap /\ ImportedIds' = ImportedIds
    BY <2>1 DEF ClientMap, UserMap, ImportedIds
  <2>11. ImportedMessages' = ImportedMessages
    BY <2>1 DEF ImportedMessages, ImportedMessage, re_map_foreign_keys
  <2>12. (\A k \in DOMAIN target.msgs : target.msgs[k] = ImportedMessage(shards[k].msg))'
    BY <1>2, <2>1 DEF ExportInv, TargetInv, ImportedMessage, re_map_foreign_keys
  <2>13. target' \in Target'
    BY <1>2, <2>1 DEF ExportInv, TargetInv, Target
  <2>14. TargetInv'
    BY <1>2, <2>1, <2>5, <2>10, <2>11, <2>12, <2>13 DEF ExportInv, TargetInv
  <2> QED BY <2>2, <2>4, <2>6, <2>8, <2>9, <2>14 DEF ExportInv
<1> QED BY <1>1, <1>2

\* The messages that were there at the beginning are wanted by one of the two queries.
LEMMA EarlyAreWanted ==
  ASSUME ExportInv, stage = "imported", NEW i \in DOMAIN sent, sent[i].early,
         sent[i].to.type = "huddle" => sent[i].to.who \subseteq people \union Dummies
  PROVE  i \in messages_we_received \union messages_we_sent_to_them
<1>1. /\ stage \in AfterPersonal /\ stage \in AfterStreams /\ stage \in AfterHuddles /\ stage \in AfterUsers
  BY DEF AfterUsers, AfterPersonal, AfterSubs, AfterStreams, AfterHuddles, AfterUploads, AfterReceived, AfterSent
<1>2. Known = dump.users /\ dump.dummies = Dummies
  BY <1>1 DEF Known, ExportInv, TablesInv
<1>3. sent[i].sender \in PossibleSenders
  BY <1>2 DEF ExportInv, EarlyInv, PossibleSenders
<1>4. /\ sent[i].to.type = "personal" =>
           \/ sent[i].to \in dump.personal
           \/ sent[i].sender \in dump.users /\ sent[i].to \in TheirRecipients
      /\ sent[i].to.type = "stream" => sent[i].to \in dump.streams
      /\ sent[i].to.type = "huddle" => sent[i].to \in dump.huddles
  BY <1>1 DEF ExportInv, EarlyInv
<1>5. sent[i].to.type \in {"personal", "stream", "huddle"}
  BY WhomTo DEF ExportInv
<1>6. sent[i].to \in OurRecipients \/ (sent[i].sender \in dump.users /\ sent[i].to \in TheirRecipients)
  BY <1>4, <1>5 DEF OurRecipients
<1> QED BY <1>3, <1>6 DEF messages_we_received, messages_we_sent_to_them

LEMMA FaithfulImport == ExportInv => ImportFaithful
<1> SUFFICES ASSUME ExportInv PROVE ImportFaithful
  OBVIOUS
<1>0. ServerInv /\ TablesInv /\ ShardsInv /\ TargetInv
  BY DEF ExportInv
<1>1. /\ target.msgs \in Seq(ImportedMessages) /\ Len(target.msgs) \in Nat /\ Len(shards) \in Nat
      /\ DOMAIN target.msgs = 1 .. Len(target.msgs) /\ DOMAIN shards = 1 .. Len(shards)
      /\ DOMAIN target.msgs \subseteq DOMAIN shards
  <2>1. target.msgs \in Seq(ImportedMessages) /\ shards \in Seq(Shard) /\ Len(target.msgs) <= Len(shards)
    BY <1>0 DEF TargetInv, ShardsInv
  <2> QED BY <2>1
<1>2. ASSUME NEW m \in Range(target.msgs)
      PROVE  /\ m.sender = PersonThere(sent[m.id].sender) /\ m.sender \in target.users
             /\ m.to \in target.recipients \/ m.to \in NotExported
             /\ sent[m.id].clientName \in DOMAIN dump.clients => m.client = ClientThere[sent[m.id].clientName]
  <2>1. PICK k \in DOMAIN target.msgs : m = target.msgs[k]
    BY DEF Range
  <2> DEFINE i == shards[k].msg
  <2>2. /\ m = ImportedMessage(i) /\ i \in DOMAIN sent
        /\ i \in messages_we_received \union messages_we_sent_to_them
    BY <1>0, <1>1, <2>1, WantedAreSent DEF TargetInv, ShardsInv
  <2>3. target # NoTarget
    <3>1. DOMAIN NoTarget.msgs = {}
      BY DEF NoTarget
    <3> QED BY <2>1, <3>1
  <2>4. /\ target.clientMap = ClientMap /\ target.userMap = UserMap
        /\ target.users = dump.users \union dump.dummies \union {BotThere}
        /\ target.recipients = OurRecipients
    BY <1>0, <2>3 DEF TargetInv
  <2> HIDE DEF i
  <2>5. /\ m.id = i /\ m.sender = re_map_foreign_keys(UserMap, sent[i].sender) /\ m.to = sent[i].to
        /\ m.client = re_map_foreign_keys(ClientMap, sent[i].client)
    BY <2>2, <2>4 DEF ImportedMessage
  <2>6. m.sender = PersonThere(sent[i].sender)
    BY <2>5 DEF re_map_foreign_keys, UserMap, PersonThere
  <2>7. sent[i].sender \in dump.users \union dump.dummies \union {BotHere}
    BY <2>2 DEF messages_we_received, messages_we_sent_to_them, PossibleSenders
  <2>8. m.sender \in target.users
    BY <2>4, <2>6, <2>7 DEF PersonThere
  <2>9. m.to \in target.recipients \/ m.to \in NotExported
    <3>1. TheirRecipients \subseteq NotExported
      <4>1. dump.dummies \subseteq Dummies
        BY <1>0 DEF TablesInv
      <4> QED BY <4>1 DEF TheirRecipients, NotExported, PossibleSenders
    <3>2. sent[i].to \in OurRecipients \/ sent[i].to \in TheirRecipients
      BY <2>2 DEF messages_we_received, messages_we_sent_to_them
    <3> QED BY <2>4, <2>5, <3>1, <3>2
  <2>10. ASSUME sent[i].clientName \in DOMAIN dump.clients PROVE m.client = ClientThere[sent[i].clientName]
    <3> DEFINE n == sent[i].clientName
               c == sent[i].client
    <3>1. c = ClientHere[n] /\ dump.clients[n] = c
      BY <1>0, <2>2, <2>10 DEF ServerInv, TablesInv
    <3>2. \A p \in DOMAIN dump.clients : dump.clients[p] = c => p = n
      <4>1. \A p \in DOMAIN dump.clients : p \in DOMAIN ClientHere /\ dump.clients[p] = ClientHere[p]
        BY <1>0 DEF TablesInv
      <4>2. \A p, q \in DOMAIN ClientHere : ClientHere[p] = ClientHere[q] => p = q
        BY DEF ClientHere, NewClientId
      <4> QED BY <2>10, <3>1, <4>1, <4>2
    <3>3. c \in Range(dump.clients)
      BY <2>10, <3>1 DEF Range
    <3> HIDE DEF n, c
    <3>4. (CHOOSE p \in DOMAIN dump.clients : dump.clients[p] = c) = n
      <4>1. n \in DOMAIN dump.clients
        BY <2>10 DEF n
      <4> QED BY <3>1, <3>2, <4>1
    <3>5. ClientMap[c] = ClientThere[n] /\ c \in DOMAIN ClientMap
      BY <3>3, <3>4 DEF ClientMap
    <3>6. m.client = ClientThere[n]
      BY <2>5, <3>5 DEF re_map_foreign_keys, c
    <3> QED BY <3>6 DEF n
  <2> QED BY <2>5, <2>6, <2>8, <2>9, <2>10
<1>3. ASSUME stage = "imported", failures = 0, NEW i \in DOMAIN sent, sent[i].early,
             sent[i].to.type = "huddle" => sent[i].to.who \subseteq people \union Dummies
      PROVE  i \in ImportedIds
  <2>1. i \in messages_we_received \union messages_we_sent_to_them
    BY <1>3, EarlyAreWanted
  <2>2. stage \in AfterReceived /\ stage \in AfterSent
    BY <1>3 DEF AfterReceived, AfterSent
  <2>3. i \in Exported
    BY <1>0, <1>3, <2>1, <2>2 DEF ShardsInv
  <2>4. PICK n \in DOMAIN shards : shards[n].msg = i
    BY <2>3 DEF Exported
  <2>5. n \in DOMAIN target.msgs
    <3>1. Len(target.msgs) = Len(shards)
      BY <1>0, <1>3 DEF TargetInv
    <3> QED BY <1>1, <3>1
  <2>6. target.msgs[n].id = i
    <3>1. target.msgs[n] = ImportedMessage(i)
      BY <1>0, <2>4, <2>5 DEF TargetInv
    <3>2. ImportedMessage(i).id = i
      BY DEF ImportedMessage
    <3> QED BY <3>1, <3>2
  <2> QED BY <2>5, <2>6 DEF ImportedIds, Range
<1>4. /\ \A r \in target.rows : r.user \in target.users /\ r.msg \in ImportedIds
      /\ \A f \in DOMAIN dump.attachments : dump.attachments[f] \subseteq Exported
      /\ \A f \in DOMAIN target.attachments : target.attachments[f] \subseteq ImportedIds
  BY <1>0 DEF TablesInv, TargetInv
<1> QED BY <1>2, <1>3, <1>4 DEF ImportFaithful

(***************************************************************************)
(* An import says what the realm said, however the export's tables and     *)
(* the processes of its UserMessage rows run beside the server's work      *)
(* (do_export_realm, export_usermessage_batch, do_import_realm).           *)
(***************************************************************************)
THEOREM ImportsAreFaithful == ExportSpec => []ImportFaithful
<1>1. ExportInit => ExportInv
  BY ExportInvInit
<1>2. ExportInv /\ [ExportNext]_exportVars => ExportInv'
  BY ExportInvStep
<1>3. ExportInv => ImportFaithful
  BY FaithfulImport
<1> QED BY <1>1, <1>2, <1>3, PTL DEF ExportSpec

-----------------------------------------------------------------------------
(* MissedMail. *)

LetterStates == {"none", "sent", "queued", "bounced", "marked", "reported", "done", "lost"}
Letter == [addr : SUBSET Misses, state : LetterStates, posted : Nat,
           to : {ReplyTo(m) : m \in Misses} \union {"nobody", "stream"}]

MissTypes ==
  /\ told \subseteq Misses /\ missQueue \subseteq told /\ batch \subseteq told
  /\ handling \in [user : {handling.user}, wants : BOOLEAN, groups : SUBSET Groups]
  /\ outbox \subseteq Groups /\ mails \in [Groups -> Nat] /\ mailDeaths \in Nat
  /\ DOMAIN replyKeys \subseteq Groups
  /\ \A a \in DOMAIN replyKeys : replyKeys[a] \in [left : {0, 1}, to : {ReplyTo(m) : m \in a}]
  /\ letters \in [Letters -> Letter]

\* A mail about g went out, or was to.
Out(g) == g \in outbox \/ mails[g] > 0 \/ g \in DOMAIN replyKeys

\* A miss is at one place on its way, and in one mail.
FlowInv ==
  /\ missQueue \intersect batch = {}
  /\ \A g \in handling.groups :
       /\ g \subseteq told \ (missQueue \union batch)
       /\ \A m \in g : MissedBy[m] = handling.user
       /\ \A m, n \in g : MissTopic[m] = MissTopic[n]
       /\ \A h \in handling.groups : g # h => g \intersect h = {}
  /\ handling.groups # {} /\ ~handling.wants => handling.user \in mailOff
  /\ \A h \in Groups : Out(h) =>
       /\ h \subseteq told \ (missQueue \union batch)
       /\ \A g \in handling.groups : g \intersect h = {}
       /\ \A k \in Groups : Out(k) /\ h # k => h \intersect k = {}
  /\ \A g \in Groups : mails[g] <= mailDeaths + (IF g \in outbox THEN 0 ELSE 1)
  /\ \A m \in told :
       \/ m \in missQueue \union batch \union excused \union settled \/ MissedBy[m] \in mailOff
       \/ \E g \in handling.groups \union outbox : m \in g
       \/ \E g \in Groups : m \in g /\ mails[g] > 0

\* A letter that was admitted with its reply address.
Admitted(l) == letters[l].state \in {"queued", "marked", "done", "lost"} \/ letters[l].posted > 0
IsReply(l) == letters[l].addr # {}

\* A reply address admits one letter.
LettersInv ==
  \A l \in Letters :
    /\ letters[l].state = "none" => letters[l].addr = {} /\ letters[l].posted = 0
    /\ letters[l].posted <= mailDeaths + (IF letters[l].state = "done" THEN 1 ELSE 0)
    /\ letters[l].state = "lost" /\ ~IsReply(l) => renamed
    /\ IsReply(l) =>
         /\ letters[l].addr \in Groups /\ mails[letters[l].addr] > 0
         /\ letters[l].posted > 0 => letters[l].to \in {ReplyTo(m) : m \in letters[l].addr}
         /\ Admitted(l) =>
              /\ \A k \in Letters \ {l} : letters[k].addr = letters[l].addr => ~Admitted(k)
              /\ letters[l].addr \in DOMAIN replyKeys => replyKeys[letters[l].addr].left = 0
         /\ letters[l].state \in {"queued", "marked"} =>
              \/ letters[l].addr \in DOMAIN replyKeys \union expiredKeys
              \/ \E k \in Letters \ {l} : letters[k].addr = letters[l].addr
         /\ letters[l].state = "lost" =>
              \/ letters[l].addr \in expiredKeys
              \/ \E k \in Letters \ {l} : letters[k].addr = letters[l].addr

MissInv == MissTypes /\ FlowInv /\ LettersInv

\* A mail's answer goes to a conversation that it is about.
LEMMA RepliesBelong ==
  ASSUME NEW g \in Groups, \A m, n \in g : MissTopic[m] = MissTopic[n]
  PROVE  ReplyTo(Min(WithContext(g))) \in {ReplyTo(m) : m \in g}
<1>1. g \in SUBSET Nat /\ g # {} /\ Conversation \in SUBSET Nat
  BY MissedMailAssumption DEF Groups
<1>2. Min(g) \in g
  BY <1>1, LeastId
<1>3. CASE MissTopic[Min(g)] = ""
  BY <1>2, <1>3 DEF WithContext
<1>4. CASE MissTopic[Min(g)] # ""
  <2> DEFINE all == g \union get_context_for_message(Min(g))
  <2>1. WithContext(g) = all /\ all \in SUBSET Nat /\ all # {}
    BY <1>1, <1>4 DEF WithContext, get_context_for_message
  <2>2. \A n \in all : MissTopic[n] = MissTopic[Min(g)]
    BY <1>2 DEF get_context_for_message
  <2> HIDE DEF all
  <2>3. Min(all) \in all
    BY <2>1, LeastId
  <2>4. ReplyTo(Min(all)) = ReplyTo(Min(g))
    BY <1>4, <2>2, <2>3 DEF ReplyTo
  <2> QED BY <1>2, <2>1, <2>4
<1> QED BY <1>3, <1>4

MissWorkers == \/ \E m \in Misses : EventMissed(m) \/ MissSettled(m)
               \/ \E u \in Readers : do_missedmessage_unsubscribe(u) \/ handle_missedmessage_emails(u)
               \/ drain_queue \/ MissedWorkerDies
               \/ \E g \in handling.groups : do_send_missedmessage_events_reply_in_zulip(g)
               \/ \E g \in outbox : SendMail(g)
Gateway == \/ RenameStream
           \/ \E g \in Groups : KeyExpires(g)
           \/ \E l \in Letters :
                \/ \E a \in Groups \union StreamAddress : WriteLetter(l, a)
                \/ mirror_email_message(l) \/ get_imap_messages(l)
                \/ process_message(l, "queued", "queued") \/ process_message(l, "marked", "sent")

LEMMA MissGroups == MissedNext => MissWorkers \/ (Gateway /\ UNCHANGED missWorkerVars)
BY DEF MissedNext, MissWorkers, Gateway, RenameStream, KeyExpires, WriteLetter, mirror_email_message,
       get_imap_messages, process_message

\* Counts never fall, and deaths are counted by one.
LEMMA DeathsCounted == MissTypes /\ MissedNext => mailDeaths' \in Nat /\ mailDeaths <= mailDeaths'
<1> SUFFICES ASSUME MissTypes, MissedNext PROVE mailDeaths' = mailDeaths \/ mailDeaths' = mailDeaths + 1
  BY DEF MissTypes
<1>1. CASE MissWorkers
  BY <1>1 DEF MissWorkers, EventMissed, MissSettled, do_missedmessage_unsubscribe, handle_missedmessage_emails,
              drain_queue, MissedWorkerDies, do_send_missedmessage_events_reply_in_zulip, SendMail, Live, Die
<1>2. CASE Gateway
  BY <1>2 DEF Gateway, RenameStream, KeyExpires, WriteLetter, mirror_email_message,
              get_imap_messages, process_message, Live, Die
<1> QED BY <1>1, <1>2, MissGroups

\* What the mark of a reply address does to its key.
LEMMA MarkKeeps ==
  ASSUME MissTypes, NEW l \in Letters, Marks(letters[l].addr)
  PROVE  LET a == letters[l].addr IN
         /\ DOMAIN replyKeys' \subseteq DOMAIN replyKeys
         /\ \A x \in DOMAIN replyKeys' : x # a => replyKeys'[x] = replyKeys[x]
         /\ \A x \in DOMAIN replyKeys : x # a => x \in DOMAIN replyKeys'
         /\ a = {} => replyKeys' = replyKeys /\ (Accepted(a) <=> ~renamed)
         /\ a # {} /\ Accepted(a) => a \in DOMAIN replyKeys /\ replyKeys[a].left = 1
         /\ a # {} /\ a \in DOMAIN replyKeys' => /\ Accepted(a) /\ replyKeys'[a].left = 0
                                                 /\ replyKeys'[a].to = replyKeys[a].to
         /\ a # {} /\ Accepted(a) => a \in DOMAIN replyKeys'
         /\ \A x \in DOMAIN replyKeys' : replyKeys'[x] \in [left : {0, 1}, to : {ReplyTo(m) : m \in x}]
<1> DEFINE a == letters[l].addr
<1>1. a \in StreamAddress <=> a = {}
  BY DEF StreamAddress
<1>2. \A x \in DOMAIN replyKeys : replyKeys[x] \in [left : {0, 1}, to : {ReplyTo(m) : m \in x}]
  BY DEF MissTypes
<1> HIDE DEF a
<1>3. Marks(a)
  BY DEF a
<1>4. CASE a = {}
  BY <1>1, <1>2, <1>3, <1>4 DEF Marks, Accepted, a
<1>5. CASE a # {} /\ a \in DOMAIN replyKeys
  <2>1. UsesLeft(a) = replyKeys[a].left - 1 /\ replyKeys[a].left \in {0, 1} /\ mark_missed_message_address_as_used(a)
    BY <1>1, <1>2, <1>3, <1>5 DEF UsesLeft, Marks
  <2>2. CASE replyKeys[a].left = 1
    <3>1. replyKeys' = [replyKeys EXCEPT ![a].left = 0]
      BY <2>1, <2>2 DEF mark_missed_message_address_as_used, UsedUp
    <3>2. Accepted(a)
      BY <1>1, <1>5, <2>1, <2>2 DEF Accepted, UsedUp
    <3>3. /\ DOMAIN replyKeys' = DOMAIN replyKeys /\ replyKeys'[a] = [replyKeys[a] EXCEPT !.left = 0]
          /\ \A x \in DOMAIN replyKeys : x # a => replyKeys'[x] = replyKeys[x]
      BY <1>5, <3>1
    <3>4. /\ replyKeys'[a].left = 0 /\ replyKeys'[a].to = replyKeys[a].to
          /\ replyKeys'[a] \in [left : {0, 1}, to : {ReplyTo(m) : m \in a}]
      BY <1>2, <1>5, <3>3
    <3>5. \A x \in DOMAIN replyKeys' : replyKeys'[x] \in [left : {0, 1}, to : {ReplyTo(m) : m \in x}]
      BY <1>2, <3>3, <3>4
    <3> QED BY <1>5, <2>2, <3>2, <3>3, <3>4, <3>5 DEF a
  <2>3. CASE replyKeys[a].left = 0
    <3>1. replyKeys' = Restrict(replyKeys, DOMAIN replyKeys \ {a})
      BY <2>1, <2>3 DEF mark_missed_message_address_as_used, UsedUp
    <3>2. ~Accepted(a)
      BY <1>1, <1>5, <2>1, <2>3 DEF Accepted, UsedUp
    <3>3. /\ DOMAIN replyKeys' = DOMAIN replyKeys \ {a}
          /\ \A x \in DOMAIN replyKeys' : replyKeys'[x] = replyKeys[x]
      BY <3>1 DEF Restrict
    <3> QED BY <1>2, <1>5, <3>2, <3>3 DEF a
  <2> QED BY <2>1, <2>2, <2>3
<1>6. CASE a # {} /\ a \notin DOMAIN replyKeys
  <2>1. UsesLeft(a) = -1 /\ mark_missed_message_address_as_used(a) /\ ~Accepted(a)
    BY <1>1, <1>3, <1>6 DEF UsesLeft, Marks, Accepted, UsedUp
  <2>2. replyKeys' = Restrict(replyKeys, DOMAIN replyKeys \ {a})
    BY <2>1 DEF mark_missed_message_address_as_used, UsedUp
  <2>3. /\ DOMAIN replyKeys' = DOMAIN replyKeys
        /\ \A x \in DOMAIN replyKeys' : replyKeys'[x] = replyKeys[x]
    BY <1>6, <2>2 DEF Restrict
  <2> QED BY <1>2, <1>6, <2>1, <2>3 DEF a
<1> QED BY <1>4, <1>5, <1>6

\* A letter that was posted.
Goes(l, st) == [letters[l] EXCEPT !.state = st, !.posted = letters[l].posted + 1, !.to = PostedTo(letters[l].addr)]

\* What becomes of a letter that is processed.
LEMMA Processed ==
  ASSUME MissTypes, NEW l \in Letters, NEW b, NEW again \in {"queued", "sent"}, process_message(l, b, again)
  PROVE  LET a == letters[l].addr
         IN /\ letters[l].state = b /\ UNCHANGED <<replyKeys, expiredKeys, renamed>>
            /\ \/ ~Found(a) /\ letters' = [letters EXCEPT ![l].state = "lost"] /\ mailDeaths' = mailDeaths
               \/ Found(a) /\ letters' = [letters EXCEPT ![l] = Goes(l, "done")] /\ mailDeaths' = mailDeaths
               \/ Found(a) /\ letters' = [letters EXCEPT ![l] = Goes(l, again)] /\ mailDeaths' = mailDeaths + 1
<1> DEFINE a == letters[l].addr
<1>1. letters[l].state = b /\ UNCHANGED <<replyKeys, expiredKeys, renamed>>
  BY DEF process_message
<1>2. CASE ~Found(a)
  BY <1>1, <1>2 DEF process_message, Live
<1>3. CASE Found(a)
  <2>1. PICK st \in {"done", again} :
          /\ letters' = [letters EXCEPT ![l].state = st, ![l].posted = @ + 1, ![l].to = PostedTo(a)]
          /\ IF st = "done" THEN Live ELSE Die
    BY <1>3 DEF process_message
  <2>2. letters \in [Letters -> Letter]
    BY DEF MissTypes
  <2>3. letters' = [letters EXCEPT ![l] = Goes(l, st)]
    BY <2>1, <2>2 DEF Letter, Goes
  <2> QED BY <1>1, <1>3, <2>1, <2>3 DEF Live, Die
<1> QED BY <1>2, <1>3

\* What becomes of the letters at the gateway.
LEMMA GatewayKeeps ==
  ASSUME MissTypes, MissedNext, Gateway, UNCHANGED missWorkerVars
  PROVE  /\ MissTypes' /\ DOMAIN replyKeys' \subseteq DOMAIN replyKeys
<1>0. mailDeaths' \in Nat
  BY DeathsCounted
<1>1. /\ told' = told /\ missQueue' = missQueue /\ batch' = batch /\ handling' = handling /\ outbox' = outbox
      /\ mails' = mails
  BY DEF missWorkerVars
<1>2. ASSUME DOMAIN replyKeys' \subseteq DOMAIN replyKeys, letters' \in [Letters -> Letter],
             \A x \in DOMAIN replyKeys' : replyKeys'[x] \in [left : {0, 1}, to : {ReplyTo(m) : m \in x}]
      PROVE  MissTypes' /\ DOMAIN replyKeys' \subseteq DOMAIN replyKeys
  BY <1>0, <1>1, <1>2 DEF MissTypes
<1>3. /\ letters \in [Letters -> Letter] /\ \A l \in Letters : letters[l] \in Letter
      /\ \A x \in DOMAIN replyKeys : replyKeys[x] \in [left : {0, 1}, to : {ReplyTo(m) : m \in x}]
  BY DEF MissTypes
<1>4. ASSUME NEW l \in Letters, NEW s \in LetterStates, NEW a \in SUBSET Misses,
             letters' = [letters EXCEPT ![l].state = s, ![l].addr = a]
      PROVE  letters' \in [Letters -> Letter]
  <2>1. /\ DOMAIN letters' = Letters /\ letters' = [k \in Letters |-> letters'[k]]
        /\ letters'[l] = [letters[l] EXCEPT !.state = s, !.addr = a]
        /\ \A k \in Letters : k # l => letters'[k] = letters[k]
    BY <1>3, <1>4
  <2>2. letters'[l] \in Letter
    BY <1>3, <2>1 DEF Letter
  <2> QED BY <1>3, <2>1, <2>2
<1>5. ASSUME NEW l \in Letters, NEW s \in LetterStates, letters' = [letters EXCEPT ![l].state = s]
      PROVE  letters' \in [Letters -> Letter]
  <2>1. [letters[l] EXCEPT !.state = s] \in Letter
    BY <1>3 DEF Letter
  <2> QED BY <1>3, <1>5, <2>1
<1>6. CASE RenameStream
  BY <1>2, <1>3, <1>6 DEF RenameStream
<1>7. ASSUME NEW g \in Groups, KeyExpires(g) PROVE MissTypes' /\ DOMAIN replyKeys' \subseteq DOMAIN replyKeys
  <2>1. /\ letters' = letters /\ DOMAIN replyKeys' = DOMAIN replyKeys \ {g}
        /\ \A x \in DOMAIN replyKeys' : replyKeys'[x] = replyKeys[x]
    BY <1>7 DEF KeyExpires, Restrict
  <2> QED BY <1>2, <1>3, <2>1
<1>8. ASSUME NEW l \in Letters, NEW a \in Groups \union StreamAddress, WriteLetter(l, a)
      PROVE  MissTypes' /\ DOMAIN replyKeys' \subseteq DOMAIN replyKeys
  <2>1. letters' = [letters EXCEPT ![l].state = "sent", ![l].addr = a] /\ replyKeys' = replyKeys
    BY <1>8 DEF WriteLetter
  <2>2. a \in SUBSET Misses /\ "sent" \in LetterStates
    BY DEF Groups, StreamAddress, LetterStates
  <2>3. letters' \in [Letters -> Letter]
    BY <1>4, <2>1, <2>2
  <2> QED BY <1>2, <1>3, <2>1, <2>3
<1>9. ASSUME NEW l \in Letters, mirror_email_message(l) \/ get_imap_messages(l)
      PROVE  MissTypes' /\ DOMAIN replyKeys' \subseteq DOMAIN replyKeys
  <2>1. Marks(letters[l].addr)
    BY <1>9 DEF mirror_email_message, get_imap_messages
  <2>2. \/ letters' = letters
        \/ \E s \in {"queued", "bounced", "marked", "reported"} : letters' = [letters EXCEPT ![l].state = s]
    BY <1>9 DEF mirror_email_message, get_imap_messages
  <2>3. letters' \in [Letters -> Letter]
    BY <1>3, <1>5, <2>2 DEF LetterStates
  <2> QED BY <1>2, <2>1, <2>3, MarkKeeps
<1>10. ASSUME NEW l \in Letters, NEW b \in {"queued", "marked"}, NEW s \in {"queued", "sent"}, process_message(l, b, s)
       PROVE  MissTypes' /\ DOMAIN replyKeys' \subseteq DOMAIN replyKeys
  <2> DEFINE a == letters[l].addr
  <2>1. replyKeys' = replyKeys
    BY <1>10, Processed
  <2>2. \/ letters' = [letters EXCEPT ![l].state = "lost"]
        \/ Found(a) /\ letters' = [letters EXCEPT ![l] = Goes(l, "done")]
        \/ Found(a) /\ letters' = [letters EXCEPT ![l] = Goes(l, s)]
    BY <1>10, Processed
  <2>3. Found(a) => PostedTo(a) \in {ReplyTo(m) : m \in Misses} \union {"nobody", "stream"}
    <3>1. CASE a \in StreamAddress
      BY <3>1 DEF PostedTo
    <3>2. CASE a \notin StreamAddress /\ Found(a)
      <4>1. a \in DOMAIN replyKeys /\ PostedTo(a) = replyKeys[a].to
        BY <3>2 DEF Found, PostedTo
      <4>2. replyKeys[a].to \in {ReplyTo(m) : m \in a} /\ a \subseteq Misses
        BY <1>3, <4>1 DEF Letter
      <4> QED BY <4>1, <4>2
    <3> QED BY <3>1, <3>2
  <2>4. ASSUME Found(a), NEW st \in {"done", "queued", "sent"},
               letters' = [letters EXCEPT ![l] = Goes(l, st)]
        PROVE  letters' \in [Letters -> Letter]
    <3>1. letters[l].posted + 1 \in Nat /\ letters[l] \in Letter /\ st \in LetterStates
      BY <1>3 DEF Letter, LetterStates
    <3>2. Goes(l, st) \in Letter
      BY <2>3, <2>4, <3>1 DEF Letter, Goes
    <3> QED BY <1>3, <2>4, <3>2
  <2>5. letters' \in [Letters -> Letter]
    BY <1>5, <2>2, <2>4 DEF LetterStates
  <2> QED BY <1>2, <1>3, <2>1, <2>5
<1> QED BY <1>6, <1>7, <1>8, <1>9, <1>10 DEF Gateway

\* Where the misses and the mails about them move.
LEMMA MissTypesKept ==
  ASSUME MissTypes, FlowInv, MissedNext
  PROVE  MissTypes'
<1>0. mailDeaths' \in Nat
  BY DeathsCounted
<1>1. CASE Gateway /\ UNCHANGED missWorkerVars
  BY <1>1, GatewayKeeps
<1>2. CASE MissWorkers
  <2>1. letters' = letters
    BY <1>2 DEF MissWorkers, EventMissed, MissSettled, do_missedmessage_unsubscribe, handle_missedmessage_emails,
                drain_queue, MissedWorkerDies, do_send_missedmessage_events_reply_in_zulip, SendMail, gatewayVars
  <2>2. CASE \E m \in Misses : EventMissed(m) \/ MissSettled(m)
    BY <1>0, <2>1, <2>2 DEF MissTypes, EventMissed, MissSettled, gatewayVars
  <2>3. CASE (\E u \in Readers : do_missedmessage_unsubscribe(u)) \/ drain_queue
    BY <1>0, <2>1, <2>3 DEF MissTypes, do_missedmessage_unsubscribe, drain_queue, gatewayVars
  <2>4. CASE MissedWorkerDies
    <3>1. NoUser \in [user : {"nobody"}, wants : BOOLEAN, groups : SUBSET Groups]
      BY DEF NoUser
    <3>2. handling' \in [user : {handling'.user}, wants : BOOLEAN, groups : SUBSET Groups]
      BY <2>4, <3>1 DEF MissedWorkerDies, NoUser
    <3> QED BY <1>0, <2>1, <2>4, <3>2 DEF MissTypes, MissedWorkerDies, gatewayVars
  <2>5. ASSUME NEW u \in Readers, handle_missedmessage_emails(u) PROVE MissTypes'
    <3> DEFINE mine == {m \in batch : MissedBy[m] = u}
               groups == ByRecipientSubject(Unread(mine))
    <3>1. groups \in SUBSET Groups
      BY DEF MissTypes, ByRecipientSubject, SameMail, Unread, Groups
    <3>2. /\ batch' = batch \ mine
          /\ handling' = IF groups = {} THEN NoUser ELSE [user |-> u, wants |-> u \notin mailOff, groups |-> groups]
      BY <2>5 DEF handle_missedmessage_emails
    <3> HIDE DEF groups, mine
    <3>3. NoUser \in [user : {"nobody"}, wants : BOOLEAN, groups : SUBSET Groups]
      BY DEF NoUser
    <3>4. handling' \in [user : {handling'.user}, wants : BOOLEAN, groups : SUBSET Groups]
      <4>1. CASE groups = {}
        BY <3>2, <3>3, <4>1 DEF NoUser
      <4>2. CASE groups # {}
        <5>1. (u \notin mailOff) \in BOOLEAN
          OBVIOUS
        <5> QED BY <3>1, <3>2, <4>2, <5>1
      <4> QED BY <4>1, <4>2
    <3> QED BY <1>0, <2>1, <2>5, <3>2, <3>4 DEF MissTypes, handle_missedmessage_emails, gatewayVars
  <2>6. ASSUME NEW g \in handling.groups, do_send_missedmessage_events_reply_in_zulip(g) PROVE MissTypes'
    <3>0. g \in Groups
      BY DEF MissTypes
    <3>1. handling' \in [user : {handling'.user}, wants : BOOLEAN, groups : SUBSET Groups]
      <4>1. handling' = IF handling.groups = {g} THEN NoUser
                        ELSE [handling EXCEPT !.groups = handling.groups \ {g}]
        BY <2>6 DEF do_send_missedmessage_events_reply_in_zulip
      <4>2. NoUser \in [user : {"nobody"}, wants : BOOLEAN, groups : SUBSET Groups]
        BY DEF NoUser
      <4> QED BY <4>1, <4>2 DEF MissTypes, NoUser
    <3>2. outbox' \subseteq Groups
      BY <2>6, <3>0 DEF MissTypes, do_send_missedmessage_events_reply_in_zulip
    <3>3. /\ DOMAIN replyKeys' \subseteq Groups
          /\ \A a \in DOMAIN replyKeys' : replyKeys'[a] \in [left : {0, 1}, to : {ReplyTo(m) : m \in a}]
      <4>1. CASE ~handling.wants
        BY <2>6, <4>1 DEF MissTypes, do_send_missedmessage_events_reply_in_zulip
      <4>2. CASE handling.wants
        <5> DEFINE new == [left |-> 1, to |-> ReplyTo(Min(WithContext(g)))]
        <5>1. replyKeys' = [x \in DOMAIN replyKeys \union {g} |-> IF x = g THEN new ELSE replyKeys[x]]
          BY <2>6, <4>2 DEF do_send_missedmessage_events_reply_in_zulip
        <5>2. \A m, n \in g : MissTopic[m] = MissTopic[n]
          BY DEF FlowInv
        <5>3. ReplyTo(Min(WithContext(g))) \in {ReplyTo(m) : m \in g}
          BY <3>0, <5>2, RepliesBelong
        <5>4. new \in [left : {0, 1}, to : {ReplyTo(m) : m \in g}]
          BY <5>3
        <5> HIDE DEF new
        <5> QED BY <3>0, <5>1, <5>4 DEF MissTypes
      <4> QED BY <4>1, <4>2
    <3> QED BY <1>0, <2>1, <2>6, <3>1, <3>2, <3>3 DEF MissTypes, do_send_missedmessage_events_reply_in_zulip
  <2>7. ASSUME NEW g \in outbox, SendMail(g) PROVE MissTypes'
    <3>1. /\ outbox' \subseteq Groups
          /\ mails' = mails \/ mails' = [mails EXCEPT ![g] = mails[g] + 1]
      BY <2>7 DEF MissTypes, SendMail
    <3>2. mails' \in [Groups -> Nat]
      BY <3>1 DEF MissTypes
    <3> QED BY <1>0, <2>1, <2>7, <3>1, <3>2 DEF MissTypes, SendMail, gatewayVars
  <2> QED BY <1>2, <2>2, <2>3, <2>4, <2>5, <2>6, <2>7 DEF MissWorkers
<1> QED BY <1>1, <1>2, MissGroups

\* Misses and mails stay apart on their way, and none is passed over.
LEMMA FlowKept ==
  ASSUME MissTypes, FlowInv, MissedNext
  PROVE  FlowInv'
<1>0. /\ mailDeaths \in Nat /\ mailDeaths' \in Nat /\ mailDeaths <= mailDeaths'
      /\ mails \in [Groups -> Nat] /\ \A g \in Groups : mails[g] \in Nat
      /\ handling.groups \subseteq Groups /\ outbox \subseteq Groups /\ DOMAIN replyKeys \subseteq Groups
      /\ missQueue \subseteq told /\ batch \subseteq told /\ MissTypes'
  <2>1. MissTypes'
    BY MissTypesKept
  <2> QED BY <2>1, DeathsCounted DEF MissTypes
<1>f. /\ missQueue \intersect batch = {}
      /\ \A g \in handling.groups :
           /\ g \subseteq told \ (missQueue \union batch)
           /\ \A m \in g : MissedBy[m] = handling.user
           /\ \A m, n \in g : MissTopic[m] = MissTopic[n]
           /\ \A h \in handling.groups : g # h => g \intersect h = {}
      /\ handling.groups # {} /\ ~handling.wants => handling.user \in mailOff
  BY DEF FlowInv
<1>o. \A h \in Groups : Out(h) =>
        /\ h \subseteq told \ (missQueue \union batch)
        /\ \A g \in handling.groups : g \intersect h = {}
        /\ \A k \in Groups : Out(k) /\ h # k => h \intersect k = {}
  BY DEF FlowInv
<1>m. \A g \in Groups : mails[g] <= mailDeaths + (IF g \in outbox THEN 0 ELSE 1)
  BY DEF FlowInv
<1>t. \A m \in told :
        \/ m \in missQueue \union batch \union excused \union settled \/ MissedBy[m] \in mailOff
        \/ \E g \in handling.groups \union outbox : m \in g
        \/ \E g \in Groups : m \in g /\ mails[g] > 0
  BY DEF FlowInv
<1>n. \A g \in Groups : g # {}
  BY DEF Groups
<1>1. CASE Gateway /\ UNCHANGED missWorkerVars
  <2>1. DOMAIN replyKeys' \subseteq DOMAIN replyKeys
    BY <1>1, GatewayKeeps
  <2>2. /\ told' = told /\ missQueue' = missQueue /\ batch' = batch /\ handling' = handling /\ settled' = settled
        /\ mailOff' = mailOff /\ outbox' = outbox /\ mails' = mails /\ excused' = excused
    BY <1>1 DEF missWorkerVars
  <2>3. \A h \in Groups : Out(h)' => Out(h)
    BY <2>1, <2>2 DEF Out
  <2>4. \A g \in Groups : mails'[g] <= mailDeaths' + (IF g \in outbox' THEN 0 ELSE 1)
    BY <1>0, <1>m, <2>2
  <2> QED BY <1>f, <1>o, <1>t, <2>2, <2>3, <2>4 DEF FlowInv
<1>2. ASSUME NEW m \in Misses, EventMissed(m) PROVE FlowInv'
  <2>1. /\ m \notin told /\ told' = told \union {m} /\ missQueue' = missQueue \union {m}
        /\ batch' = batch /\ handling' = handling /\ settled' = settled /\ mailOff' = mailOff /\ outbox' = outbox
        /\ mails' = mails /\ excused' = excused /\ replyKeys' = replyKeys
    BY <1>2 DEF EventMissed, gatewayVars
  <2>2. \A h \in Groups : Out(h)' <=> Out(h)
    BY <2>1 DEF Out
  <2>3. \A g \in Groups : mails'[g] <= mailDeaths' + (IF g \in outbox' THEN 0 ELSE 1)
    BY <1>0, <1>m, <2>1
  <2> QED BY <1>0, <1>f, <1>o, <1>t, <2>1, <2>2, <2>3 DEF FlowInv
<1>3. ASSUME NEW m \in Misses, MissSettled(m) PROVE FlowInv'
  <2>1. /\ told' = told /\ missQueue' = missQueue /\ settled' = settled \union {m}
        /\ batch' = batch /\ handling' = handling /\ mailOff' = mailOff /\ outbox' = outbox
        /\ mails' = mails /\ excused' = excused /\ replyKeys' = replyKeys
    BY <1>3 DEF MissSettled, gatewayVars
  <2>2. \A h \in Groups : Out(h)' <=> Out(h)
    BY <2>1 DEF Out
  <2>3. \A g \in Groups : mails'[g] <= mailDeaths' + (IF g \in outbox' THEN 0 ELSE 1)
    BY <1>0, <1>m, <2>1
  <2> QED BY <1>f, <1>o, <1>t, <2>1, <2>2, <2>3 DEF FlowInv
<1>4. ASSUME NEW u \in Readers, do_missedmessage_unsubscribe(u) PROVE FlowInv'
  <2>1. /\ told' = told /\ missQueue' = missQueue /\ settled' = settled /\ mailOff' = mailOff \union {u}
        /\ batch' = batch /\ handling' = handling /\ outbox' = outbox
        /\ mails' = mails /\ excused' = excused /\ replyKeys' = replyKeys
    BY <1>4 DEF do_missedmessage_unsubscribe, gatewayVars
  <2>2. \A h \in Groups : Out(h)' <=> Out(h)
    BY <2>1 DEF Out
  <2>3. \A g \in Groups : mails'[g] <= mailDeaths' + (IF g \in outbox' THEN 0 ELSE 1)
    BY <1>0, <1>m, <2>1
  <2> QED BY <1>f, <1>o, <1>t, <2>1, <2>2, <2>3 DEF FlowInv
<1>5. CASE drain_queue
  <2>1. /\ told' = told /\ batch = {} /\ batch' = missQueue /\ missQueue' = {} /\ settled' = settled /\ mailOff' = mailOff
        /\ handling' = handling /\ outbox' = outbox
        /\ mails' = mails /\ excused' = excused /\ replyKeys' = replyKeys
    BY <1>5 DEF drain_queue, gatewayVars
  <2>2. \A h \in Groups : Out(h)' <=> Out(h)
    BY <2>1 DEF Out
  <2>3. \A g \in Groups : mails'[g] <= mailDeaths' + (IF g \in outbox' THEN 0 ELSE 1)
    BY <1>0, <1>m, <2>1
  <2> QED BY <1>f, <1>o, <1>t, <2>1, <2>2, <2>3 DEF FlowInv
<1>6. ASSUME NEW u \in Readers, handle_missedmessage_emails(u) PROVE FlowInv'
  <2> DEFINE mine == {m \in batch : MissedBy[m] = u}
             groups == ByRecipientSubject(Unread(mine))
  <2>1. /\ told' = told /\ missQueue' = missQueue /\ settled' = settled /\ mailOff' = mailOff
        /\ outbox' = outbox /\ mails' = mails /\ excused' = excused /\ replyKeys' = replyKeys
        /\ batch' = batch \ mine /\ handling = NoUser
        /\ handling' = IF groups = {} THEN NoUser ELSE [user |-> u, wants |-> u \notin mailOff, groups |-> groups]
    BY <1>6 DEF handle_missedmessage_emails, gatewayVars
  <2>2. /\ \A g \in groups : g \subseteq mine /\ (\A m \in g : MissedBy[m] = u)
                             /\ \A m, n \in g : MissTopic[m] = MissTopic[n]
        /\ \A g, h \in groups : g # h => g \intersect h = {}
        /\ \A m \in mine : m \in settled \/ \E g \in groups : m \in g
    <3>1. \A g \in groups : \E m \in Unread(mine) : g = {n \in Unread(mine) : MissTopic[m] = MissTopic[n]}
      BY DEF ByRecipientSubject, SameMail
    <3>2. \A m \in Unread(mine) : {n \in Unread(mine) : MissTopic[m] = MissTopic[n]} \in groups
      BY DEF ByRecipientSubject, SameMail
    <3>3. \A m \in mine : MissedBy[m] = u /\ (m \in settled \/ m \in Unread(mine))
      BY DEF Unread
    <3>4. Unread(mine) \subseteq mine
      BY DEF Unread
    <3> HIDE DEF groups, mine
    <3>5. \A g \in groups : g \subseteq mine /\ (\A m \in g : MissedBy[m] = u) /\ \A m, n \in g : MissTopic[m] = MissTopic[n]
      BY <3>1, <3>3, <3>4
    <3>6. \A g, h \in groups : g # h => g \intersect h = {}
      <4> SUFFICES ASSUME NEW g \in groups, NEW h \in groups, NEW x, x \in g, x \in h PROVE g = h
        OBVIOUS
      <4>1. PICK m \in Unread(mine) : g = {n \in Unread(mine) : MissTopic[m] = MissTopic[n]}
        BY <3>1
      <4>2. PICK k \in Unread(mine) : h = {n \in Unread(mine) : MissTopic[k] = MissTopic[n]}
        BY <3>1
      <4> QED BY <4>1, <4>2
    <3>7. \A m \in mine : m \in settled \/ \E g \in groups : m \in g
      BY <3>2, <3>3
    <3> QED BY <3>5, <3>6, <3>7
  <2>3. mine \subseteq batch
    OBVIOUS
  <2> HIDE DEF mine, groups
  <2>4. handling'.groups = groups /\ (groups # {} => handling'.user = u /\ (~handling'.wants => u \in mailOff))
    <3>1. CASE groups = {}
      BY <2>1, <3>1 DEF NoUser
    <3>2. CASE groups # {}
      <4>1. handling'.groups = groups /\ handling'.user = u
        BY <2>1, <3>2
      <4>2. handling'.wants = (u \notin mailOff)
        BY <2>1, <3>2
      <4> QED BY <4>1, <4>2
    <3> QED BY <3>1, <3>2
  <2>5. \A h \in Groups : Out(h)' <=> Out(h)
    BY <2>1 DEF Out
  <2>6. \A g \in Groups : mails'[g] <= mailDeaths' + (IF g \in outbox' THEN 0 ELSE 1)
    BY <1>0, <1>m, <2>1
  <2>7. /\ missQueue' \intersect batch' = {}
        /\ \A g \in handling'.groups :
             /\ g \subseteq told' \ (missQueue' \union batch')
             /\ \A m \in g : MissedBy[m] = handling'.user
             /\ \A m, n \in g : MissTopic[m] = MissTopic[n]
             /\ \A h \in handling'.groups : g # h => g \intersect h = {}
        /\ handling'.groups # {} /\ ~handling'.wants => handling'.user \in mailOff'
    BY <1>0, <1>f, <2>1, <2>2, <2>3, <2>4
  <2>8. \A h \in Groups : Out(h)' =>
          /\ h \subseteq told' \ (missQueue' \union batch')
          /\ \A g \in handling'.groups : g \intersect h = {}
          /\ \A k \in Groups : Out(k)' /\ h # k => h \intersect k = {}
    BY <1>o, <2>1, <2>2, <2>3, <2>4, <2>5
  <2>9. \A m \in told' :
          \/ m \in missQueue' \union batch' \union excused' \union settled' \/ MissedBy[m] \in mailOff'
          \/ \E g \in handling'.groups \union outbox' : m \in g
          \/ \E g \in Groups : m \in g /\ mails'[g] > 0
    <3>1. handling.groups = {}
      BY <2>1 DEF NoUser
    <3> QED BY <1>t, <2>1, <2>2, <2>4, <3>1
  <2> QED BY <2>6, <2>7, <2>8, <2>9 DEF FlowInv
<1>7. ASSUME NEW g \in handling.groups, do_send_missedmessage_events_reply_in_zulip(g) PROVE FlowInv'
  <2>0. g \in Groups
    BY <1>0
  <2>1. /\ told' = told /\ missQueue' = missQueue /\ settled' = settled /\ mailOff' = mailOff /\ batch' = batch
        /\ mails' = mails /\ excused' = excused
        /\ handling' = IF handling.groups = {g} THEN NoUser
                       ELSE [handling EXCEPT !.groups = handling.groups \ {g}]
    BY <1>7 DEF do_send_missedmessage_events_reply_in_zulip
  <2>2. \/ ~handling.wants /\ outbox' = outbox /\ replyKeys' = replyKeys
        \/ handling.wants /\ outbox' = outbox \union {g} /\ DOMAIN replyKeys' = DOMAIN replyKeys \union {g}
    BY <1>7 DEF do_send_missedmessage_events_reply_in_zulip
  <2>3. /\ handling'.groups = handling.groups \ {g}
        /\ handling'.groups # {} => handling'.user = handling.user /\ handling'.wants = handling.wants
    BY <2>1 DEF MissTypes, NoUser
  <2>4. \A h \in Groups : Out(h)' => Out(h) \/ h = g
    BY <2>1, <2>2 DEF Out
  <2>5. ~Out(g)
    BY <1>n, <1>o, <2>0
  <2>6. \A k \in Groups : mails'[k] <= mailDeaths' + (IF k \in outbox' THEN 0 ELSE 1)
    <3>1. mails[g] = 0
      BY <1>0, <2>0, <2>5 DEF Out
    <3> QED BY <1>0, <1>m, <2>1, <2>2, <3>1
  <2>7. /\ missQueue' \intersect batch' = {}
        /\ \A h \in handling'.groups :
             /\ h \subseteq told' \ (missQueue' \union batch')
             /\ \A m \in h : MissedBy[m] = handling'.user
             /\ \A m, n \in h : MissTopic[m] = MissTopic[n]
             /\ \A k \in handling'.groups : h # k => h \intersect k = {}
    BY <1>f, <2>1, <2>3
  <2>8. handling'.groups # {} /\ ~handling'.wants => handling'.user \in mailOff'
    BY <1>f, <2>1, <2>3
  <2>9. \A h \in Groups : Out(h)' =>
          /\ h \subseteq told' \ (missQueue' \union batch')
          /\ \A k \in handling'.groups : k \intersect h = {}
          /\ \A k \in Groups : Out(k)' /\ h # k => h \intersect k = {}
    <3>1. \A h \in Groups : Out(h) => g \intersect h = {} /\ h \intersect g = {}
      BY <1>o
    <3>2. g \subseteq told \ (missQueue \union batch) /\ \A k \in handling'.groups : k \intersect g = {}
      BY <1>f, <2>3
    <3> QED BY <1>o, <2>1, <2>3, <2>4, <3>1, <3>2
  <2>10. \A m \in told' :
          \/ m \in missQueue' \union batch' \union excused' \union settled' \/ MissedBy[m] \in mailOff'
          \/ \E k \in handling'.groups \union outbox' : m \in k
          \/ \E k \in Groups : m \in k /\ mails'[k] > 0
    <3>1. \A m \in g : MissedBy[m] = handling.user /\ (~handling.wants => handling.user \in mailOff)
      BY <1>f
    <3> QED BY <1>t, <2>1, <2>2, <2>3, <3>1
  <2> QED BY <2>6, <2>7, <2>8, <2>9, <2>10 DEF FlowInv
<1>8. CASE MissedWorkerDies
  <2>1. /\ told' = told /\ missQueue' = missQueue /\ settled' = settled /\ mailOff' = mailOff
        /\ outbox' = outbox /\ mails' = mails /\ replyKeys' = replyKeys
        /\ excused' = excused \union batch \union UNION handling.groups
        /\ batch' = {} /\ handling' = NoUser /\ handling'.groups = {}
    BY <1>8 DEF MissedWorkerDies, gatewayVars, NoUser
  <2>2. \A h \in Groups : Out(h)' <=> Out(h)
    BY <2>1 DEF Out
  <2>3. \A g \in Groups : mails'[g] <= mailDeaths' + (IF g \in outbox' THEN 0 ELSE 1)
    BY <1>0, <1>m, <2>1
  <2>4. \A m \in told' :
          \/ m \in missQueue' \union batch' \union excused' \union settled' \/ MissedBy[m] \in mailOff'
          \/ \E g \in handling'.groups \union outbox' : m \in g
          \/ \E g \in Groups : m \in g /\ mails'[g] > 0
    BY <1>t, <2>1
  <2> QED BY <1>f, <1>o, <2>1, <2>2, <2>3, <2>4 DEF FlowInv
<1>9. ASSUME NEW g \in outbox, SendMail(g) PROVE FlowInv'
  <2>0. g \in Groups
    BY <1>0
  <2>1. /\ told' = told /\ missQueue' = missQueue /\ settled' = settled /\ mailOff' = mailOff
        /\ batch' = batch /\ handling' = handling /\ replyKeys' = replyKeys
        /\ \/ outbox' = outbox \ {g} /\ mails' = [mails EXCEPT ![g] = mails[g] + 1] /\ excused' = excused
           \/ outbox' = outbox /\ mails' = [mails EXCEPT ![g] = mails[g] + 1] /\ excused' = excused
              /\ mailDeaths' = mailDeaths + 1
           \/ outbox' = outbox \ {g} /\ mails' = mails /\ excused' = excused \union g
    BY <1>9 DEF SendMail, gatewayVars, Die
  <2>2. \A h \in Groups : h # g => mails'[h] = mails[h]
    BY <1>0, <2>1
  <2>3. Out(g) /\ \A h \in Groups : Out(h)' => Out(h)
    BY <1>0, <2>0, <2>1, <2>2 DEF Out
  <2>4. \A k \in Groups : mails'[k] <= mailDeaths' + (IF k \in outbox' THEN 0 ELSE 1)
    <3>1. mails[g] <= mailDeaths
      BY <1>m, <1>0, <2>0
    <3>2. mails'[g] = mails[g] \/ mails'[g] = mails[g] + 1
      BY <1>0, <2>0, <2>1
    <3>3. mails'[g] <= mailDeaths' + (IF g \in outbox' THEN 0 ELSE 1)
      BY <1>0, <2>0, <2>1, <3>1, <3>2
    <3>4. \A k \in Groups : k # g => (k \in outbox' <=> k \in outbox)
      BY <2>1
    <3> QED BY <1>0, <1>m, <2>2, <3>3, <3>4
  <2>5. \A m \in told' :
          \/ m \in missQueue' \union batch' \union excused' \union settled' \/ MissedBy[m] \in mailOff'
          \/ \E k \in handling'.groups \union outbox' : m \in k
          \/ \E k \in Groups : m \in k /\ mails'[k] > 0
    <3>1. \/ mails'[g] > 0 /\ excused' = excused
          \/ mails' = mails /\ excused' = excused \union g
      BY <1>0, <2>0, <2>1
    <3>2. \A k \in Groups : mails[k] > 0 => mails'[k] > 0
      BY <1>0, <2>0, <2>1
    <3>3. \A k \in outbox : k = g \/ k \in outbox'
      BY <2>1
    <3> QED BY <1>0, <1>t, <2>0, <2>1, <3>1, <3>2, <3>3
  <2> QED BY <1>f, <1>o, <2>1, <2>3, <2>4, <2>5 DEF FlowInv
<1> QED BY <1>1, <1>2, <1>3, <1>4, <1>5, <1>6, <1>7, <1>8, <1>9, MissGroups DEF MissWorkers

\* No step undoes what is said of the letters.
LEMMA LettersKept == MissTypes /\ FlowInv /\ LettersInv /\ MissedNext => LettersInv'
<1> SUFFICES ASSUME MissTypes, FlowInv, LettersInv, MissedNext PROVE LettersInv'
  OBVIOUS
<1>0. /\ mailDeaths \in Nat /\ mailDeaths' \in Nat /\ mailDeaths <= mailDeaths'
      /\ letters \in [Letters -> Letter] /\ \A k \in Letters : letters[k] \in Letter
      /\ mails \in [Groups -> Nat] /\ \A k \in Letters : letters[k].posted \in Nat
  BY DeathsCounted DEF MissTypes, Letter
<1>i. \A k \in Letters :
        /\ letters[k].state = "none" => letters[k].addr = {} /\ letters[k].posted = 0
        /\ letters[k].posted <= mailDeaths + (IF letters[k].state = "done" THEN 1 ELSE 0)
        /\ letters[k].state = "lost" /\ letters[k].addr = {} => renamed
  BY DEF LettersInv, IsReply
<1>p. \A k \in Letters : letters[k].posted <= mailDeaths' + (IF letters[k].state = "done" THEN 1 ELSE 0)
  BY <1>0, <1>i
<1>r. \A k \in Letters : letters[k].addr # {} =>
         /\ letters[k].addr \in Groups /\ mails[letters[k].addr] > 0
         /\ letters[k].posted > 0 => letters[k].to \in {ReplyTo(m) : m \in letters[k].addr}
         /\ Admitted(k) =>
              /\ \A j \in Letters \ {k} : letters[j].addr = letters[k].addr => ~Admitted(j)
              /\ letters[k].addr \in DOMAIN replyKeys => replyKeys[letters[k].addr].left = 0
         /\ letters[k].state \in {"queued", "marked"} =>
              \/ letters[k].addr \in DOMAIN replyKeys \union expiredKeys
              \/ \E j \in Letters \ {k} : letters[j].addr = letters[k].addr
         /\ letters[k].state = "lost" =>
              \/ letters[k].addr \in expiredKeys
              \/ \E j \in Letters \ {k} : letters[j].addr = letters[k].addr
  BY DEF LettersInv, IsReply
<1>1. CASE MissWorkers
  <2>1. /\ letters' = letters /\ expiredKeys' = expiredKeys /\ renamed' = renamed
        /\ \A g \in Groups : mails[g] > 0 => mails'[g] > 0
    <3>1. ASSUME NEW g \in Groups, mails' = [mails EXCEPT ![g] = mails[g] + 1]
          PROVE  \A h \in Groups : mails[h] > 0 => mails'[h] > 0
      BY <1>0, <3>1
    <3>2. outbox \subseteq Groups
      BY DEF MissTypes
    <3>3. CASE \E g \in outbox : SendMail(g)
      BY <3>1, <3>2, <3>3 DEF SendMail, gatewayVars
    <3> QED BY <1>1, <3>3 DEF MissWorkers, EventMissed, MissSettled, do_missedmessage_unsubscribe,
               handle_missedmessage_emails, drain_queue, MissedWorkerDies,
               do_send_missedmessage_events_reply_in_zulip, gatewayVars
  <2>2. \A a \in Groups : mails[a] > 0 =>
          /\ a \in DOMAIN replyKeys' <=> a \in DOMAIN replyKeys
          /\ a \in DOMAIN replyKeys => replyKeys'[a] = replyKeys[a]
    <3>1. CASE replyKeys' = replyKeys
      BY <3>1
    <3>2. ASSUME NEW g \in handling.groups, do_send_missedmessage_events_reply_in_zulip(g), replyKeys' # replyKeys
          PROVE  \A a \in Groups : mails[a] > 0 =>
                   /\ a \in DOMAIN replyKeys' <=> a \in DOMAIN replyKeys
                   /\ a \in DOMAIN replyKeys => replyKeys'[a] = replyKeys[a]
      <4>1. /\ DOMAIN replyKeys' = DOMAIN replyKeys \union {g}
            /\ \A x \in DOMAIN replyKeys : x # g => replyKeys'[x] = replyKeys[x]
        BY <3>2 DEF do_send_missedmessage_events_reply_in_zulip
      <4>2. \A a \in Groups : mails[a] > 0 => a # g
        BY DEF FlowInv, Out, Groups
      <4> QED BY <4>1, <4>2
    <3> QED BY <1>1, <3>1, <3>2 DEF MissWorkers, EventMissed, MissSettled, do_missedmessage_unsubscribe,
               handle_missedmessage_emails, drain_queue, MissedWorkerDies, SendMail, gatewayVars
  <2>3. \A k \in Letters : Admitted(k)' <=> Admitted(k)
    BY <2>1 DEF Admitted
  <2> QED BY <1>i, <1>p, <1>r, <2>1, <2>2, <2>3 DEF LettersInv, IsReply
<1>2. ASSUME UNCHANGED <<letters, mails>>, expiredKeys \subseteq expiredKeys', renamed => renamed',
             DOMAIN replyKeys \subseteq DOMAIN replyKeys' \union expiredKeys',
             \A x \in DOMAIN replyKeys' : x \in DOMAIN replyKeys /\ replyKeys'[x] = replyKeys[x]
      PROVE  LettersInv'
  <2>1. \A k \in Letters : Admitted(k)' <=> Admitted(k)
    BY <1>2 DEF Admitted
  <2> QED BY <1>2, <1>i, <1>p, <1>r, <2>1 DEF LettersInv, IsReply
<1>3. CASE RenameStream
  BY <1>2, <1>3 DEF RenameStream, missWorkerVars
<1>4. ASSUME NEW g \in Groups, KeyExpires(g) PROVE LettersInv'
  <2>1. /\ UNCHANGED <<letters, mails, renamed>> /\ expiredKeys' = expiredKeys \union {g}
        /\ DOMAIN replyKeys' = DOMAIN replyKeys \ {g} /\ \A x \in DOMAIN replyKeys' : replyKeys'[x] = replyKeys[x]
    BY <1>4 DEF KeyExpires, Restrict, missWorkerVars
  <2> QED BY <1>2, <2>1
<1>5. ASSUME NEW l \in Letters, NEW a \in Groups \union StreamAddress, WriteLetter(l, a) PROVE LettersInv'
  <2>1. /\ UNCHANGED <<mails, renamed, replyKeys, expiredKeys>> /\ letters[l].state = "none"
        /\ letters' = [letters EXCEPT ![l].state = "sent", ![l].addr = a]
        /\ a # {} => a \in Groups /\ mails[a] > 0
    BY <1>5 DEF WriteLetter, missWorkerVars, StreamAddress
  <2>2. /\ \A k \in Letters : k # l => letters'[k] = letters[k]
        /\ letters'[l] = [letters[l] EXCEPT !.state = "sent", !.addr = a]
    BY <1>0, <2>1
  <2>3. /\ letters'[l].state = "sent" /\ letters'[l].addr = a /\ letters'[l].posted = 0 /\ letters[l].addr = {}
    BY <1>0, <1>i, <2>1, <2>2 DEF Letter
  <2>4. ~Admitted(l)' /\ \A k \in Letters : k # l => (Admitted(k)' <=> Admitted(k))
    BY <2>2, <2>3 DEF Admitted
  <2>5. ASSUME NEW k \in Letters
        PROVE  /\ letters'[k].state = "none" => letters'[k].addr = {} /\ letters'[k].posted = 0
               /\ letters'[k].posted <= mailDeaths' + (IF letters'[k].state = "done" THEN 1 ELSE 0)
               /\ letters'[k].state = "lost" /\ letters'[k].addr = {} => renamed'
    BY <1>0, <1>i, <1>p, <2>1, <2>2, <2>3
  <2>6. ASSUME NEW k \in Letters, letters'[k].addr # {}
        PROVE  /\ letters'[k].addr \in Groups /\ mails'[letters'[k].addr] > 0
               /\ letters'[k].posted > 0 => letters'[k].to \in {ReplyTo(m) : m \in letters'[k].addr}
               /\ Admitted(k)' =>
                    /\ \A j \in Letters \ {k} : letters'[j].addr = letters'[k].addr => ~Admitted(j)'
                    /\ letters'[k].addr \in DOMAIN replyKeys' => replyKeys'[letters'[k].addr].left = 0
               /\ letters'[k].state \in {"queued", "marked"} =>
                    \/ letters'[k].addr \in DOMAIN replyKeys' \union expiredKeys'
                    \/ \E j \in Letters \ {k} : letters'[j].addr = letters'[k].addr
               /\ letters'[k].state = "lost" =>
                    \/ letters'[k].addr \in expiredKeys'
                    \/ \E j \in Letters \ {k} : letters'[j].addr = letters'[k].addr
    <3>1. CASE k = l
      <4>1. /\ letters'[k].state = "sent" /\ letters'[k].addr = a /\ letters'[k].posted = 0
            /\ a \in Groups /\ mails'[a] > 0
        BY <2>1, <2>3, <2>6, <3>1
      <4>2. ~Admitted(k)' /\ ~(letters'[k].posted > 0)
        BY <4>1 DEF Admitted
      <4> QED BY <4>1, <4>2
    <3>2. CASE k # l
      <4>1. letters'[k] = letters[k] /\ letters[k].addr # {}
        BY <2>2, <2>6, <3>2
      <4>2. \A j \in Letters : letters[j].addr = letters[k].addr => letters'[j].addr = letters'[k].addr
        BY <2>2, <2>3, <4>1
      <4>3. Admitted(k)' => Admitted(k)
        BY <4>1 DEF Admitted
      <4>4. \A j \in Letters : ~Admitted(j) => ~Admitted(j)'
        BY <2>4
      <4>5. /\ letters[k].addr \in Groups /\ mails[letters[k].addr] > 0
            /\ letters[k].posted > 0 => letters[k].to \in {ReplyTo(m) : m \in letters[k].addr}
            /\ letters[k].state = "lost" =>
                 \/ letters[k].addr \in expiredKeys
                 \/ \E j \in Letters \ {k} : letters[j].addr = letters[k].addr
            /\ letters[k].state \in {"queued", "marked"} =>
                 \/ letters[k].addr \in DOMAIN replyKeys \union expiredKeys
                 \/ \E j \in Letters \ {k} : letters[j].addr = letters[k].addr
        BY <1>r, <4>1
      <4>6. Admitted(k) => /\ \A j \in Letters \ {k} : letters[j].addr = letters[k].addr => ~Admitted(j)
                           /\ letters[k].addr \in DOMAIN replyKeys => replyKeys[letters[k].addr].left = 0
        BY <1>r, <4>1
      <4>7. \A j \in Letters \ {k} : letters'[j].addr = letters[k].addr => letters[j].addr = letters[k].addr \/ j = l
        BY <2>2
      <4>8. Admitted(k)' => \A j \in Letters \ {k} : letters'[j].addr = letters'[k].addr => ~Admitted(j)'
        BY <2>4, <4>1, <4>3, <4>4, <4>6, <4>7
      <4>9. replyKeys' = replyKeys /\ expiredKeys' = expiredKeys /\ mails' = mails
        BY <2>1
      <4>10. /\ letters'[k].state \in {"queued", "marked"} =>
                  \/ letters'[k].addr \in DOMAIN replyKeys' \union expiredKeys'
                  \/ \E j \in Letters \ {k} : letters'[j].addr = letters'[k].addr
             /\ letters'[k].state = "lost" =>
                  \/ letters'[k].addr \in expiredKeys'
                  \/ \E j \in Letters \ {k} : letters'[j].addr = letters'[k].addr
        BY <4>1, <4>2, <4>5, <4>9
      <4>11. Admitted(k)' /\ letters'[k].addr \in DOMAIN replyKeys' => replyKeys'[letters'[k].addr].left = 0
        BY <4>1, <4>3, <4>6, <4>9
      <4>12. /\ letters'[k].addr \in Groups /\ mails'[letters'[k].addr] > 0
             /\ letters'[k].posted > 0 => letters'[k].to \in {ReplyTo(m) : m \in letters'[k].addr}
        BY <4>1, <4>5, <4>9
      <4> QED BY <4>8, <4>10, <4>11, <4>12
    <3> QED BY <3>1, <3>2
  <2> QED BY <2>5, <2>6 DEF LettersInv, IsReply
<1>6. ASSUME NEW l \in Letters, letters[l].state = "sent", Marks(letters[l].addr),
             UNCHANGED <<mails, renamed, expiredKeys>>,
             \/ letters' = letters
             \/ \E s \in {"queued", "marked"} : Accepted(letters[l].addr) /\ letters' = [letters EXCEPT ![l].state = s]
             \/ \E s \in {"bounced", "reported"} : ~Accepted(letters[l].addr) /\ letters' = [letters EXCEPT ![l].state = s]
      PROVE  LettersInv'
  <2> DEFINE a == letters[l].addr
  <2>1. /\ DOMAIN replyKeys' \subseteq DOMAIN replyKeys
        /\ \A x \in DOMAIN replyKeys' : x # a => replyKeys'[x] = replyKeys[x]
        /\ \A x \in DOMAIN replyKeys : x # a => x \in DOMAIN replyKeys'
        /\ a = {} => replyKeys' = replyKeys
        /\ a # {} /\ Accepted(a) => a \in DOMAIN replyKeys /\ replyKeys[a].left = 1 /\ a \in DOMAIN replyKeys'
        /\ a # {} /\ a \in DOMAIN replyKeys' => Accepted(a) /\ replyKeys'[a].left = 0
    BY <1>6, MarkKeeps
  <2>2. PICK s \in {"sent", "queued", "marked", "bounced", "reported"} :
          /\ letters' = [letters EXCEPT ![l].state = s]
          /\ s \in {"queued", "marked"} => Accepted(a)
    <3>1. letters' = letters => letters' = [letters EXCEPT ![l].state = "sent"]
      BY <1>0, <1>6 DEF Letter
    <3> QED BY <1>6, <3>1
  <2>3. /\ \A k \in Letters : letters'[k].addr = letters[k].addr /\ letters'[k].posted = letters[k].posted
                              /\ letters'[k].to = letters[k].to
        /\ \A k \in Letters : k # l => letters'[k].state = letters[k].state
        /\ letters'[l].state = s
    BY <1>0, <2>2 DEF Letter
  <2> HIDE DEF a
  <2>4. a # {} /\ Accepted(a) => \A k \in Letters : letters[k].addr = a => ~Admitted(k)
    BY <1>r, <2>1
  <2>5. /\ \A k \in Letters : k # l => (Admitted(k)' <=> Admitted(k))
        /\ Admitted(l)' => Admitted(l) \/ Accepted(a)
        /\ a # {} /\ s \in {"queued", "marked"} => a \in DOMAIN replyKeys' /\ replyKeys'[a].left = 0
    BY <1>6, <2>1, <2>2, <2>3 DEF Admitted
  <2>6. ASSUME NEW k \in Letters
        PROVE  /\ letters'[k].state = "none" => letters'[k].addr = {} /\ letters'[k].posted = 0
               /\ letters'[k].posted <= mailDeaths' + (IF letters'[k].state = "done" THEN 1 ELSE 0)
               /\ letters'[k].state = "lost" /\ letters'[k].addr = {} => renamed'
    <3>1. CASE k = l
      <4>1. letters[l].posted <= mailDeaths
        BY <1>0, <1>i, <1>6
      <4>2. letters'[l].posted = letters[l].posted /\ letters'[l].state = s
        BY <2>3
      <4>3. s \notin {"none", "done", "lost"}
        BY <2>2
      <4> QED BY <1>0, <3>1, <4>1, <4>2, <4>3
    <3>2. CASE k # l
      BY <1>i, <1>p, <1>6, <2>3, <3>2
    <3> QED BY <3>1, <3>2
  <2>7. ASSUME NEW k \in Letters, letters'[k].addr # {}
        PROVE  /\ letters'[k].addr \in Groups /\ mails'[letters'[k].addr] > 0
               /\ letters'[k].posted > 0 => letters'[k].to \in {ReplyTo(m) : m \in letters'[k].addr}
               /\ Admitted(k)' =>
                    /\ \A j \in Letters \ {k} : letters'[j].addr = letters'[k].addr => ~Admitted(j)'
                    /\ letters'[k].addr \in DOMAIN replyKeys' => replyKeys'[letters'[k].addr].left = 0
               /\ letters'[k].state \in {"queued", "marked"} =>
                    \/ letters'[k].addr \in DOMAIN replyKeys' \union expiredKeys'
                    \/ \E j \in Letters \ {k} : letters'[j].addr = letters'[k].addr
               /\ letters'[k].state = "lost" =>
                    \/ letters'[k].addr \in expiredKeys'
                    \/ \E j \in Letters \ {k} : letters'[j].addr = letters'[k].addr
    <3>1. letters[k].addr # {} /\ letters'[k].addr = letters[k].addr
      BY <2>3, <2>7
    <3>2. letters'[k].addr \in Groups /\ mails'[letters'[k].addr] > 0
      BY <1>r, <1>6, <3>1
    <3>3. letters'[k].posted > 0 => letters'[k].to \in {ReplyTo(m) : m \in letters'[k].addr}
      BY <1>r, <2>3, <3>1
    <3>4. Admitted(k)' => \A j \in Letters \ {k} : letters'[j].addr = letters'[k].addr => ~Admitted(j)'
      <4> SUFFICES ASSUME Admitted(k)', NEW j \in Letters, j # k, letters'[j].addr = letters'[k].addr, Admitted(j)'
                   PROVE  FALSE
        OBVIOUS
      <4>1. letters[j].addr = letters[k].addr /\ ~(Admitted(k) /\ Admitted(j))
        BY <1>r, <2>3, <3>1
      <4>2. CASE k = l
        BY <2>4, <2>5, <3>1, <4>1, <4>2 DEF a
      <4>3. CASE j = l
        BY <2>4, <2>5, <3>1, <4>1, <4>3 DEF a
      <4>4. CASE k # l /\ j # l
        BY <2>5, <4>1, <4>4
      <4> QED BY <4>2, <4>3, <4>4
    <3>5. Admitted(k)' /\ letters'[k].addr \in DOMAIN replyKeys' => replyKeys'[letters'[k].addr].left = 0
      <4>1. CASE letters[k].addr = a
        BY <2>1, <3>1, <4>1
      <4>2. CASE letters[k].addr # a
        <5>1. k # l
          BY <4>2 DEF a
        <5> QED BY <1>r, <2>1, <2>5, <3>1, <4>2, <5>1
      <4> QED BY <4>1, <4>2
    <3>6. letters'[k].state \in {"queued", "marked"} =>
            \/ letters'[k].addr \in DOMAIN replyKeys' \union expiredKeys'
            \/ \E j \in Letters \ {k} : letters'[j].addr = letters'[k].addr
      <4>1. CASE k = l
        BY <2>3, <2>5, <3>1, <4>1 DEF a
      <4>2. CASE k # l /\ letters[k].addr = a
        BY <2>3, <3>1, <4>2 DEF a
      <4>3. CASE k # l /\ letters[k].addr # a
        BY <1>r, <1>6, <2>1, <2>3, <3>1, <4>3
      <4> QED BY <4>1, <4>2, <4>3
    <3>7. letters'[k].state = "lost" =>
            \/ letters'[k].addr \in expiredKeys'
            \/ \E j \in Letters \ {k} : letters'[j].addr = letters'[k].addr
      BY <1>r, <1>6, <2>2, <2>3, <3>1
    <3> QED BY <3>2, <3>3, <3>4, <3>5, <3>6, <3>7
  <2> QED BY <2>6, <2>7 DEF LettersInv, IsReply
<1>7. ASSUME NEW l \in Letters, mirror_email_message(l) \/ get_imap_messages(l) PROVE LettersInv'
  BY <1>6, <1>7 DEF mirror_email_message, get_imap_messages, missWorkerVars
<1>8. ASSUME NEW l \in Letters, NEW b \in {"queued", "marked"}, NEW again \in {"queued", "sent"},
             process_message(l, b, again)
      PROVE  LettersInv'
  <2> DEFINE a == letters[l].addr
  <2>1. letters[l].state = b /\ UNCHANGED <<replyKeys, expiredKeys, renamed, mails>>
    BY <1>8 DEF process_message, missWorkerVars
  <2>2. Admitted(l)
    BY <2>1 DEF Admitted
  <2>3. PICK n \in Letter :
          /\ letters' = [letters EXCEPT ![l] = n] /\ n.addr = a /\ n.state \notin {"none"}
          /\ n.posted <= mailDeaths' + (IF n.state = "done" THEN 1 ELSE 0)
          /\ n.state = "lost" /\ a = {} => renamed
          /\ n.posted > 0 /\ a # {} => n.to \in {ReplyTo(m) : m \in a}
          /\ n.state = "lost" => letters[l].posted = n.posted /\ (a # {} => a \notin DOMAIN replyKeys)
          /\ n.state \in {"queued", "marked"} /\ a # {} => a \in DOMAIN replyKeys
          /\ n.state \in {"queued", "marked", "done", "lost"} \/ n.posted > 0
    <3>1. a \in SUBSET Misses /\ letters[l].posted \in Nat /\ letters[l].posted <= mailDeaths /\ letters[l] \in Letter
      BY <1>0, <1>i, <2>1 DEF Letter
    <3>2. CASE ~Found(a) /\ letters' = [letters EXCEPT ![l].state = "lost"] /\ mailDeaths' = mailDeaths
      <4> DEFINE n == [letters[l] EXCEPT !.state = "lost"]
      <4>1. /\ n \in Letter /\ n.addr = a /\ n.state = "lost" /\ n.posted = letters[l].posted /\ n.to = letters[l].to
            /\ letters' = [letters EXCEPT ![l] = n]
        BY <1>0, <3>2 DEF Letter, LetterStates
      <4>2. IF a = {} THEN renamed ELSE a \notin DOMAIN replyKeys
        BY <3>2 DEF Found, StreamAddress
      <4>3. n.posted > 0 /\ a # {} => n.to \in {ReplyTo(m) : m \in a}
        BY <1>r, <4>1
      <4>4. n.posted <= mailDeaths' + (IF n.state = "done" THEN 1 ELSE 0)
        BY <1>0, <3>1, <3>2, <4>1
      <4>5. n.state \in {"queued", "marked", "done", "lost"} \/ n.posted > 0
        BY <4>1
      <4>6. n.state # "none" /\ n.state \notin {"queued", "marked"}
        BY <4>1
      <4> HIDE DEF n
      <4> QED BY <4>1, <4>2, <4>3, <4>4, <4>5, <4>6
    <3>3. ASSUME Found(a), NEW st \in {"done", again}, letters' = [letters EXCEPT ![l] = Goes(l, st)],
                 \/ st = "done" /\ mailDeaths' = mailDeaths
                 \/ st = again /\ mailDeaths' = mailDeaths + 1
          PROVE  \E n \in Letter :
            /\ letters' = [letters EXCEPT ![l] = n] /\ n.addr = a /\ n.state \notin {"none"}
            /\ n.posted <= mailDeaths' + (IF n.state = "done" THEN 1 ELSE 0)
            /\ n.state = "lost" /\ a = {} => renamed
            /\ n.posted > 0 /\ a # {} => n.to \in {ReplyTo(m) : m \in a}
            /\ n.state = "lost" => letters[l].posted = n.posted /\ (a # {} => a \notin DOMAIN replyKeys)
            /\ n.state \in {"queued", "marked"} /\ a # {} => a \in DOMAIN replyKeys
            /\ n.state \in {"queued", "marked", "done", "lost"} \/ n.posted > 0
      <4> DEFINE n == Goes(l, st)
      <4>1. n.addr = a /\ n.state = st /\ n.posted = letters[l].posted + 1 /\ n.to = PostedTo(a)
        BY <3>1 DEF Goes, Letter
      <4>2. n \in Letter
        <5>2. letters'[l] = n /\ letters' \in [Letters -> Letter]
          BY <1>0, <3>3, MissTypesKept DEF MissTypes
        <5> QED BY <5>2
      <4>3. a # {} => a \in DOMAIN replyKeys /\ PostedTo(a) \in {ReplyTo(m) : m \in a}
        <5>1. a # {} => a \in DOMAIN replyKeys /\ PostedTo(a) = replyKeys[a].to
          BY <3>3 DEF Found, PostedTo, StreamAddress
        <5> QED BY <5>1 DEF MissTypes
      <4>6. letters' = [letters EXCEPT ![l] = n]
        BY <3>3
      <4> HIDE DEF n
      <4>4. n.posted <= mailDeaths' + (IF n.state = "done" THEN 1 ELSE 0) /\ n.posted > 0
        BY <1>0, <3>1, <3>3, <4>1
      <4>5. n.state \notin {"none", "lost"}
        BY <4>1
      <4>7. n.to \in {ReplyTo(m) : m \in a} \/ a = {}
        BY <4>1, <4>3
      <4> QED BY <4>1, <4>2, <4>3, <4>4, <4>5, <4>6, <4>7
    <3> QED BY <1>8, <3>2, <3>3, Processed
  <2>4. letters'[l] = n /\ \A k \in Letters : k # l => letters'[k] = letters[k]
    BY <1>0, <2>3
  <2> HIDE DEF a
  <2>5. Admitted(l)' /\ (\A k \in Letters : k # l => (Admitted(k)' <=> Admitted(k)))
    BY <2>3, <2>4 DEF Admitted
  <2>6. \A k \in Letters : (Admitted(k)' <=> Admitted(k)) /\ letters'[k].addr = letters[k].addr
    BY <2>2, <2>3, <2>4, <2>5 DEF a
  <2>7. ASSUME NEW k \in Letters
        PROVE  /\ letters'[k].state = "none" => letters'[k].addr = {} /\ letters'[k].posted = 0
               /\ letters'[k].posted <= mailDeaths' + (IF letters'[k].state = "done" THEN 1 ELSE 0)
               /\ letters'[k].state = "lost" /\ letters'[k].addr = {} => renamed'
    <3>1. CASE k = l
      BY <2>1, <2>3, <2>4, <3>1
    <3>2. CASE k # l
      BY <1>i, <1>p, <2>1, <2>4, <3>2
    <3> QED BY <3>1, <3>2
  <2>8. ASSUME NEW k \in Letters, letters'[k].addr # {}
        PROVE  /\ letters'[k].addr \in Groups /\ mails'[letters'[k].addr] > 0
               /\ letters'[k].posted > 0 => letters'[k].to \in {ReplyTo(m) : m \in letters'[k].addr}
               /\ Admitted(k)' =>
                    /\ \A j \in Letters \ {k} : letters'[j].addr = letters'[k].addr => ~Admitted(j)'
                    /\ letters'[k].addr \in DOMAIN replyKeys' => replyKeys'[letters'[k].addr].left = 0
               /\ letters'[k].state \in {"queued", "marked"} =>
                    \/ letters'[k].addr \in DOMAIN replyKeys' \union expiredKeys'
                    \/ \E j \in Letters \ {k} : letters'[j].addr = letters'[k].addr
               /\ letters'[k].state = "lost" =>
                    \/ letters'[k].addr \in expiredKeys'
                    \/ \E j \in Letters \ {k} : letters'[j].addr = letters'[k].addr
    <3>1. letters[k].addr # {} /\ letters'[k].addr = letters[k].addr
      BY <2>6, <2>8
    <3>2. /\ letters'[k].addr \in Groups /\ mails'[letters'[k].addr] > 0
          /\ Admitted(k)' =>
               /\ \A j \in Letters \ {k} : letters'[j].addr = letters'[k].addr => ~Admitted(j)'
               /\ letters'[k].addr \in DOMAIN replyKeys' => replyKeys'[letters'[k].addr].left = 0
      BY <1>r, <2>1, <2>6, <3>1
    <3>3. CASE k # l
      BY <1>r, <2>1, <2>4, <2>6, <3>1, <3>2, <3>3
    <3>4. CASE k = l
      <4>1. letters[l].addr \in expiredKeys \/ letters[l].addr \in DOMAIN replyKeys
            \/ \E j \in Letters \ {l} : letters[j].addr = letters[l].addr
        BY <1>r, <2>1, <3>1, <3>4
      <4>2. letters'[l].posted > 0 => letters'[l].to \in {ReplyTo(m) : m \in letters'[l].addr}
        BY <2>3, <2>4, <3>1, <3>4 DEF a
      <4>3. letters'[l].state = "lost" => letters[l].addr \notin DOMAIN replyKeys
        BY <2>3, <2>4, <3>1, <3>4 DEF a
      <4> QED BY <2>1, <2>6, <3>1, <3>2, <3>4, <4>1, <4>2, <4>3
    <3> QED BY <3>3, <3>4
  <2> QED BY <2>7, <2>8 DEF LettersInv, IsReply
<1> QED BY <1>1, <1>3, <1>4, <1>5, <1>7, <1>8, MissGroups DEF Gateway

LEMMA MissInvInit == MissedInit => MissInv
<1> SUFFICES ASSUME MissedInit PROVE MissInv
  OBVIOUS
<1>1. /\ told = {} /\ missQueue = {} /\ batch = {} /\ handling = NoUser /\ handling.groups = {}
      /\ outbox = {} /\ mails = [g \in Groups |-> 0] /\ DOMAIN replyKeys = {} /\ mailDeaths = 0
      /\ letters = [l \in Letters |-> [addr |-> {}, state |-> "none", posted |-> 0, to |-> "nobody"]]
  BY DEF MissedInit, NoUser
<1>2. MissTypes
  <2>1. handling \in [user : {handling.user}, wants : BOOLEAN, groups : SUBSET Groups]
    BY <1>1 DEF NoUser
  <2>2. letters \in [Letters -> Letter]
    BY <1>1 DEF Letter, LetterStates
  <2> QED BY <1>1, <2>1, <2>2 DEF MissTypes
<1>3. FlowInv
  <2>1. \A g \in Groups : mails[g] = 0 /\ ~Out(g)
    BY <1>1 DEF Out
  <2> QED BY <1>1, <2>1 DEF FlowInv
<1>4. LettersInv
  <2>1. \A l \in Letters : ~IsReply(l) /\ letters[l].state = "none" /\ letters[l].addr = {} /\ letters[l].posted = 0
    BY <1>1 DEF IsReply
  <2> QED BY <1>1, <2>1 DEF LettersInv
<1> QED BY <1>2, <1>3, <1>4 DEF MissInv

LEMMA MissInvStep == MissInv /\ [MissedNext]_missedVars => MissInv'
<1> SUFFICES ASSUME MissInv, [MissedNext]_missedVars PROVE MissInv'
  OBVIOUS
<1>1. CASE MissedNext
  BY <1>1, MissTypesKept, FlowKept, LettersKept DEF MissInv
<1>2. CASE UNCHANGED missedVars
  <2>1. /\ told' = told /\ missQueue' = missQueue /\ batch' = batch /\ handling' = handling /\ settled' = settled
        /\ mailOff' = mailOff /\ outbox' = outbox /\ mails' = mails /\ excused' = excused /\ replyKeys' = replyKeys
        /\ expiredKeys' = expiredKeys /\ letters' = letters /\ renamed' = renamed /\ mailDeaths' = mailDeaths
    BY <1>2 DEF missedVars
  <2>2. MissTypes'
    BY <2>1 DEF MissInv, MissTypes
  <2>3. FlowInv'
    <3>1. \A g \in Groups : Out(g)' <=> Out(g)
      BY <2>1 DEF Out
    <3> QED BY <2>1, <3>1 DEF MissInv, FlowInv
  <2>4. LettersInv'
    <3>1. \A l \in Letters : (Admitted(l)' <=> Admitted(l)) /\ (IsReply(l)' <=> IsReply(l))
      BY <2>1 DEF Admitted, IsReply
    <3> QED BY <2>1, <3>1 DEF MissInv, LettersInv
  <2> QED BY <2>2, <2>3, <2>4 DEF MissInv
<1> QED BY <1>1, <1>2

LEMMA CountedOnce == ASSUME NEW g, NEW n \in Nat PROVE Cardinality({g} \X (1..n)) = n
<1>1. IsFiniteSet(1..n) /\ Cardinality(1..n) = n
  <2>1. 1 \in Int /\ n \in Int
    OBVIOUS
  <2>2. IsFiniteSet(1..n) /\ Cardinality(1..n) = IF 1 > n THEN 0 ELSE n - 1 + 1
    BY <2>1, FS_Interval
  <2> QED BY <2>2
<1>2. IsFiniteSet({g}) /\ Cardinality({g}) = 1
  BY FS_Singleton
<1>3. Cardinality({g} \X (1..n)) = Cardinality({g}) * Cardinality(1..n)
  BY <1>1, <1>2, FS_Product
<1> QED BY <1>1, <1>2, <1>3

\* Only one mail is about a miss, so it is counted by that mail's deliveries.
LEMMA OneMailEach ==
  ASSUME MissInv, NEW m \in told
  PROVE  /\ Times(m) \in Nat /\ Times(m) <= 1 + mailDeaths
         /\ (\E g \in Groups : m \in g /\ mails[g] > 0) => Times(m) > 0
<1> DEFINE about == {h \in Groups : m \in h}
           parts == {{g} \X (1..mails[g]) : g \in about}
<1>0. mails \in [Groups -> Nat] /\ mailDeaths \in Nat
  BY DEF MissInv, MissTypes
<1>1. CASE \A g \in about : mails[g] = 0
  <2>1. \A g \in about : {g} \X (1..mails[g]) = {}
    BY <1>1
  <2>2. UNION parts = {}
    BY <2>1
  <2>3. Times(m) = 0
    BY <2>2, FS_EmptySet DEF Times
  <2> QED BY <1>0, <1>1, <2>3
<1>2. ASSUME NEW g \in about, mails[g] # 0
      PROVE  /\ Times(m) \in Nat /\ Times(m) <= 1 + mailDeaths /\ Times(m) > 0
  <2>1. g \in Groups /\ m \in g /\ Out(g) /\ mails[g] \in Nat /\ mails[g] > 0
    BY <1>0, <1>2 DEF Out
  <2>2. \A h \in about : h # g => mails[h] = 0
    <3>1. \A h \in about : mails[h] # 0 => Out(h)
      BY <1>0 DEF Out
    <3> QED BY <2>1, <3>1 DEF MissInv, FlowInv
  <2>3. \A h \in about : h # g => {h} \X (1..mails[h]) = {}
    BY <2>2
  <2>4. UNION parts = {g} \X (1..mails[g])
    BY <1>2, <2>3
  <2> HIDE DEF about
  <2>6. Cardinality({g} \X (1..mails[g])) = mails[g]
    BY <2>1, CountedOnce
  <2>7. Times(m) = mails[g]
    BY <2>4, <2>6 DEF Times, about
  <2>8. mails[g] <= 1 + mailDeaths
    BY <1>0, <2>1 DEF MissInv, FlowInv
  <2> QED BY <2>1, <2>7, <2>8
<1> QED BY <1>0, <1>1, <1>2

LEMMA MissesAreMailed == MissInv => MissesMailed
<1> SUFFICES ASSUME MissInv, NEW m \in told
             PROVE  /\ \/ m \in InPreparation \/ m \in excused \/ Times(m) > 0
                       \/ m \in settled \/ MissedBy[m] \in mailOff
                    /\ Times(m) <= 1 + mailDeaths
  BY DEF MissesMailed
<1>1. \/ m \in missQueue \union batch \union excused \union settled \/ MissedBy[m] \in mailOff
      \/ \E g \in handling.groups \union outbox : m \in g
      \/ \E g \in Groups : m \in g /\ mails[g] > 0
  BY DEF MissInv, FlowInv
<1>2. (\E g \in handling.groups \union outbox : m \in g) => m \in InPreparation
  BY DEF InPreparation
<1>3. m \in missQueue \union batch => m \in InPreparation
  BY DEF InPreparation
<1> QED BY <1>1, <1>2, <1>3, OneMailEach

LEMMA RepliesAreOnce == MissInv => RepliesOnce /\ TakenIsPosted
<1> SUFFICES ASSUME MissInv PROVE RepliesOnce /\ TakenIsPosted
  OBVIOUS
<1>0. mailDeaths \in Nat /\ \A l \in Letters : letters[l].posted \in Nat
  BY DEF MissInv, MissTypes, Letter
<1>1. \A l \in Letters : letters[l].addr \notin StreamAddress <=> IsReply(l)
  BY DEF StreamAddress, IsReply
<1>2. \A l \in Letters : letters[l].posted <= 1 + mailDeaths
  <2>1. \A l \in Letters : letters[l].posted <= mailDeaths + (IF letters[l].state = "done" THEN 1 ELSE 0)
    BY DEF MissInv, LettersInv
  <2> QED BY <1>0, <2>1
<1>3. RepliesOnce
  <2> SUFFICES ASSUME NEW l \in Letters, letters[l].posted > 0, IsReply(l)
               PROVE  /\ letters[l].to \in {ReplyTo(m) : m \in letters[l].addr}
                      /\ \A k \in Letters \ {l} : letters[k].addr = letters[l].addr => letters[k].posted = 0
    BY <1>1, <1>2 DEF RepliesOnce
  <2>1. Admitted(l) /\ \A k \in Letters : ~Admitted(k) => letters[k].posted = 0
    BY <1>0 DEF Admitted
  <2> QED BY <2>1 DEF MissInv, LettersInv
<1>4. TakenIsPosted
  BY <1>1 DEF TakenIsPosted, MissInv, LettersInv
<1> QED BY <1>3, <1>4

(***************************************************************************)
(* Whatever was reported as missed is on its way to one mail, was mailed,  *)
(* was read first, or is not wanted, for any users, messages, replies and  *)
(* deaths of the workers; and the address of that mail posts one answer,   *)
(* once, to the conversation it was about (MissedMessageWorker,            *)
(* mark_missed_message_address_as_used, process_message).                  *)
(***************************************************************************)
THEOREM MissesAndRepliesAreRight == MissedSpec => [](MissesMailed /\ RepliesOnce /\ TakenIsPosted)
<1>1. MissedInit => MissInv
  BY MissInvInit
<1>2. MissInv /\ [MissedNext]_missedVars => MissInv'
  BY MissInvStep
<1>3. MissInv => MissesMailed /\ RepliesOnce /\ TakenIsPosted
  BY MissesAreMailed, RepliesAreOnce
<1> QED BY <1>1, <1>2, <1>3, PTL DEF MissedSpec
-----------------------------------------------------------------------------
(* Counts of analytics: sums over finite sets                              *)

\* Of the subsets of a finite set some have a least one among them.
LEMMA LeastSubset ==
  ASSUME NEW S, IsFiniteSet(S), NEW D \in SUBSET (SUBSET S), D # {}
  PROVE  \E s \in D : \A t \in D : ~(t \subseteq s /\ t # s)
<1>1. IsWellFoundedOn(StrictSubsetOrdering(S), SUBSET S)
  BY FS_StrictSubsetOrderingWellFounded, FS_FiniteSubsetsOfFinite
<1>2. \E s \in D : \A t \in D : <<t, s>> \notin StrictSubsetOrdering(S)
  BY <1>1, WFMin, Zenon
<1> QED
  BY <1>2 DEF StrictSubsetOrdering

\* h says of each subset of S what the values v of its members add up to.
Adds(h, v, S) ==
  /\ DOMAIN h = SUBSET S /\ h = [s \in DOMAIN h |-> h[s]]
  /\ h[{}] = 0
  /\ \A s \in SUBSET S : \A x \in s : h[s] = v[x] + h[s \ {x}]

\* Adding one value after the other gives that.
OneByOne(it, v, S) ==
  \A s \in SUBSET S : it[s] = IF s = {} THEN 0
                               ELSE v[CHOOSE x \in s : TRUE] + it[s \ {CHOOSE x \in s : TRUE}]
\* Adding one value after the other, as MapThenSumSet does, gives that.
LEMMA AddedUp ==
  ASSUME NEW S, IsFiniteSet(S), NEW v, NEW h, Adds(h, v, S), NEW it, OneByOne(it, v, S)
  PROVE  it[S] = h[S]
<1> DEFINE Chosen(s) == CHOOSE x \in s : TRUE
<1>0. h[{}] = 0 /\ \A s \in SUBSET S : \A x \in s : h[s] = v[x] + h[s \ {x}]
  BY DEF Adds
<1>1. \A s \in SUBSET S : it[s] = IF s = {} THEN 0 ELSE v[Chosen(s)] + it[s \ {Chosen(s)}]
  BY DEF OneByOne
<1>2. \A s : s # {} => Chosen(s) \in s
  OBVIOUS
<1> HIDE DEF Chosen
<1> DEFINE D == {s \in SUBSET S : it[s] # h[s]}
<1>3. D = {}
  <2> SUFFICES ASSUME D # {} PROVE FALSE
    OBVIOUS
  <2>1. PICK s \in D : \A t \in D : ~(t \subseteq s /\ t # s)
    <3> HIDE DEF D
    <3>1. D \in SUBSET (SUBSET S)
      BY DEF D
    <3> QED
      BY <3>1, LeastSubset
  <2>2. it[s] # h[s] /\ s \in SUBSET S
    OBVIOUS
  <2>3. s # {}
    BY <1>0, <1>1, <2>2
  <2>4. it[s \ {Chosen(s)}] = h[s \ {Chosen(s)}]
    <3>1. PICK t : t = s \ {Chosen(s)}
      OBVIOUS
    <3>2. t \subseteq s /\ t # s /\ t \in SUBSET S
      BY <1>2, <2>2, <2>3, <3>1
    <3>3. t \notin D
      BY <2>1, <3>2
    <3> QED
      BY <3>1, <3>2, <3>3
  <2>5. h[s] = v[Chosen(s)] + h[s \ {Chosen(s)}]
    BY <1>0, <1>2, <2>2, <2>3
  <2> QED
    BY <1>1, <2>2, <2>3, <2>4, <2>5
<1> QED
  BY <1>3

\* There always is what the values add up to.
LEMMA SomethingAdds ==
  ASSUME NEW S, IsFiniteSet(S), NEW v, \A x \in S : v[x] \in Int
  PROVE  \E h : Adds(h, v, S) /\ \A s \in SUBSET S : h[s] \in Int
<1> DEFINE Fine(h, T) == Adds(h, v, T) /\ \A s \in SUBSET T : h[s] \in Int
           D == {T \in SUBSET S : ~\E h : Fine(h, T)}
<1>1. D = {}
  <2> SUFFICES ASSUME D # {} PROVE FALSE
    OBVIOUS
  <2>1. PICK T \in D : \A U \in D : ~(U \subseteq T /\ U # T)
    <3> HIDE DEF D
    <3>1. D \in SUBSET (SUBSET S)
      BY DEF D
    <3> QED
      BY <3>1, LeastSubset
  <2>2. T \in SUBSET S /\ ~\E h : Fine(h, T)
    OBVIOUS
  <2>3. T # {}
    <3> SUFFICES ASSUME T = {} PROVE \E h : Fine(h, T)
      BY <2>2
    <3>1. PICK h : h = [s \in {{}} |-> 0]
      OBVIOUS
    <3>2. SUBSET T = {{}}
      OBVIOUS
    <3>3. Adds(h, v, T)
      BY <3>1, <3>2 DEF Adds
    <3>4. \A s \in SUBSET T : h[s] \in Int
      BY <3>1, <3>2
    <3>5. Fine(h, T)
      BY <3>3, <3>4
    <3> QED
      BY <3>5
  <2>4. PICK y \in T : TRUE
    BY <2>3
  <2>5. PICK U : U = T \ {y}
    OBVIOUS
  <2>6. PICK g : Fine(g, U)
    <3>1. U \subseteq T /\ U # T /\ U \in SUBSET S
      BY <2>2, <2>4, <2>5
    <3>2. U \notin D
      BY <2>1, <3>1
    <3> QED
      BY <3>1, <3>2
  <2>7. g[{}] = 0 /\ (\A s \in SUBSET U : \A x \in s : g[s] = v[x] + g[s \ {x}]) /\ \A s \in SUBSET U : g[s] \in Int
    BY <2>6 DEF Adds
  <2>8. PICK h : h = [s \in SUBSET T |-> IF y \in s THEN v[y] + g[s \ {y}] ELSE g[s]]
    OBVIOUS
  <2>9. /\ DOMAIN h = SUBSET T
        /\ \A s \in SUBSET T : h[s] = IF y \in s THEN v[y] + g[s \ {y}] ELSE g[s]
    BY <2>8
  <2>10. \A s \in SUBSET T : s \ {y} \in SUBSET U /\ (y \notin s => s \in SUBSET U)
    BY <2>5
  <2>11. \A x \in T : v[x] \in Int
    BY <2>2
  <2>12. ASSUME NEW s \in SUBSET T PROVE h[s] \in Int
    <3>1. CASE y \in s
      <4>1. PICK q : q = s \ {y} /\ q \in SUBSET U
        BY <2>10
      <4>2. h[s] = v[y] + g[q] /\ g[q] \in Int /\ v[y] \in Int
        BY <2>4, <2>7, <2>9, <2>11, <3>1, <4>1
      <4> QED
        BY <4>2
    <3>2. CASE y \notin s
      BY <2>7, <2>9, <2>10, <3>2
    <3> QED
      BY <3>1, <3>2
  <2>13. h[{}] = 0
    BY <2>7, <2>9
  <2>14. ASSUME NEW s \in SUBSET T, NEW x \in s PROVE h[s] = v[x] + h[s \ {x}]
    <3>1. CASE y \notin s
      BY <2>7, <2>9, <2>10, <2>14, <3>1
    <3>2. CASE x = y
      <4>1. y \notin s \ {x} /\ s \ {x} \in SUBSET T /\ y \in s
        BY <2>14, <3>2
      <4> QED
        BY <2>9, <3>2, <4>1
    <3>3. CASE y \in s /\ x # y
      <4>1. PICK r, q, o : r = s \ {y} /\ q = s \ {x} /\ o = r \ {x}
        OBVIOUS
      <4>2. r \in SUBSET U /\ x \in r /\ q \in SUBSET T /\ y \in q /\ q \ {y} = o /\ o \in SUBSET U
        BY <2>5, <2>14, <3>3, <4>1
      <4>3. g[r] = v[x] + g[o] /\ h[s] = v[y] + g[r] /\ h[q] = v[y] + g[o]
        <5>1. g[r] = v[x] + g[r \ {x}]
          BY <2>7, <4>2
        <5>2. h[s] = v[y] + g[s \ {y}]
          BY <2>9, <2>14, <3>3
        <5>3. h[q] = v[y] + g[q \ {y}]
          BY <2>9, <4>2
        <5> QED
          BY <4>1, <4>2, <5>1, <5>2, <5>3
      <4>4. g[o] \in Int /\ v[x] \in Int /\ v[y] \in Int
        BY <2>4, <2>7, <2>11, <2>14, <4>2
      <4> QED
        BY <4>1, <4>2, <4>3, <4>4
    <3> QED
      BY <3>1, <3>2, <3>3
  <2>15. Adds(h, v, T)
    <3>1. h = [s \in DOMAIN h |-> h[s]]
      BY <2>8
    <3> QED
      BY <2>9, <2>13, <2>14, <3>1 DEF Adds
  <2> QED
    BY <2>2, <2>12, <2>15
<1> QED
  BY <1>1

\* Total.
LEMMA TotalIs ==
  ASSUME NEW rs, IsFiniteSet(rs), NEW v, \A c \in rs : v[c] = c.value, NEW h, Adds(h, v, rs)
  PROVE  Total(rs) = h[rs]
<1> DEFINE Chosen(s) == CHOOSE x \in s : TRUE
           Sums(it) == it = [s \in SUBSET rs |-> IF s = {} THEN 0 ELSE Chosen(s).value + it[s \ {Chosen(s)}]]
<1>0. /\ DOMAIN h = SUBSET rs /\ h = [s \in DOMAIN h |-> h[s]] /\ h[{}] = 0
      /\ \A s \in SUBSET rs : \A x \in s : h[s] = v[x] + h[s \ {x}]
  BY DEF Adds
<1>1. Total(rs) = (CHOOSE it : Sums(it))[rs]
  BY DEF Total, MapThenSumSet, MapThenFoldSet
<1>2. \A s : s # {} => Chosen(s) \in s
  OBVIOUS
<1>3. \A s \in SUBSET rs : s # {} => Chosen(s).value = v[Chosen(s)]
  BY <1>2
<1>4. Sums(h)
  <2>1. \A s \in SUBSET rs : s # {} => h[s] = v[Chosen(s)] + h[s \ {Chosen(s)}]
    BY <1>0, <1>2
  <2> HIDE DEF Chosen
  <2>2. \A s \in SUBSET rs : h[s] = IF s = {} THEN 0 ELSE Chosen(s).value + h[s \ {Chosen(s)}]
    BY <1>0, <1>3, <2>1
  <2> QED
    BY <1>0, <2>2
<1>5. PICK it : it = CHOOSE g : Sums(g)
  OBVIOUS
<1>6. Sums(it)
  <2> HIDE DEF Sums
  <2> QED
    BY <1>4, <1>5, Zenon
<1>7. OneByOne(it, v, rs)
  <2>1. \A s \in SUBSET rs : it[s] = IF s = {} THEN 0 ELSE v[Chosen(s)] + it[s \ {Chosen(s)}]
    <3> HIDE DEF Chosen
    <3> QED
      BY <1>3, <1>6
  <2> QED
    BY <2>1 DEF OneByOne
<1>8. it[rs] = h[rs]
  BY <1>7, AddedUp
<1> QED
  BY <1>1, <1>5, <1>8

\* What the members of a set of rows that is finite count.
AreRows(rs) == IsFiniteSet(rs) /\ \A c \in rs : c.value \in Int

\* Total says of each part of such a set what its rows count.
LEMMA TotalAdds ==
  ASSUME NEW rs, AreRows(rs)
  PROVE  \E h : /\ Adds(h, [c \in rs |-> c.value], rs)
                /\ \A s \in SUBSET rs : h[s] \in Int /\ h[s] = Total(s)
<1>1. PICK v : v = [c \in rs |-> c.value]
  OBVIOUS
<1>2. IsFiniteSet(rs) /\ \A c \in rs : v[c] = c.value /\ v[c] \in Int
  BY <1>1 DEF AreRows
<1>3. PICK h : Adds(h, v, rs) /\ \A s \in SUBSET rs : h[s] \in Int
  BY <1>2, SomethingAdds
<1>4. ASSUME NEW s \in SUBSET rs PROVE h[s] = Total(s)
  <2>1. IsFiniteSet(s)
    BY <1>2, FS_Subset
  <2>2. PICK g : g = [r \in SUBSET s |-> h[r]]
    OBVIOUS
  <2>3. \A r \in SUBSET s : g[r] = h[r]
    BY <2>2
  <2>4. h[{}] = 0 /\ \A r \in SUBSET rs : \A x \in r : h[r] = v[x] + h[r \ {x}]
    BY <1>3 DEF Adds
  <2>5. \A r \in SUBSET s : \A x \in r : g[r] = v[x] + g[r \ {x}]
    <3> SUFFICES ASSUME NEW r \in SUBSET s, NEW x \in r PROVE g[r] = v[x] + g[r \ {x}]
      OBVIOUS
    <3>1. PICK q : q = r \ {x} /\ q \in SUBSET s /\ r \in SUBSET rs
      OBVIOUS
    <3>2. g[q] = h[q] /\ g[r] = h[r]
      BY <2>3, <3>1
    <3>3. h[r] = v[x] + h[r \ {x}]
      BY <2>4, <3>1
    <3> QED
      BY <3>1, <3>2, <3>3
  <2>6. DOMAIN g = SUBSET s /\ g = [r \in DOMAIN g |-> g[r]] /\ g[{}] = 0
    BY <2>2, <2>3, <2>4
  <2>7. Adds(g, v, s)
    BY <2>5, <2>6 DEF Adds
  <2>8. \A c \in s : v[c] = c.value
    BY <1>2
  <2>9. Total(s) = g[s]
    BY <2>1, <2>7, <2>8, TotalIs
  <2> QED
    BY <2>3, <2>9
<1> QED
  BY <1>1, <1>3, <1>4

\* No rows count nothing.
LEMMA TotalOfNone == Total({}) = 0
<1>1. AreRows({})
  BY FS_EmptySet DEF AreRows
<1>2. PICK h : Adds(h, [c \in {} |-> c.value], {}) /\ \A s \in SUBSET {} : h[s] = Total(s)
  BY <1>1, TotalAdds
<1> QED
  BY <1>2 DEF Adds

\* One row more counts its value more.
LEMMA TotalWith ==
  ASSUME NEW rs, AreRows(rs), NEW c, c \notin rs, c.value \in Int
  PROVE  /\ AreRows(rs \cup {c}) /\ Total(rs) \in Int
         /\ Total(rs \cup {c}) = Total(rs) + c.value
<1>1. PICK new : new = rs \cup {c}
  OBVIOUS
<1>2. AreRows(new)
  BY <1>1, FS_AddElement DEF AreRows
<1>3. PICK h : /\ Adds(h, [x \in new |-> x.value], new)
               /\ \A s \in SUBSET new : h[s] \in Int /\ h[s] = Total(s)
  BY <1>2, TotalAdds
<1>4. new \ {c} = rs /\ rs \in SUBSET new /\ c \in new
  BY <1>1
<1>5. h[new] = c.value + h[new \ {c}]
  BY <1>3, <1>4 DEF Adds
<1>6. Total(new) = c.value + Total(rs) /\ Total(rs) \in Int
  BY <1>3, <1>4, <1>5
<1> QED
  BY <1>1, <1>2, <1>6

\* One row counts its value.
LEMMA TotalOfOne ==
  ASSUME NEW c, c.value \in Int
  PROVE  AreRows({c}) /\ Total({c}) = c.value
<1>1. AreRows({})
  BY FS_EmptySet DEF AreRows
<1>2. AreRows({} \cup {c}) /\ Total({} \cup {c}) = Total({}) + c.value
  BY <1>1, TotalWith
<1> QED
  BY <1>2, TotalOfNone

\* What two sets of rows without a common row count together.
LEMMA TotalTogether ==
  ASSUME NEW A, NEW B, AreRows(A), AreRows(B), A \cap B = {}
  PROVE  /\ AreRows(A \cup B) /\ Total(A) \in Int /\ Total(B) \in Int
         /\ Total(A \cup B) = Total(A) + Total(B)
<1>1. PICK v : v = [c \in B |-> c.value]
  OBVIOUS
<1>2. IsFiniteSet(B) /\ \A c \in B : v[c] = c.value /\ c.value \in Int
  BY <1>1 DEF AreRows
<1>3. PICK all : all = A \cup B
  OBVIOUS
<1>4. AreRows(all)
  BY <1>3, FS_Union DEF AreRows
<1>5. \A s \in SUBSET all : AreRows(s) /\ Total(s) \in Int
  <2>1. PICK h : \A s \in SUBSET all : h[s] \in Int /\ h[s] = Total(s)
    BY <1>4, TotalAdds
  <2> QED
    BY <1>4, <2>1, FS_Subset DEF AreRows
<1>6. PICK g : g = [s \in SUBSET B |-> Total(A \cup s) - Total(A)]
  OBVIOUS
<1>7. \A s \in SUBSET B : g[s] = Total(A \cup s) - Total(A)
  BY <1>6
<1>8. g[{}] = 0
  <2>1. A \cup {} = A /\ Total(A) \in Int /\ {} \in SUBSET B
    BY <1>3, <1>5
  <2> QED
    BY <1>7, <2>1
<1>9. ASSUME NEW s \in SUBSET B, NEW x \in s PROVE g[s] = v[x] + g[s \ {x}]
  <2>1. PICK q, lo, hi : q = s \ {x} /\ lo = A \cup q /\ hi = A \cup s
    OBVIOUS
  <2>2. q \in SUBSET B /\ lo \in SUBSET all /\ hi \in SUBSET all /\ x \notin lo /\ hi = lo \cup {x} /\ x \in B
    BY <1>3, <1>9, <2>1
  <2>3. Total(lo \cup {x}) = Total(lo) + x.value
    BY <1>2, <1>5, <2>2, TotalWith
  <2>4. g[s] = Total(hi) - Total(A) /\ g[q] = Total(lo) - Total(A)
    BY <1>7, <1>9, <2>1, <2>2
  <2>5. Total(lo) \in Int /\ Total(A) \in Int /\ x.value \in Int /\ v[x] = x.value
    BY <1>2, <1>3, <1>5, <2>2
  <2> QED
    BY <2>1, <2>2, <2>3, <2>4, <2>5
<1>10. Adds(g, v, B)
  <2>1. DOMAIN g = SUBSET B /\ g = [s \in DOMAIN g |-> g[s]]
    BY <1>6
  <2> QED
    BY <1>8, <1>9, <2>1 DEF Adds
<1>11. Total(B) = g[B]
  BY <1>2, <1>10, TotalIs
<1>12. Total(B) = Total(all) - Total(A) /\ Total(all) \in Int /\ Total(A) \in Int
  BY <1>3, <1>5, <1>7, <1>11
<1> QED
  BY <1>3, <1>4, <1>12

\* The rows R[u] of those in A with a value.
Worth(R, V, A) == {R[u] : u \in {x \in A : V[x] > 0}}

\* They are finitely many, with a row of their own that holds their value.
Priced(R, V, W) ==
  /\ IsFiniteSet(W) /\ \A u \in W : V[u] \in Nat
  /\ \A u \in W : R[u].value = V[u]
  /\ \A u, w \in W : R[u] = R[w] => u = w

\* What they count is the sum of the values, for each set of users.
LEMMA RowsAdd ==
  ASSUME NEW W, NEW V, NEW R, Priced(R, V, W)
  PROVE  \E h : Adds(h, V, W) /\ \A A \in SUBSET W : AreRows(Worth(R, V, A)) /\ h[A] = Total(Worth(R, V, A))
<1>0. /\ IsFiniteSet(W) /\ \A u \in W : V[u] \in Nat
      /\ \A u \in W : R[u].value = V[u]
      /\ \A u, w \in W : R[u] = R[w] => u = w
  BY DEF Priced
<1>1. ASSUME NEW A \in SUBSET W PROVE AreRows(Worth(R, V, A))
  <2>1. IsFiniteSet({x \in A : V[x] > 0})
    BY <1>0, FS_Subset
  <2>2. IsFiniteSet(Worth(R, V, A))
    <3>1. PICK X : X = {x \in A : V[x] > 0} /\ IsFiniteSet(X)
      BY <2>1
    <3>3. PICK f : f = [u \in X |-> R[u]]
      OBVIOUS
    <3>4. f \in Surjection(X, {R[u] : u \in X})
      BY <3>3 DEF Surjection
    <3>2. IsFiniteSet({R[u] : u \in X})
      BY <3>1, <3>4, FS_Surjection
    <3> QED
      BY <3>1, <3>2 DEF Worth
  <2>3. \A c \in Worth(R, V, A) : c.value \in Int
    BY <1>0 DEF Worth
  <2> QED
    BY <2>2, <2>3 DEF AreRows
<1>2. PICK h : h = [A \in SUBSET W |-> Total(Worth(R, V, A))]
  OBVIOUS
<1>3. \A A \in SUBSET W : h[A] = Total(Worth(R, V, A))
  BY <1>2
<1>4. h[{}] = 0
  <2>1. Worth(R, V, {}) = {}
    BY DEF Worth
  <2> QED
    BY <1>3, <2>1, TotalOfNone
<1>5. ASSUME NEW A \in SUBSET W, NEW x \in A PROVE h[A] = V[x] + h[A \ {x}]
  <2>1. PICK B, less, more : B = A \ {x} /\ less = Worth(R, V, B) /\ more = Worth(R, V, A)
    OBVIOUS
  <2>2. B \in SUBSET W /\ AreRows(less) /\ h[B] = Total(less) /\ h[A] = Total(more) /\ x \in W
    BY <1>1, <1>3, <1>5, <2>1
  <2>3. Total(less) \in Int
    BY <2>2, TotalAdds
  <2>4. CASE V[x] > 0
    <3>1. R[x] \notin less
      BY <1>0, <2>1, <2>2 DEF Worth
    <3>2. more = less \cup {R[x]}
      BY <1>5, <2>1, <2>4 DEF Worth
    <3>3. R[x].value = V[x] /\ V[x] \in Int
      BY <1>0, <2>2
    <3>4. Total(less \cup {R[x]}) = Total(less) + R[x].value
      BY <2>2, <3>1, <3>3, TotalWith
    <3> QED
      BY <2>1, <2>2, <2>3, <3>2, <3>3, <3>4
  <2>5. CASE ~(V[x] > 0)
    <3>1. V[x] = 0
      BY <1>0, <2>2, <2>5
    <3>2. more = less
      BY <1>5, <2>1, <2>5 DEF Worth
    <3> QED
      BY <2>1, <2>2, <2>3, <3>1, <3>2
  <2> QED
    BY <2>4, <2>5
<1>6. Adds(h, V, W)
  <2>1. DOMAIN h = SUBSET W /\ h = [s \in DOMAIN h |-> h[s]]
    BY <1>2
  <2> QED
    BY <1>4, <1>5, <2>1 DEF Adds
<1> QED
  BY <1>1, <1>3, <1>6

\* Those with a value of one.
Ones(V, A) == {u \in A : V[u] = 1}

\* Where every value is 0 or 1, the sum is the number of ones.
LEMMA OnesAdd ==
  ASSUME NEW W, IsFiniteSet(W), NEW V, \A u \in W : V[u] \in {0, 1}
  PROVE  \E h : Adds(h, V, W) /\ \A A \in SUBSET W : h[A] = Cardinality(Ones(V, A))
<1>1. PICK h : h = [A \in SUBSET W |-> Cardinality(Ones(V, A))]
  OBVIOUS
<1>2. \A A \in SUBSET W : h[A] = Cardinality(Ones(V, A))
  BY <1>1
<1>3. h[{}] = 0
  <2>1. Ones(V, {}) = {}
    BY DEF Ones
  <2> QED
    BY <1>2, <2>1, FS_EmptySet
<1>4. ASSUME NEW A \in SUBSET W, NEW x \in A PROVE h[A] = V[x] + h[A \ {x}]
  <2>1. PICK B, less, more : B = A \ {x} /\ less = Ones(V, B) /\ more = Ones(V, A)
    OBVIOUS
  <2>2. IsFiniteSet(less) /\ x \notin less /\ Cardinality(less) \in Nat /\ h[A] = Cardinality(more) /\ h[B] = Cardinality(less)
    <3>1. less \in SUBSET W /\ x \notin less /\ B \in SUBSET W
      BY <1>4, <2>1 DEF Ones
    <3>2. IsFiniteSet(less)
      BY <3>1, FS_Subset
    <3> QED
      BY <1>2, <1>4, <2>1, <3>1, <3>2, FS_CardinalityType
  <2>3. CASE V[x] = 1
    <3>1. more = less \cup {x}
      BY <1>4, <2>1, <2>3 DEF Ones
    <3>2. Cardinality(more) = Cardinality(less) + 1
      BY <2>2, <3>1, FS_AddElement
    <3> QED
      BY <2>1, <2>2, <2>3, <3>2
  <2>4. CASE V[x] # 1
    <3>1. V[x] = 0
      BY <1>4, <2>4
    <3>2. more = less
      BY <1>4, <2>1, <2>4 DEF Ones
    <3>3. h[A] = h[B] /\ h[B] \in Nat
      BY <2>2, <3>2
    <3> QED
      BY <2>1, <3>1, <3>3
  <2> QED
    BY <2>3, <2>4
<1>5. Adds(h, V, W)
  <2>1. DOMAIN h = SUBSET W /\ h = [s \in DOMAIN h |-> h[s]]
    BY <1>1
  <2> QED
    BY <1>3, <1>4, <2>1 DEF Adds
<1> QED
  BY <1>2, <1>5

-----------------------------------------------------------------------------
(* Counts of analytics: whole hours and days, and the statistics           *)

\* Quotient and remainder.
LEMMA Division ==
  ASSUME NEW t \in Int, NEW s \in Nat \ {0}, NEW q, q = t \div s, NEW r, r = t % s
  PROVE  q \in Int /\ r \in Int /\ 0 <= r /\ r < s /\ t = s * q + r
<1>1. q \in Int /\ r \in Int /\ 0 <= r /\ r < s
  OBVIOUS
<1>2. t = s * q + r
  OBVIOUS
<1> QED
  BY <1>1, <1>2

\* Whole steps.
LEMMA Whole ==
  ASSUME NEW t \in Int, NEW s \in Nat \ {0}
  PROVE  t % s = 0 <=> \E k \in Int : t = k * s
<1>0. PICK q, r : q = t \div s /\ r = t % s
  OBVIOUS
<1>1. q \in Int /\ r \in Int /\ 0 <= r /\ r < s /\ t = s * q + r
  BY <1>0, Division
<1>2. ASSUME NEW k \in Int, t = k * s PROVE t % s = 0
  <2>2. q \in Int /\ r \in Int /\ 0 <= r /\ r < s /\ k * s = s * q + r
    BY <1>1, <1>2
  <2>3. r = (k - q) * s
    BY <2>2
  <2>4. PICK d \in Int : d = k - q /\ r = d * s
    BY <2>2, <2>3
  <2>5. ~(d >= 1)
    <3> SUFFICES ASSUME d >= 1 PROVE FALSE
      OBVIOUS
    <3>1. d * s >= 1 * s
      OBVIOUS
    <3> QED
      BY <2>2, <2>4, <3>1
  <2>6. ~(d <= -1)
    <3> SUFFICES ASSUME d <= -1 PROVE FALSE
      OBVIOUS
    <3>1. d * s <= (-1) * s
      OBVIOUS
    <3> QED
      BY <2>2, <2>4, <3>1
  <2>7. d = 0
    BY <2>5, <2>6
  <2> QED
    BY <1>0, <2>4, <2>7
<1>3. ASSUME t % s = 0 PROVE \E k \in Int : t = k * s
  <2>1. t = q * s
    BY <1>0, <1>1, <1>3
  <2> QED
    BY <1>1, <2>1
<1> QED
  BY <1>2, <1>3

\* Sums and differences of whole steps are whole steps, and the next one is a step away.
LEMMA WholeSteps ==
  ASSUME NEW s \in Nat \ {0}
  PROVE  /\ 0 % s = 0
         /\ \A a, b \in Int : a % s = 0 /\ b % s = 0 =>
              (a + b) % s = 0 /\ (a - b) % s = 0 /\ (a < b => a <= b - s)
         /\ s % s = 0
         /\ \A a, b \in Int : b % s = 0 /\ (b - a) % s = 0 => a % s = 0
<1>1. 0 % s = 0
  <2>1. 0 = 0 * s /\ 0 \in Int
    OBVIOUS
  <2> QED
    BY <2>1, Whole
<1>2. s % s = 0
  <2>1. s = 1 * s /\ 1 \in Int /\ s \in Int
    OBVIOUS
  <2> QED
    BY <2>1, Whole
<1>3. ASSUME NEW a \in Int, NEW b \in Int, a % s = 0, b % s = 0
      PROVE  (a + b) % s = 0 /\ (a - b) % s = 0 /\ (a < b => a <= b - s)
  <2>1. PICK k \in Int, j \in Int : a = k * s /\ b = j * s
    BY <1>3, Whole
  <2>2. a + b = (k + j) * s /\ a - b = (k - j) * s
    BY <2>1
  <2>3. k + j \in Int /\ k - j \in Int /\ a + b \in Int /\ a - b \in Int
    OBVIOUS
  <2>4. (a + b) % s = 0 /\ (a - b) % s = 0
    BY <2>2, <2>3, Whole
  <2>5. ASSUME a < b PROVE a <= b - s
    <3>1. k < j
      <4> SUFFICES ASSUME j <= k PROVE FALSE
        OBVIOUS
      <4>1. j * s <= k * s
        OBVIOUS
      <4> QED
        BY <2>1, <2>5, <4>1
    <3>2. k + 1 <= j /\ k + 1 \in Int
      BY <3>1
    <3>3. (k + 1) * s <= j * s
      BY <3>2
    <3>4. (k + 1) * s = k * s + s
      OBVIOUS
    <3> QED
      BY <2>1, <3>3, <3>4
  <2> QED
    BY <2>4, <2>5
<1>4. ASSUME NEW a \in Int, NEW b \in Int, b % s = 0, (b - a) % s = 0 PROVE a % s = 0
  <2>1. b - a \in Int /\ a = b - (b - a)
    OBVIOUS
  <2>2. (b - (b - a)) % s = 0
    BY <1>3, <1>4, <2>1
  <2> QED
    BY <2>1, <2>2
<1> QED
  BY <1>1, <1>2, <1>3, <1>4

\* floor_to_day: the last whole step.
LEMMA Floor ==
  ASSUME NEW t \in Int, NEW s \in Nat \ {0}, NEW f, f = (t \div s) * s
  PROVE  f \in Int /\ f % s = 0 /\ f <= t /\ t < f + s
<1>2. PICK q, r : q = t \div s /\ r = t % s
  OBVIOUS
<1>1. q \in Int /\ r \in Int /\ 0 <= r /\ r < s /\ t = s * q + r
  BY <1>2, Division
<1>3. q \in Int /\ r \in Int /\ 0 <= r /\ r < s /\ t = s * q + r /\ f = q * s /\ s * q = q * s
  BY <1>1, <1>2
<1>4. f \in Int /\ f <= t /\ t < f + s
  BY <1>3
<1>5. f % s = 0
  BY <1>3, <1>4, Whole
<1> QED
  BY <1>4, <1>5

\* Every hour is a whole step of an hour.
LEMMA One == \A t \in Int : t % 1 = 0
  OBVIOUS

\* The statistics by name.
Audited == COUNT_STATS[2]
Logged == COUNT_STATS[3]
Recent == COUNT_STATS[4]
Sql == {COUNT_STATS[1], Audited, Recent}
Dependent == COUNT_STATS[5]

\* count_stats_ has these and no others.
LEMMA TheStats ==
  /\ Stats = Sql \cup {Logged, Dependent}
  /\ COUNT_STATS \in Seq(Stats) /\ COUNT_STATS # <<>>
<1>1. PICK a, b, c, d, e : COUNT_STATS = <<a, b, c, d, e>>
  BY DEF COUNT_STATS
<1>2. COUNT_STATS[1] = a /\ COUNT_STATS[2] = b /\ COUNT_STATS[3] = c /\ COUNT_STATS[4] = d /\ COUNT_STATS[5] = e
  BY <1>1
<1>3. DOMAIN COUNT_STATS = 1..5
  BY <1>1
<1>4. \A i : i \in 1..5 <=> i \in {1, 2, 3, 4, 5}
  OBVIOUS
<1>5. Stats = {a, b, c, d, e}
  <2>1. \A x : x \in Stats <=> \E i \in {1, 2, 3, 4, 5} : x = COUNT_STATS[i]
    BY <1>3, <1>4 DEF Stats, Range
  <2>2. \A x : x \in Stats <=> x \in {a, b, c, d, e}
    BY <1>2, <2>1
  <2> QED
    BY <2>2
<1>6. <<a, b, c, d, e>> \in Seq({a, b, c, d, e}) /\ <<a, b, c, d, e>> # <<>>
  OBVIOUS
<1> QED
  BY <1>1, <1>2, <1>5, <1>6 DEF Sql, Audited, Logged, Recent, Dependent

\* The statistics that are counted from users by a query.
LEMMA SqlStats ==
  /\ \A s \in Sql : s.kind = "sql" /\ s.table = "user" /\ s.dependencies = {}
  /\ COUNT_STATS[1].property = "messages_sent" /\ Audited.property = "active_users_audit" /\ Recent.property = "15day_actives"
  /\ COUNT_STATS[1].step = 1 /\ Audited.step = DayLength /\ Recent.step = DayLength
  /\ COUNT_STATS[1].interval = 1 /\ Audited.interval = DayLength /\ Recent.interval = ActiveDays * DayLength
<1>1. COUNT_STATS[1].kind = "sql" /\ COUNT_STATS[1].table = "user" /\ COUNT_STATS[1].dependencies = {}
  BY DEF COUNT_STATS, CountStat
<1>2. Audited.kind = "sql" /\ Audited.table = "user" /\ Audited.dependencies = {}
  BY DEF COUNT_STATS, CountStat, Audited
<1>3. Recent.kind = "sql" /\ Recent.table = "user" /\ Recent.dependencies = {}
  BY DEF COUNT_STATS, CountStat, Recent
<1>4. COUNT_STATS[1].property = "messages_sent" /\ COUNT_STATS[1].step = 1 /\ COUNT_STATS[1].interval = 1
  BY DEF COUNT_STATS, CountStat
<1>5. Audited.property = "active_users_audit" /\ Audited.step = DayLength /\ Audited.interval = DayLength
  BY DEF COUNT_STATS, CountStat, Audited
<1>6. Recent.property = "15day_actives" /\ Recent.step = DayLength /\ Recent.interval = ActiveDays * DayLength
  BY DEF COUNT_STATS, CountStat, Recent
<1> QED
  BY <1>1, <1>2, <1>3, <1>4, <1>5, <1>6 DEF Sql

\* The statistic that is logged, and the one that joins rows of two others.
LEMMA OtherStats ==
  /\ Logged.kind = "logging" /\ Logged.table = "realm" /\ Logged.dependencies = {} /\ Logged.step = DayLength
  /\ Logged.property = "active_users_log"
  /\ Dependent.kind = "dependent" /\ Dependent.table = "realm" /\ Dependent.step = DayLength
  /\ Dependent.dependencies = {"active_users_audit", "15day_actives"} /\ Dependent.property = "realm_active_humans"
<1>1. /\ Logged.kind = "logging" /\ Logged.table = "realm" /\ Logged.dependencies = {} /\ Logged.step = DayLength
      /\ Logged.property = "active_users_log"
  BY DEF COUNT_STATS, CountStat, Logged
<1>2. Dependent.kind = "dependent" /\ Dependent.table = "realm" /\ Dependent.step = DayLength
  BY DEF COUNT_STATS, CountStat, Dependent
<1>3. Dependent.dependencies = {"active_users_audit", "15day_actives"} /\ Dependent.property = "realm_active_humans"
  BY DEF COUNT_STATS, CountStat, Dependent
<1> QED
  BY <1>1, <1>2, <1>3

\* What tells the statistics apart.
LEMMA StatFacts ==
  /\ \A s, r \in Stats : s.property = r.property => s = r
  /\ \A s \in Stats : /\ s.step \in Nat \ {0} /\ s.kind \in {"sql", "logging", "dependent"}
                      /\ s.property \in StatNames
                      /\ s.kind = "sql" <=> s \in Sql
                      /\ s.kind = "sql" => s.interval \in Nat /\ s.table = "user" /\ s.dependencies = {}
                      /\ s.kind = "logging" => s = Logged
                      /\ s.kind = "dependent" => s = Dependent
                      /\ \A d \in s.dependencies : d # s.property /\ \E r \in Sql : r.property = d
                      /\ s.table = "user" <=> s.kind = "sql"
<1>0. DayLength \in Nat \ {0} /\ ActiveDays * DayLength \in Nat
  BY AnalyticsAssumption
<1>1. ASSUME NEW s \in Stats, NEW r \in Stats, s.property = r.property PROVE s = r
  BY <1>1, TheStats, SqlStats, OtherStats DEF Sql
<1>2. ASSUME NEW s \in Stats
      PROVE  /\ s.step \in Nat \ {0} /\ s.kind \in {"sql", "logging", "dependent"}
             /\ s.kind = "sql" <=> s \in Sql
             /\ s.kind = "sql" => s.interval \in Nat /\ s.table = "user" /\ s.dependencies = {}
             /\ s.kind = "logging" => s = Logged
             /\ s.kind = "dependent" => s = Dependent
             /\ s.table = "user" <=> s.kind = "sql"
  <2>1. CASE s \in Sql
    BY <1>0, <2>1, SqlStats, OtherStats DEF Sql
  <2>2. CASE s = Logged
    BY <1>0, <2>2, SqlStats, OtherStats
  <2>3. CASE s = Dependent
    BY <1>0, <2>3, SqlStats, OtherStats
  <2> QED
    BY <2>1, <2>2, <2>3, TheStats
<1>3. ASSUME NEW s \in Stats, NEW d \in s.dependencies PROVE d # s.property /\ \E r \in Sql : r.property = d
  <2>1. s = Dependent
    BY <1>3, TheStats, SqlStats, OtherStats
  <2>2. d = Audited.property \/ d = Recent.property
    BY <1>3, <2>1, SqlStats, OtherStats
  <2>3. Audited \in Sql /\ Recent \in Sql
    BY DEF Sql
  <2>4. d # s.property
    BY <2>1, <2>2, SqlStats, OtherStats
  <2> QED
    BY <2>2, <2>3, <2>4
<1>4. \A s \in Stats : s.property \in StatNames
  BY DEF StatNames
<1> QED
  BY <1>1, <1>2, <1>3, <1>4

-----------------------------------------------------------------------------
(* Counts of analytics: what happened, and what should be in the tables    *)

\* What happened, at times that are not to come.
Whats == {"created", "sent", "visit", "deactivated", "reactivated"}
FactsRight ==
  /\ hour \in Nat
  /\ facts \in Seq([who: Humans, what: Whats, at: Nat])
  /\ \A i \in DOMAIN facts : facts[i].at <= hour

\* What a query counts for a user.
Value(s, u, t) == UserValue(s.property, u, t - s.interval, t)

\* A query meets finitely many facts.
LEMMA BetweenFinite ==
  ASSUME FactsRight, NEW from, NEW to
  PROVE  IsFiniteSet(Between(from, to)) /\ Between(from, to) \subseteq DOMAIN facts
<1>1. DOMAIN facts = 1..Len(facts) /\ Len(facts) \in Nat
  BY DEF FactsRight
<1>2. Between(from, to) \subseteq DOMAIN facts
  BY DEF Between
<1>3. IsFiniteSet(1..Len(facts))
  BY <1>1, FS_Interval
<1> QED
  BY <1>1, <1>2, <1>3, FS_Subset

\* The last of some places of a sequence.
LEMMA LastPlace ==
  ASSUME NEW n \in Nat, NEW T \in SUBSET (1..n), T # {}
  PROVE  Max(T) \in T /\ \A j \in T : Max(T) >= j
<1>1. PICK D : D = {n - j : j \in T}
  OBVIOUS
<1>2. D \in SUBSET Nat /\ D # {}
  <2>1. \A j \in T : n - j \in Nat
    OBVIOUS
  <2>2. PICK j \in T : TRUE
    OBVIOUS
  <2>3. n - j \in D
    BY <1>1
  <2> QED
    BY <1>1, <2>1, <2>3
<1>3. Min(D) \in D /\ \A m \in D : Min(D) <= m
  BY <1>2, LeastId
<1>4. PICK i \in T : Min(D) = n - i
  BY <1>1, <1>3
<1>5. \A j \in T : i >= j
  <2> SUFFICES ASSUME NEW j \in T PROVE i >= j
    OBVIOUS
  <2>1. n - j \in D
    BY <1>1
  <2>2. n - i <= n - j
    BY <1>3, <1>4, <2>1
  <2> QED
    BY <2>2
<1> QED
  BY <1>5 DEF Max

\* The queries of users count; those of activity say yes or no.
LEMMA Values ==
  ASSUME FactsRight, NEW s \in Sql, NEW u, NEW t
  PROVE  Value(s, u, t) \in Nat /\ (s # COUNT_STATS[1] => Value(s, u, t) \in {0, 1})
<1>1. CASE s = COUNT_STATS[1]
  <2>1. Value(s, u, t) = count_message_by_user(u, t - s.interval, t)
    BY <1>1, SqlStats DEF Value, UserValue
  <2>2. PICK B, C : B = Between(t - s.interval, t) /\ C = {i \in B : facts[i].who = u /\ facts[i].what = "sent"}
    OBVIOUS
  <2>3. IsFiniteSet(C)
    <3>1. IsFiniteSet(B) /\ C \subseteq B
      BY <2>2, BetweenFinite
    <3> QED
      BY <3>1, FS_Subset
  <2>4. Cardinality(C) \in Nat
    BY <2>3, FS_CardinalityType
  <2> QED
    BY <1>1, <2>1, <2>2, <2>4 DEF count_message_by_user
<1>2. CASE s = Audited
  <2>1. Value(s, u, t) = check_realmauditlog_by_user(u, t)
    BY <1>2, SqlStats DEF Value, UserValue
  <2> QED
    BY <2>1 DEF check_realmauditlog_by_user
<1>3. CASE s = Recent
  <2>1. Value(s, u, t) = check_useractivityinterval_by_user(u, t - s.interval, t)
    BY <1>3, SqlStats DEF Value, UserValue
  <2> QED
    BY <2>1 DEF check_useractivityinterval_by_user
<1> QED
  BY <1>1, <1>2, <1>3 DEF Sql

\* Something happens, or nothing.
GoesOn == facts' = facts \/ \E e : facts' = Append(facts, e) /\ e.at = hour

\* It is not in the past.
LEMMA PastStays ==
  ASSUME FactsRight, GoesOn, NEW from, NEW to \in Int, to <= hour
  PROVE  Between(from, to)' = Between(from, to) /\ \A i \in Between(from, to) : facts'[i] = facts[i]
<1>1. CASE facts' = facts
  BY <1>1 DEF Between
<1>2. CASE \E e : facts' = Append(facts, e) /\ e.at = hour
  <2>1. PICK e : facts' = Append(facts, e) /\ e.at = hour
    BY <1>2
  <2>2. Len(facts) \in Nat /\ DOMAIN facts = 1..Len(facts) /\ hour \in Nat
    BY DEF FactsRight
  <2>3. PICK new, n : new = facts' /\ n = Len(facts) + 1
    OBVIOUS
  <2>4. DOMAIN new = 1..n /\ new[n] = e /\ \A i \in 1..Len(facts) : new[i] = facts[i]
    BY <2>1, <2>2, <2>3
  <2>5. \A i : i \in 1..n <=> i \in 1..Len(facts) \/ i = n
    BY <2>2, <2>3
  <2>6. ~(new[n].at < to)
    BY <2>1, <2>2, <2>4
  <2>7. \A i : i \in {j \in DOMAIN new : from <= new[j].at /\ new[j].at < to} <=> i \in Between(from, to)
    BY <2>2, <2>4, <2>5, <2>6 DEF Between
  <2>8. Between(from, to)' = {j \in DOMAIN new : from <= new[j].at /\ new[j].at < to}
    BY <2>3 DEF Between
  <2>9. Between(from, to)' = Between(from, to)
    BY <2>7, <2>8
  <2> QED
    BY <2>2, <2>3, <2>4, <2>9 DEF Between
<1> QED
  BY <1>1, <1>2 DEF GoesOn

\* The audit log of the past says the same later.
LEMMA AuditStays ==
  ASSUME FactsRight, GoesOn, NEW u, NEW t \in Int, t <= hour
  PROVE  check_realmauditlog_by_user(u, t)' = check_realmauditlog_by_user(u, t)
<1>1. Between(0, t)' = Between(0, t) /\ \A i \in Between(0, t) : facts'[i] = facts[i]
  BY PastStays
<1>2. PICK mine : mine = {i \in Between(0, t) : facts[i].who = u /\ facts[i].what \in AuditEvents}
  OBVIOUS
<1>3. {i \in Between(0, t)' : facts'[i].who = u /\ facts'[i].what \in AuditEvents} = mine
  BY <1>1, <1>2
<1>4. mine # {} => Max(mine) \in Between(0, t)
  <2> SUFFICES ASSUME mine # {} PROVE Max(mine) \in Between(0, t)
    OBVIOUS
  <2>1. Len(facts) \in Nat /\ DOMAIN facts = 1..Len(facts)
    BY DEF FactsRight
  <2>2. mine \in SUBSET (1..Len(facts)) /\ mine \subseteq Between(0, t)
    BY <1>2, <2>1, BetweenFinite
  <2>3. Max(mine) \in mine
    BY <2>1, <2>2, LastPlace
  <2> QED
    BY <2>2, <2>3
<1> QED
  BY <1>1, <1>2, <1>3, <1>4 DEF check_realmauditlog_by_user

Tables == {"user", "realm", Installation}

\* What the tables should hold about a statistic s at the end t of an hour or day.
UserRows(s, t) == {Row("user", s, u, t, Value(s, u, t)) : u \in {x \in Humans : Value(s, x, t) > 0}}
OfRealm(s, t, r) == {c \in UserRows(s, t) : HumanRealm[c.key] = r}
SumRows(s, t) ==
  {Row("realm", s, r, t, Total(OfRealm(s, t, r))) : r \in {x \in HumanRealms : OfRealm(s, t, x) # {}}}
Both(r, t) ==
  {u \in Humans : HumanRealm[u] = r /\ Value(Audited, u, t) > 0 /\ Value(Recent, u, t) > 0}
BothRows(t) ==
  {Row("realm", Dependent, r, t, Cardinality(Both(r, t))) : r \in {x \in HumanRealms : Both(x, t) # {}}}

TrueUsers(s, t) == IF s.kind = "sql" THEN UserRows(s, t) ELSE {}
TrueRealms(s, t) ==
  CASE s.kind = "sql" -> SumRows(s, t)
    [] s.kind = "dependent" -> BothRows(t)
    [] OTHER -> RowsOf("realm", s, t)
WholeRows(s, t, rs) ==
  IF rs = {} THEN {} ELSE {Row(Installation, s, Installation, t, Total(rs))}
TrueWhole(s, t) == WholeRows(s, t, TrueRealms(s, t))

HaveUsers(s, t) == RowsOf("user", s, t) = TrueUsers(s, t)
HaveRealms(s, t) == RowsOf("realm", s, t) = TrueRealms(s, t)
HaveWhole(s, t) == RowsOf(Installation, s, t) = TrueWhole(s, t)
Complete(s, t) == HaveUsers(s, t) /\ HaveRealms(s, t) /\ HaveWhole(s, t)

\* What a query counts for an hour that is over does not change any more.
LEMMA ValueStays ==
  ASSUME FactsRight, GoesOn, NEW s \in Sql, NEW u, NEW t \in Int, t <= hour
  PROVE  Value(s, u, t)' = Value(s, u, t)
<1>1. \A from : Between(from, t)' = Between(from, t) /\ \A i \in Between(from, t) : facts'[i] = facts[i]
  BY PastStays
<1>2. CASE s = COUNT_STATS[1]
  <2>1. /\ Value(s, u, t) = count_message_by_user(u, t - s.interval, t)
        /\ Value(s, u, t)' = count_message_by_user(u, t - s.interval, t)'
    BY <1>2, SqlStats DEF Value, UserValue
  <2>2. {i \in Between(t - s.interval, t)' : facts'[i].who = u /\ facts'[i].what = "sent"}
          = {i \in Between(t - s.interval, t) : facts[i].who = u /\ facts[i].what = "sent"}
    BY <1>1
  <2> QED
    BY <2>1, <2>2 DEF count_message_by_user
<1>3. CASE s = Audited
  <2>1. /\ Value(s, u, t) = check_realmauditlog_by_user(u, t)
        /\ Value(s, u, t)' = check_realmauditlog_by_user(u, t)'
    BY <1>3, SqlStats DEF Value, UserValue
  <2> QED
    BY <2>1, AuditStays
<1>4. CASE s = Recent
  <2>1. /\ Value(s, u, t) = check_useractivityinterval_by_user(u, t - s.interval, t)
        /\ Value(s, u, t)' = check_useractivityinterval_by_user(u, t - s.interval, t)'
    BY <1>4, SqlStats DEF Value, UserValue
  <2> QED
    BY <1>1, <2>1 DEF check_useractivityinterval_by_user
<1> QED
  BY <1>2, <1>3, <1>4 DEF Sql

\* The past stays as it was counted, and so does what should be in the tables.
LEMMA TruthStays ==
  ASSUME FactsRight, GoesOn, NEW s \in Stats, NEW t \in Int, t <= hour,
         s.kind = "logging" => RowsOf("realm", s, t)' = RowsOf("realm", s, t)
  PROVE  /\ TrueUsers(s, t)' = TrueUsers(s, t) /\ TrueRealms(s, t)' = TrueRealms(s, t)
         /\ TrueWhole(s, t)' = TrueWhole(s, t)
<1>1. \A x \in Sql : \A u : Value(x, u, t)' = Value(x, u, t)
  BY ValueStays
<1>2. s.kind = "sql" => s \in Sql
  BY StatFacts
<1>3. TrueUsers(s, t)' = TrueUsers(s, t)
  BY <1>1, <1>2 DEF TrueUsers, UserRows
<1>4. s.kind = "sql" => SumRows(s, t)' = SumRows(s, t)
  <2> SUFFICES ASSUME s.kind = "sql" PROVE SumRows(s, t)' = SumRows(s, t)
    OBVIOUS
  <2>1. \A r : OfRealm(s, t, r)' = OfRealm(s, t, r)
    BY <1>3 DEF OfRealm, TrueUsers
  <2> QED
    BY <2>1 DEF SumRows
<1>5. BothRows(t)' = BothRows(t)
  <2>1. Audited \in Sql /\ Recent \in Sql
    BY DEF Sql
  <2>2. \A r : Both(r, t)' = Both(r, t)
    BY <1>1, <2>1 DEF Both
  <2> QED
    BY <2>2 DEF BothRows
<1>6. TrueRealms(s, t)' = TrueRealms(s, t)
  BY <1>4, <1>5, StatFacts DEF TrueRealms
<1> QED
  BY <1>3, <1>6 DEF TrueWhole

\* Users and realms are finitely many.
LEMMA RealmsFinite == IsFiniteSet(Humans) /\ IsFiniteSet(HumanRealms) /\ DOMAIN HumanRealm = Humans
<1>1. IsFiniteSet(Humans) /\ DOMAIN HumanRealm = Humans
  BY AnalyticsAssumption
<1>2. PICK f : f = [u \in Humans |-> HumanRealm[u]]
  OBVIOUS
<1>3. f \in Surjection(Humans, {HumanRealm[u] : u \in Humans})
  BY <1>2 DEF Surjection
<1> QED
  BY <1>1, <1>3, FS_Surjection DEF HumanRealms

\* The rows are right for their place.
LEMMA RowIs ==
  ASSUME NEW table, NEW s, NEW key, NEW to, NEW value, NEW c, c = Row(table, s, key, to, value)
  PROVE  c.table = table /\ c.stat = s.property /\ c.key = key /\ c.end = to /\ c.value = value /\ c.copy = 0
BY DEF Row

\* How much of a value the users of a realm have.
LEMMA RealmSum ==
  ASSUME FactsRight, NEW s \in Sql, NEW t, NEW r,
         NEW W \in SUBSET Humans, \A u \in Humans : u \in W <=> HumanRealm[u] = r
  PROVE  /\ AreRows(UserRows(s, t)) /\ AreRows(OfRealm(s, t, r))
         /\ \E h : Adds(h, [u \in W |-> Value(s, u, t)], W) /\ h[W] = Total(OfRealm(s, t, r))
<1>1. PICK V, R : V = [u \in Humans |-> Value(s, u, t)] /\ R = [u \in Humans |-> Row("user", s, u, t, Value(s, u, t))]
  OBVIOUS
<1>2. \A u \in Humans : V[u] \in Nat /\ R[u].value = V[u] /\ R[u].key = u
  BY <1>1, Values DEF Row
<1>3. W \subseteq Humans /\ IsFiniteSet(W) /\ IsFiniteSet(Humans)
  <2>1. W \subseteq Humans
    OBVIOUS
  <2> QED
    BY <2>1, RealmsFinite, FS_Subset
<1>4. \A u, w \in Humans : R[u] = R[w] => u = w
  BY <1>2
<1>5. UserRows(s, t) = Worth(R, V, Humans)
  BY <1>1 DEF UserRows, Worth
<1>6. OfRealm(s, t, r) = Worth(R, V, W)
  BY <1>2, <1>5 DEF OfRealm, Worth
<1>7. AreRows(Worth(R, V, Humans))
  <2>1. Priced(R, V, Humans)
    BY <1>2, <1>3, <1>4 DEF Priced
  <2> QED
    BY <2>1, RowsAdd
<1>8. PICK Z : Z = [u \in W |-> Value(s, u, t)]
  OBVIOUS
<1>9. Worth(R, V, W) = Worth(R, Z, W)
  BY <1>1, <1>3, <1>8 DEF Worth
<1>10. \A u \in W : Z[u] \in Nat /\ R[u].value = Z[u]
  BY <1>1, <1>2, <1>3, <1>8
<1>11. \E h : Adds(h, Z, W) /\ \A A \in SUBSET W : AreRows(Worth(R, Z, A)) /\ h[A] = Total(Worth(R, Z, A))
  <2>1. \A u, w \in W : R[u] = R[w] => u = w
    BY <1>3, <1>4
  <2>2. IsFiniteSet(W)
    BY <1>3
  <2>3. (\A u \in W : Z[u] \in Nat) /\ \A u \in W : R[u].value = Z[u]
    BY <1>10
  <2>4. Priced(R, Z, W)
    BY <2>1, <2>2, <2>3 DEF Priced
  <2> QED
    BY <2>4, RowsAdd
<1>12. W \in SUBSET W
  OBVIOUS
<1> QED
  BY <1>5, <1>6, <1>7, <1>8, <1>9, <1>11, <1>12

\* A set of rows one per realm.
RealmRowsFrom(s, t, v, X) == {Row("realm", s, r, t, v[r]) : r \in X}
\* They are finitely many and count whole numbers.
LEMMA RealmRowsFinite ==
  ASSUME NEW s, NEW t, NEW v, NEW X \in SUBSET HumanRealms, \A r \in X : v[r] \in Int
  PROVE  AreRows(RealmRowsFrom(s, t, v, X))
<1>1. IsFiniteSet(X)
  BY RealmsFinite, FS_Subset
<1>2. PICK f : f = [r \in X |-> Row("realm", s, r, t, v[r])]
  OBVIOUS
<1>3. f \in Surjection(X, {Row("realm", s, r, t, v[r]) : r \in X})
  BY <1>2 DEF Surjection
<1>4. IsFiniteSet({Row("realm", s, r, t, v[r]) : r \in X})
  BY <1>1, <1>3, FS_Surjection
<1> QED
  BY <1>4 DEF AreRows, Row, RealmRowsFrom

\* A row of s at t, well made.
RowAt(c, table, s, t) == c.table = table /\ c.stat = s.property /\ c.end = t /\ c.value \in Int /\ c.copy = 0

\* What should be in the tables is well made.
LEMMA TrueRowsTyped ==
  ASSUME FactsRight, NEW s \in Stats, s.kind # "logging", NEW t
  PROVE  /\ AreRows(TrueUsers(s, t)) /\ \A c \in TrueUsers(s, t) : RowAt(c, "user", s, t)
         /\ AreRows(TrueRealms(s, t)) /\ \A c \in TrueRealms(s, t) : RowAt(c, "realm", s, t)
<1>1. CASE s.kind = "sql"
  <2>1. s \in Sql
    BY <1>1, StatFacts
  <2>2. TrueUsers(s, t) = UserRows(s, t) /\ TrueRealms(s, t) = SumRows(s, t)
    BY <1>1 DEF TrueUsers, TrueRealms
  <2>3. AreRows(UserRows(s, t)) /\ \A r : AreRows(OfRealm(s, t, r))
    <3> SUFFICES ASSUME NEW r PROVE AreRows(UserRows(s, t)) /\ AreRows(OfRealm(s, t, r))
      OBVIOUS
    <3>1. PICK W \in SUBSET Humans : \A u \in Humans : u \in W <=> HumanRealm[u] = r
      <4>1. {u \in Humans : HumanRealm[u] = r} \in SUBSET Humans
        OBVIOUS
      <4> QED
        BY <4>1
    <3> QED
      BY <2>1, <3>1, RealmSum
  <2>4. \A c \in UserRows(s, t) : RowAt(c, "user", s, t)
    BY <2>3 DEF UserRows, RowAt, Row, AreRows
  <2>5. PICK v : v = [r \in HumanRealms |-> Total(OfRealm(s, t, r))]
    OBVIOUS
  <2>6. \A r \in HumanRealms : v[r] = Total(OfRealm(s, t, r)) /\ v[r] \in Int
    BY <2>3, <2>5, TotalAdds
  <2>7. PICK X : X = {x \in HumanRealms : OfRealm(s, t, x) # {}}
    OBVIOUS
  <2>8. SumRows(s, t) = {Row("realm", s, r, t, v[r]) : r \in X} /\ X \in SUBSET HumanRealms
    BY <2>6, <2>7 DEF SumRows
  <2>9. AreRows(SumRows(s, t))
    <3>1. \A r \in X : v[r] \in Int
      BY <2>6, <2>8
    <3>2. AreRows(RealmRowsFrom(s, t, v, X))
      BY <2>8, <3>1, RealmRowsFinite
    <3> QED
      BY <2>8, <3>2 DEF RealmRowsFrom
  <2>10. \A c \in SumRows(s, t) : RowAt(c, "realm", s, t)
    BY <2>9 DEF SumRows, RowAt, Row, AreRows
  <2> QED
    BY <2>2, <2>3, <2>4, <2>9, <2>10
<1>2. CASE s.kind = "dependent"
  <2>1. s = Dependent
    BY <1>2, StatFacts
  <2>2. TrueUsers(s, t) = {} /\ TrueRealms(s, t) = BothRows(t)
    BY <1>2 DEF TrueUsers, TrueRealms
  <2>3. PICK v : v = [r \in HumanRealms |-> Cardinality(Both(r, t))]
    OBVIOUS
  <2>4. \A r \in HumanRealms : v[r] = Cardinality(Both(r, t)) /\ v[r] \in Int
    <3>1. \A r : Both(r, t) \subseteq Humans
      BY DEF Both
    <3>2. \A r : Cardinality(Both(r, t)) \in Nat
      BY <3>1, RealmsFinite, FS_Subset, FS_CardinalityType
    <3> QED
      BY <2>3, <3>2
  <2>5. PICK X : X = {x \in HumanRealms : Both(x, t) # {}}
    OBVIOUS
  <2>6. BothRows(t) = {Row("realm", s, r, t, v[r]) : r \in X} /\ X \in SUBSET HumanRealms
    BY <2>1, <2>4, <2>5 DEF BothRows
  <2>7. AreRows(BothRows(t))
    <3>1. \A r \in X : v[r] \in Int
      BY <2>4, <2>6
    <3>2. AreRows(RealmRowsFrom(s, t, v, X))
      BY <2>6, <3>1, RealmRowsFinite
    <3> QED
      BY <2>6, <3>2 DEF RealmRowsFrom
  <2>8. \A c \in BothRows(t) : RowAt(c, "realm", s, t)
    BY <2>1, <2>7 DEF BothRows, RowAt, Row, AreRows
  <2>9. AreRows({})
    BY FS_EmptySet DEF AreRows
  <2> QED
    BY <2>2, <2>7, <2>8, <2>9
<1> QED
  BY <1>1, <1>2, StatFacts

-----------------------------------------------------------------------------
(* Counts of analytics: the inductive invariant                            *)

\* How the tables stand for an hour that is not begun.
Bare(s, t) ==
  /\ RowsOf("user", s, t) = {} /\ RowsOf(Installation, s, t) = {}
  /\ s.kind # "logging" => RowsOf("realm", s, t) = {}

\* The rows are finitely many, of tables and statistics there are, and never twice.
RowsRight ==
  /\ IsFiniteSet(counts)
  /\ \A c \in counts : c.table \in Tables /\ c.stat \in StatNames /\ c.end \in Int /\ c.value \in Int /\ c.copy = 0

\* A FillState says a whole step, over by now.
FillRight(s, f) ==
  /\ f.end_time \in Nat /\ f.end_time <= hour /\ f.end_time % s.step = 0
  /\ f.state \in {"done", "started"} /\ (f.state = "started" => f.end_time > 0)
FillsRight ==
  \A s \in Stats : s.property \in DOMAIN fills => FillRight(s, fills[s.property])

\* The hours or days of s that were begun, and of these the ones that are behind.
Reached(s, t) ==
  /\ s.property \in DOMAIN fills
  /\ 0 < t /\ t <= fills[s.property].end_time /\ t % s.step = 0
Done(s, t) == Reached(s, t) /\ t <= last_successful_fill(s.property)

\* What is not begun is bare, what is behind is complete, and only queries of
\* users leave rows of users.
BlankInv == \A s \in Stats, t \in Int : ~Reached(s, t) => Bare(s, t)
DoneInv == \A s \in Stats, t \in Int : Done(s, t) => Complete(s, t)
UsersInv == \A s \in Stats, t \in Int : s.kind # "sql" => RowsOf("user", s, t) = {}

\* What the statistic depends on is filled up to t.
Ready(s, t) == \A d \in s.dependencies : d \in DOMAIN fills /\ t <= last_successful_fill(d)

\* The job undoes, begins, or has begun an hour of s.
Undoing(s, left) ==
  /\ s.property \in DOMAIN fills /\ fills[s.property].state = "started" /\ left \in Seq(Tables)
  /\ Range(left) \subseteq Tables /\ (s.kind = "logging" => "realm" \notin Range(left))
  /\ \A table \in Tables \ Range(left) :
       (s.kind = "logging" /\ table = "realm") \/ RowsOf(table, s, fills[s.property].end_time) = {}
Starting(s, at) ==
  /\ s.property \in DOMAIN fills /\ fills[s.property].state = "done"
  /\ at = fills[s.property].end_time + s.step /\ at <= hour /\ Ready(s, at)
Begun(s, at) ==
  s.property \in DOMAIN fills /\ fills[s.property].end_time = at /\ fills[s.property].state = "started"

\* How far the job is with s.
StandsAt(step, s, at, left) ==
  CASE step = "open" -> TRUE
    [] step = "undo" -> Undoing(s, left)
    [] step = "start" -> Starting(s, at)
    [] step = "pull" -> Begun(s, at) /\ s.kind # "logging" /\ Ready(s, at) /\ Bare(s, at)
    [] step = "realm" -> /\ Begun(s, at) /\ s.kind = "sql" /\ HaveUsers(s, at)
                         /\ RowsOf("realm", s, at) = {} /\ RowsOf(Installation, s, at) = {}
    [] step = Installation -> /\ Begun(s, at) /\ HaveUsers(s, at) /\ HaveRealms(s, at)
                              /\ RowsOf(Installation, s, at) = {}
    [] step = "close" -> Begun(s, at) /\ Complete(s, at)
    [] OTHER -> FALSE
\* The job runs, and stands where its step says.
JobRight ==
  job = Idle \/
  (/\ DOMAIN job = {"step", "todo", "fill_to_time", "at", "left"}
   /\ job.todo \in Seq(Stats) /\ job.todo # <<>> /\ job.fill_to_time = hour
   /\ StandsAt(job.step, Head(job.todo), job.at, job.left))

\* The changes logged up to t, of a realm, and who is active at t by the audit log.
LoggedUpTo(t, r) ==
  {c \in counts : c.table = "realm" /\ c.stat = "active_users_log" /\ c.key = r /\ c.end <= t}
ActiveAt(t, r) == {u \in Humans : HumanRealm[u] = r /\ check_realmauditlog_by_user(u, t) = 1}
\* The logged changes of a realm add up to its active users.
LogRight ==
  \A t \in Int, r \in HumanRealms :
    0 < t /\ t % DayLength = 0 => Total(LoggedUpTo(t, r)) = Cardinality(ActiveAt(t, r))

(***************************************************************************)
(* The inductive invariant of process_count_stat: the FillState of each    *)
(* statistic tells which hours are complete and which untouched, and the   *)
(* job's step tells which tables of the one hour between are filled.       *)
(***************************************************************************)
CountsInv ==
  /\ FactsRight /\ RowsRight /\ FillsRight
  /\ BlankInv /\ UsersInv /\ DoneInv /\ JobRight /\ LogRight

-----------------------------------------------------------------------------
(* Counts of analytics: the steps of the job                               *)

\* Where the rows stay, so does what is right about them, for hours that are over.
LEMMA HaveStays ==
  ASSUME FactsRight, GoesOn, NEW s \in Stats, NEW t \in Int, t <= hour,
         \A T \in Tables : RowsOf(T, s, t)' = RowsOf(T, s, t)
  PROVE  /\ HaveUsers(s, t)' <=> HaveUsers(s, t)
         /\ HaveRealms(s, t)' <=> HaveRealms(s, t)
         /\ HaveWhole(s, t)' <=> HaveWhole(s, t)
         /\ Complete(s, t)' <=> Complete(s, t)
         /\ Bare(s, t)' <=> Bare(s, t)
<1>1. /\ RowsOf("user", s, t)' = RowsOf("user", s, t) /\ RowsOf("realm", s, t)' = RowsOf("realm", s, t)
      /\ RowsOf(Installation, s, t)' = RowsOf(Installation, s, t)
  BY DEF Tables
<1>2. /\ TrueUsers(s, t)' = TrueUsers(s, t) /\ TrueRealms(s, t)' = TrueRealms(s, t)
      /\ TrueWhole(s, t)' = TrueWhole(s, t)
  BY <1>1, TruthStays
<1> QED
  BY <1>1, <1>2 DEF HaveUsers, HaveRealms, HaveWhole, Complete, Bare

\* All other rows stay.
ElseKept(table, s, at) ==
  \A T : \A q \in Stats : \A t :
    ~(T = table /\ q = s /\ t = at) => RowsOf(T, q, t)' = RowsOf(T, q, t)

\* An INSERT where nothing is: the rows are there, all others as they were.
LEMMA Inserted ==
  ASSUME RowsRight, NEW table \in Tables, NEW s \in Stats, NEW at \in Int, NEW new, AreRows(new),
         \A c \in new : RowAt(c, table, s, at), counts' = counts \cup new, RowsOf(table, s, at) = {}
  PROVE  RowsRight' /\ RowsOf(table, s, at)' = new /\ ElseKept(table, s, at)
<1>1. \A c \in new : c.table = table /\ c.stat = s.property /\ c.end = at /\ c.value \in Int /\ c.copy = 0
  BY DEF RowAt
<1>2. RowsRight'
  <2>1. IsFiniteSet(counts')
    BY FS_Union DEF RowsRight, AreRows
  <2>2. s.property \in StatNames
    BY StatFacts
  <2>3. \A c \in counts' : c \in counts \/ c \in new
    OBVIOUS
  <2> QED
    BY <1>1, <2>1, <2>2, <2>3 DEF RowsRight
<1>3. RowsOf(table, s, at)' = new
  BY <1>1 DEF RowsOf
<1>4. ASSUME NEW T, NEW q \in Stats, NEW t, ~(T = table /\ q = s /\ t = at)
      PROVE  RowsOf(T, q, t)' = RowsOf(T, q, t)
  <2>1. ~(T = table /\ q.property = s.property /\ t = at)
    BY <1>4, StatFacts
  <2> QED
    BY <1>1, <2>1 DEF RowsOf
<1> QED
  BY <1>2, <1>3, <1>4 DEF ElseKept

\* do_delete_counts_at_hour of one table: its rows are gone, all others stay.
LEMMA Deleted ==
  ASSUME RowsRight, NEW table, NEW s \in Stats, NEW at, counts' = counts \ RowsOf(table, s, at)
  PROVE  RowsRight' /\ RowsOf(table, s, at)' = {} /\ ElseKept(table, s, at)
<1>1. RowsRight'
  <2>1. IsFiniteSet(counts')
    BY FS_Difference DEF RowsRight
  <2> QED
    BY <2>1 DEF RowsRight
<1>2. RowsOf(table, s, at)' = {}
  BY DEF RowsOf
<1>3. ASSUME NEW T, NEW q \in Stats, NEW t, ~(T = table /\ q = s /\ t = at)
      PROVE  RowsOf(T, q, t)' = RowsOf(T, q, t)
  <2>1. ~(T = table /\ q.property = s.property /\ t = at)
    BY <1>3, StatFacts
  <2> QED
    BY <2>1 DEF RowsOf
<1> QED
  BY <1>1, <1>2, <1>3 DEF ElseKept

\* Statements of a fill touch rows of the hour that is being filled.
LEMMA OnlyThere ==
  ASSUME FactsRight, FillsRight, BlankInv, DoneInv, UsersInv, LogRight, UNCHANGED <<hour, facts, fills>>,
         NEW table, NEW s \in Stats, NEW at \in Int, ElseKept(table, s, at),
         s.property \in DOMAIN fills, fills[s.property].state = "started", fills[s.property].end_time = at,
         ~(s.kind = "logging" /\ table = "realm"),
         s.kind # "sql" => RowsOf("user", s, at)' = {}
  PROVE  BlankInv' /\ DoneInv' /\ UsersInv' /\ LogRight'
<1>0. FillRight(s, fills[s.property]) /\ GoesOn
  BY DEF FillsRight, GoesOn
<1>1. at > 0 /\ at <= hour /\ at % s.step = 0 /\ at \in Nat /\ hour \in Nat
  BY <1>0 DEF FillRight, FactsRight
<1>2. Reached(s, at) /\ ~Done(s, at)
  BY <1>1 DEF Reached, Done, last_successful_fill
<1>3. /\ \A q, t : Reached(q, t)' <=> Reached(q, t)
      /\ \A q, t : Done(q, t)' <=> Done(q, t)
  BY DEF Reached, Done, last_successful_fill
<1>4. \A q \in Stats : \A t : ~(q = s /\ t = at) => \A T \in Tables : RowsOf(T, q, t)' = RowsOf(T, q, t)
  BY DEF ElseKept
<1>5. BlankInv'
  <2> SUFFICES ASSUME NEW q \in Stats, NEW t \in Int, ~Reached(q, t) PROVE Bare(q, t)'
    BY <1>3 DEF BlankInv
  <2>1. ~(q = s /\ t = at)
    BY <1>2
  <2>2. \A T \in Tables : RowsOf(T, q, t)' = RowsOf(T, q, t)
    BY <1>4, <2>1
  <2>3. Bare(q, t)
    BY DEF BlankInv
  <2> QED
    BY <2>2, <2>3 DEF Bare, Tables
<1>6. DoneInv'
  <2> SUFFICES ASSUME NEW q \in Stats, NEW t \in Int, Done(q, t) PROVE Complete(q, t)'
    BY <1>3 DEF DoneInv
  <2>1. ~(q = s /\ t = at)
    BY <1>2
  <2>2. \A T \in Tables : RowsOf(T, q, t)' = RowsOf(T, q, t)
    BY <1>4, <2>1
  <2>3. Complete(q, t)
    BY DEF DoneInv
  <2>4. t <= hour
    <3>1. FillRight(q, fills[q.property]) /\ t <= fills[q.property].end_time
      BY DEF FillsRight, Done, Reached
    <3> QED
      BY <1>1, <3>1 DEF FillRight
  <2> QED
    BY <1>0, <2>2, <2>3, <2>4, HaveStays
<1>7. UsersInv'
  <2> SUFFICES ASSUME NEW q \in Stats, NEW t \in Int, q.kind # "sql" PROVE RowsOf("user", q, t)' = {}
    BY DEF UsersInv
  <2>1. CASE q = s /\ t = at
    BY <2>1
  <2>2. CASE ~(q = s /\ t = at)
    BY <1>4, <2>2 DEF UsersInv, Tables
  <2> QED
    BY <2>1, <2>2
<1>8. LogRight'
  <2>1. \A t : RowsOf("realm", Logged, t)' = RowsOf("realm", Logged, t)
    <3>1. Logged \in Stats /\ Logged.kind = "logging"
      BY TheStats, OtherStats
    <3>2. ~("realm" = table /\ Logged = s)
      BY <3>1
    <3> QED
      BY <3>1, <3>2 DEF ElseKept
  <2>2. \A t, r : LoggedUpTo(t, r)' = LoggedUpTo(t, r)
    <3>1. \A c : (c \in counts' /\ c.table = "realm" /\ c.stat = "active_users_log")
                   <=> (c \in counts /\ c.table = "realm" /\ c.stat = "active_users_log")
      BY <2>1, OtherStats DEF RowsOf
    <3> QED
      BY <3>1 DEF LoggedUpTo
  <2>3. \A t, r : ActiveAt(t, r)' = ActiveAt(t, r)
    BY DEF ActiveAt, check_realmauditlog_by_user, Between
  <2> QED
    BY <2>2, <2>3 DEF LogRight
<1> QED
  BY <1>5, <1>6, <1>7, <1>8

\* Where no table changes, nothing does that is said of the rows.
LEMMA SameRows ==
  ASSUME UNCHANGED <<facts, counts>>
  PROVE  /\ \A q, t : /\ Bare(q, t)' <=> Bare(q, t)
                      /\ Complete(q, t)' <=> Complete(q, t)
                      /\ HaveUsers(q, t)' <=> HaveUsers(q, t)
                      /\ HaveRealms(q, t)' <=> HaveRealms(q, t)
         /\ \A T, q, t : RowsOf(T, q, t)' = RowsOf(T, q, t)
         /\ (RowsRight => RowsRight') /\ (UsersInv => UsersInv') /\ (LogRight => LogRight')
<1>1. \A T, q, t : RowsOf(T, q, t)' = RowsOf(T, q, t)
  BY DEF RowsOf
<1>2. \A q, u, t : Value(q, u, t)' = Value(q, u, t)
  BY DEF Value, UserValue, count_message_by_user, check_realmauditlog_by_user, check_useractivityinterval_by_user, Between
<1>3. \A q, t : TrueUsers(q, t)' = TrueUsers(q, t)
  BY <1>2 DEF TrueUsers, UserRows
<1>4. \A q, t : TrueRealms(q, t)' = TrueRealms(q, t)
  <2>1. \A q, t : UserRows(q, t)' = UserRows(q, t)
    BY <1>2 DEF UserRows
  <2>2. \A q, t, r : OfRealm(q, t, r)' = OfRealm(q, t, r)
    BY <2>1 DEF OfRealm
  <2>3. \A q, t : SumRows(q, t)' = SumRows(q, t)
    BY <2>2 DEF SumRows
  <2>4. \A r, t : Both(r, t)' = Both(r, t)
    BY <1>2 DEF Both
  <2>5. \A t : BothRows(t)' = BothRows(t)
    BY <2>4 DEF BothRows
  <2> QED
    BY <1>1, <2>3, <2>5 DEF TrueRealms
<1>5. RowsRight => RowsRight'
  BY DEF RowsRight
<1>6. UsersInv => UsersInv'
  BY <1>1 DEF UsersInv
<1>7. LogRight => LogRight'
  <2>3. \A t, r : LoggedUpTo(t, r)' = LoggedUpTo(t, r)
    BY DEF LoggedUpTo
  <2>4. \A t, r : ActiveAt(t, r)' = ActiveAt(t, r)
    BY DEF ActiveAt, check_realmauditlog_by_user, Between
  <2> QED
    BY <2>3, <2>4 DEF LogRight
<1> QED
  BY <1>1, <1>3, <1>4, <1>5, <1>6, <1>7 DEF Bare, Complete, HaveUsers, HaveRealms, HaveWhole, TrueWhole

\* Nothing but FillState changes.
LEMMA SetFill ==
  ASSUME FactsRight, RowsRight, FillsRight, BlankInv, DoneInv, UsersInv, LogRight,
         UNCHANGED <<hour, facts, counts>>,
         NEW s \in Stats, NEW e \in Nat, e <= hour, e % s.step = 0,
         NEW state \in {"done", "started"}, state = "started" => e > 0,
         do_update_fill_state(s.property, e, state),
         \A t \in Int : Reached(s, t) /\ t > e => Bare(s, t),
         \A t \in Int : 0 < t /\ t % s.step = 0 /\ t <= (IF state = "done" THEN e ELSE e - 1) => Complete(s, t)
  PROVE  /\ FactsRight' /\ RowsRight' /\ FillsRight' /\ BlankInv' /\ DoneInv' /\ UsersInv' /\ LogRight'
         /\ s.property \in DOMAIN fills'
         /\ fills'[s.property].end_time = e /\ fills'[s.property].state = state
         /\ \A p : p # s.property => /\ p \in DOMAIN fills' <=> p \in DOMAIN fills
                                     /\ last_successful_fill(p)' = last_successful_fill(p)
<1>1. PICK p : p = s.property
  OBVIOUS
<1>2. /\ DOMAIN fills' = DOMAIN fills \cup {p} /\ fills'[p] = [end_time |-> e, state |-> state]
      /\ \A d \in DOMAIN fills : d # p => fills'[d] = fills[d]
  BY <1>1 DEF do_update_fill_state
<1>3. \A d : d # p => /\ d \in DOMAIN fills' <=> d \in DOMAIN fills
                      /\ last_successful_fill(d)' = last_successful_fill(d)
  BY <1>2 DEF last_successful_fill
<1>4. FactsRight' /\ RowsRight' /\ UsersInv' /\ LogRight'
  BY SameRows DEF FactsRight
<1>5. \A q \in Stats : q # s => q.property # p
  BY <1>1, StatFacts
<1>6. \A q \in Stats : \A t : q # s => (Reached(q, t)' <=> Reached(q, t)) /\ (Done(q, t)' <=> Done(q, t))
  BY <1>2, <1>3, <1>5 DEF Reached, Done
<1>7. \A q, t : (Bare(q, t)' <=> Bare(q, t)) /\ (Complete(q, t)' <=> Complete(q, t))
  BY SameRows
<1>8. FillsRight'
  <2> SUFFICES ASSUME NEW q \in Stats, q.property \in DOMAIN fills' PROVE FillRight(q, fills[q.property])'
    BY DEF FillsRight
  <2>1. CASE q = s
    <3>1. PICK f : f = [end_time |-> e, state |-> state]
      OBVIOUS
    <3>2. f.end_time = e /\ f.state = state
      BY <3>1
    <3>3. FillRight(s, f)'
      BY <3>2 DEF FillRight
    <3> QED
      BY <1>1, <1>2, <2>1, <3>1, <3>3
  <2>2. CASE q # s
    <3>1. q.property \in DOMAIN fills /\ fills'[q.property] = fills[q.property]
      BY <1>2, <1>5, <2>2
    <3> QED
      BY <3>1 DEF FillsRight, FillRight
  <2> QED
    BY <2>1, <2>2
<1>9. \A t : Reached(s, t)' <=> (0 < t /\ t <= e /\ t % s.step = 0)
  BY <1>1, <1>2 DEF Reached
<1>10. \A t \in Int : Done(s, t)' => 0 < t /\ t % s.step = 0 /\ t <= (IF state = "done" THEN e ELSE e - 1)
  <2>1. last_successful_fill(p)' = IF state = "done" THEN e ELSE e - 1
    BY <1>2 DEF last_successful_fill
  <2> QED
    BY <1>1, <1>9, <2>1 DEF Done
<1>11. BlankInv'
  <2> SUFFICES ASSUME NEW q \in Stats, NEW t \in Int, ~Reached(q, t)' PROVE Bare(q, t)'
    BY DEF BlankInv
  <2>1. CASE q # s
    BY <1>6, <1>7, <2>1 DEF BlankInv
  <2>2. CASE q = s /\ ~Reached(s, t)
    BY <1>7, <2>2 DEF BlankInv
  <2>3. CASE q = s /\ Reached(s, t)
    <3>1. t > e
      BY <1>9, <2>3 DEF Reached
    <3> QED
      BY <1>7, <2>3, <3>1
  <2> QED
    BY <2>1, <2>2, <2>3
<1>12. DoneInv'
  <2> SUFFICES ASSUME NEW q \in Stats, NEW t \in Int, Done(q, t)' PROVE Complete(q, t)'
    BY DEF DoneInv
  <2>1. CASE q # s
    BY <1>6, <1>7, <2>1 DEF DoneInv
  <2>2. CASE q = s
    BY <1>7, <1>10, <2>2
  <2> QED
    BY <2>1, <2>2
<1>13. fills'[p].end_time = e /\ fills'[p].state = state
  <2>1. PICK f : f = [end_time |-> e, state |-> state]
    OBVIOUS
  <2>2. f.end_time = e /\ f.state = state
    BY <2>1
  <2> QED
    BY <1>2, <2>1, <2>2
<1> QED
  BY <1>1, <1>2, <1>3, <1>4, <1>8, <1>11, <1>12, <1>13

\* The job runs.
RunsOn ==
  /\ DOMAIN job = {"step", "todo", "fill_to_time", "at", "left"}
  /\ job.todo \in Seq(Stats) /\ job.todo # <<>> /\ job.fill_to_time = hour

\* The job's steps, one by one.
LEMMA StandsAtIs ==
  ASSUME NEW s, NEW at, NEW left
  PROVE  /\ StandsAt("open", s, at, left)
         /\ StandsAt("undo", s, at, left) <=> Undoing(s, left)
         /\ StandsAt("start", s, at, left) <=> Starting(s, at)
         /\ StandsAt("pull", s, at, left) <=> Begun(s, at) /\ s.kind # "logging" /\ Ready(s, at) /\ Bare(s, at)
         /\ StandsAt("realm", s, at, left) <=>
              /\ Begun(s, at) /\ s.kind = "sql" /\ HaveUsers(s, at)
              /\ RowsOf("realm", s, at) = {} /\ RowsOf(Installation, s, at) = {}
         /\ StandsAt(Installation, s, at, left) <=>
              Begun(s, at) /\ HaveUsers(s, at) /\ HaveRealms(s, at) /\ RowsOf(Installation, s, at) = {}
         /\ StandsAt("close", s, at, left) <=> Begun(s, at) /\ Complete(s, at)
BY DEF StandsAt, Installation

\* A job at a step stands where the step says.
LEMMA JobRuns ==
  ASSUME JobRight, NEW step, job.step = step, step # "idle"
  PROVE  RunsOn /\ Head(job.todo) \in Stats /\ StandsAt(step, Head(job.todo), job.at, job.left)
<1>1. job # Idle
  BY DEF Idle
<1>2. RunsOn /\ StandsAt(step, Head(job.todo), job.at, job.left)
  BY <1>1 DEF JobRight, RunsOn
<1>3. Head(job.todo) \in Stats
  BY <1>2, TailHolds DEF RunsOn
<1> QED
  BY <1>2, <1>3

\* A job that goes on stands right if it stands right with its first statistic.
LEMMA JobIsRight ==
  ASSUME RunsOn', NEW s, s = Head(job.todo)', StandsAt(job.step, s, job.at, job.left)'
  PROVE  JobRight'
BY DEF RunsOn, JobRight

\* The next hour is filled if it is over, also for what the statistic depends on.
LEMMA GoOnRight ==
  ASSUME FillsRight, RunsOn, hour \in Nat, hour' = hour,
         NEW s \in Stats, s = Head(job.todo), NEW e \in Nat, GoOn(e),
         s.property \in DOMAIN fills', fills'[s.property].end_time = e, fills'[s.property].state = "done",
         \A p : p # s.property => /\ p \in DOMAIN fills' <=> p \in DOMAIN fills
                                  /\ last_successful_fill(p)' = last_successful_fill(p)
  PROVE  JobRight'
<1>1. Stat = s
  BY DEF Stat
<1>2. PICK L, filled, known : /\ filled = [d \in s.dependencies |-> last_successful_fill(d)]
                              /\ L = {hour} \cup {filled[d] : d \in s.dependencies}
                              /\ known = (\A d \in s.dependencies : d \in DOMAIN fills)
  OBVIOUS
<1>3. fill_to_time(s, hour, filled) = Min(L)
  BY <1>2 DEF fill_to_time
<1>4. \/ known /\ e + s.step <= Min(L) /\ job' = [job EXCEPT !.step = "start", !.at = e + s.step]
      \/ Len(job.todo) > 1 /\ job' = [job EXCEPT !.step = "open", !.todo = Tail(@), !.at = 0]
      \/ job' = Idle
  BY <1>1, <1>2, <1>3 DEF GoOn, RunsOn
<1>5. CASE known /\ e + s.step <= Min(L) /\ job' = [job EXCEPT !.step = "start", !.at = e + s.step]
  <2>1. \A d \in s.dependencies : d \in DOMAIN fills /\ filled[d] = last_successful_fill(d) /\ filled[d] \in Nat
    <3> SUFFICES ASSUME NEW d \in s.dependencies PROVE d \in DOMAIN fills /\ last_successful_fill(d) \in Nat
      BY <1>2
    <3>1. d \in DOMAIN fills
      BY <1>2, <1>5
    <3>2. PICK r \in Sql : r.property = d
      BY StatFacts
    <3>3. FillRight(r, fills[d])
      BY <3>1, <3>2, TheStats DEF FillsRight
    <3> QED
      BY <3>1, <3>3 DEF FillRight, last_successful_fill
  <2>2. L \in SUBSET Nat /\ L # {}
    BY <1>2, <2>1
  <2>3. \A m \in L : Min(L) <= m
    BY <2>2, LeastId
  <2>4. Min(L) \in Nat /\ s.step \in Nat
    BY <2>2, LeastId, StatFacts
  <2>5. PICK to : to = e + s.step /\ to \in Nat
    BY <2>4
  <2>6. to <= hour /\ \A d \in s.dependencies : to <= last_successful_fill(d)
    <3>1. hour \in L /\ \A d \in s.dependencies : last_successful_fill(d) \in L
      BY <1>2, <2>1
    <3>2. \A m \in L : m \in Nat /\ Min(L) <= m
      BY <2>2, <2>3
    <3> QED
      BY <1>5, <2>4, <2>5, <3>1, <3>2
  <2>7. \A d \in s.dependencies : d # s.property
    BY StatFacts
  <2>8. Ready(s, to)'
    BY <2>1, <2>6, <2>7 DEF Ready
  <2>9. Starting(s, to)'
    BY <2>5, <2>6, <2>8 DEF Starting
  <2>10. job'.step = "start" /\ job'.at = to /\ job'.todo = job.todo /\ RunsOn'
    BY <1>5, <2>5 DEF RunsOn
  <2>11. StandsAt("start", s, to, job.left)'
    BY <2>9 DEF StandsAt, Installation
  <2> QED
    BY <2>10, <2>11, JobIsRight
<1>6. CASE Len(job.todo) > 1 /\ job' = [job EXCEPT !.step = "open", !.todo = Tail(@), !.at = 0]
  <2>1. Tail(job.todo) \in Seq(Stats) /\ Tail(job.todo) # <<>>
    <3>1. PICK q : q = job.todo /\ q \in Seq(Stats) /\ Len(q) > 1
      BY <1>6 DEF RunsOn
    <3>2. PICK r : r = Tail(q)
      OBVIOUS
    <3>3. r \in Seq(Stats) /\ Len(r) = Len(q) - 1 /\ Len(q) \in Nat
      BY <3>1, <3>2
    <3>4. r # <<>>
      BY <3>1, <3>3
    <3> QED
      BY <3>1, <3>2, <3>3, <3>4
  <2>2. job'.step = "open" /\ job'.todo = Tail(job.todo) /\ RunsOn'
    BY <1>6, <2>1 DEF RunsOn
  <2>3. StandsAt(job.step, Head(job.todo), job.at, job.left)'
    <3>1. PICK a, b, c : a = Head(job'.todo) /\ b = job'.at /\ c = job'.left
      OBVIOUS
    <3>2. StandsAt("open", a, b, c)'
      BY DEF StandsAt, Installation
    <3> QED
      BY <2>2, <3>1, <3>2
  <2> QED
    BY <2>2, <2>3 DEF JobRight, RunsOn
<1>7. CASE job' = Idle
  BY <1>7 DEF JobRight
<1> QED
  BY <1>4, <1>5, <1>6, <1>7

\* The elements of a sequence.
LEMMA Elements ==
  ASSUME NEW T, NEW q \in Seq(T)
  PROVE  Len(q) \in Nat /\ DOMAIN q = 1..Len(q) /\ \A i \in DOMAIN q : q[i] \in T
OBVIOUS

\* What is known of a statistic that is being filled.
LEMMA FillIs ==
  ASSUME CountsInv, NEW s \in Stats, s.property \in DOMAIN fills, NEW end, end = fills[s.property].end_time
  PROVE  /\ end \in Nat /\ hour \in Nat /\ end <= hour /\ end % s.step = 0 /\ s.step \in Nat \ {0}
         /\ fills[s.property].state \in {"done", "started"}
         /\ fills[s.property].state = "started" => end > 0 /\ end - s.step >= 0 /\ (end - s.step) % s.step = 0
         /\ \A t \in Int : t % s.step = 0 /\ t < end => t <= end - s.step
         /\ (end + s.step) % s.step = 0
         /\ \A t \in Int : t % s.step = 0 /\ t < end + s.step => t <= end
<1>1. FillRight(s, fills[s.property]) /\ hour \in Nat
  BY DEF CountsInv, FillsRight, FactsRight
<1>2. s.step \in Nat \ {0}
  BY StatFacts
<1>3. end \in Nat /\ end <= hour /\ end % s.step = 0 /\ fills[s.property].state \in {"done", "started"}
      /\ (fills[s.property].state = "started" => end > 0)
  BY <1>1 DEF FillRight
<1>4. PICK step : step = s.step
  OBVIOUS
<1>5. /\ 0 % step = 0 /\ step % step = 0
      /\ \A a, b \in Int : a % step = 0 /\ b % step = 0 =>
           (a + b) % step = 0 /\ (a - b) % step = 0 /\ (a < b => a <= b - step)
  BY <1>2, <1>4, WholeSteps
<1>6. end > 0 => 0 <= end - step
  BY <1>3, <1>4, <1>5
<1>11. end \in Int /\ step \in Int /\ end % step = 0 /\ end + step \in Int
  BY <1>2, <1>3, <1>4
<1>7. (end - step) % step = 0 /\ (end + step) % step = 0 /\ end + step \in Int
  BY <1>5, <1>11, Zenon
<1>8. \A t \in Int : t % step = 0 /\ t < end + step => t <= (end + step) - step
  BY <1>5, <1>7
<1>9. (end + step) - step = end
  BY <1>2, <1>3, <1>4
<1>10. \A t \in Int : t % step = 0 /\ t < end => t <= end - step
  BY <1>5, <1>11, Zenon
<1> QED
  BY <1>1, <1>2, <1>3, <1>4, <1>6, <1>7, <1>8, <1>9, <1>10

\* An hour that is behind is complete, also while the next is being filled.
LEMMA BehindComplete ==
  ASSUME CountsInv, NEW s \in Stats, s.property \in DOMAIN fills, NEW t \in Int, 0 < t, t % s.step = 0,
         t < fills[s.property].end_time \/ (fills[s.property].state = "done" /\ t <= fills[s.property].end_time)
  PROVE  Complete(s, t)
<1>1. PICK end : end = fills[s.property].end_time
  OBVIOUS
<1>2. end \in Nat /\ fills[s.property].state \in {"done", "started"}
  BY <1>1, FillIs
<1>3. last_successful_fill(s.property) = IF fills[s.property].state = "done" THEN end ELSE end - 1
  BY <1>1 DEF last_successful_fill
<1>4. Done(s, t)
  BY <1>1, <1>2, <1>3 DEF Done, Reached
<1> QED
  BY <1>4 DEF CountsInv, DoneInv

\* Where only the hour passes or the job turns, all that is known of the tables stays.
LEMMA PassKeeps ==
  ASSUME CountsInv, UNCHANGED <<facts, counts, fills>>, hour' = hour \/ hour' = hour + 1
  PROVE  FactsRight' /\ RowsRight' /\ FillsRight' /\ BlankInv' /\ UsersInv' /\ DoneInv' /\ LogRight'
<1>1. FactsRight /\ RowsRight /\ FillsRight /\ BlankInv /\ UsersInv /\ DoneInv /\ LogRight
  BY DEF CountsInv
<1>2. hour \in Nat /\ hour' \in Nat /\ hour <= hour'
  BY <1>1 DEF FactsRight
<1>3. FactsRight'
  <2>1. facts \in Seq([who: Humans, what: Whats, at: Nat]) /\ \A i \in DOMAIN facts : facts[i].at <= hour
    BY <1>1 DEF FactsRight
  <2>2. \A i \in DOMAIN facts : facts[i].at \in Nat
    <3>1. PICK E, q : E = [who: Humans, what: Whats, at: Nat] /\ q = facts /\ q \in Seq(E)
      BY <2>1
    <3>2. \A i \in DOMAIN q : q[i] \in E
      BY <3>1, Elements
    <3>3. \A x \in E : x.at \in Nat
      BY <3>1
    <3> QED
      BY <3>1, <3>2, <3>3
  <2>3. \A i \in DOMAIN facts : facts[i].at <= hour'
    BY <1>2, <2>1, <2>2
  <2> QED
    BY <1>2, <2>1, <2>3 DEF FactsRight
<1>4. FillsRight'
  <2> SUFFICES ASSUME NEW s \in Stats, s.property \in DOMAIN fills PROVE FillRight(s, fills[s.property])'
    BY DEF FillsRight
  <2>1. FillRight(s, fills[s.property])
    BY <1>1 DEF FillsRight
  <2> QED
    BY <1>2, <2>1 DEF FillRight
<1>5. \A s, t : (Reached(s, t)' <=> Reached(s, t)) /\ (Done(s, t)' <=> Done(s, t))
  BY DEF Reached, Done, last_successful_fill
<1>6. BlankInv' /\ DoneInv'
  BY <1>1, <1>5, SameRows DEF BlankInv, DoneInv
<1> QED
  BY <1>1, <1>3, <1>4, <1>6, SameRows

\* process_count_stat finds where the statistic stands: a new FillState says nothing is filled.
LEMMA OpenKeeps ==
  ASSUME CountsInv, OpenStat
  PROVE  CountsInv'
<1>0. FactsRight /\ RowsRight /\ FillsRight /\ BlankInv /\ UsersInv /\ DoneInv /\ LogRight /\ JobRight /\ hour \in Nat
  BY DEF CountsInv, FactsRight
<1>1. job.step = "open" /\ UNCHANGED <<hour, facts, counts, deaths>>
  BY DEF OpenStat
<1>2. PICK s, p : s = Stat /\ p = s.property
  OBVIOUS
<1>3. RunsOn /\ s \in Stats /\ s = Head(job.todo)
  BY <1>0, <1>1, <1>2, JobRuns DEF Stat
<1>4. CASE p \notin DOMAIN fills /\ do_update_fill_state(p, 0, "done") /\ GoOn(0)
  <2>1. \A t : ~Reached(s, t)
    BY <1>2, <1>4 DEF Reached
  <2>2. 0 % s.step = 0
    BY <1>3, StatFacts, WholeSteps
  <2>3. /\ FactsRight' /\ RowsRight' /\ FillsRight' /\ BlankInv' /\ DoneInv' /\ UsersInv' /\ LogRight'
        /\ s.property \in DOMAIN fills'
        /\ fills'[s.property].end_time = 0 /\ fills'[s.property].state = "done"
        /\ \A d : d # s.property => /\ d \in DOMAIN fills' <=> d \in DOMAIN fills
                                    /\ last_successful_fill(d)' = last_successful_fill(d)
    BY <1>0, <1>1, <1>2, <1>3, <1>4, <2>1, <2>2, SetFill
  <2>4. JobRight'
    BY <1>0, <1>1, <1>3, <1>4, <2>3, GoOnRight
  <2> QED
    BY <2>3, <2>4 DEF CountsInv
<1>5. CASE /\ p \in DOMAIN fills /\ fills[p].state = "started"
           /\ job' = [job EXCEPT !.step = "undo", !.left = do_delete_counts_at_hour(Stat)]
           /\ UNCHANGED <<fills, lockDir>>
  <2>1. FactsRight' /\ RowsRight' /\ FillsRight' /\ BlankInv' /\ UsersInv' /\ DoneInv' /\ LogRight'
    BY <1>1, <1>5, PassKeeps
  <2>2. PICK left : left = do_delete_counts_at_hour(s)
    OBVIOUS
  <2>3. left \in Seq(Tables) /\ Range(left) = IF s.kind = "logging" THEN {Installation} ELSE Tables
    <3>1. CASE s.kind = "logging"
      <4>1. left = <<Installation>>
        <5>1. s.table = "realm"
          BY <1>3, <3>1, StatFacts, OtherStats
        <5>2. left = <<Installation>> \o <<>>
          BY <2>2, <3>1, <5>1 DEF do_delete_counts_at_hour
        <5> QED
          BY <5>2 DEF Installation
      <4> QED
        BY <3>1, <4>1 DEF Tables, Range
    <3>2. CASE s.kind # "logging"
      <4>1. left = <<"user", "realm", Installation>>
        BY <2>2, <3>2 DEF do_delete_counts_at_hour
      <4> QED
        BY <3>2, <4>1 DEF Tables, Range
    <3> QED
      BY <3>1, <3>2
  <2>4. PICK end : end = fills[p].end_time /\ end \in Int
    BY <1>2, <1>3, <1>5, FillIs
  <2>5. \A T \in Tables \ Range(left) : (s.kind = "logging" /\ T = "realm") \/ RowsOf(T, s, end) = {}
    <3>1. s.kind = "logging" => RowsOf("user", s, end) = {}
      BY <1>0, <1>3, <2>4 DEF UsersInv
    <3> QED
      BY <2>3, <3>1 DEF Tables
  <2>6. "realm" # Installation
    BY DEF Installation
  <2>7. Undoing(s, left)
    BY <1>2, <1>5, <2>3, <2>4, <2>5, <2>6 DEF Undoing, Tables
  <2>8. Undoing(s, left)'
    BY <1>1, <1>5, <2>7 DEF Undoing, RowsOf
  <2>9. job'.step = "undo" /\ job'.todo = job.todo /\ job'.left = left /\ RunsOn'
    BY <1>1, <1>2, <1>3, <1>5, <2>2 DEF RunsOn
  <2>10. PICK at : at = job'.at
    OBVIOUS
  <2>11. StandsAt("undo", s, at, left)'
    BY <2>8 DEF StandsAt, Installation
  <2>12. JobRight'
    BY <1>3, <2>9, <2>10, <2>11, JobIsRight
  <2> QED
    BY <2>1, <2>12 DEF CountsInv
<1>6. CASE p \in DOMAIN fills /\ fills[p].state = "done" /\ GoOn(fills[p].end_time) /\ UNCHANGED fills
  <2>1. FactsRight' /\ RowsRight' /\ FillsRight' /\ BlankInv' /\ UsersInv' /\ DoneInv' /\ LogRight'
    BY <1>1, <1>6, PassKeeps
  <2>2. PICK end : end = fills[p].end_time /\ end \in Nat
    BY <1>2, <1>3, <1>6, FillIs
  <2>3. /\ s.property \in DOMAIN fills' /\ fills'[s.property].end_time = end /\ fills'[s.property].state = "done"
        /\ \A d : d # s.property => /\ d \in DOMAIN fills' <=> d \in DOMAIN fills
                                    /\ last_successful_fill(d)' = last_successful_fill(d)
    BY <1>2, <1>6, <2>2 DEF last_successful_fill
  <2>4. JobRight'
    BY <1>0, <1>1, <1>3, <1>6, <2>2, <2>3, GoOnRight
  <2> QED
    BY <2>1, <2>4 DEF CountsInv
<1> QED
  BY <1>2, <1>4, <1>5, <1>6 DEF OpenStat

\* The tables of the unfinished hour are emptied, then it counts as not begun.
LEMMA UndoKeeps ==
  ASSUME CountsInv, UndoStat
  PROVE  CountsInv'
<1>0. FactsRight /\ RowsRight /\ FillsRight /\ BlankInv /\ UsersInv /\ DoneInv /\ LogRight /\ JobRight /\ hour \in Nat
  BY DEF CountsInv, FactsRight
<1>1. job.step = "undo" /\ UNCHANGED <<hour, facts, deaths>>
  BY DEF UndoStat
<1>2. PICK s, p, left, end : s = Stat /\ p = s.property /\ left = job.left /\ end = fills[p].end_time
  OBVIOUS
<1>3. RunsOn /\ s \in Stats /\ s = Head(job.todo) /\ StandsAt("undo", s, job.at, left)
  BY <1>0, <1>1, <1>2, JobRuns DEF Stat
<1>4. Undoing(s, left)
  BY <1>3, StandsAtIs
<1>5. /\ p \in DOMAIN fills /\ fills[p].state = "started" /\ left \in Seq(Tables)
      /\ Range(left) \subseteq Tables /\ (s.kind = "logging" => "realm" \notin Range(left))
      /\ \A T \in Tables \ Range(left) : (s.kind = "logging" /\ T = "realm") \/ RowsOf(T, s, end) = {}
  BY <1>2, <1>4 DEF Undoing
<1>6. /\ end \in Nat /\ end <= hour /\ end % s.step = 0 /\ s.step \in Nat \ {0}
      /\ end > 0 /\ end - s.step >= 0 /\ (end - s.step) % s.step = 0
      /\ \A t \in Int : t % s.step = 0 /\ t < end => t <= end - s.step
  BY <1>2, <1>3, <1>5, FillIs
<1>7. CASE /\ left # <<>> /\ counts' = counts \ RowsOf(Head(left), s, end)
           /\ job' = [job EXCEPT !.left = Tail(@)] /\ UNCHANGED <<fills, lockDir>>
  <2>1. PICK T, rest : T = Head(left) /\ rest = Tail(left)
    OBVIOUS
  <2>2. T \in Tables /\ rest \in Seq(Tables) /\ Range(left) = {T} \cup Range(rest)
    BY <1>5, <1>7, <2>1, TailHolds
  <2>3. RowsRight' /\ RowsOf(T, s, end)' = {} /\ ElseKept(T, s, end)
    BY <1>0, <1>3, <1>7, <2>1, Deleted
  <2>4. s.kind # "sql" => RowsOf("user", s, end)' = {}
    <3>1. s.kind # "sql" => RowsOf("user", s, end) = {}
      BY <1>0, <1>3, <1>6 DEF UsersInv
    <3> QED
      BY <1>7, <3>1 DEF RowsOf
  <2>5. ~(s.kind = "logging" /\ T = "realm")
    BY <1>5, <2>2
  <2>6. BlankInv' /\ DoneInv' /\ UsersInv' /\ LogRight'
    <3>1. UNCHANGED <<hour, facts, fills>> /\ end \in Int /\ s.property \in DOMAIN fills
      BY <1>1, <1>2, <1>5, <1>6, <1>7
    <3>2. fills[s.property].state = "started" /\ fills[s.property].end_time = end
      BY <1>2, <1>5
    <3> QED
      BY <1>0, <1>3, <2>3, <2>4, <2>5, <3>1, <3>2, OnlyThere
  <2>7. FactsRight' /\ FillsRight'
    BY <1>0, <1>1, <1>7 DEF FactsRight, FillsRight, FillRight
  <2>8. \A U \in Tables \ Range(rest) : (s.kind = "logging" /\ U = "realm") \/ RowsOf(U, s, end)' = {}
    <3>1. \A U : U # T => RowsOf(U, s, end)' = RowsOf(U, s, end)
      BY <1>3, <2>3 DEF ElseKept
    <3> QED
      BY <1>5, <2>2, <2>3, <3>1
  <2>9. Undoing(s, rest)'
    BY <1>2, <1>5, <1>7, <2>2, <2>8 DEF Undoing
  <2>10. job'.step = "undo" /\ job'.todo = job.todo /\ job'.left = rest /\ RunsOn'
    BY <1>1, <1>2, <1>3, <1>7, <2>1 DEF RunsOn
  <2>11. PICK at : at = job'.at
    OBVIOUS
  <2>12. StandsAt("undo", s, at, rest)'
    BY <2>9 DEF StandsAt, Installation
  <2>13. JobRight'
    BY <1>3, <2>10, <2>11, <2>12, JobIsRight
  <2> QED
    BY <2>3, <2>6, <2>7, <2>13 DEF CountsInv
<1>8. CASE left = <<>> /\ do_update_fill_state(p, end - s.step, "done") /\ GoOn(end - s.step) /\ UNCHANGED counts
  <2>1. PICK e : e = end - s.step /\ e \in Nat /\ e <= hour /\ e % s.step = 0
    BY <1>0, <1>6
  <2>2. Bare(s, end)
    <3>1. Range(left) = {}
      BY <1>8 DEF Range
    <3> QED
      BY <1>5, <3>1 DEF Bare, Tables, Installation
  <2>3. \A t \in Int : Reached(s, t) /\ t > e => Bare(s, t)
    <3>1. \A t \in Int : Reached(s, t) /\ t > e => t = end
      BY <1>2, <1>6, <2>1 DEF Reached
    <3> QED
      BY <2>2, <3>1
  <2>4. \A t \in Int : 0 < t /\ t % s.step = 0 /\ t <= e => Complete(s, t)
    <3>1. \A t \in Int : t <= e => t < end
      BY <1>6, <2>1
    <3>2. \A t \in Int : 0 < t /\ t % s.step = 0 /\ t < fills[s.property].end_time => Complete(s, t)
      BY <1>2, <1>3, <1>5, BehindComplete
    <3> QED
      BY <1>2, <3>1, <3>2
  <2>5. /\ FactsRight' /\ RowsRight' /\ FillsRight' /\ BlankInv' /\ DoneInv' /\ UsersInv' /\ LogRight'
        /\ s.property \in DOMAIN fills'
        /\ fills'[s.property].end_time = e /\ fills'[s.property].state = "done"
        /\ \A d : d # s.property => /\ d \in DOMAIN fills' <=> d \in DOMAIN fills
                                    /\ last_successful_fill(d)' = last_successful_fill(d)
    BY <1>0, <1>1, <1>2, <1>3, <1>8, <2>1, <2>3, <2>4, SetFill
  <2>6. JobRight'
    BY <1>0, <1>1, <1>3, <1>8, <2>1, <2>5, GoOnRight
  <2> QED
    BY <2>5, <2>6 DEF CountsInv
<1> QED
  BY <1>2, <1>7, <1>8 DEF UndoStat

\* An hour is begun: nothing is in its tables, and what it depends on is filled.
LEMMA StartKeeps ==
  ASSUME CountsInv, StartStat
  PROVE  CountsInv'
<1>0. FactsRight /\ RowsRight /\ FillsRight /\ BlankInv /\ UsersInv /\ DoneInv /\ LogRight /\ JobRight /\ hour \in Nat
  BY DEF CountsInv, FactsRight
<1>1. job.step = "start" /\ UNCHANGED <<hour, facts, counts, lockDir, deaths>>
  BY DEF StartStat
<1>2. PICK s, p, at, end : s = Stat /\ p = s.property /\ at = job.at /\ end = fills[p].end_time
  OBVIOUS
<1>3. RunsOn /\ s \in Stats /\ s = Head(job.todo) /\ StandsAt("start", s, at, job.left)
  BY <1>0, <1>1, <1>2, JobRuns DEF Stat
<1>4. Starting(s, at)
  BY <1>3, StandsAtIs
<1>5. p \in DOMAIN fills /\ fills[p].state = "done" /\ at = end + s.step /\ at <= hour /\ Ready(s, at)
  BY <1>2, <1>4 DEF Starting
<1>6. /\ end \in Nat /\ s.step \in Nat \ {0} /\ (end + s.step) % s.step = 0
      /\ \A t \in Int : t % s.step = 0 /\ t < end + s.step => t <= end
  BY <1>2, <1>3, <1>5, FillIs
<1>7. at \in Nat /\ at > 0 /\ at % s.step = 0 /\ at > end
  BY <1>5, <1>6
<1>8. do_update_fill_state(p, at, "started")
  BY <1>2 DEF StartStat
<1>9. \A t \in Int : Reached(s, t) /\ t > at => Bare(s, t)
  BY <1>2, <1>6, <1>7 DEF Reached
<1>10. \A t \in Int : 0 < t /\ t % s.step = 0 /\ t <= at - 1 => Complete(s, t)
  <2>1. \A t \in Int : t % s.step = 0 /\ t <= at - 1 => t <= end
    BY <1>5, <1>6, <1>7
  <2>2. \A t \in Int : 0 < t /\ t % s.step = 0 /\ t <= fills[s.property].end_time => Complete(s, t)
    BY <1>2, <1>3, <1>5, BehindComplete
  <2> QED
    BY <1>2, <2>1, <2>2
<1>11. /\ FactsRight' /\ RowsRight' /\ FillsRight' /\ BlankInv' /\ DoneInv' /\ UsersInv' /\ LogRight'
       /\ s.property \in DOMAIN fills'
       /\ fills'[s.property].end_time = at /\ fills'[s.property].state = "started"
       /\ \A d : d # s.property => /\ d \in DOMAIN fills' <=> d \in DOMAIN fills
                                   /\ last_successful_fill(d)' = last_successful_fill(d)
  BY <1>0, <1>1, <1>2, <1>3, <1>5, <1>7, <1>8, <1>9, <1>10, SetFill
<1>12. Begun(s, at)'
  BY <1>11 DEF Begun
<1>13. Bare(s, at)
  <2>1. ~Reached(s, at)
    BY <1>2, <1>6, <1>7 DEF Reached
  <2> QED
    BY <1>0, <1>3, <1>7, <2>1 DEF BlankInv
<1>14. Bare(s, at)'
  BY <1>1, <1>13, SameRows
<1>15. Ready(s, at)'
  <2>1. \A d \in s.dependencies : d # s.property
    BY <1>3, StatFacts
  <2> QED
    BY <1>5, <1>11, <2>1 DEF Ready
<1>16. PICK left : left = job.left
  OBVIOUS
<1>17. s.kind = "logging" => s.table = "realm"
  BY <1>3, StatFacts, OtherStats
<1>18. /\ job'.step = IF s.kind # "logging" THEN "pull" ELSE Installation
       /\ job'.todo = job.todo /\ job'.at = at /\ job'.left = left /\ RunsOn'
  <2>1. job' = [job EXCEPT !.step = IF s.kind # "logging" THEN "pull" ELSE Installation]
    BY <1>2, <1>17 DEF StartStat
  <2> QED
    BY <1>1, <1>2, <1>3, <1>16, <2>1 DEF RunsOn
<1>19. CASE s.kind # "logging"
  <2>1. StandsAt("pull", s, at, left)'
    BY <1>12, <1>14, <1>15, <1>19 DEF StandsAt, Installation
  <2>2. JobRight'
    BY <1>3, <1>18, <1>19, <2>1, JobIsRight
  <2> QED
    BY <1>11, <2>2 DEF CountsInv
<1>20. CASE s.kind = "logging"
  <2>1. HaveUsers(s, at)' /\ HaveRealms(s, at)' /\ RowsOf(Installation, s, at)' = {}
    BY <1>14, <1>20 DEF HaveUsers, HaveRealms, TrueUsers, TrueRealms, Bare
  <2>2. StandsAt(Installation, s, at, left)'
    BY <1>12, <2>1 DEF StandsAt, Installation
  <2>3. JobRight'
    BY <1>3, <1>18, <1>20, <2>2, JobIsRight
  <2> QED
    BY <1>11, <2>3 DEF CountsInv
<1> QED
  BY <1>19, <1>20

\* Where a fill is.
FillTable(step, s) == IF step = "pull" THEN s.table ELSE step
FillRows(step, s, at) ==
  CASE step = "pull" /\ s.kind = "sql" -> TrueUsers(s, at)
    [] step = Installation -> TrueWhole(s, at)
    [] OTHER -> TrueRealms(s, at)

\* count_realm_active_humans_query joins rows: it finds those active by both.
LEMMA ActiveIsBoth ==
  ASSUME NEW t, HaveUsers(Audited, t), HaveUsers(Recent, t), NEW r
  PROVE  ActiveHumans(r, t) = Both(r, t)
<1>1. Audited.kind = "sql" /\ Recent.kind = "sql" /\ Audited.property = "active_users_audit" /\ Recent.property = "15day_actives"
  BY SqlStats DEF Sql
<1>2. RowsOf("user", Audited, t) = UserRows(Audited, t) /\ RowsOf("user", Recent, t) = UserRows(Recent, t)
  BY <1>1 DEF HaveUsers, TrueUsers
<1>3. ASSUME NEW s \in {Audited, Recent}, NEW u \in Humans
      PROVE  (\E c \in counts : c.table = "user" /\ c.stat = s.property /\ c.key = u /\ c.end = t) <=> Value(s, u, t) > 0
  <2>1. (\E c \in counts : c.table = "user" /\ c.stat = s.property /\ c.key = u /\ c.end = t) <=>
          \E c \in RowsOf("user", s, t) : c.key = u
    BY DEF RowsOf
  <2>2. RowsOf("user", s, t) = UserRows(s, t)
    BY <1>2
  <2>3. (\E c \in UserRows(s, t) : c.key = u) <=> Value(s, u, t) > 0
    <3>1. \A x : Row("user", s, x, t, Value(s, x, t)).key = x
      BY DEF Row
    <3> QED
      BY <3>1 DEF UserRows
  <2> QED
    BY <2>1, <2>2, <2>3
<1> QED
  BY <1>1, <1>3 DEF ActiveHumans, Both

\* A fill inserts what should be there, where nothing is.
LEMMA Insertion ==
  ASSUME CountsInv, NEW step \in {"pull", "realm", Installation}, job.step = step,
         NEW s, s = Head(job.todo), NEW at, at = job.at, NEW table, table = FillTable(step, s)
  PROVE  /\ RunsOn /\ s \in Stats /\ Begun(s, at) /\ at \in Nat /\ at <= hour
         /\ StandsAt(step, s, at, job.left)
         /\ table \in Tables /\ RowsOf(table, s, at) = {} /\ ~(s.kind = "logging" /\ table = "realm")
         /\ s.kind # "sql" => table # "user"
         /\ RowsToInsert = FillRows(step, s, at)
         /\ AreRows(RowsToInsert) /\ \A c \in RowsToInsert : RowAt(c, table, s, at)
         /\ \A n \in RowsToInsert : Twins(n) = {}
<1>0. FactsRight /\ RowsRight /\ FillsRight /\ DoneInv /\ JobRight
  BY DEF CountsInv
<1>1. RunsOn /\ s \in Stats /\ StandsAt(step, s, at, job.left)
  BY <1>0, JobRuns DEF Installation
<1>2. Begun(s, at)
  BY <1>1, StandsAtIs
<1>3. at \in Nat /\ at <= hour /\ at > 0 /\ at % s.step = 0
  <2>1. s.property \in DOMAIN fills /\ fills[s.property].end_time = at /\ fills[s.property].state = "started"
    BY <1>2 DEF Begun
  <2> QED
    BY <1>1, <2>1, FillIs
<1>4. Stat = s
  BY DEF Stat
<1>5. \A n : n.table = table /\ n.stat = s.property /\ n.end = at /\ RowsOf(table, s, at) = {} => Twins(n) = {}
  BY DEF Twins, RowsOf
<1>6. CASE step = "pull"
  <2>1. s.kind # "logging" /\ Ready(s, at) /\ Bare(s, at)
    BY <1>1, <1>6, StandsAtIs
  <2>2. RowsToInsert = pull_function(s, at)
    BY <1>4, <1>6 DEF RowsToInsert, Installation
  <2>3. CASE s.kind = "sql"
    <3>1. table = "user" /\ RowsOf(table, s, at) = {}
      BY <1>1, <1>6, <2>1, <2>3, StatFacts DEF FillTable, Bare
    <3>2. RowsToInsert = TrueUsers(s, at)
      BY <2>2, <2>3 DEF pull_function, TrueUsers, UserRows, Value
    <3>3. FillRows(step, s, at) = TrueUsers(s, at)
      BY <1>6, <2>3 DEF FillRows, Installation
    <3>4. AreRows(RowsToInsert) /\ \A c \in RowsToInsert : RowAt(c, table, s, at)
      BY <1>0, <1>1, <2>1, <3>1, <3>2, TrueRowsTyped
    <3> QED
      BY <1>1, <1>2, <1>3, <1>5, <2>3, <3>1, <3>2, <3>3, <3>4 DEF RowAt, Tables
  <2>4. CASE s.kind = "dependent"
    <3>0. s = Dependent
      BY <1>1, <2>4, StatFacts
    <3>1. table = "realm" /\ RowsOf(table, s, at) = {}
      BY <1>6, <2>1, <3>0, OtherStats DEF FillTable, Bare
    <3>2. HaveUsers(Audited, at) /\ HaveUsers(Recent, at)
      <4>1. ASSUME NEW r \in {Audited, Recent} PROVE HaveUsers(r, at)
        <5>1. r \in Sql /\ r \in Stats /\ r.property \in s.dependencies /\ r.step = s.step
          BY <3>0, TheStats, SqlStats, OtherStats DEF Sql
        <5>2. PICK d : d = r.property /\ d \in DOMAIN fills /\ at <= last_successful_fill(d)
          BY <2>1, <5>1 DEF Ready
        <5>3. FillRight(r, fills[d])
          BY <1>0, <5>1, <5>2 DEF FillsRight
        <5>4. Reached(r, at)
          BY <1>3, <5>1, <5>2, <5>3 DEF Reached, last_successful_fill, FillRight
        <5>5. Done(r, at)
          BY <5>2, <5>4 DEF Done
        <5> QED
          BY <1>0, <1>3, <5>1, <5>5 DEF DoneInv, Complete
      <4> QED
        BY <4>1
    <3>3. \A r : ActiveHumans(r, at) = Both(r, at)
      BY <3>2, ActiveIsBoth
    <3>4. RowsToInsert = TrueRealms(s, at)
      BY <2>2, <2>4, <3>0, <3>3 DEF pull_function, TrueRealms, BothRows
    <3>5. FillRows(step, s, at) = TrueRealms(s, at)
      BY <1>6, <2>4 DEF FillRows, Installation
    <3>6. AreRows(RowsToInsert) /\ \A c \in RowsToInsert : RowAt(c, table, s, at)
      BY <1>0, <1>1, <2>1, <3>1, <3>4, TrueRowsTyped
    <3> QED
      BY <1>1, <1>2, <1>3, <1>5, <2>4, <3>1, <3>4, <3>5, <3>6 DEF RowAt, Tables
  <2> QED
    BY <1>1, <2>1, <2>3, <2>4, StatFacts
<1>7. CASE step = "realm"
  <2>1. s.kind = "sql" /\ HaveUsers(s, at) /\ RowsOf("realm", s, at) = {}
    BY <1>1, <1>7, StandsAtIs
  <2>2. table = "realm"
    BY <1>7 DEF FillTable
  <2>3. RowsToInsert = RealmRows(s, at)
    BY <1>4, <1>7 DEF RowsToInsert, Installation
  <2>4. RowsOf("user", s, at) = UserRows(s, at)
    BY <2>1 DEF HaveUsers, TrueUsers
  <2>5. RowsToInsert = TrueRealms(s, at)
    BY <2>1, <2>3, <2>4 DEF RealmRows, TrueRealms, SumRows, OfRealm
  <2>6. FillRows(step, s, at) = TrueRealms(s, at)
    BY <1>7, <2>1 DEF FillRows, Installation
  <2>7. AreRows(RowsToInsert) /\ \A c \in RowsToInsert : RowAt(c, table, s, at)
    BY <1>0, <1>1, <2>1, <2>2, <2>5, TrueRowsTyped
  <2> QED
    BY <1>1, <1>2, <1>3, <1>5, <2>1, <2>2, <2>5, <2>6, <2>7 DEF RowAt, Tables
<1>8. CASE step = Installation
  <2>1. HaveRealms(s, at) /\ RowsOf(Installation, s, at) = {}
    BY <1>1, <1>8, StandsAtIs
  <2>2. table = Installation /\ table # "realm" /\ table # "user"
    BY <1>8 DEF FillTable, Installation
  <2>3. RowsToInsert = InstallationRows(s, at)
    BY <1>4, <1>8 DEF RowsToInsert, Installation
  <2>4. RowsOf("realm", s, at) = TrueRealms(s, at)
    BY <2>1 DEF HaveRealms
  <2>5. RowsToInsert = TrueWhole(s, at)
    BY <2>3, <2>4 DEF InstallationRows, TrueWhole, WholeRows
  <2>6. FillRows(step, s, at) = TrueWhole(s, at)
    BY <1>8 DEF FillRows, Installation
  <2>7. AreRows(RowsOf("realm", s, at))
    <3>1. IsFiniteSet(RowsOf("realm", s, at))
      <4>1. RowsOf("realm", s, at) \subseteq counts
        BY DEF RowsOf
      <4> QED
        BY <1>0, <4>1, FS_Subset DEF RowsRight
    <3> QED
      BY <1>0, <3>1 DEF RowsRight, AreRows, RowsOf
  <2>8. Total(RowsOf("realm", s, at)) \in Int
    BY <2>7, TotalAdds
  <2>9. AreRows(RowsToInsert) /\ \A c \in RowsToInsert : RowAt(c, table, s, at)
    <3>1. PICK whole : whole = Row(Installation, s, Installation, at, Total(RowsOf("realm", s, at)))
      OBVIOUS
    <3>2. whole.value \in Int /\ RowAt(whole, table, s, at)
      BY <2>2, <2>8, <3>1 DEF RowAt, Row
    <3>3. RowsToInsert = {} \/ RowsToInsert = {whole}
      BY <2>4, <2>5, <3>1 DEF TrueWhole, WholeRows
    <3>4. AreRows({}) /\ AreRows({whole})
      BY <3>2, TotalOfOne, FS_EmptySet DEF AreRows
    <3> QED
      BY <3>2, <3>3, <3>4
  <2> QED
    BY <1>1, <1>2, <1>3, <1>5, <2>1, <2>2, <2>5, <2>6, <2>9 DEF RowAt, Tables
<1> QED
  BY <1>6, <1>7, <1>8

\* do_fill_count_stat_at_hour, statement by statement, makes what should be there.
LEMMA FillKeeps ==
  ASSUME CountsInv, FillStat
  PROVE  CountsInv'
<1>0. FactsRight /\ RowsRight /\ FillsRight /\ BlankInv /\ UsersInv /\ DoneInv /\ LogRight /\ JobRight /\ hour \in Nat
  BY DEF CountsInv, FactsRight
<1>1. UNCHANGED <<hour, facts, fills, lockDir, deaths>> /\ GoesOn
  BY DEF FillStat, GoesOn
<1>2. PICK s, at, left : s = Head(job.todo) /\ at = job.at /\ left = job.left
  OBVIOUS
<1>3. PICK step \in {"pull", "realm", Installation} : job.step = step
  BY DEF FillStat
<1>4. PICK table, new : table = FillTable(step, s) /\ new = RowsToInsert
  OBVIOUS
<1>5. /\ RunsOn /\ s \in Stats /\ Begun(s, at) /\ at \in Nat /\ at <= hour /\ StandsAt(step, s, at, left)
      /\ table \in Tables /\ RowsOf(table, s, at) = {} /\ ~(s.kind = "logging" /\ table = "realm")
      /\ s.kind # "sql" => table # "user"
      /\ new = FillRows(step, s, at) /\ AreRows(new)
      /\ \A c \in new : RowAt(c, table, s, at)
      /\ \A n \in new : Twins(n) = {}
  BY <1>2, <1>3, <1>4, Insertion
<1>6. counts' = counts \cup new
  <2>1. \A n \in new : n.copy = 0 /\ Cardinality(Twins(n)) = 0
    BY <1>5, FS_EmptySet DEF RowAt
  <2>2. \A n \in new : [n EXCEPT !.copy = Cardinality(Twins(n))] = n
    <3> SUFFICES ASSUME NEW n \in new PROVE [n EXCEPT !.copy = 0] = n
      BY <2>1
    <3>1. CASE step = Installation
      <4>1. n \in TrueWhole(s, at)
        BY <1>5, <3>1 DEF FillRows, Installation
      <4> QED
        BY <4>1 DEF TrueWhole, WholeRows, Row
    <3>2. CASE step # Installation
      <4>1. s.kind # "logging"
        <5>1. step = "pull" => s.kind # "logging"
          <6>1. step = "pull" => StandsAt("pull", s, at, left)
            BY <1>5
          <6> QED
            BY <6>1, StandsAtIs
        <5>2. step = "realm" => s.kind # "logging"
          BY <1>4, <1>5 DEF FillTable
        <5> QED
          BY <3>2, <5>1, <5>2
      <4>2. s.kind = "sql" \/ s.kind = "dependent"
        BY <1>5, <4>1, StatFacts
      <4>3. n \in TrueUsers(s, at) \/ n \in TrueRealms(s, at)
        BY <1>5, <3>2 DEF FillRows
      <4>4. n \in UserRows(s, at) \/ n \in SumRows(s, at) \/ n \in BothRows(at)
        BY <4>2, <4>3 DEF TrueUsers, TrueRealms
      <4>5. CASE n \in UserRows(s, at)
        BY <4>5 DEF UserRows, Row
      <4>6. CASE n \in SumRows(s, at)
        BY <4>6 DEF SumRows, Row
      <4>7. CASE n \in BothRows(at)
        BY <4>7 DEF BothRows, Row
      <4> QED
        BY <4>4, <4>5, <4>6, <4>7
    <3> QED
      BY <3>1, <3>2
  <2>3. counts' = counts \cup {[n EXCEPT !.copy = Cardinality(Twins(n))] : n \in new}
    BY <1>4 DEF FillStat
  <2> QED
    BY <2>2, <2>3
<1>7. RowsRight' /\ RowsOf(table, s, at)' = new /\ ElseKept(table, s, at)
  BY <1>0, <1>5, <1>6, Inserted
<1>8. s.property \in DOMAIN fills /\ fills[s.property].end_time = at /\ fills[s.property].state = "started"
  BY <1>5 DEF Begun
<1>9. at \in Int
  BY <1>5
<1>10. s.kind # "sql" => RowsOf("user", s, at)' = {}
  <2>1. s.kind # "sql" => RowsOf("user", s, at) = {}
    BY <1>0, <1>5, <1>9 DEF UsersInv
  <2> QED
    BY <1>5, <1>7, <2>1 DEF ElseKept
<1>11. BlankInv' /\ DoneInv' /\ UsersInv' /\ LogRight'
  BY <1>0, <1>1, <1>5, <1>7, <1>8, <1>9, <1>10, OnlyThere
<1>12. FactsRight' /\ FillsRight'
  BY <1>0, <1>1 DEF FactsRight, FillsRight, FillRight
<1>13. /\ TrueUsers(s, at)' = TrueUsers(s, at) /\ TrueRealms(s, at)' = TrueRealms(s, at)
       /\ TrueWhole(s, at)' = TrueWhole(s, at)
  <2>1. s.kind = "logging" => RowsOf("realm", s, at)' = RowsOf("realm", s, at)
    BY <1>5, <1>7 DEF ElseKept
  <2> QED
    BY <1>0, <1>1, <1>5, <1>9, <2>1, TruthStays
<1>14. \A T : T # table => RowsOf(T, s, at)' = RowsOf(T, s, at)
  BY <1>5, <1>7 DEF ElseKept
<1>15. Begun(s, at)'
  BY <1>1, <1>5 DEF Begun
<1>16. PICK next : next = job'.step
  OBVIOUS
<1>17. /\ next = CASE step = "pull" /\ s.table = "user" -> "realm" [] step = Installation -> "close" [] OTHER -> Installation
       /\ job'.todo = job.todo /\ job'.at = at /\ job'.left = left /\ RunsOn'
  <2>1. job' = [job EXCEPT !.step = CASE step = "pull" /\ s.table = "user" -> "realm"
                                      [] step = Installation -> "close" [] OTHER -> Installation]
    BY <1>2, <1>3 DEF FillStat, Stat
  <2> QED
    BY <1>1, <1>2, <1>5, <1>16, <2>1 DEF RunsOn
<1>18. "user" # "realm" /\ "user" # Installation /\ "realm" # Installation /\ "pull" # "realm" /\ "pull" # Installation
  BY DEF Installation
<1>21. /\ step = "pull" /\ s.table = "user" => next = "realm"
       /\ step = "pull" /\ s.table = "realm" => next = Installation
       /\ step = "realm" => next = Installation
       /\ step = Installation => next = "close"
  BY <1>17, <1>18
<1>19. StandsAt(next, s, at, left)'
  <2>1. CASE step = "pull" /\ s.kind = "sql"
    <3>1. s.table = "user" /\ table = "user" /\ Bare(s, at) /\ next = "realm"
      <4>1. StandsAt("pull", s, at, left) /\ s.table = "user"
        BY <1>5, <2>1, StatFacts
      <4> QED
        BY <1>5, <1>21, <2>1, <4>1, <1>4, StandsAtIs DEF FillTable
    <3>2. new = TrueUsers(s, at)
      BY <1>5, <2>1 DEF FillRows, Installation
    <3>3. HaveUsers(s, at)' /\ RowsOf("realm", s, at)' = {} /\ RowsOf(Installation, s, at)' = {}
      BY <1>7, <1>13, <1>14, <1>18, <2>1, <3>1, <3>2 DEF HaveUsers, Bare
    <3> QED
      BY <1>15, <2>1, <3>1, <3>3 DEF StandsAt, Installation
  <2>2. CASE step = "pull" /\ s.kind = "dependent"
    <3>0. s = Dependent
      BY <1>5, <2>2, StatFacts
    <3>1. s.table = "realm" /\ table = "realm" /\ Bare(s, at) /\ next = Installation
      <4>1. StandsAt("pull", s, at, left) /\ s.table = "realm"
        BY <1>5, <2>2, <3>0, OtherStats
      <4> QED
        BY <1>5, <1>21, <2>2, <4>1, <1>4, StandsAtIs DEF FillTable
    <3>2. new = TrueRealms(s, at)
      BY <1>5, <2>2 DEF FillRows, Installation
    <3>3. HaveUsers(s, at)' /\ HaveRealms(s, at)' /\ RowsOf(Installation, s, at)' = {}
      BY <1>7, <1>13, <1>14, <1>18, <2>2, <3>1, <3>2 DEF HaveUsers, HaveRealms, Bare, TrueUsers
    <3> QED
      BY <1>15, <3>1, <3>3 DEF StandsAt, Installation
  <2>3. CASE step = "realm"
    <3>1. table = "realm" /\ s.kind = "sql" /\ HaveUsers(s, at) /\ RowsOf(Installation, s, at) = {} /\ next = Installation
      <4>1. StandsAt("realm", s, at, left) /\ "realm" # "pull"
        BY <1>5, <2>3
      <4> QED
        BY <1>5, <1>21, <2>3, <4>1, <1>4, StandsAtIs DEF FillTable
    <3>2. new = TrueRealms(s, at)
      BY <1>5, <2>3 DEF FillRows, Installation
    <3>3. HaveUsers(s, at)' /\ HaveRealms(s, at)' /\ RowsOf(Installation, s, at)' = {}
      BY <1>7, <1>13, <1>14, <1>18, <3>1, <3>2 DEF HaveUsers, HaveRealms
    <3> QED
      BY <1>15, <3>1, <3>3 DEF StandsAt, Installation
  <2>4. CASE step = Installation
    <3>1. table = Installation /\ HaveUsers(s, at) /\ HaveRealms(s, at) /\ next = "close"
      <4>1. StandsAt(Installation, s, at, left)
        BY <1>5, <2>4
      <4> QED
        BY <1>5, <1>18, <1>21, <2>4, <4>1, <1>4, StandsAtIs DEF FillTable
    <3>2. new = TrueWhole(s, at)
      BY <1>5, <2>4 DEF FillRows, Installation
    <3>3. Complete(s, at)'
      BY <1>7, <1>13, <1>14, <1>18, <3>1, <3>2 DEF Complete, HaveUsers, HaveRealms, HaveWhole
    <3> QED
      BY <1>15, <3>1, <3>3 DEF StandsAt, Installation
  <2>5. step = "pull" => s.kind \in {"sql", "dependent"}
    <3>1. step = "pull" => s.kind # "logging"
      BY <1>5, StandsAtIs
    <3> QED
      BY <1>5, <3>1, StatFacts
  <2> QED
    BY <2>1, <2>2, <2>3, <2>4, <2>5
<1>20. JobRight'
  BY <1>2, <1>16, <1>17, <1>19, JobIsRight
<1> QED
  BY <1>7, <1>11, <1>12, <1>20 DEF CountsInv

\* The hour is done when all its tables are.
LEMMA CloseKeeps ==
  ASSUME CountsInv, CloseStat
  PROVE  CountsInv'
<1>0. FactsRight /\ RowsRight /\ FillsRight /\ BlankInv /\ UsersInv /\ DoneInv /\ LogRight /\ JobRight /\ hour \in Nat
  BY DEF CountsInv, FactsRight
<1>1. job.step = "close" /\ UNCHANGED <<hour, facts, counts, deaths>>
  BY DEF CloseStat
<1>2. PICK s, p, at : s = Stat /\ p = s.property /\ at = job.at
  OBVIOUS
<1>3. RunsOn /\ s \in Stats /\ s = Head(job.todo) /\ StandsAt("close", s, at, job.left)
  BY <1>0, <1>1, <1>2, JobRuns DEF Stat
<1>4. Begun(s, at) /\ Complete(s, at)
  BY <1>3, StandsAtIs
<1>5. p \in DOMAIN fills /\ fills[p].end_time = at /\ fills[p].state = "started"
  BY <1>2, <1>4 DEF Begun
<1>6. at \in Nat /\ at <= hour /\ at % s.step = 0
  BY <1>2, <1>3, <1>5, FillIs
<1>7. do_update_fill_state(p, at, "done") /\ GoOn(at)
  BY <1>2 DEF CloseStat
<1>8. \A t \in Int : Reached(s, t) /\ t > at => Bare(s, t)
  BY <1>2, <1>5, <1>6 DEF Reached
<1>9. \A t \in Int : 0 < t /\ t % s.step = 0 /\ t <= at => Complete(s, t)
  <2>1. \A t \in Int : 0 < t /\ t % s.step = 0 /\ t < fills[s.property].end_time => Complete(s, t)
    BY <1>2, <1>3, <1>5, BehindComplete
  <2>2. \A t \in Int : t <= at => t < at \/ t = at
    BY <1>6
  <2> QED
    BY <1>2, <1>4, <1>5, <2>1, <2>2
<1>10. /\ FactsRight' /\ RowsRight' /\ FillsRight' /\ BlankInv' /\ DoneInv' /\ UsersInv' /\ LogRight'
       /\ s.property \in DOMAIN fills'
       /\ fills'[s.property].end_time = at /\ fills'[s.property].state = "done"
       /\ \A d : d # s.property => /\ d \in DOMAIN fills' <=> d \in DOMAIN fills
                                   /\ last_successful_fill(d)' = last_successful_fill(d)
  BY <1>0, <1>1, <1>2, <1>3, <1>6, <1>7, <1>8, <1>9, SetFill
<1>11. JobRight'
  BY <1>0, <1>1, <1>3, <1>6, <1>7, <1>10, GoOnRight
<1> QED
  BY <1>10, <1>11 DEF CountsInv

\* The command turns to its first statistic.
LEMMA RunKeeps ==
  ASSUME CountsInv, NEW stats, RunCommand(stats),
         stats \in {COUNT_STATS} \union {<<s>> : s \in {x \in Stats : x.property \in Alone}}
  PROVE  CountsInv'
<1>1. UNCHANGED <<hour, facts, counts, fills, deaths>>
      /\ job' = [step |-> "open", todo |-> stats, fill_to_time |-> hour, at |-> 0, left |-> <<>>]
  BY DEF RunCommand
<1>2. FactsRight' /\ RowsRight' /\ FillsRight' /\ BlankInv' /\ UsersInv' /\ DoneInv' /\ LogRight'
  BY <1>1, PassKeeps
<1>3. stats \in Seq(Stats) /\ stats # <<>>
  <2>1. CASE stats = COUNT_STATS
    BY <2>1, TheStats
  <2>2. CASE \E s \in Stats : stats = <<s>>
    <3>1. PICK s \in Stats : stats = <<s>>
      BY <2>2
    <3>2. PICK A : A = Stats
      OBVIOUS
    <3>3. <<s>> \in Seq(A) /\ <<s>> # <<>>
      BY <3>2
    <3> QED
      BY <3>1, <3>2, <3>3
  <2> QED
    BY <2>1, <2>2
<1>4. RunsOn' /\ job'.step = "open" /\ job'.at = 0 /\ job'.left = <<>>
  BY <1>1, <1>3 DEF RunsOn
<1>5. PICK s, left : s = Head(job'.todo) /\ left = <<>>
  OBVIOUS
<1>6. StandsAt("open", s, 0, left)'
  BY DEF StandsAt, Installation
<1>7. JobRight'
  BY <1>4, <1>5, <1>6, JobIsRight
<1> QED
  BY <1>2, <1>7 DEF CountsInv

\* An hour that passes, a job that dies or a lock that is removed touches no table.
LEMMA OthersKeep ==
  ASSUME CountsInv, HourPasses \/ JobDies \/ OperatorUnlocks \/ UNCHANGED analyticsVars
  PROVE  CountsInv'
<1>1. UNCHANGED <<facts, counts, fills>> /\ (hour' = hour \/ hour' = hour + 1)
  BY DEF HourPasses, JobDies, OperatorUnlocks, analyticsVars
<1>2. FactsRight' /\ RowsRight' /\ FillsRight' /\ BlankInv' /\ UsersInv' /\ DoneInv' /\ LogRight'
  BY <1>1, PassKeeps
<1>3. CASE HourPasses \/ JobDies \/ OperatorUnlocks
  <2>1. job' = Idle
    BY <1>3 DEF HourPasses, JobDies, OperatorUnlocks
  <2>2. JobRight'
    BY <2>1 DEF JobRight
  <2> QED
    BY <1>2, <2>2 DEF CountsInv
<1>4. CASE UNCHANGED analyticsVars
  <2>1. UNCHANGED <<hour, facts, counts, fills, job>>
    BY <1>4 DEF analyticsVars
  <2>2. JobRight
    BY DEF CountsInv
  <2>3. CASE job = Idle
    BY <1>2, <2>1, <2>3 DEF CountsInv, JobRight
  <2>4. CASE job # Idle
    <3>1. PICK step, s, at, left : step = job.step /\ s = Head(job.todo) /\ at = job.at /\ left = job.left
      OBVIOUS
    <3>2. RunsOn /\ StandsAt(step, s, at, left)
      BY <2>2, <2>4, <3>1 DEF JobRight, RunsOn
    <3>3. StandsAt(step, s, at, left)'
      <4>1. Undoing(s, left)' <=> Undoing(s, left)
        BY <2>1 DEF Undoing, RowsOf
      <4>2. Ready(s, at)' <=> Ready(s, at)
        BY <2>1 DEF Ready, last_successful_fill
      <4>3. (Starting(s, at)' <=> Starting(s, at)) /\ (Begun(s, at)' <=> Begun(s, at))
        BY <2>1, <4>2 DEF Starting, Begun
      <4>4. /\ HaveUsers(s, at)' <=> HaveUsers(s, at)
            /\ HaveRealms(s, at)' <=> HaveRealms(s, at)
            /\ Complete(s, at)' <=> Complete(s, at)
            /\ Bare(s, at)' <=> Bare(s, at)
            /\ \A T : RowsOf(T, s, at)' = RowsOf(T, s, at)
        BY <2>1, SameRows
      <4> QED
        BY <3>2, <4>1, <4>2, <4>3, <4>4 DEF StandsAt, Installation
    <3>4. RunsOn' /\ job'.step = step /\ job'.at = at /\ job'.left = left /\ Head(job.todo)' = s
      BY <2>1, <3>1, <3>2 DEF RunsOn
    <3>5. JobRight'
      BY <3>3, <3>4, JobIsRight
    <3> QED
      BY <1>2, <3>5 DEF CountsInv
  <2> QED
    BY <2>3, <2>4
<1> QED
  BY <1>3, <1>4

-----------------------------------------------------------------------------
(* Counts of analytics: what happens meanwhile                             *)

\* What an event does to the audit log of each user.
LEMMA AuditAfter ==
  ASSUME FactsRight, NEW u, NEW w, NEW v, NEW t \in Int, t > hour,
         facts' = Append(facts, [who |-> u, what |-> w, at |-> hour])
  PROVE  check_realmauditlog_by_user(v, t)' =
           IF v = u /\ w \in AuditEvents THEN (IF w # "deactivated" THEN 1 ELSE 0)
           ELSE check_realmauditlog_by_user(v, t)
<1>1. PICK n, e, new : n = Len(facts) + 1 /\ e = [who |-> u, what |-> w, at |-> hour] /\ new = facts'
  OBVIOUS
<1>2. /\ Len(facts) \in Nat /\ DOMAIN facts = 1..Len(facts) /\ hour \in Nat
      /\ \A i \in DOMAIN facts : facts[i].at \in Nat /\ facts[i].at <= hour
  <2>1. PICK E, q : E = [who: Humans, what: Whats, at: Nat] /\ q = facts /\ q \in Seq(E)
    BY DEF FactsRight
  <2>2. Len(q) \in Nat /\ DOMAIN q = 1..Len(q) /\ \A i \in DOMAIN q : q[i] \in E
    BY <2>1, Elements
  <2>3. \A x \in E : x.at \in Nat
    BY <2>1
  <2> QED
    BY <2>1, <2>2, <2>3 DEF FactsRight
<1>3. n \in Nat /\ n > 0 /\ DOMAIN new = 1..n /\ new[n] = e /\ \A i \in DOMAIN facts : new[i] = facts[i]
  BY <1>1, <1>2
<1>4. e.who = u /\ e.what = w /\ e.at = hour
  BY <1>1
<1>5. \A i : i \in 1..n <=> i \in DOMAIN facts \/ i = n
  BY <1>1, <1>2
<1>6. n \notin DOMAIN facts /\ \A i \in DOMAIN facts : i < n
  BY <1>1, <1>2
<1>7. Between(0, t) = DOMAIN facts
  BY <1>2 DEF Between
<1>8. Between(0, t)' = 1..n
  <2>1. \A i \in 1..n : 0 <= new[i].at /\ new[i].at < t
    BY <1>2, <1>3, <1>4, <1>5
  <2> QED
    BY <1>1, <1>3, <2>1 DEF Between
<1>9. PICK mine, after : /\ mine = {i \in DOMAIN facts : facts[i].who = v /\ facts[i].what \in AuditEvents}
                         /\ after = {i \in 1..n : new[i].who = v /\ new[i].what \in AuditEvents}
  OBVIOUS
<1>10. after = IF v = u /\ w \in AuditEvents THEN mine \cup {n} ELSE mine
  <2>1. n \in after <=> v = u /\ w \in AuditEvents
    BY <1>3, <1>4, <1>9
  <2>2. \A i \in DOMAIN facts : i \in after <=> i \in mine
    BY <1>3, <1>5, <1>9
  <2>3. \A i : i \in after => i \in DOMAIN facts \/ i = n
    BY <1>5, <1>9
  <2>4. \A i \in mine : i \in DOMAIN facts
    BY <1>9
  <2> QED
    BY <1>6, <2>1, <2>2, <2>3, <2>4
<1>11. /\ check_realmauditlog_by_user(v, t) = (IF mine # {} /\ facts[Max(mine)].what # "deactivated" THEN 1 ELSE 0)
       /\ check_realmauditlog_by_user(v, t)' = (IF after # {} /\ new[Max(after)].what # "deactivated" THEN 1 ELSE 0)
  BY <1>1, <1>7, <1>8, <1>9 DEF check_realmauditlog_by_user
<1>12. CASE v = u /\ w \in AuditEvents
  <2>1. after \in SUBSET (1..n) /\ n \in after /\ after # {}
    BY <1>9, <1>10, <1>12
  <2>2. Max(after) \in after /\ Max(after) >= n
    BY <1>3, <2>1, LastPlace
  <2>3. Max(after) = n
    <3>1. PICK m : m = Max(after)
      OBVIOUS
    <3>2. m \in 1..n /\ m >= n
      BY <2>1, <2>2, <3>1
    <3>3. m = n
      BY <1>3, <3>2
    <3> QED
      BY <3>1, <3>3
  <2> QED
    BY <1>3, <1>4, <1>11, <1>12, <2>1, <2>3
<1>13. CASE ~(v = u /\ w \in AuditEvents)
  <2>1. after = mine
    BY <1>10, <1>13
  <2>2. CASE mine = {}
    BY <1>11, <1>13, <2>1, <2>2
  <2>3. CASE mine # {}
    <3>1. mine \in SUBSET (1..Len(facts))
      BY <1>2, <1>9
    <3>2. Max(mine) \in mine
      BY <1>2, <2>3, <3>1, LastPlace
    <3>3. new[Max(mine)] = facts[Max(mine)]
      BY <1>3, <1>9, <3>2
    <3> QED
      BY <1>11, <1>13, <2>1, <3>3
  <2> QED
    BY <2>2, <2>3
<1> QED
  BY <1>12, <1>13

\* Active at the end of this hour, active at any time after.
LEMMA AuditLater ==
  ASSUME FactsRight, NEW v, NEW t \in Int, t > hour
  PROVE  check_realmauditlog_by_user(v, t) = check_realmauditlog_by_user(v, hour + 1)
<1>1. Between(0, t) = Between(0, hour + 1)
  <2>1. /\ hour \in Nat /\ \A i \in DOMAIN facts : facts[i].at \in Nat /\ facts[i].at <= hour
    <3>1. PICK E, q : E = [who: Humans, what: Whats, at: Nat] /\ q = facts /\ q \in Seq(E)
      BY DEF FactsRight
    <3>2. Len(q) \in Nat /\ DOMAIN q = 1..Len(q) /\ \A i \in DOMAIN q : q[i] \in E
      BY <3>1, Elements
    <3>3. \A x \in E : x.at \in Nat
      BY <3>1
    <3> QED
      BY <3>1, <3>2, <3>3 DEF FactsRight
  <2> QED
    BY <2>1 DEF Between
<1> QED
  BY <1>1 DEF check_realmauditlog_by_user

\* Where the rows of the past stay, the job stands where it stood.
LEMMA JobStays ==
  ASSUME CountsInv, GoesOn, UNCHANGED <<hour, fills, job>>,
         \A s \in Stats : \A t \in Int : t <= hour => \A T \in Tables : RowsOf(T, s, t)' = RowsOf(T, s, t)
  PROVE  JobRight'
<1>0. FactsRight /\ FillsRight /\ JobRight
  BY DEF CountsInv
<1>1. CASE job = Idle
  BY <1>1 DEF JobRight
<1>2. CASE job # Idle
  <2>1. PICK step, s, at, left : step = job.step /\ s = Head(job.todo) /\ at = job.at /\ left = job.left
    OBVIOUS
  <2>2. RunsOn /\ StandsAt(step, s, at, left)
    BY <1>0, <1>2, <2>1 DEF JobRight, RunsOn
  <2>3. s \in Stats
    BY <2>1, <2>2, TailHolds DEF RunsOn
  <2>4. /\ Ready(s, at)' <=> Ready(s, at)
        /\ Starting(s, at)' <=> Starting(s, at)
        /\ Begun(s, at)' <=> Begun(s, at)
    BY DEF Ready, last_successful_fill, Starting, Begun
  <2>5. ASSUME Begun(s, at)
        PROVE  /\ HaveUsers(s, at)' <=> HaveUsers(s, at)
               /\ HaveRealms(s, at)' <=> HaveRealms(s, at)
               /\ Complete(s, at)' <=> Complete(s, at)
               /\ Bare(s, at)' <=> Bare(s, at)
               /\ \A T \in Tables : RowsOf(T, s, at)' = RowsOf(T, s, at)
    <3>1. at \in Int /\ at <= hour
      BY <2>3, <2>5, FillIs DEF Begun
    <3>2. \A T \in Tables : RowsOf(T, s, at)' = RowsOf(T, s, at)
      BY <2>3, <3>1
    <3> QED
      BY <1>0, <2>3, <3>1, <3>2, HaveStays
  <2>6. Undoing(s, left) => Undoing(s, left)'
    <3> SUFFICES ASSUME Undoing(s, left) PROVE Undoing(s, left)'
      OBVIOUS
    <3>1. PICK end : end = fills[s.property].end_time
      OBVIOUS
    <3>2. end \in Int /\ end <= hour
      BY <2>3, <3>1, FillIs DEF Undoing
    <3>3. \A T \in Tables : RowsOf(T, s, end)' = RowsOf(T, s, end)
      BY <2>3, <3>2
    <3> QED
      BY <3>1, <3>3 DEF Undoing
  <2>7. StandsAt(step, s, at, left)'
    BY <2>2, <2>4, <2>5, <2>6 DEF StandsAt, Installation, Tables
  <2>8. RunsOn' /\ job'.step = step /\ job'.at = at /\ job'.left = left /\ Head(job.todo)' = s
    BY <2>1, <2>2 DEF RunsOn
  <2> QED
    BY <2>7, <2>8, JobIsRight
<1> QED
  BY <1>1, <1>2

\* The day that is not over.
LEMMA Ceiling ==
  ASSUME NEW h \in Nat, NEW to, to = ceiling_to_day(h)
  PROVE  /\ to \in Int /\ to > h /\ to > 0 /\ to % DayLength = 0
         /\ \A t \in Int : t % DayLength = 0 /\ t > h => to <= t
<1>1. PICK D, f : D = DayLength /\ f = (h \div D) * D
  OBVIOUS
<1>2. D \in Nat \ {0}
  BY <1>1, AnalyticsAssumption
<1>3. f \in Int /\ f % D = 0 /\ f <= h /\ h < f + D
  <2>1. h \in Int
    OBVIOUS
  <2> QED
    BY <1>1, <1>2, <2>1, Floor
<1>4. to = f + D
  BY <1>1 DEF ceiling_to_day, floor_to_day
<1>5. /\ \A a, b \in Int : a % D = 0 /\ b % D = 0 => (a + b) % D = 0 /\ (a < b => a <= b - D)
      /\ D % D = 0
  BY <1>2, WholeSteps
<1>6. to \in Int /\ D \in Int
  BY <1>2, <1>3, <1>4
<1>7. to % D = 0
  BY <1>3, <1>4, <1>5, <1>6, Zenon
<1>8. \A t \in Int : t % D = 0 /\ t > h => to <= t
  <2> SUFFICES ASSUME NEW t \in Int, t % D = 0, t > h PROVE to <= t
    OBVIOUS
  <2>1. f < t
    BY <1>3
  <2>2. f <= t - D
    BY <1>3, <1>5, <2>1, Zenon
  <2> QED
    BY <1>2, <1>3, <1>4, <2>2
<1> QED
  BY <1>1, <1>2, <1>3, <1>4, <1>6, <1>7, <1>8

\* The rows of a set are countable in any part.
LEMMA PartRows ==
  ASSUME RowsRight, NEW rs, rs \subseteq counts
  PROVE  AreRows(rs) /\ Total(rs) \in Int
<1>1. AreRows(rs)
  BY FS_Subset DEF RowsRight, AreRows
<1> QED
  BY <1>1, TotalAdds

\* The row of the present day is raised, and so is every sum from that day on.
LEMMA LogRaised ==
  ASSUME CountsInv, NEW r, NEW by \in Int, do_increment_logging_stat(r, by),
         NEW to, to = ceiling_to_day(hour)
  PROVE  /\ RowsRight' /\ ElseKept("realm", Logged, to)
         /\ \A t \in Int : LoggedUpTo(t, r)' # LoggedUpTo(t, r) => to <= t
         /\ \A t \in Int : to <= t => Total(LoggedUpTo(t, r)') = Total(LoggedUpTo(t, r)) + by
         /\ \A t, x : x # r => LoggedUpTo(t, x)' = LoggedUpTo(t, x)
<1>0. RowsRight /\ hour \in Nat /\ to \in Int
  BY Ceiling DEF CountsInv, FactsRight
<1>1. Logged.property = "active_users_log" /\ Logged \in Stats
  BY OtherStats, TheStats
<1>2. PICK old, new : /\ old = {c \in RowsOf("realm", Logged, to) : c.key = r}
                      /\ new = Row("realm", Logged, r, to, Total(old) + by)
  OBVIOUS
<1>3. counts' = (counts \ old) \cup {new}
  BY <1>2 DEF do_increment_logging_stat, Logged
<1>4. old \subseteq counts /\ \A c : c \in old <=> c \in counts /\ c.table = "realm" /\ c.stat = "active_users_log" /\ c.end = to /\ c.key = r
  BY <1>1, <1>2 DEF RowsOf
<1>5. Total(old) \in Int /\ AreRows(old)
  BY <1>0, <1>4, PartRows
<1>6. /\ new.table = "realm" /\ new.stat = "active_users_log" /\ new.key = r /\ new.end = to /\ new.copy = 0
      /\ new.value = Total(old) + by /\ new.value \in Int
  BY <1>1, <1>2, <1>5 DEF Row
<1>7. RowsRight'
  <2>1. IsFiniteSet(counts \ old)
    BY <1>0, FS_Difference DEF RowsRight
  <2>2. IsFiniteSet(counts')
    BY <1>3, <2>1, FS_AddElement
  <2>3. "active_users_log" \in StatNames
    BY <1>1 DEF StatNames
  <2> QED
    BY <1>0, <1>3, <1>6, <2>2, <2>3 DEF RowsRight, Tables
<1>8. ElseKept("realm", Logged, to)
  <2> SUFFICES ASSUME NEW T, NEW q \in Stats, NEW t, ~(T = "realm" /\ q = Logged /\ t = to)
               PROVE  RowsOf(T, q, t)' = RowsOf(T, q, t)
    BY DEF ElseKept
  <2>1. ~(T = "realm" /\ q.property = "active_users_log" /\ t = to)
    BY <1>1, StatFacts
  <2> QED
    BY <1>3, <1>4, <1>6, <2>1 DEF RowsOf
<1>9. \A t, x : x # r => LoggedUpTo(t, x)' = LoggedUpTo(t, x)
  BY <1>3, <1>4, <1>6 DEF LoggedUpTo
<1>10. \A t \in Int : ~(to <= t) => LoggedUpTo(t, r)' = LoggedUpTo(t, r)
  BY <1>3, <1>4, <1>6 DEF LoggedUpTo
<1>11. ASSUME NEW t \in Int, to <= t PROVE Total(LoggedUpTo(t, r)') = Total(LoggedUpTo(t, r)) + by
  <2>1. PICK U, rest : U = LoggedUpTo(t, r) /\ rest = U \ old
    OBVIOUS
  <2>2. \A c : c \in U <=> c \in counts /\ c.table = "realm" /\ c.stat = "active_users_log" /\ c.key = r /\ c.end <= t
    BY <2>1 DEF LoggedUpTo
  <2>3. old \subseteq U
    BY <1>4, <1>11, <2>2
  <2>4. U = rest \cup old /\ rest \cap old = {} /\ rest \subseteq counts
    BY <2>1, <2>2, <2>3
  <2>5. new \notin rest
    BY <1>4, <1>6, <2>1, <2>2
  <2>6. LoggedUpTo(t, r)' = rest \cup {new}
    <3>1. \A c : c \in LoggedUpTo(t, r)' <=> c \in counts' /\ c.table = "realm" /\ c.stat = "active_users_log" /\ c.key = r /\ c.end <= t
      BY DEF LoggedUpTo
    <3>2. \A c : c \in LoggedUpTo(t, r)' <=> c \in rest \/ c = new
      BY <1>3, <1>6, <1>11, <2>1, <2>2, <3>1
    <3> QED
      BY <3>2
  <2>7. AreRows(rest) /\ Total(rest) \in Int
    BY <1>0, <2>4, PartRows
  <2>8. Total(rest \cup old) = Total(rest) + Total(old)
    BY <1>5, <2>4, <2>7, TotalTogether
  <2>9. Total(rest \cup {new}) = Total(rest) + new.value
    BY <1>6, <2>5, <2>7, TotalWith
  <2>10. PICK a, b : a = Total(rest) /\ b = Total(old) /\ a \in Int /\ b \in Int
    BY <1>5, <2>7
  <2>11. Total(LoggedUpTo(t, r)) = a + b
    BY <2>1, <2>4, <2>8, <2>10
  <2>12. Total(LoggedUpTo(t, r)') = a + (b + by)
    BY <1>6, <2>6, <2>9, <2>10
  <2> QED
    BY <2>10, <2>11, <2>12
<1> QED
  BY <1>7, <1>8, <1>9, <1>10, <1>11

\* What happens in the present hour changes no hour that is over, and what it logs it logs for a day to come.
LEMMA HappensKeeps ==
  ASSUME CountsInv, NEW u \in Busy, NEW what \in {"sent", "visit", "deactivated", "reactivated"}, Happens(u, what)
  PROVE  CountsInv'
<1>0. FactsRight /\ RowsRight /\ FillsRight /\ BlankInv /\ UsersInv /\ DoneInv /\ LogRight /\ hour \in Nat
  BY DEF CountsInv, FactsRight
<1>1. UNCHANGED <<hour, fills, job, lockDir, deaths>>
      /\ facts' = Append(facts, [who |-> u, what |-> what, at |-> hour])
  BY DEF Happens
<1>2. u \in Humans /\ what \in Whats
  BY AnalyticsAssumption DEF Whats
<1>3. GoesOn
  <2>1. PICK e : e = [who |-> u, what |-> what, at |-> hour]
    OBVIOUS
  <2> QED
    BY <1>1, <2>1 DEF GoesOn
<1>4. FactsRight'
  <2>1. PICK E, e, q, n, new : E = [who: Humans, what: Whats, at: Nat] /\ e = [who |-> u, what |-> what, at |-> hour]
                               /\ q = facts /\ q \in Seq(E) /\ n = Len(q) /\ new = facts'
    BY <1>0 DEF FactsRight
  <2>2. e \in E /\ e.at = hour
    BY <1>0, <1>2, <2>1
  <2>3. new = Append(q, e)
    BY <1>1, <2>1
  <2>4. \A i \in 1..n : q[i].at <= hour
    BY <1>0, <2>1, Elements DEF FactsRight
  <2>5. q \in Seq(E) /\ n = Len(q)
    BY <2>1
  <2>6. new \in Seq(E) /\ DOMAIN new = 1..(n + 1) /\ new[n + 1] = e /\ n \in Nat /\ \A i \in 1..n : new[i] = q[i]
    BY <2>2, <2>3, <2>5
  <2>7. \A i \in 1..(n + 1) : i \in 1..n \/ i = n + 1
    BY <2>6
  <2>8. \A i \in DOMAIN new : new[i].at <= hour
    BY <1>0, <2>2, <2>4, <2>6, <2>7
  <2> QED
    BY <1>0, <1>1, <2>1, <2>6, <2>8 DEF FactsRight
<1>5. PICK to : to = ceiling_to_day(hour)
  OBVIOUS
<1>6. to \in Int /\ to > hour /\ to > 0 /\ to % DayLength = 0 /\ \A t \in Int : t % DayLength = 0 /\ t > hour => to <= t
  BY <1>0, <1>5, Ceiling
<1>7. PICK r : r = HumanRealm[u]
  OBVIOUS
<1>8. PICK by \in Int : \/ by = 0 /\ what \notin AuditEvents /\ counts' = counts
                        \/ by = -1 /\ what = "deactivated" /\ IsActive(u) /\ do_increment_logging_stat(r, by)
                        \/ by = 1 /\ what = "reactivated" /\ ~IsActive(u) /\ do_increment_logging_stat(r, by)
  <2>1. CASE what = "deactivated"
    <3>1. IsActive(u) /\ do_increment_logging_stat(r, -1)
      BY <1>7, <2>1 DEF Happens
    <3> QED
      BY <2>1, <3>1
  <2>2. CASE what = "reactivated"
    <3>1. ~IsActive(u) /\ do_increment_logging_stat(r, 1)
      BY <1>7, <2>2 DEF Happens
    <3> QED
      BY <2>2, <3>1
  <2>3. CASE what \in {"sent", "visit"}
    <3>1. counts' = counts /\ what \notin AuditEvents
      BY <2>3 DEF Happens, AuditEvents
    <3> QED
      BY <3>1
  <2> QED
    BY <2>1, <2>2, <2>3
<1>9. /\ RowsRight' /\ ElseKept("realm", Logged, to)
      /\ \A t \in Int : ~(to <= t) => LoggedUpTo(t, r)' = LoggedUpTo(t, r)
      /\ \A t \in Int : to <= t => Total(LoggedUpTo(t, r)') = Total(LoggedUpTo(t, r)) + by
      /\ \A t, x : x # r => LoggedUpTo(t, x)' = LoggedUpTo(t, x)
  <2>1. CASE counts' = counts /\ by = 0
    <3>1. \A t, x : LoggedUpTo(t, x)' = LoggedUpTo(t, x)
      BY <2>1 DEF LoggedUpTo
    <3>2. \A t : Total(LoggedUpTo(t, r)) \in Int
      <4>1. \A t : LoggedUpTo(t, r) \subseteq counts
        BY DEF LoggedUpTo
      <4> QED
        BY <1>0, <4>1, PartRows
    <3>3. RowsRight' /\ ElseKept("realm", Logged, to)
      BY <1>0, <2>1 DEF RowsRight, ElseKept, RowsOf
    <3>4. \A t : Total(LoggedUpTo(t, r)') = Total(LoggedUpTo(t, r)) + by
      BY <2>1, <3>1, <3>2
    <3> QED
      BY <3>1, <3>3, <3>4
  <2>2. CASE do_increment_logging_stat(r, by)
    BY <1>5, <2>2, LogRaised
  <2> QED
    BY <1>8, <2>1, <2>2
<1>10. Logged \in Stats /\ Logged.kind = "logging"
  BY TheStats, OtherStats
<1>11. \A s \in Stats : \A t \in Int : t <= hour => \A T \in Tables : RowsOf(T, s, t)' = RowsOf(T, s, t)
  BY <1>0, <1>6, <1>9 DEF ElseKept
<1>12. JobRight'
  BY <1>1, <1>3, <1>11, JobStays
<1>13. FillsRight'
  BY <1>0, <1>1 DEF FillsRight, FillRight
<1>14. \A s, t : (Reached(s, t)' <=> Reached(s, t)) /\ (Done(s, t)' <=> Done(s, t))
  BY <1>1 DEF Reached, Done, last_successful_fill
<1>15. \A s \in Stats : \A t \in Int : Bare(s, t) => Bare(s, t)'
  <2> SUFFICES ASSUME NEW s \in Stats, NEW t \in Int, Bare(s, t) PROVE Bare(s, t)'
    OBVIOUS
  <2>1. "user" # "realm" /\ Installation # "realm"
    BY DEF Installation
  <2>2. RowsOf("user", s, t)' = RowsOf("user", s, t) /\ RowsOf(Installation, s, t)' = RowsOf(Installation, s, t)
    BY <1>9, <2>1 DEF ElseKept
  <2>3. s.kind # "logging" => RowsOf("realm", s, t)' = RowsOf("realm", s, t)
    BY <1>9, <1>10 DEF ElseKept
  <2> QED
    BY <2>2, <2>3 DEF Bare
<1>16. BlankInv'
  BY <1>0, <1>14, <1>15 DEF BlankInv
<1>17. UsersInv'
  <2>1. \A s \in Stats : \A t : RowsOf("user", s, t)' = RowsOf("user", s, t)
    BY <1>9 DEF ElseKept
  <2> QED
    BY <1>0, <2>1 DEF UsersInv
<1>18. DoneInv'
  <2> SUFFICES ASSUME NEW s \in Stats, NEW t \in Int, Done(s, t) PROVE Complete(s, t)'
    BY <1>14 DEF DoneInv
  <2>1. t <= hour
    <3>1. s.property \in DOMAIN fills /\ t <= fills[s.property].end_time
      BY DEF Done, Reached
    <3>2. PICK end : end = fills[s.property].end_time /\ end \in Nat /\ end <= hour
      BY <3>1, FillIs
    <3> QED
      BY <1>0, <3>1, <3>2
  <2>2. \A T \in Tables : RowsOf(T, s, t)' = RowsOf(T, s, t)
    BY <1>11, <2>1
  <2>3. Complete(s, t)
    BY <1>0 DEF DoneInv
  <2> QED
    BY <1>0, <1>3, <2>1, <2>2, <2>3, HaveStays
<1>19. LogRight'
  <2> SUFFICES ASSUME NEW t \in Int, NEW x \in HumanRealms, 0 < t, t % DayLength = 0
               PROVE  Total(LoggedUpTo(t, x)') = Cardinality(ActiveAt(t, x)')
    BY DEF LogRight
  <2>1. Total(LoggedUpTo(t, x)) = Cardinality(ActiveAt(t, x))
    BY <1>0 DEF LogRight
  <2>2. CASE t <= hour
    <3>1. \A v : check_realmauditlog_by_user(v, t)' = check_realmauditlog_by_user(v, t)
      BY <1>0, <1>3, <2>2, AuditStays
    <3>2. ActiveAt(t, x)' = ActiveAt(t, x)
      BY <3>1 DEF ActiveAt
    <3>3. LoggedUpTo(t, x)' = LoggedUpTo(t, x)
      BY <1>0, <1>6, <1>9, <2>2
    <3> QED
      BY <2>1, <3>2, <3>3
  <2>3. CASE t > hour
    <3>1. \A v : check_realmauditlog_by_user(v, t)' =
                   IF v = u /\ what \in AuditEvents THEN (IF what # "deactivated" THEN 1 ELSE 0)
                   ELSE check_realmauditlog_by_user(v, t)
      BY <1>0, <1>1, <2>3, AuditAfter
    <3>2. IsActive(u) <=> check_realmauditlog_by_user(u, t) = 1
      BY <1>0, <2>3, AuditLater DEF IsActive
    <3>3. to <= t
      BY <1>6, <2>3
    <3>4. PICK A, B : A = ActiveAt(t, x) /\ B = ActiveAt(t, x)'
      OBVIOUS
    <3>5. /\ \A v : v \in A <=> v \in Humans /\ HumanRealm[v] = x /\ check_realmauditlog_by_user(v, t) = 1
          /\ \A v : v \in B <=> v \in Humans /\ HumanRealm[v] = x /\ check_realmauditlog_by_user(v, t)' = 1
      BY <3>4 DEF ActiveAt
    <3>6. IsFiniteSet(A) /\ Cardinality(A) \in Nat
      <4>1. A \subseteq Humans
        BY <3>5
      <4> QED
        BY <4>1, RealmsFinite, FS_Subset, FS_CardinalityType
    <3>7. CASE x # r \/ by = 0
      <4>1. B = A
        <5>1. \A v : v \in B <=> v \in A
          BY <1>7, <1>8, <3>1, <3>5, <3>7 DEF AuditEvents
        <5> QED
          BY <5>1
      <4>2. Total(LoggedUpTo(t, x)') = Total(LoggedUpTo(t, x))
        <5>1. CASE x # r
          BY <1>9, <5>1
        <5>2. CASE x = r /\ by = 0
          BY <1>9, <2>1, <3>3, <3>4, <3>6, <5>2
        <5> QED
          BY <3>7, <5>1, <5>2
      <4> QED
        BY <2>1, <3>4, <4>1, <4>2
    <3>8. CASE x = r /\ by = -1
      <4>1. what = "deactivated" /\ u \in A /\ what \in AuditEvents
        BY <1>2, <1>7, <1>8, <3>2, <3>5, <3>8 DEF AuditEvents
      <4>2. B = A \ {u}
        <5>1. \A v : v \in B <=> v \in A /\ v # u
          BY <3>1, <3>5, <4>1
        <5> QED
          BY <5>1
      <4>3. Cardinality(B) = Cardinality(A) - 1
        BY <3>6, <4>1, <4>2, FS_RemoveElement
      <4> QED
        BY <1>9, <2>1, <3>3, <3>4, <3>6, <3>8, <4>3
    <3>9. CASE x = r /\ by = 1
      <4>1. what = "reactivated" /\ u \notin A /\ what \in AuditEvents
        BY <1>8, <3>2, <3>5, <3>9 DEF AuditEvents
      <4>2. B = A \cup {u}
        <5>1. \A v : v \in B <=> v \in A \/ v = u
          BY <1>2, <1>7, <3>1, <3>5, <3>9, <4>1
        <5> QED
          BY <5>1
      <4>3. Cardinality(B) = Cardinality(A) + 1
        BY <3>6, <4>1, <4>2, FS_AddElement
      <4> QED
        BY <1>9, <2>1, <3>3, <3>4, <3>6, <3>9, <4>3
    <3> QED
      BY <1>8, <3>7, <3>8, <3>9
  <2> QED
    BY <1>0, <2>2, <2>3
<1> QED
  BY <1>4, <1>9, <1>12, <1>13, <1>16, <1>17, <1>18, <1>19 DEF CountsInv

\* The facts at first: everyone is created.
LEMMA FirstFacts ==
  ASSUME AnalyticsInit
  PROVE  FactsRight /\ \A u \in Humans : \A t \in Int : t > 0 => check_realmauditlog_by_user(u, t) = 1
<1>1. PICK S, E, n : /\ S = {[who |-> u, what |-> "created", at |-> 0] : u \in Humans}
                     /\ E = [who: Humans, what: Whats, at: Nat] /\ n = Cardinality(S)
  OBVIOUS
<1>2. IsFiniteSet(S)
  <2>1. PICK f : f = [u \in Humans |-> [who |-> u, what |-> "created", at |-> 0]]
    OBVIOUS
  <2>2. f \in Surjection(Humans, S)
    BY <1>1, <2>1 DEF Surjection
  <2> QED
    BY <2>2, RealmsFinite, FS_Surjection
<1>3. n \in Nat /\ ExistsBijection(1..n, S)
  BY <1>1, <1>2, FS_CardinalityType
<1>4. \E f \in [1..n -> S] : IsInjective(f)
  BY <1>3 DEF ExistsBijection, Bijection, Injection
<1>5. facts \in [1..n -> S] /\ IsInjective(facts)
  <2>1. facts = CHOOSE f \in [1..n -> S] : IsInjective(f)
    BY <1>1 DEF AnalyticsInit, SetToSeq
  <2> QED
    BY <1>4, <2>1
<1>6. facts \in Surjection(1..n, S)
  <2>1. facts \in Injection(1..n, S)
    BY <1>5 DEF Injection
  <2>2. Cardinality(1..n) = n
    <3>1. 1 \in Int /\ n \in Int /\ n - 1 + 1 = n
      BY <1>3
    <3> QED
      BY <1>3, <3>1, FS_Interval
  <2> QED
    BY <1>1, <1>2, <2>1, <2>2, FS_Injection
<1>7. \A x \in S : \E i \in 1..n : facts[i] = x
  BY <1>6 DEF Surjection
<1>8. S \subseteq E /\ \A x \in S : x.what = "created" /\ x.at = 0 /\ x.who \in Humans
  BY <1>1 DEF Whats
<1>9. facts \in Seq(E) /\ DOMAIN facts = 1..n
  BY <1>3, <1>5, <1>8
<1>10. hour = 0
  BY DEF AnalyticsInit
<1>11. FactsRight
  <2>1. \A i \in DOMAIN facts : facts[i].at <= hour
    BY <1>5, <1>8, <1>9, <1>10
  <2> QED
    BY <1>1, <1>9, <1>10, <2>1 DEF FactsRight
<1>12. ASSUME NEW u \in Humans, NEW t \in Int, t > 0 PROVE check_realmauditlog_by_user(u, t) = 1
  <2>1. Between(0, t) = 1..n
    BY <1>5, <1>8, <1>9, <1>12 DEF Between
  <2>2. PICK mine : mine = {i \in 1..n : facts[i].who = u /\ facts[i].what \in AuditEvents}
    OBVIOUS
  <2>3. PICK i \in 1..n : facts[i] = [who |-> u, what |-> "created", at |-> 0]
    BY <1>1, <1>7
  <2>4. i \in mine
    BY <2>2, <2>3 DEF AuditEvents
  <2>5. mine \in SUBSET (1..n) /\ mine # {}
    BY <2>2, <2>4
  <2>6. Max(mine) \in mine
    BY <1>3, <2>5, LastPlace
  <2>7. facts[Max(mine)].what = "created"
    BY <1>5, <1>8, <2>2, <2>6
  <2> QED
    BY <2>1, <2>2, <2>5, <2>7 DEF check_realmauditlog_by_user
<1> QED
  BY <1>11, <1>12

\* At first there is a day's row of each realm, with all its users.
LEMMA CountsInit ==
  ASSUME AnalyticsInit
  PROVE  CountsInv
<1>1. FactsRight /\ \A u \in Humans : \A t \in Int : t > 0 => check_realmauditlog_by_user(u, t) = 1
  BY FirstFacts
<1>2. PICK v : v = [r \in HumanRealms |-> Cardinality({u \in Humans : HumanRealm[u] = r})]
  OBVIOUS
<1>3. \A r \in HumanRealms : v[r] = Cardinality({u \in Humans : HumanRealm[u] = r}) /\ v[r] \in Int
  <2>1. \A r : {u \in Humans : HumanRealm[u] = r} \subseteq Humans
    OBVIOUS
  <2>2. \A r : Cardinality({u \in Humans : HumanRealm[u] = r}) \in Nat
    BY <2>1, RealmsFinite, FS_Subset, FS_CardinalityType
  <2> QED
    BY <1>2, <2>2
<1>4. counts = RealmRowsFrom(Logged, DayLength, v, HumanRealms)
  BY <1>3 DEF AnalyticsInit, RealmRowsFrom, Logged
<1>5. DayLength \in Nat \ {0}
  BY AnalyticsAssumption
<1>6. AreRows(counts)
  <2>1. HumanRealms \in SUBSET HumanRealms /\ \A r \in HumanRealms : v[r] \in Int
    BY <1>3
  <2> QED
    BY <1>4, <2>1, RealmRowsFinite
<1>7. \A c : c \in counts <=> \E r \in HumanRealms : c = Row("realm", Logged, r, DayLength, v[r])
  BY <1>4 DEF RealmRowsFrom
<1>8. Logged \in Stats /\ Logged.property = "active_users_log" /\ Logged.kind = "logging"
  BY TheStats, OtherStats
<1>9. \A c \in counts : c.table = "realm" /\ c.stat = "active_users_log" /\ c.end = DayLength /\ c.copy = 0
  BY <1>7, <1>8 DEF Row
<1>10. RowsRight
  <2>1. "active_users_log" \in StatNames
    BY <1>8 DEF StatNames
  <2> QED
    BY <1>5, <1>6, <1>9, <2>1 DEF RowsRight, AreRows, Tables
<1>11. fills = <<>> /\ job = Idle /\ hour = 0
  BY DEF AnalyticsInit
<1>12. \A x : x \notin DOMAIN fills
  BY <1>11
<1>13. FillsRight /\ DoneInv
  BY <1>12 DEF FillsRight, DoneInv, Done, Reached
<1>14. \A s \in Stats : \A t : Bare(s, t)
  <2> SUFFICES ASSUME NEW s \in Stats, NEW t PROVE Bare(s, t)
    OBVIOUS
  <2>1. "user" # "realm" /\ Installation # "realm"
    BY DEF Installation
  <2>2. RowsOf("user", s, t) = {} /\ RowsOf(Installation, s, t) = {}
    BY <1>9, <2>1 DEF RowsOf
  <2>3. s.kind # "logging" => RowsOf("realm", s, t) = {}
    <3>1. s.kind # "logging" => s.property # "active_users_log"
      BY <1>8, StatFacts
    <3> QED
      BY <1>9, <3>1 DEF RowsOf
  <2> QED
    BY <2>2, <2>3 DEF Bare
<1>15. BlankInv /\ UsersInv
  BY <1>14 DEF BlankInv, UsersInv, Bare
<1>16. JobRight
  BY <1>11 DEF JobRight
<1>17. LogRight
  <2> SUFFICES ASSUME NEW t \in Int, NEW r \in HumanRealms, 0 < t, t % DayLength = 0
               PROVE  Total(LoggedUpTo(t, r)) = Cardinality(ActiveAt(t, r))
    BY DEF LogRight
  <2>1. DayLength <= t
    <3>1. PICK D : D = DayLength /\ D \in Nat \ {0}
      BY <1>5
    <3>2. 0 % D = 0 /\ \A a, b \in Int : a % D = 0 /\ b % D = 0 => (a < b => a <= b - D)
      BY <3>1, WholeSteps
    <3>3. 0 \in Int /\ t % D = 0
      BY <3>1
    <3>4. 0 <= t - D
      BY <3>2, <3>3, Zenon
    <3> QED
      BY <3>1, <3>4
  <2>2. PICK tally : tally = Row("realm", Logged, r, DayLength, v[r])
    OBVIOUS
  <2>3. tally.key = r /\ tally.value = v[r] /\ tally.value \in Int
    BY <1>3, <2>2 DEF Row
  <2>4. \A c : c \in LoggedUpTo(t, r) <=> c = tally
    <3>1. \A c : c \in LoggedUpTo(t, r) <=> c \in counts /\ c.key = r
      BY <1>5, <1>9, <2>1 DEF LoggedUpTo
    <3>2. \A x : Row("realm", Logged, x, DayLength, v[x]).key = x
      BY DEF Row
    <3>3. tally \in counts
      BY <1>7, <2>2
    <3>4. \A c \in counts : c.key = r => c = tally
      BY <1>7, <2>2, <3>2
    <3> QED
      BY <2>3, <3>1, <3>3, <3>4
  <2>5. LoggedUpTo(t, r) = {tally}
    BY <2>4
  <2>6. Total(LoggedUpTo(t, r)) = v[r]
    BY <2>3, <2>5, TotalOfOne
  <2>7. ActiveAt(t, r) = {u \in Humans : HumanRealm[u] = r}
    BY <1>1 DEF ActiveAt
  <2> QED
    BY <1>3, <2>6, <2>7
<1> QED
  BY <1>1, <1>10, <1>13, <1>15, <1>16, <1>17 DEF CountsInv

-----------------------------------------------------------------------------
(* Counts of analytics: charts and sums                                    *)

\* What values add up to is one number.
LEMMA AddsOne ==
  ASSUME NEW S, IsFiniteSet(S), NEW v, NEW g, NEW h, Adds(g, v, S), Adds(h, v, S)
  PROVE  g[S] = h[S]
<1>1. g[{}] = 0 /\ \A s \in SUBSET S : \A x \in s : g[s] = v[x] + g[s \ {x}]
  BY DEF Adds
<1>2. ASSUME NEW s \in SUBSET S
      PROVE  g[s] = IF s = {} THEN 0 ELSE v[CHOOSE x \in s : TRUE] + g[s \ {CHOOSE x \in s : TRUE}]
  <2>1. CASE s = {}
    BY <1>1, <2>1
  <2>2. CASE s # {}
    <3>1. PICK y : y = CHOOSE x \in s : TRUE
      OBVIOUS
    <3>2. y \in s
      BY <2>2, <3>1
    <3>3. g[s] = v[y] + g[s \ {y}]
      BY <1>1, <3>2
    <3> QED
      BY <2>2, <3>1, <3>3
  <2> QED
    BY <2>1, <2>2
<1>3. OneByOne(g, v, S)
  BY <1>2 DEF OneByOne
<1> QED
  BY <1>3, AddedUp

\* What a user counts for in a chart.
Counted(s, u, t) ==
  IF s.kind = "dependent"
  THEN UserValue("active_users_audit", u, t - DayLength, t)
         * UserValue("15day_actives", u, t - ActiveDays * DayLength, t)
  ELSE UserValue(s.property, u, t - s.interval, t)

\* A chart of a realm should show the sum over its users.
LEMMA TrueCountIs ==
  ASSUME NEW s, NEW table, table # "user", NEW key, NEW t, NEW W, W = {u \in Humans : HumanRealm[u] = key},
         IsFiniteSet(W), NEW v, \A u \in W : v[u] = Counted(s, u, t), NEW h, Adds(h, v, W)
  PROVE  TrueCount(s, table, key, t) = h[W]
<1> DEFINE Chosen(x) == CHOOSE y \in x : TRUE
           Sums(it) == it = [x \in SUBSET W |-> IF x = {} THEN 0 ELSE Counted(s, Chosen(x), t) + it[x \ {Chosen(x)}]]
<1>0. /\ DOMAIN h = SUBSET W /\ h = [x \in DOMAIN h |-> h[x]] /\ h[{}] = 0
      /\ \A x \in SUBSET W : \A y \in x : h[x] = v[y] + h[x \ {y}]
  BY DEF Adds
<1>1. TrueCount(s, table, key, t) = (CHOOSE it : Sums(it))[W]
  BY DEF TrueCount, MapThenSumSet, MapThenFoldSet, Counted
<1>2. \A x : x # {} => Chosen(x) \in x
  OBVIOUS
<1>3. \A x \in SUBSET W : x # {} => Counted(s, Chosen(x), t) = v[Chosen(x)]
  BY <1>2
<1>4. Sums(h)
  <2>1. \A x \in SUBSET W : x # {} => h[x] = v[Chosen(x)] + h[x \ {Chosen(x)}]
    BY <1>0, <1>2
  <2> HIDE DEF Chosen
  <2>2. \A x \in SUBSET W : h[x] = IF x = {} THEN 0 ELSE Counted(s, Chosen(x), t) + h[x \ {Chosen(x)}]
    BY <1>0, <1>3, <2>1
  <2> QED
    BY <1>0, <2>2
<1>5. PICK it : it = CHOOSE g : Sums(g)
  OBVIOUS
<1>6. Sums(it)
  <2> HIDE DEF Sums
  <2> QED
    BY <1>4, <1>5, Zenon
<1>7. OneByOne(it, v, W)
  <2>1. \A x \in SUBSET W : it[x] = IF x = {} THEN 0 ELSE v[Chosen(x)] + it[x \ {Chosen(x)}]
    <3> HIDE DEF Chosen
    <3> QED
      BY <1>3, <1>6
  <2> QED
    BY <2>1 DEF OneByOne
<1>8. it[W] = h[W]
  BY <1>7, AddedUp
<1> QED
  BY <1>1, <1>5, <1>8

\* The users of a realm.
LEMMA UsersOf ==
  ASSUME NEW r, NEW W, W = {u \in Humans : HumanRealm[u] = r}
  PROVE  W \in SUBSET Humans /\ IsFiniteSet(W) /\ \A u \in Humans : u \in W <=> HumanRealm[u] = r
<1>1. W \in SUBSET Humans
  OBVIOUS
<1> QED
  BY <1>1, RealmsFinite, FS_Subset

\* Audited users are counted one by one.
LEMMA AuditSum ==
  ASSUME FactsRight, NEW t, NEW r
  PROVE  Total(OfRealm(Audited, t, r)) = Cardinality(ActiveAt(t, r))
<1>1. PICK W, Z : W = {u \in Humans : HumanRealm[u] = r} /\ Z = [u \in W |-> Value(Audited, u, t)]
  OBVIOUS
<1>2. W \in SUBSET Humans /\ IsFiniteSet(W) /\ \A u \in Humans : u \in W <=> HumanRealm[u] = r
  BY <1>1, UsersOf
<1>3. Audited \in Sql /\ Audited # COUNT_STATS[1]
  <2>1. Audited.property = "active_users_audit"
    BY SqlStats
  <2>2. COUNT_STATS[1].property = "messages_sent"
    BY SqlStats
  <2>3. Audited # COUNT_STATS[1]
    BY <2>1, <2>2
  <2> QED
    BY <2>3 DEF Sql
<1>4. PICK h : Adds(h, Z, W) /\ h[W] = Total(OfRealm(Audited, t, r))
  <2>1. \E h : Adds(h, [u \in W |-> Value(Audited, u, t)], W) /\ h[W] = Total(OfRealm(Audited, t, r))
    BY <1>2, <1>3, RealmSum
  <2> QED
    BY <1>1, <2>1
<1>11. Audited.property = "active_users_audit"
  BY SqlStats
<1>5. ASSUME NEW u \in W PROVE Z[u] = check_realmauditlog_by_user(u, t)
  <2>1. Z[u] = Value(Audited, u, t)
    BY <1>1
  <2> QED
    BY <1>11, <2>1 DEF Value, UserValue
<1>12. ASSUME NEW u \in W PROVE Z[u] \in {0, 1}
  <2>1. Z[u] = Value(Audited, u, t)
    BY <1>1
  <2>2. PICK x : x = Value(Audited, u, t)
    OBVIOUS
  <2>3. x \in {0, 1}
    BY <1>3, <2>2, Values
  <2> QED
    BY <2>1, <2>2, <2>3
<1>6. PICK g : Adds(g, Z, W) /\ \A A \in SUBSET W : g[A] = Cardinality(Ones(Z, A))
  <2>1. \A u \in W : Z[u] \in {0, 1}
    BY <1>12
  <2>2. IsFiniteSet(W)
    BY <1>2
  <2> QED
    BY <2>1, <2>2, OnesAdd
<1>7. g[W] = Cardinality(Ones(Z, W)) /\ g[W] = h[W]
  BY <1>2, <1>4, <1>6, AddsOne
<1>8. Ones(Z, W) = ActiveAt(t, r)
  BY <1>2, <1>5 DEF ActiveAt, Ones
<1> QED
  BY <1>4, <1>7, <1>8

\* The row of a realm.
LEMMA RealmRow ==
  ASSUME FactsRight, NEW s \in Sql, NEW t, NEW r \in HumanRealms, NEW tally, tally = Row("realm", s, r, t, Total(OfRealm(s, t, r)))
  PROVE  /\ {c \in SumRows(s, t) : c.key = r} = IF OfRealm(s, t, r) = {} THEN {} ELSE {tally}
         /\ tally.value = Total(OfRealm(s, t, r)) /\ tally.value \in Int
<1>1. \A x : Row("realm", s, x, t, Total(OfRealm(s, t, x))).key = x
  BY DEF Row
<1>2. \A c : c \in SumRows(s, t) <=>
        \E x \in HumanRealms : OfRealm(s, t, x) # {} /\ c = Row("realm", s, x, t, Total(OfRealm(s, t, x)))
  BY DEF SumRows
<1>3. \A c : c \in {d \in SumRows(s, t) : d.key = r} <=> OfRealm(s, t, r) # {} /\ c = tally
  BY <1>1, <1>2
<1>4. AreRows(OfRealm(s, t, r))
  <2>1. PICK W : W = {u \in Humans : HumanRealm[u] = r}
    OBVIOUS
  <2> QED
    BY <2>1, UsersOf, RealmSum
<1>5. Total(OfRealm(s, t, r)) \in Int /\ tally.value = Total(OfRealm(s, t, r))
  BY <1>4, TotalAdds DEF Row
<1> QED
  BY <1>3, <1>5

\* Up to the last successful fill every hour is complete.
LEMMA DoneWhere ==
  ASSUME CountsInv, NEW s \in Stats, NEW t \in Int, t > 0, t % s.step = 0, t <= last_successful_fill(s.property)
  PROVE  Complete(s, t)
<1>1. s.property \in DOMAIN fills
  BY DEF last_successful_fill
<1>2. PICK end : end = fills[s.property].end_time /\ end \in Nat /\ fills[s.property].state \in {"done", "started"}
  BY <1>1, FillIs
<1>3. t <= end
  BY <1>1, <1>2 DEF last_successful_fill
<1>4. Done(s, t)
  BY <1>1, <1>2, <1>3 DEF Done, Reached
<1> QED
  BY <1>4 DEF CountsInv, DoneInv

\* No INSERT of process_count_stat meets a row that is there (InsertsFresh).
LEMMA CountsFresh ==
  ASSUME CountsInv PROVE InsertsFresh
<1> SUFFICES ASSUME NEW step \in {"pull", "realm", Installation}, job.step = step
             PROVE  \A n \in RowsToInsert : Twins(n) = {}
  BY DEF InsertsFresh
<1>1. PICK s, at, table : s = Head(job.todo) /\ at = job.at /\ table = FillTable(step, s)
  OBVIOUS
<1> QED
  BY <1>1, Insertion

\* The sums of users, realms and server agree where they are filled (SumsAgree).
LEMMA CountsAgree ==
  ASSUME CountsInv PROVE SumsAgree
<1>0. FactsRight /\ RowsRight /\ LogRight
  BY DEF CountsInv
<1>1. ASSUME NEW t \in 1 .. MaxHours, t % DayLength = 0, t <= last_successful_fill(COUNT_STATS[2].property),
             NEW r \in HumanRealms
      PROVE  Total({c \in RowsOf("realm", COUNT_STATS[2], t) : c.key = r})
               = Total({c \in counts : c.table = "realm" /\ c.stat = COUNT_STATS[3].property /\ c.key = r /\ c.end <= t})
  <2>1. COUNT_STATS[2] = Audited /\ COUNT_STATS[3].property = "active_users_log"
    BY OtherStats DEF Audited, Logged
  <2>2. t \in Int /\ t > 0
    OBVIOUS
  <2>3. Audited \in Stats /\ Audited \in Sql /\ Audited.kind = "sql" /\ t % Audited.step = 0
    BY <1>1, TheStats, SqlStats DEF Sql
  <2>4. Complete(Audited, t)
    BY <1>1, <2>1, <2>2, <2>3, DoneWhere
  <2>5. RowsOf("realm", Audited, t) = SumRows(Audited, t)
    BY <2>3, <2>4 DEF Complete, HaveRealms, TrueRealms
  <2>6. PICK tally : tally = Row("realm", Audited, r, t, Total(OfRealm(Audited, t, r)))
    OBVIOUS
  <2>7. /\ {c \in SumRows(Audited, t) : c.key = r} = IF OfRealm(Audited, t, r) = {} THEN {} ELSE {tally}
        /\ tally.value = Total(OfRealm(Audited, t, r)) /\ tally.value \in Int
    BY <1>0, <2>3, <2>6, RealmRow
  <2>8. Total({tally}) = tally.value /\ Total({}) = 0
    BY <2>7, TotalOfOne, TotalOfNone
  <2>9. Total({c \in SumRows(Audited, t) : c.key = r}) = Total(OfRealm(Audited, t, r))
    <3>1. CASE OfRealm(Audited, t, r) = {}
      BY <2>7, <2>8, <3>1
    <3>2. CASE OfRealm(Audited, t, r) # {}
      BY <2>7, <2>8, <3>2
    <3> QED
      BY <3>1, <3>2
  <2>10. Total(LoggedUpTo(t, r)) = Cardinality(ActiveAt(t, r))
    BY <1>0, <1>1, <2>2 DEF LogRight
  <2>11. Total(OfRealm(Audited, t, r)) = Cardinality(ActiveAt(t, r))
    BY <1>0, AuditSum
  <2> QED
    BY <2>1, <2>5, <2>9, <2>10, <2>11 DEF LoggedUpTo
<1>2. ASSUME NEW s \in Stats, NEW t \in 1 .. MaxHours, t % DayLength = 0, t <= last_successful_fill(s.property)
      PROVE  Total(RowsOf(Installation, s, t)) = Total(RowsOf("realm", s, t))
  <2>1. t \in Int /\ t > 0
    OBVIOUS
  <2>2. t % s.step = 0
    <3>1. s.step = 1 \/ s.step = DayLength
      BY TheStats, SqlStats, OtherStats DEF Sql
    <3>2. t % 1 = 0
      BY <2>1, One
    <3> QED
      BY <1>2, <3>1, <3>2
  <2>3. Complete(s, t)
    BY <1>2, <2>1, <2>2, DoneWhere
  <2>4. PICK rs, whole : rs = RowsOf("realm", s, t) /\ whole = Row(Installation, s, Installation, t, Total(rs))
    OBVIOUS
  <2>5. Total(rs) \in Int
    BY <1>0, <2>4, PartRows DEF RowsOf
  <2>6. RowsOf(Installation, s, t) = IF rs = {} THEN {} ELSE {whole}
    BY <2>3, <2>4 DEF Complete, HaveRealms, HaveWhole, TrueWhole, WholeRows
  <2>7. whole.value = Total(rs)
    BY <2>4 DEF Row
  <2>8. Total({whole}) = Total(rs) /\ Total({}) = 0
    BY <2>5, <2>7, TotalOfOne, TotalOfNone
  <2>9. CASE rs = {}
    BY <2>4, <2>6, <2>9
  <2>10. CASE rs # {}
    BY <2>4, <2>6, <2>8, <2>10
  <2> QED
    BY <2>9, <2>10
<1> QED
  BY <1>1, <1>2 DEF SumsAgree

\* Before everything nothing is counted.
LEMMA NothingBefore ==
  ASSUME FactsRight, NEW s \in Sql, NEW u, NEW t \in Int, t <= 0
  PROVE  Value(s, u, t) = 0
<1>1. \A from : Between(from, t) = {}
  <2> SUFFICES ASSUME NEW i \in DOMAIN facts PROVE ~(facts[i].at < t)
    BY DEF Between
  <2>1. PICK E, q : E = [who: Humans, what: Whats, at: Nat] /\ q = facts /\ q \in Seq(E)
    BY DEF FactsRight
  <2>2. q[i] \in E
    BY <2>1, Elements
  <2>3. q[i].at \in Nat
    BY <2>1, <2>2
  <2> QED
    BY <2>1, <2>3
<1>2. CASE s = COUNT_STATS[1]
  <2>1. Value(s, u, t) = count_message_by_user(u, t - s.interval, t)
    BY <1>2, SqlStats DEF Value, UserValue
  <2>2. {i \in Between(t - s.interval, t) : facts[i].who = u /\ facts[i].what = "sent"} = {}
    BY <1>1
  <2> QED
    BY <2>1, <2>2, FS_EmptySet DEF count_message_by_user
<1>3. CASE s = Audited
  <2>1. Value(s, u, t) = check_realmauditlog_by_user(u, t)
    BY <1>3, SqlStats DEF Value, UserValue
  <2>2. {i \in Between(0, t) : facts[i].who = u /\ facts[i].what \in AuditEvents} = {}
    BY <1>1
  <2> QED
    BY <2>1, <2>2 DEF check_realmauditlog_by_user
<1>4. CASE s = Recent
  <2>1. Value(s, u, t) = check_useractivityinterval_by_user(u, t - s.interval, t)
    BY <1>4, SqlStats DEF Value, UserValue
  <2> QED
    BY <1>1, <2>1 DEF check_useractivityinterval_by_user
<1> QED
  BY <1>2, <1>3, <1>4 DEF Sql

\* Up to the last successful fill the tables hold what they should.
LEMMA TablesHold ==
  ASSUME CountsInv, NEW s \in Stats, s.kind # "logging", NEW t \in Int, t % s.step = 0,
         t <= last_successful_fill(s.property)
  PROVE  HaveUsers(s, t) /\ HaveRealms(s, t)
<1>1. CASE t > 0
  BY <1>1, DoneWhere DEF Complete
<1>2. CASE ~(t > 0)
  <2>1. ~Reached(s, t) /\ FactsRight /\ BlankInv
    BY <1>2 DEF Reached, CountsInv
  <2>2. RowsOf("user", s, t) = {} /\ RowsOf("realm", s, t) = {}
    BY <2>1 DEF BlankInv, Bare
  <2>3. \A x \in Sql : \A u : Value(x, u, t) = 0
    BY <1>2, <2>1, NothingBefore
  <2>4. \A x \in Sql : UserRows(x, t) = {}
    BY <2>3 DEF UserRows
  <2>5. \A x \in Sql : SumRows(x, t) = {}
    BY <2>4 DEF SumRows, OfRealm
  <2>6. BothRows(t) = {}
    <3>1. Audited \in Sql
      BY DEF Sql
    <3>2. \A u : Value(Audited, u, t) = 0
      BY <2>3, <3>1
    <3>3. \A r : Both(r, t) = {}
      BY <3>2 DEF Both
    <3> QED
      BY <3>3 DEF BothRows
  <2>7. s.kind = "sql" => s \in Sql
    BY StatFacts
  <2> QED
    BY <2>2, <2>4, <2>5, <2>6, <2>7, StatFacts DEF HaveUsers, HaveRealms, TrueUsers, TrueRealms
<1> QED
  BY <1>1, <1>2

\* What the row that is found for a chart says.
FoundFor(table, s, key, t) == {c \in RowsOf(table, s, t) : c.key = key}
ChartAt(table, s, key, t) ==
  IF FoundFor(table, s, key, t) = {} THEN 0 ELSE (CHOOSE c \in FoundFor(table, s, key, t) : TRUE).value

\* get_time_series_by_subgroup shows the row's value, or 0 without a row.
LEMMA ShownIs ==
  ASSUME NEW table, NEW s, NEW key, NEW t, NEW tally, NEW value,
         \/ FoundFor(table, s, key, t) = {tally} /\ tally.value = value
         \/ FoundFor(table, s, key, t) = {} /\ value = 0
  PROVE  ChartAt(table, s, key, t) = value
<1>1. (CHOOSE c \in {tally} : TRUE) = tally
  OBVIOUS
<1> QED
  BY <1>1 DEF ChartAt

\* A user's chart shows what the query counts.
LEMMA UserChart ==
  ASSUME FactsRight, NEW s \in Sql, NEW t, HaveUsers(s, t), NEW u \in Humans
  PROVE  ChartAt("user", s, u, t) = TrueCount(s, "user", u, t)
<1>1. s.kind = "sql" /\ Value(s, u, t) \in Nat
  BY SqlStats, Values
<1>2. TrueCount(s, "user", u, t) = Value(s, u, t)
  BY <1>1 DEF TrueCount, Value
<1>3. PICK tally : tally = Row("user", s, u, t, Value(s, u, t))
  OBVIOUS
<1>4. tally.value = Value(s, u, t) /\ tally.key = u
  BY <1>3 DEF Row
<1>5. RowsOf("user", s, t) = UserRows(s, t)
  BY <1>1 DEF HaveUsers, TrueUsers
<1>6. \A c : c \in FoundFor("user", s, u, t) <=> Value(s, u, t) > 0 /\ c = tally
  <2>1. \A x : Row("user", s, x, t, Value(s, x, t)).key = x
    BY DEF Row
  <2> QED
    BY <1>3, <1>5, <2>1 DEF FoundFor, UserRows
<1>7. CASE Value(s, u, t) > 0
  <2>1. FoundFor("user", s, u, t) = {tally}
    BY <1>6, <1>7
  <2>2. ChartAt("user", s, u, t) = Value(s, u, t)
    BY <1>4, <2>1, ShownIs
  <2> QED
    BY <1>2, <2>2
<1>8. CASE ~(Value(s, u, t) > 0)
  <2>1. FoundFor("user", s, u, t) = {} /\ Value(s, u, t) = 0
    BY <1>1, <1>6, <1>8
  <2> QED
    BY <1>2, <2>1, ShownIs
<1> QED
  BY <1>7, <1>8

\* A realm's chart shows the sum over its users.
LEMMA RealmChart ==
  ASSUME FactsRight, NEW s \in Sql, NEW t, HaveRealms(s, t), NEW r \in HumanRealms
  PROVE  ChartAt("realm", s, r, t) = TrueCount(s, "realm", r, t)
<1>1. s.kind = "sql"
  BY SqlStats
<1>2. PICK W, Z : W = {u \in Humans : HumanRealm[u] = r} /\ Z = [u \in W |-> Value(s, u, t)]
  OBVIOUS
<1>3. W \in SUBSET Humans /\ IsFiniteSet(W) /\ \A u \in Humans : u \in W <=> HumanRealm[u] = r
  BY <1>2, UsersOf
<1>4. PICK h : Adds(h, Z, W) /\ h[W] = Total(OfRealm(s, t, r))
  <2>1. \E h : Adds(h, [u \in W |-> Value(s, u, t)], W) /\ h[W] = Total(OfRealm(s, t, r))
    BY <1>3, RealmSum
  <2> QED
    BY <1>2, <2>1
<1>5. TrueCount(s, "realm", r, t) = h[W]
  <2>1. \A u \in W : Z[u] = Counted(s, u, t)
    BY <1>1, <1>2 DEF Counted, Value
  <2>2. IsFiniteSet(W) /\ Adds(h, Z, W) /\ "realm" # "user"
    BY <1>3, <1>4
  <2> QED
    BY <1>2, <2>1, <2>2, TrueCountIs
<1>6. PICK tally : tally = Row("realm", s, r, t, Total(OfRealm(s, t, r)))
  OBVIOUS
<1>7. /\ FoundFor("realm", s, r, t) = IF OfRealm(s, t, r) = {} THEN {} ELSE {tally}
      /\ tally.value = Total(OfRealm(s, t, r))
  <2>1. RowsOf("realm", s, t) = SumRows(s, t)
    BY <1>1 DEF HaveRealms, TrueRealms
  <2> QED
    BY <1>6, <2>1, RealmRow DEF FoundFor
<1>8. CASE OfRealm(s, t, r) = {}
  <2>1. Total(OfRealm(s, t, r)) = 0
    BY <1>8, TotalOfNone
  <2> QED
    BY <1>4, <1>5, <1>7, <1>8, <2>1, ShownIs
<1>9. CASE OfRealm(s, t, r) # {}
  <2>1. FoundFor("realm", s, r, t) = {tally} /\ tally.value = Total(OfRealm(s, t, r))
    BY <1>7, <1>9
  <2>2. ChartAt("realm", s, r, t) = Total(OfRealm(s, t, r))
    BY <2>1, ShownIs
  <2> QED
    BY <1>4, <1>5, <2>2
<1> QED
  BY <1>8, <1>9

\* The chart of active humans shows how many are active by both.
LEMMA BothChart ==
  ASSUME FactsRight, NEW t, HaveRealms(Dependent, t), NEW r \in HumanRealms
  PROVE  ChartAt("realm", Dependent, r, t) = TrueCount(Dependent, "realm", r, t)
<1>1. PICK W, Z : W = {u \in Humans : HumanRealm[u] = r} /\ Z = [u \in W |-> Counted(Dependent, u, t)]
  OBVIOUS
<1>2. W \in SUBSET Humans /\ IsFiniteSet(W) /\ \A u \in Humans : u \in W <=> HumanRealm[u] = r
  BY <1>1, UsersOf
<1>3. ASSUME NEW u \in W
      PROVE  /\ Value(Audited, u, t) \in {0, 1} /\ Value(Recent, u, t) \in {0, 1}
             /\ Z[u] = Value(Audited, u, t) * Value(Recent, u, t)
  <2>1. Audited.property = "active_users_audit" /\ Recent.property = "15day_actives"
    BY SqlStats
  <2>2. Audited.interval = DayLength /\ Recent.interval = ActiveDays * DayLength
    BY SqlStats
  <2>3. COUNT_STATS[1].property = "messages_sent" /\ Dependent.kind = "dependent"
    BY SqlStats, OtherStats
  <2>4. Audited \in Sql /\ Recent \in Sql
    BY DEF Sql
  <2>5. Audited # COUNT_STATS[1] /\ Recent # COUNT_STATS[1]
    BY <2>1, <2>3
  <2>6. Value(Audited, u, t) \in {0, 1} /\ Value(Recent, u, t) \in {0, 1}
    BY <2>4, <2>5, Values
  <2>7. Z[u] = Counted(Dependent, u, t)
    BY <1>1
  <2>8. Counted(Dependent, u, t) = Value(Audited, u, t) * Value(Recent, u, t)
    BY <2>1, <2>2, <2>3 DEF Counted, Value
  <2> QED
    BY <2>6, <2>7, <2>8
<1>4. ASSUME NEW u \in W
      PROVE  Z[u] \in {0, 1} /\ (Z[u] = 1 <=> Value(Audited, u, t) > 0 /\ Value(Recent, u, t) > 0)
  <2>1. PICK a, b : a = Value(Audited, u, t) /\ b = Value(Recent, u, t)
    OBVIOUS
  <2>2. a \in {0, 1} /\ b \in {0, 1} /\ Z[u] = a * b
    BY <1>3, <2>1
  <2>3. (a = 0 \/ a = 1) /\ (b = 0 \/ b = 1)
    BY <2>2
  <2>4. a * b \in {0, 1} /\ (a * b = 1 <=> a > 0 /\ b > 0)
    BY <2>3
  <2> QED
    BY <2>1, <2>2, <2>4
<1>5. PICK h : Adds(h, Z, W) /\ \A A \in SUBSET W : h[A] = Cardinality(Ones(Z, A))
  <2>1. \A u \in W : Z[u] \in {0, 1}
    BY <1>4
  <2> QED
    BY <1>2, <2>1, OnesAdd
<1>6. Ones(Z, W) = Both(r, t)
  BY <1>2, <1>4 DEF Ones, Both
<1>7. TrueCount(Dependent, "realm", r, t) = h[W]
  <2>1. \A u \in W : Z[u] = Counted(Dependent, u, t)
    BY <1>1
  <2>2. IsFiniteSet(W) /\ Adds(h, Z, W) /\ "realm" # "user"
    BY <1>2, <1>5
  <2> QED
    BY <1>1, <2>1, <2>2, TrueCountIs
<1>8. h[W] = Cardinality(Both(r, t))
  BY <1>5, <1>6
<1>9. PICK tally : tally = Row("realm", Dependent, r, t, Cardinality(Both(r, t)))
  OBVIOUS
<1>10. tally.value = Cardinality(Both(r, t))
  BY <1>9 DEF Row
<1>11. \A c : c \in FoundFor("realm", Dependent, r, t) <=> Both(r, t) # {} /\ c = tally
  <2>1. RowsOf("realm", Dependent, t) = BothRows(t)
    <3>1. Dependent.kind = "dependent"
      BY OtherStats
    <3> QED
      BY <3>1 DEF HaveRealms, TrueRealms
  <2>2. \A x : Row("realm", Dependent, x, t, Cardinality(Both(x, t))).key = x
    BY DEF Row
  <2> QED
    BY <1>9, <2>1, <2>2 DEF FoundFor, BothRows
<1>12. CASE Both(r, t) = {}
  <2>1. FoundFor("realm", Dependent, r, t) = {} /\ Cardinality(Both(r, t)) = 0
    BY <1>11, <1>12, FS_EmptySet
  <2> QED
    BY <1>7, <1>8, <2>1, ShownIs
<1>13. CASE Both(r, t) # {}
  <2>1. FoundFor("realm", Dependent, r, t) = {tally}
    BY <1>11, <1>13
  <2> QED
    BY <1>7, <1>8, <1>10, <2>1, ShownIs
<1> QED
  BY <1>12, <1>13

\* The times a chart shows are whole steps, up to its end.
LEMMA ChartTimes ==
  ASSUME NEW end \in Int, NEW s \in Stats, NEW start, NEW m, NEW t \in time_range(start, end, s.step, m)
  PROVE  t \in Int /\ t <= end /\ t % s.step = 0
<1>1. PICK last : last = IF s.step = 1 THEN end ELSE floor_to_day(end)
  OBVIOUS
<1>2. PICK first : first = IF m = 0 THEN start ELSE Min({start, last - (m - 1) * s.step})
  OBVIOUS
<1>3. t \in first .. last /\ (last - t) % s.step = 0
  BY <1>1, <1>2 DEF time_range
<1>4. s.step = 1 \/ s.step = DayLength
  BY TheStats, SqlStats, OtherStats DEF Sql
<1>5. DayLength \in Nat \ {0} /\ s.step \in Nat \ {0}
  BY AnalyticsAssumption, StatFacts
<1>6. last \in Int /\ last <= end /\ last % s.step = 0
  <2>1. CASE s.step = 1
    BY <1>1, <2>1, One
  <2>2. CASE s.step # 1
    <3>1. last = (end \div DayLength) * DayLength
      BY <1>1, <2>2 DEF floor_to_day
    <3>2. last \in Int /\ last % DayLength = 0 /\ last <= end
      BY <1>5, <3>1, Floor
    <3> QED
      BY <1>4, <2>2, <3>2
  <2> QED
    BY <2>1, <2>2
<1>7. t \in Int /\ t <= last
  BY <1>3, <1>6
<1>8. t % s.step = 0
  BY <1>3, <1>5, <1>6, <1>7, WholeSteps
<1> QED
  BY <1>6, <1>7, <1>8

\* The charts show the facts (ChartsTrue): get_chart_data asks for whole steps up to the last successful fill, and there the tables hold what they should.
LEMMA ChartsAreTrue ==
  ASSUME CountsInv PROVE ChartsTrue
<1>0. FactsRight
  BY DEF CountsInv
<1> SUFFICES ASSUME NEW u \in Humans, NEW c \in ChartsOf(u), NEW m \in MinLengths,
                    last_successful_fill(c[1].property) >= 0,
                    NEW t \in DOMAIN get_chart_data(c[1], c[2], c[3], m)
             PROVE  get_chart_data(c[1], c[2], c[3], m)[t] = TrueCount(c[1], c[2], c[3], t)
  BY DEF ChartsTrue
<1>1. PICK s, table, key, end : s = c[1] /\ table = c[2] /\ key = c[3] /\ end = last_successful_fill(s.property)
  OBVIOUS
<1>2. PICK times : times = time_range(0, end, s.step, m)
  OBVIOUS
<1>3. get_chart_data(s, table, key, m) = [x \in times |-> ChartAt(table, s, key, x)]
  BY <1>1, <1>2 DEF get_chart_data, get_time_series_by_subgroup, ChartAt, FoundFor
<1>4. t \in times /\ get_chart_data(s, table, key, m)[t] = ChartAt(table, s, key, t)
  BY <1>1, <1>3
<1>5. HumanRealm[u] \in HumanRealms
  BY DEF HumanRealms
<1>6. \/ s = Dependent /\ table = "realm" /\ key \in HumanRealms
      \/ s = COUNT_STATS[1] /\ table = "realm" /\ key \in HumanRealms
      \/ s = COUNT_STATS[1] /\ table = "user" /\ key \in Humans
  BY <1>1, <1>5 DEF ChartsOf, Dependent
<1>7. s \in Stats /\ s.kind # "logging" /\ (s = COUNT_STATS[1] => s \in Sql)
  <2>1. COUNT_STATS[1] \in Sql /\ COUNT_STATS[1].kind = "sql"
    BY SqlStats DEF Sql
  <2>2. Dependent.kind = "dependent" /\ Dependent \in Stats /\ COUNT_STATS[1] \in Stats
    BY <2>1, TheStats, OtherStats
  <2> QED
    BY <1>6, <2>1, <2>2
<1>8. end \in Int
  <2>1. CASE s.property \in DOMAIN fills
    <3>1. PICK e : e = fills[s.property].end_time /\ e \in Nat
      BY <1>7, <2>1, FillIs
    <3> QED
      BY <1>1, <2>1, <3>1 DEF last_successful_fill
  <2>2. CASE s.property \notin DOMAIN fills
    BY <1>1, <2>2 DEF last_successful_fill
  <2> QED
    BY <2>1, <2>2
<1>9. t \in Int /\ t <= end /\ t % s.step = 0
  BY <1>2, <1>4, <1>7, <1>8, ChartTimes
<1>10. HaveUsers(s, t) /\ HaveRealms(s, t)
  BY <1>1, <1>7, <1>9, TablesHold
<1>11. ChartAt(table, s, key, t) = TrueCount(s, table, key, t)
  <2>1. CASE s = Dependent /\ table = "realm" /\ key \in HumanRealms
    BY <1>0, <1>10, <2>1, BothChart
  <2>2. CASE s = COUNT_STATS[1] /\ table = "realm" /\ key \in HumanRealms
    BY <1>0, <1>7, <1>10, <2>2, RealmChart
  <2>3. CASE s = COUNT_STATS[1] /\ table = "user" /\ key \in Humans
    BY <1>0, <1>7, <1>10, <2>3, UserChart
  <2> QED
    BY <1>6, <2>1, <2>2, <2>3
<1> QED
  BY <1>1, <1>4, <1>11

\* Whatever happens, the tables stay right.
LEMMA CountsNext ==
  ASSUME CountsInv, [AnalyticsNext]_analyticsVars
  PROVE  CountsInv'
<1>1. CASE \E u \in Busy, what \in {"sent", "visit", "deactivated", "reactivated"} : Happens(u, what)
  BY <1>1, HappensKeeps
<1>2. CASE HourPasses \/ JobDies \/ OperatorUnlocks \/ UNCHANGED analyticsVars
  BY <1>2, OthersKeep
<1>3. CASE \E stats \in {COUNT_STATS} \union {<<s>> : s \in {x \in Stats : x.property \in Alone}} : RunCommand(stats)
  BY <1>3, RunKeeps
<1>4. CASE OpenStat
  BY <1>4, OpenKeeps
<1>5. CASE UndoStat
  BY <1>5, UndoKeeps
<1>6. CASE StartStat
  BY <1>6, StartKeeps
<1>7. CASE FillStat
  BY <1>7, FillKeeps
<1>8. CASE CloseStat
  BY <1>8, CloseKeeps
<1> QED
  BY <1>1, <1>2, <1>3, <1>4, <1>5, <1>6, <1>7, <1>8 DEF AnalyticsNext

(***************************************************************************)
(* Whatever happens on the server and whenever the job of analytics dies   *)
(* and is run again, also for single statistics: charts show what          *)
(* happened, the sums of users, realms and the server agree, and no hour   *)
(* is inserted twice (process_count_stat, do_fill_count_stat_at_hour,      *)
(* get_chart_data).                                                        *)
(***************************************************************************)
THEOREM CountsStayTrue == AnalyticsSpec => []CountsTrue
<1>1. AnalyticsInit => CountsInv
  BY CountsInit
<1>2. CountsInv /\ [AnalyticsNext]_analyticsVars => CountsInv'
  BY CountsNext
<1>3. CountsInv => CountsTrue
  BY ChartsAreTrue, CountsAgree, CountsFresh DEF CountsTrue
<1> QED
  BY <1>1, <1>2, <1>3, PTL DEF AnalyticsSpec
=============================================================================
