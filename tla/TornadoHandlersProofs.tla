------------------------ MODULE TornadoHandlersProofs ------------------------
(* Theorems about TornadoHandlers and EventQueue, for every value of their *)
(* constants.                                                              *)
EXTENDS TornadoHandlers, EventQueue, FiniteSetTheorems, WellFoundedInduction, TLAPS

(* Every step keeps the types.                                             *)
LEMMA TypeStep == TypeOK /\ [Next]_vars => TypeOK'
<1> SUFFICES ASSUME TypeOK, [Next]_vars PROVE TypeOK'
  OBVIOUS
<1> USE DEF TypeOK
<1>1. ASSUME NEW q \in Queues, DisconnectHandler(q)
      PROVE  /\ handlers' \subseteq Ids
             /\ descriptor_of' \in [DOMAIN descriptor_of' -> Queues]
             /\ DOMAIN descriptor_of' \subseteq Ids
             /\ current_handler_id' \in [Queues -> Ids \cup {None}]
  BY <1>1 DEF DisconnectHandler, Without
<1>2. ASSUME NEW q \in Queues, FinishCurrentHandler(q),
             next_handler_id' \in {next_handler_id, next_handler_id + 1},
             parked' = parked
      PROVE  TypeOK'
  <2>1. timers' \in [Queues -> SUBSET Ids] /\ waiting' \subseteq Ids
    BY <1>2 DEF FinishCurrentHandler, TimersLeft
  <2>2. DisconnectHandler(q)
    BY <1>2 DEF FinishCurrentHandler
  <2>3. next_handler_id' \in Nat /\ parked' \subseteq Ids
    BY <1>2, HandlersAssumption
  <2> QED BY <1>1, <2>1, <2>2, <2>3
<1>3. ASSUME NEW q \in Queues, PollParked(q) PROVE TypeOK'
  <2>1. /\ next_handler_id \in Ids
        /\ next_handler_id' \in Nat /\ parked' \subseteq Ids
    BY <1>3, HandlersAssumption DEF PollParked, Ids
  <2>2. timers' \in [Queues -> SUBSET Ids] /\ waiting' \subseteq Ids
    BY <1>3, <2>1 DEF PollParked, TimersLeft
  <2>3. /\ handlers' \subseteq Ids
        /\ descriptor_of' \in [DOMAIN descriptor_of' -> Queues]
        /\ DOMAIN descriptor_of' \subseteq Ids
        /\ current_handler_id' \in [Queues -> Ids \cup {None}]
    BY <1>3, <2>1 DEF PollParked
  <2> QED BY <2>1, <2>2, <2>3
<1>4. ASSUME NEW q \in Queues, PollAnswered(q) \/ AddEvent(q) \/ CleanupEventQueue(q)
      PROVE  TypeOK'
  <2>1. /\ FinishCurrentHandler(q)
        /\ next_handler_id' \in {next_handler_id, next_handler_id + 1}
        /\ parked' = parked
    BY <1>4 DEF PollAnswered, AddEvent, CleanupEventQueue
  <2> QED BY <1>2, <2>1
<1>5. ASSUME NEW q \in Queues, Heartbeat(q) PROVE TypeOK'
  <2>1. timers' \in [Queues -> SUBSET Ids] /\ waiting' \subseteq Ids
        /\ next_handler_id' = next_handler_id /\ DisconnectHandler(q) /\ parked' = parked
    BY <1>5 DEF Heartbeat
  <2> QED BY <1>1, <2>1
<1>6. CASE Answered
  BY <1>6, HandlersAssumption DEF Answered
<1>7. CASE AnsweredEarly
  <2>1. next_handler_id \in Ids
    BY <1>7, HandlersAssumption DEF AnsweredEarly, Ids
  <2> QED BY <1>7, <2>1, HandlersAssumption DEF AnsweredEarly
<1>8. ASSUME NEW h \in Ids, OnConnectionClose(h) PROVE TypeOK'
  <2>1. descriptor_of[h] \in Queues
    BY <1>8 DEF OnConnectionClose
  <2> QED BY <1>1, <1>8, <2>1 DEF OnConnectionClose
<1>9. CASE UNCHANGED vars
  BY <1>9 DEF vars
<1> QED BY <1>3, <1>4, <1>5, <1>6, <1>7, <1>8, <1>9 DEF Next

(* Handler ids, the maps and the timers have their types.                  *)
THEOREM TypeCorrect == Spec => []TypeOK
<1>1. Init => TypeOK
  BY HandlersAssumption DEF Init, TypeOK
<1> QED BY <1>1, TypeStep, PTL DEF Spec

(* Disconnecting the poll of one queue leaves the other queues' polls in   *)
(* both maps: by HandlersInv no two queues share an id.                    *)
LEMMA DisconnectInv ==
    ASSUME TypeOK, HandlersInv, NEW q \in Queues, DisconnectHandler(q),
           waiting' = waiting \ {current_handler_id[q]},
           next_handler_id' \in {next_handler_id, next_handler_id + 1},
           parked' = parked
    PROVE  HandlersInv'
<1>1. /\ handlers' = handlers \ Cleared(current_handler_id[q])
      /\ DOMAIN descriptor_of' = DOMAIN descriptor_of \ Cleared(current_handler_id[q])
      /\ \A h \in DOMAIN descriptor_of' : descriptor_of'[h] = descriptor_of[h]
      /\ current_handler_id' = [current_handler_id EXCEPT ![q] = None]
  BY DEF DisconnectHandler, Without
<1>2. Cleared(current_handler_id[q]) \subseteq {current_handler_id[q]}
  BY DEF Cleared
<1>3. ASSUME NEW p \in Queues, current_handler_id'[p] # None
      PROVE  /\ p # q /\ current_handler_id'[p] = current_handler_id[p]
             /\ current_handler_id[p] # current_handler_id[q]
  BY <1>1, <1>3 DEF TypeOK, HandlersInv, MapsAgree
<1>4. ASSUME NEW p \in Queues, current_handler_id'[p] # None
      PROVE  /\ current_handler_id'[p] \in handlers' \cap DOMAIN descriptor_of'
             /\ descriptor_of'[current_handler_id'[p]] = p
  BY <1>1, <1>2, <1>3, <1>4 DEF HandlersInv, MapsAgree
<1>5. ASSUME NEW h \in waiting'
      PROVE  \E p \in Queues : current_handler_id'[p] = h
  BY <1>1, <1>5 DEF TypeOK, HandlersInv, MapsAgree
<1>6. \A h \in handlers' \cup DOMAIN descriptor_of' \cup parked' : h < next_handler_id'
  <2>1. \A h \in handlers \cup DOMAIN descriptor_of \cup parked : h \in Int
    BY HandlersAssumption DEF TypeOK, Ids
  <2> QED BY <1>1, <2>1 DEF TypeOK, HandlersInv
<1> QED BY <1>4, <1>5, <1>6 DEF HandlersInv, MapsAgree

(* Parking a poll: its id is fresh, so it collides with no other.          *)
LEMMA ParkInv ==
    ASSUME TypeOK, HandlersInv, NEW q \in Queues, PollParked(q)
    PROVE  HandlersInv'
<1> DEFINE h    == next_handler_id
           gone == Cleared(current_handler_id[q])
<1>1. /\ next_handler_id' = h + 1 /\ handlers' = (handlers \cup {h}) \ gone
      /\ DOMAIN descriptor_of' = (DOMAIN descriptor_of \ gone) \cup {h}
      /\ descriptor_of'[h] = q
      /\ \A i \in DOMAIN descriptor_of' \ {h} : descriptor_of'[i] = descriptor_of[i]
      /\ current_handler_id' = [current_handler_id EXCEPT ![q] = h]
      /\ waiting' = (waiting \ {current_handler_id[q]}) \cup {h}
      /\ parked' = parked \cup {h}
  BY DEF PollParked
<1>2. h \in Nat /\ \A i \in handlers \cup DOMAIN descriptor_of \cup parked : i \in Nat /\ i < h
  BY HandlersAssumption DEF TypeOK, HandlersInv, Ids
<1>3. gone \subseteq {current_handler_id[q]} /\ h \notin gone
  <2>1. current_handler_id[q] # None => current_handler_id[q] \in handlers
    BY DEF HandlersInv, MapsAgree
  <2> QED BY <1>2, <2>1 DEF Cleared
<1> HIDE DEF h, gone
<1>4. ASSUME NEW p \in Queues, p # q, current_handler_id[p] # None
      PROVE  /\ current_handler_id'[p] = current_handler_id[p]
             /\ current_handler_id[p] # current_handler_id[q]
             /\ current_handler_id[p] # h
  BY <1>1, <1>2, <1>4 DEF TypeOK, HandlersInv, MapsAgree
<1>5. ASSUME NEW p \in Queues, current_handler_id'[p] # None
      PROVE  /\ current_handler_id'[p] \in handlers' \cap DOMAIN descriptor_of'
             /\ descriptor_of'[current_handler_id'[p]] = p
  <2>1. CASE p = q
    <3>1. current_handler_id'[p] = h
      BY <1>1, <2>1 DEF TypeOK
    <3> QED BY <1>1, <1>3, <2>1, <3>1
  <2>2. CASE p # q
    <3>1. current_handler_id'[p] = current_handler_id[p]
      BY <1>1, <2>2 DEF TypeOK
    <3>2. /\ current_handler_id[p] \in handlers \cap DOMAIN descriptor_of
          /\ descriptor_of[current_handler_id[p]] = p
      BY <1>5, <3>1 DEF HandlersInv, MapsAgree
    <3>3. current_handler_id[p] # current_handler_id[q] /\ current_handler_id[p] # h
      BY <1>4, <1>5, <2>2, <3>1
    <3> QED BY <1>1, <1>3, <3>1, <3>2, <3>3
  <2> QED BY <2>1, <2>2
<1>6. ASSUME NEW i \in waiting'
      PROVE  \E p \in Queues : current_handler_id'[p] = i
  <2>1. CASE i = h
    BY <1>1, <2>1 DEF TypeOK
  <2>2. CASE i # h
    BY <1>1, <1>6, <2>2 DEF TypeOK, HandlersInv, MapsAgree
  <2> QED BY <2>1, <2>2
<1>7. \A i \in handlers' \cup DOMAIN descriptor_of' \cup parked' : i < next_handler_id'
  BY <1>1, <1>2
<1> QED BY <1>5, <1>6, <1>7 DEF HandlersInv, MapsAgree

\* Every step keeps the handlers and the polls in agreement.
LEMMA HandlersStep == TypeOK /\ HandlersInv /\ [Next]_vars => HandlersInv'
<1> SUFFICES ASSUME TypeOK, HandlersInv, [Next]_vars PROVE HandlersInv'
  OBVIOUS
<1>1. ASSUME NEW q \in Queues,
             PollAnswered(q) \/ AddEvent(q) \/ CleanupEventQueue(q) \/ Heartbeat(q)
      PROVE  HandlersInv'
  BY <1>1, DisconnectInv
     DEF PollAnswered, AddEvent, CleanupEventQueue, Heartbeat, FinishCurrentHandler
<1>2. ASSUME NEW h \in Ids, OnConnectionClose(h) PROVE HandlersInv'
  <2>1. /\ descriptor_of[h] \in Queues /\ DisconnectHandler(descriptor_of[h])
        /\ waiting' = waiting \ {h} /\ next_handler_id' = next_handler_id
        /\ parked' = parked
    BY <1>2 DEF OnConnectionClose, TypeOK
  <2>2. current_handler_id[descriptor_of[h]] = h
    <3>1. h \in waiting /\ h # None
      BY <1>2, HandlersAssumption DEF OnConnectionClose, Ids, None
    <3> QED BY <3>1 DEF HandlersInv, MapsAgree
  <2> QED BY <2>1, <2>2, DisconnectInv
<1>3. CASE Answered \/ AnsweredEarly
  <2>1. \A h \in handlers \cup DOMAIN descriptor_of \cup parked : h \in Int
    BY HandlersAssumption DEF TypeOK, Ids
  <2>2. /\ UNCHANGED <<descriptor_of, current_handler_id, waiting, parked>>
        /\ handlers \subseteq handlers' /\ handlers' \subseteq handlers \cup {next_handler_id}
        /\ next_handler_id' = next_handler_id + 1 /\ next_handler_id \in Nat
    BY <1>3 DEF Answered, AnsweredEarly, TypeOK
  <2>3. MapsAgree'
    BY <2>2 DEF HandlersInv, MapsAgree
  <2>4. \A h \in handlers' \cup DOMAIN descriptor_of' \cup parked' : h < next_handler_id'
    BY <2>1, <2>2 DEF HandlersInv
  <2> QED BY <2>3, <2>4 DEF HandlersInv
<1>4. CASE UNCHANGED vars
  BY <1>4 DEF vars, HandlersInv, MapsAgree
<1> QED BY <1>1, <1>2, <1>3, <1>4, ParkInv DEF Next

(* The map of handlers, the map of descriptors and the queues agree on     *)
(* which poll is parked where, for any number of queues and requests:      *)
(* no del of clear_handler_by_id or clear_descriptor_by_handler_id raises, *)
(* and on_connection_close disconnects the poll whose connection closed.   *)
THEOREM HandlerMapsAgree == Spec => []MapsAgree
<1>1. Init => HandlersInv
  BY DEF Init, HandlersInv, MapsAgree
<1>2. HandlersInv => MapsAgree
  BY DEF HandlersInv
<1> QED BY <1>1, <1>2, HandlersStep, TypeCorrect, PTL DEF Spec

(* connect_handler and disconnect_handler keep exactly one heartbeat due   *)
(* for each parked poll: no timer outlives its poll.                       *)
THEOREM HeartbeatsFollowPolls == Spec => []OneHeartbeatPerPoll
<1>1. Init => OneHeartbeatPerPoll
  BY DEF Init, OneHeartbeatPerPoll
<1>2. TypeOK /\ OneHeartbeatPerPoll /\ [Next]_vars => OneHeartbeatPerPoll'
  <2> SUFFICES ASSUME TypeOK, OneHeartbeatPerPoll, [Next]_vars
               PROVE  OneHeartbeatPerPoll'
    OBVIOUS
  <2> USE DEF TypeOK, OneHeartbeatPerPoll
  <2>1. ASSUME NEW q \in Queues, FinishCurrentHandler(q) PROVE OneHeartbeatPerPoll'
    BY <2>1 DEF FinishCurrentHandler, DisconnectHandler, TimersLeft
  <2>2. ASSUME NEW q \in Queues, PollParked(q) PROVE OneHeartbeatPerPoll'
    BY <2>2 DEF PollParked, TimersLeft, None
  <2>3. ASSUME NEW q \in Queues, Heartbeat(q) PROVE OneHeartbeatPerPoll'
    BY <2>3 DEF Heartbeat, DisconnectHandler
  <2>4. ASSUME NEW h \in Ids, OnConnectionClose(h) PROVE OneHeartbeatPerPoll'
    <3>1. descriptor_of[h] \in Queues
      BY <2>4 DEF OnConnectionClose
    <3> QED BY <2>4, <3>1 DEF OnConnectionClose, DisconnectHandler
  <2>5. CASE Answered \/ AnsweredEarly \/ UNCHANGED vars
    BY <2>5 DEF Answered, AnsweredEarly, vars
  <2> QED BY <2>1, <2>2, <2>3, <2>4, <2>5
          DEF Next, PollAnswered, AddEvent, CleanupEventQueue
<1> QED BY <1>1, <1>2, TypeCorrect, PTL DEF Spec

(* connect_handler, disconnect_handler and the heartbeats keep the maps,   *)
(* the queues and the timers in agreement on the parked polls.             *)
THEOREM PollsStayInAgreement == Spec => []PollsAgree
<1>1. MapsAgree /\ OneHeartbeatPerPoll => PollsAgree
  BY DEF PollsAgree
<1> QED BY <1>1, HandlerMapsAgree, HeartbeatsFollowPolls, PTL

(* disconnect_handler frees the handler of every poll that it disconnects, *)
(* except id 0: no answered, supplanted or closed poll with another id     *)
(* stays in the map.                                                       *)
THEOREM ParkedPollsAreFreed == Spec => []NoPollLeak
<1>1. Init => NoPollLeak /\ HandlersInv
  BY DEF Init, NoPollLeak, HandlersInv, MapsAgree
<1>2. TypeOK /\ HandlersInv /\ NoPollLeak /\ [Next]_vars => NoPollLeak'
  <2> SUFFICES ASSUME TypeOK, HandlersInv, NoPollLeak, [Next]_vars
               PROVE  NoPollLeak'
    OBVIOUS
  <2>1. None \notin Ids /\ handlers \subseteq Ids
    BY HandlersAssumption DEF Ids, None, TypeOK
  <2>2. ASSUME NEW q \in Queues
        PROVE  \/ current_handler_id[q] \in Cleared(current_handler_id[q])
               \/ current_handler_id[q] \notin handlers
               \/ current_handler_id[q] = 0
    BY <2>1 DEF Cleared
  <2>3. ASSUME NEW q \in Queues, DisconnectHandler(q), parked' = parked,
               waiting' = waiting \ {current_handler_id[q]}
        PROVE  NoPollLeak'
    BY <2>2, <2>3 DEF DisconnectHandler, NoPollLeak
  <2>4. ASSUME NEW q \in Queues, PollParked(q) PROVE NoPollLeak'
    BY <2>2, <2>4 DEF PollParked, NoPollLeak
  <2>5. ASSUME NEW h \in Ids, OnConnectionClose(h) PROVE NoPollLeak'
    <3>1. current_handler_id[descriptor_of[h]] = h /\ descriptor_of[h] \in Queues
      BY <2>1, <2>5 DEF OnConnectionClose, HandlersInv, MapsAgree, TypeOK
    <3> QED BY <2>3, <2>5, <3>1 DEF OnConnectionClose
  <2>6. CASE Answered \/ AnsweredEarly
    <3>1. next_handler_id \notin parked
      BY DEF HandlersInv, TypeOK
    <3> QED BY <2>6, <3>1 DEF Answered, AnsweredEarly, NoPollLeak
  <2>7. CASE UNCHANGED vars
    BY <2>7 DEF vars, NoPollLeak
  <2> QED BY <2>3, <2>4, <2>5, <2>6, <2>7
          DEF Next, PollAnswered, AddEvent, CleanupEventQueue, Heartbeat, FinishCurrentHandler
<1> QED BY <1>1, <1>2, HandlersStep, TypeCorrect, PTL DEF Spec

-----------------------------------------------------------------------------
(* EventQueue.                                                             *)

\* Events by their ids.
DistinctIds(S) == /\ \A e \in S : e.id \in Nat
                  /\ \A d, e \in S : d.id = e.id => d = e

Below(S, e) == {d \in S : d.id < e.id}

\* A list of events goes up, and in the order of their ids.
GoesUp(s) == \A i, j \in DOMAIN s : i < j => s[i].id < s[j].id

\* A nonempty set of naturals has a least one.
LEMMA LeastPlace ==
  ASSUME NEW T \in SUBSET Nat, T # {}
  PROVE  \E n \in T : \A m \in T : n <= m
<1>1. \E n \in T : \A m \in T : ~(<<m, n>> \in OpToRel(<, Nat))
  BY NatLessThanWellFounded, WFMin, Zenon
<1>2. \A m, n \in Nat : <<m, n>> \in OpToRel(<, Nat) <=> m < n
  BY DEF OpToRel
<1>3. \A m, n \in T : ~(m < n) => n <= m
  OBVIOUS
<1> QED BY <1>1, <1>2, <1>3, Zenon

\* How many events are below one tells its place among them.
LEMMA PlacesById ==
  ASSUME NEW S, IsFiniteSet(S), DistinctIds(S)
  PROVE  /\ \A d, e \in S : d.id < e.id => Cardinality(Below(S, d)) < Cardinality(Below(S, e))
         /\ \A e \in S : Cardinality(Below(S, e)) + 1 \in 1 .. Cardinality(S)
         /\ \A k \in 1 .. Cardinality(S) : \E e \in S : Cardinality(Below(S, e)) = k - 1
         /\ Cardinality(S) \in Nat
<1> DEFINE n == Cardinality(S)
           rank(e) == Cardinality(Below(S, e))
           f == [e \in S |-> rank(e) + 1]
           places == {f[e] : e \in S}
<1>1. n \in Nat
  BY FS_CardinalityType
<1>2. ASSUME NEW e \in S PROVE IsFiniteSet(Below(S, e)) /\ rank(e) \in Nat
  <2>1. Below(S, e) \in SUBSET S
    BY DEF Below
  <2> QED BY <2>1, FS_Subset, FS_CardinalityType
<1>3. ASSUME NEW d \in S, NEW e \in S, d.id < e.id PROVE rank(d) < rank(e)
  <2>1. Below(S, d) \cup {d} \in SUBSET Below(S, e) /\ d \notin Below(S, d)
    BY <1>3 DEF Below, DistinctIds
  <2>2. IsFiniteSet(Below(S, d) \cup {d}) /\ Cardinality(Below(S, d) \cup {d}) = rank(d) + 1
    BY <1>2, <2>1, FS_AddElement
  <2>3. rank(d) + 1 <= rank(e)
    BY <1>2, <2>1, <2>2, FS_Subset
  <2> QED BY <1>2, <2>3
<1>4. ASSUME NEW e \in S PROVE rank(e) + 1 \in 1 .. n
  <2>1. Below(S, e) \in SUBSET (S \ {e})
    BY DEF Below, DistinctIds
  <2>2. IsFiniteSet(S \ {e}) /\ Cardinality(S \ {e}) = n - 1
    BY FS_RemoveElement
  <2>3. rank(e) <= n - 1
    BY <2>1, <2>2, FS_Subset
  <2> HIDE DEF rank, n
  <2> QED BY <1>1, <1>2, <2>3
<1>5. places = 1 .. n
  <2>1. f \in Bijection(S, places)
    <3>1. \A d, e \in S : f[d] = f[e] => d = e
      <4> SUFFICES ASSUME NEW d \in S, NEW e \in S, d # e PROVE f[d] # f[e]
        OBVIOUS
      <4>1. d.id < e.id \/ e.id < d.id
        BY DEF DistinctIds
      <4>2. rank(d) < rank(e) \/ rank(e) < rank(d)
        BY <1>3, <4>1
      <4>3. rank(d) \in Nat /\ rank(e) \in Nat
        BY <1>2
      <4> HIDE DEF rank
      <4> QED BY <4>2, <4>3
    <3>2. f \in [S -> places]
      OBVIOUS
    <3> HIDE DEF f
    <3>3. f \in Injection(S, places) /\ f \in Surjection(S, places)
      BY <3>1, <3>2 DEF Injection, IsInjective, Surjection
    <3> QED BY <3>3 DEF Bijection
  <2>2. IsFiniteSet(places) /\ Cardinality(places) = n
    <3> HIDE DEF f, places
    <3> QED BY <2>1, FS_Bijection DEF ExistsBijection
  <2>3. places \in SUBSET (1 .. n)
    BY <1>4
  <2>4. IsFiniteSet(1 .. n) /\ Cardinality(1 .. n) = n
    BY <1>1, FS_Interval
  <2> HIDE DEF n, places
  <2> QED BY <2>2, <2>3, <2>4, FS_Subset
<1>6. ASSUME NEW k \in 1 .. n PROVE \E e \in S : rank(e) = k - 1
  <2>1. PICK e \in S : rank(e) + 1 = k
    BY <1>5
  <2>2. rank(e) \in Nat
    BY <1>2
  <2> HIDE DEF rank
  <2> QED BY <2>1, <2>2
<1> QED BY <1>1, <1>3, <1>4, <1>6

\* What contents emits: every event once, in the order of the ids.
LEMMA EmittedInOrder ==
  ASSUME NEW s, NEW S, IsFiniteSet(S), DistinctIds(S),
         \A d, e \in S : EmittedBefore(s, d, e) <=> d.id < e.id
  PROVE  /\ Emitted(s, S) \in [1 .. Cardinality(S) -> S] /\ Cardinality(S) \in Nat
         /\ ToSet(Emitted(s, S)) = S /\ GoesUp(Emitted(s, S))
<1> DEFINE n == Cardinality(S)
           c == Emitted(s, S)
           rank(e) == Cardinality(Below(S, e))
           before(e) == Cardinality({d \in S : EmittedBefore(s, d, e)})
<1>1. n \in Nat
  BY PlacesById
<1>2. \A e \in S : before(e) = rank(e)
  <2>1. \A e \in S : {d \in S : EmittedBefore(s, d, e)} = Below(S, e)
    BY DEF Below
  <2> QED BY <2>1
<1>3. c = [k \in 1 .. n |-> CHOOSE e \in S : before(e) = k - 1]
  BY DEF Emitted
<1>4. \A k \in 1 .. n : \E e \in S : before(e) = k - 1
  BY <1>2, PlacesById
<1> HIDE DEF rank, before, c
<1>5. \A k \in 1 .. n : c[k] \in S /\ rank(c[k]) = k - 1
  BY <1>2, <1>3, <1>4
<1>6. c \in [1 .. n -> S] /\ DOMAIN c = 1 .. n
  BY <1>3, <1>5
<1>7. \A d, e \in S : d.id < e.id => rank(d) < rank(e)
  BY PlacesById DEF rank
<1>8. ASSUME NEW e \in S PROVE \E k \in 1 .. n : c[k] = e
  <2>1. rank(e) + 1 \in 1 .. n
    BY PlacesById DEF rank
  <2>2. c[rank(e) + 1] \in S /\ rank(c[rank(e) + 1]) = (rank(e) + 1) - 1
    BY <1>5, <2>1
  <2>3. rank(e) \in Nat
    <3>1. Below(S, e) \in SUBSET S
      BY DEF Below
    <3> QED BY <3>1, FS_Subset, FS_CardinalityType DEF rank
  <2> DEFINE d == c[rank(e) + 1]
  <2>4. d \in S /\ rank(d) = rank(e)
    BY <2>2, <2>3
  <2> HIDE DEF d
  <2>5. ~(d.id < e.id) /\ ~(e.id < d.id)
    BY <1>7, <2>3, <2>4
  <2>6. d = e
    BY <2>4, <2>5 DEF DistinctIds
  <2> QED BY <2>1, <2>6 DEF d
<1>9. GoesUp(c)
  <2> SUFFICES ASSUME NEW i \in 1 .. n, NEW j \in 1 .. n, i < j PROVE c[i].id < c[j].id
    BY <1>6 DEF GoesUp
  <2>1. c[i] \in S /\ c[j] \in S /\ rank(c[i]) = i - 1 /\ rank(c[j]) = j - 1
    BY <1>5
  <2>2. c[i] # c[j] /\ ~(rank(c[j]) < rank(c[i]))
    BY <1>1, <2>1
  <2> QED BY <1>7, <2>1, <2>2 DEF DistinctIds
<1>10. ToSet(c) = S
  BY <1>5, <1>6, <1>8 DEF ToSet
<1> QED BY <1>1, <1>6, <1>9, <1>10 DEF c

\* The virtual events have the types they are kept under, and ids of their own, which no client has seen.
VirtualInv ==
  /\ DOMAIN virtual_events \subseteq VirtualTypes
  /\ \A t \in DOMAIN virtual_events :
       /\ virtual_events[t] \in EventRecord /\ virtual_events[t].full = t
       /\ last_event_id < virtual_events[t].id /\ virtual_events[t].id < next_event_id
       /\ \A i \in DOMAIN queue : queue[i].id # virtual_events[t].id
  /\ \A t, u \in DOMAIN virtual_events : virtual_events[t].id = virtual_events[u].id => t = u

\* The deque goes up, by ids that have been given.
DequeInv ==
  /\ queue \in Seq(EventRecord) /\ QueueSorted /\ \A i \in DOMAIN queue : queue[i].id < next_event_id
  /\ next_event_id \in Nat /\ last_event_id \in Int /\ -1 <= last_event_id /\ last_event_id < next_event_id
  /\ VirtualInv

\* Its events have ids of their own.
LEMMA PoolDistinct ==
  ASSUME DequeInv, NEW S \in SUBSET ToSet(queue)
  PROVE  /\ DistinctIds(S \cup Virtual) /\ IsFiniteSet(S \cup Virtual)
         /\ S \cup Virtual \in SUBSET EventRecord /\ \A e \in S \cup Virtual : e.id \in Nat /\ e.id < next_event_id
<1>1. \A e \in ToSet(queue) : \E i \in DOMAIN queue : e = queue[i]
  BY DEF ToSet
<1>2. \A i \in DOMAIN queue : queue[i] \in EventRecord /\ i \in Nat
  BY DEF DequeInv
<1>3. \A e \in EventRecord : e.id \in Nat
  BY DEF EventRecord
<1>4. S \cup Virtual \in SUBSET EventRecord
  BY <1>1, <1>2 DEF DequeInv, VirtualInv, Virtual
<1>5. \A i, j \in DOMAIN queue : queue[i].id = queue[j].id => queue[i] = queue[j]
  <2> SUFFICES ASSUME NEW i \in DOMAIN queue, NEW j \in DOMAIN queue, queue[i].id = queue[j].id PROVE i = j
    OBVIOUS
  <2>1. ~(i < j) /\ ~(j < i)
    BY <1>2, <1>3 DEF DequeInv, QueueSorted
  <2> QED BY <1>2, <2>1
<1>6. DistinctIds(S \cup Virtual)
  <2>1. \A e \in S \cup Virtual : e.id \in Nat
    BY <1>3, <1>4
  <2>2. ASSUME NEW d \in S \cup Virtual, NEW e \in S \cup Virtual, d.id = e.id PROVE d = e
    BY <1>1, <1>5, <2>2 DEF DequeInv, VirtualInv, Virtual
  <2> QED BY <2>1, <2>2 DEF DistinctIds
<1>7. IsFiniteSet(S \cup Virtual)
  <2>1. \A e \in S \cup Virtual : e.id <= next_event_id
    BY <1>1, <1>2, <1>3 DEF DequeInv, VirtualInv, Virtual
  <2> DEFINE f == [e \in S \cup Virtual |-> e.id]
             ids == {e.id : e \in S \cup Virtual}
  <2>2. IsFiniteSet(ids)
    <3>1. ids \in SUBSET Nat /\ \A i \in ids : i <= next_event_id
      BY <2>1, <1>3, <1>4
    <3> QED BY <3>1, FS_BoundedSetOfNaturals DEF DequeInv
  <2>3. f \in Injection(S \cup Virtual, ids)
    BY <1>6 DEF Injection, IsInjective, DistinctIds
  <2> HIDE DEF f, ids
  <2> QED BY <2>2, <2>3, FS_Injection DEF ExistsInjection
<1>8. \A e \in S \cup Virtual : e.id < next_event_id
  BY <1>1 DEF DequeInv, VirtualInv, Virtual
<1> QED BY <1>3, <1>4, <1>6, <1>7, <1>8

\* On a deque that goes up, what is emitted before is of lower id.
LEMMA EmittedById ==
  ASSUME DequeInv, NEW s \in Seq(EventRecord), GoesUp(s), ToSet(s) \in SUBSET ToSet(queue)
  PROVE  \A d, e \in ToSet(s) \cup Virtual : EmittedBefore(s, d, e) <=> d.id < e.id
<1> SUFFICES ASSUME NEW d \in ToSet(s) \cup Virtual, NEW e \in ToSet(s) \cup Virtual
             PROVE  EmittedBefore(s, d, e) <=> d.id < e.id
  OBVIOUS
<1>1. \A i \in DOMAIN s : i \in 1 .. i /\ i \in Nat /\ s[i].id \in Nat
  <2>1. \A i \in DOMAIN s : i \in 1 .. i /\ i \in Nat /\ s[i] \in EventRecord
    OBVIOUS
  <2>2. \A x \in EventRecord : x.id \in Nat
    BY DEF EventRecord
  <2> QED BY <2>1, <2>2
<1>2. \A i, j \in DOMAIN s : j \in 1 .. i => s[j].id <= s[i].id
  BY <1>1 DEF GoesUp
<1>3. \A i \in DOMAIN s : \A j \in 1 .. i : j \in DOMAIN s
  OBVIOUS
<1>4. d.id \in Nat /\ e.id \in Nat /\ (d.id = e.id => d = e)
  BY PoolDistinct DEF DistinctIds
<1>5. ASSUME EmittedBefore(s, d, e) PROVE d.id < e.id
  <2>1. CASE d \in Virtual /\ e \in Virtual /\ d.id < e.id
    BY <2>1
  <2>2. CASE \E i, j \in DOMAIN s : i < j /\ s[i] = d /\ s[j] = e
    BY <2>2 DEF GoesUp
  <2>3. CASE d \in Virtual /\ \E i \in DOMAIN s : s[i] = e /\ \E j \in 1 .. i : d.id < s[j].id
    <3>1. PICK i \in DOMAIN s : s[i] = e /\ \E j \in 1 .. i : d.id < s[j].id
      BY <2>3
    <3>2. PICK j \in 1 .. i : d.id < s[j].id
      BY <3>1
    <3>3. j \in DOMAIN s /\ s[j].id <= e.id /\ s[j].id \in Nat
      BY <1>1, <1>2, <1>3, <3>1, <3>2
    <3> QED BY <1>4, <3>2, <3>3
  <2>4. CASE e \in Virtual /\ \E i \in DOMAIN s : s[i] = d /\ \A j \in 1 .. i : e.id >= s[j].id
    <3>1. PICK i \in DOMAIN s : s[i] = d /\ \A j \in 1 .. i : e.id >= s[j].id
      BY <2>4
    <3>2. e.id >= d.id
      BY <1>1, <3>1
    <3>3. d \in ToSet(queue) /\ d # e
      <4>1. d \in ToSet(queue)
        BY <3>1 DEF ToSet
      <4> QED BY <2>4, <4>1 DEF DequeInv, VirtualInv, Virtual, ToSet
    <3> QED BY <1>4, <3>2, <3>3
  <2> QED BY <1>5, <2>1, <2>2, <2>3, <2>4 DEF EmittedBefore
<1>6. ASSUME d.id < e.id PROVE EmittedBefore(s, d, e)
  <2>1. CASE d \in Virtual /\ e \in Virtual
    BY <1>6, <2>1 DEF EmittedBefore
  <2>2. CASE d \in ToSet(s) /\ e \in ToSet(s)
    <3>1. PICK i, j \in DOMAIN s : d = s[i] /\ e = s[j]
      BY <2>2 DEF ToSet
    <3>2. i < j
      <4>1. CASE j < i
        BY <1>4, <1>6, <3>1, <4>1 DEF GoesUp
      <4>2. CASE i = j
        BY <1>4, <1>6, <3>1, <4>2
      <4> QED BY <1>1, <4>1, <4>2
    <3> QED BY <3>1, <3>2 DEF EmittedBefore
  <2>3. CASE d \in Virtual /\ e \in ToSet(s)
    <3>1. PICK i \in DOMAIN s : e = s[i]
      BY <2>3 DEF ToSet
    <3> QED BY <1>1, <1>6, <2>3, <3>1 DEF EmittedBefore
  <2>4. CASE d \in ToSet(s) /\ e \in Virtual
    <3>1. PICK i \in DOMAIN s : d = s[i]
      BY <2>4 DEF ToSet
    <3>2. \A j \in 1 .. i : e.id >= s[j].id
      <4> SUFFICES ASSUME NEW j \in 1 .. i PROVE e.id >= s[j].id
        OBVIOUS
      <4>1. j \in DOMAIN s /\ s[j].id <= d.id /\ s[j].id \in Nat
        BY <1>1, <1>2, <1>3, <3>1
      <4> QED BY <1>4, <1>6, <4>1
    <3> QED BY <2>4, <3>1, <3>2 DEF EmittedBefore
  <2> QED BY <2>1, <2>2, <2>3, <2>4
<1> QED BY <1>5, <1>6

\* prune leaves the events above the id, in their order.
LEMMA PrunedQueue ==
  ASSUME DequeInv, NEW through \in Int
  PROVE  /\ Pruned(through) \in Seq(EventRecord) /\ GoesUp(Pruned(through))
         /\ ToSet(Pruned(through)) = {e \in ToSet(queue) : e.id > through}
<1> DEFINE n == Len(queue)
           kept == {i \in 1 .. n + 1 : /\ i <= n => queue[i].id > through
                                       /\ \A j \in 1 .. i - 1 : queue[j].id <= through}
           above == {i \in 1 .. n + 1 : i <= n => queue[i].id > through}
           first == CHOOSE i \in kept : TRUE
           c == SubSeq(queue, first, n)
<1>1. n \in Nat /\ DOMAIN queue = 1 .. n /\ \A i \in 1 .. n : queue[i] \in EventRecord /\ queue[i].id \in Nat
  <2>1. n \in Nat /\ DOMAIN queue = 1 .. n /\ \A i \in 1 .. n : queue[i] \in EventRecord
    BY DEF DequeInv
  <2>2. \A x \in EventRecord : x.id \in Nat
    BY DEF EventRecord
  <2> QED BY <2>1, <2>2
<1>2. \A i, j \in 1 .. n : i < j => queue[i].id < queue[j].id
  BY <1>1 DEF DequeInv, QueueSorted
<1>3. kept # {}
  <2>1. above \in SUBSET Nat /\ n + 1 \in above
    BY <1>1
  <2>2. PICK i \in above : \A m \in above : i <= m
    BY <2>1, LeastPlace
  <2>3. \A j \in 1 .. i - 1 : queue[j].id <= through
    <3> SUFFICES ASSUME NEW j \in 1 .. i - 1 PROVE queue[j].id <= through
      OBVIOUS
    <3>1. j \in 1 .. n + 1 /\ ~(i <= j) /\ j \in 1 .. n
      BY <1>1, <2>2
    <3>2. j \notin above
      BY <2>2, <3>1
    <3> QED BY <1>1, <3>1, <3>2
  <2> QED BY <2>2, <2>3
<1>4. first \in kept
  BY <1>3
<1>5. Pruned(through) = c
  BY DEF Pruned
<1> HIDE DEF first
<1>6. /\ first \in 1 .. n + 1 /\ (first <= n => queue[first].id > through)
      /\ \A j \in 1 .. first - 1 : queue[j].id <= through
  BY <1>4
<1> HIDE DEF kept, above
<1>7. c \in Seq(EventRecord) /\ Len(c) = n - first + 1 /\ \A k \in 1 .. n - first + 1 : c[k] = queue[first + k - 1]
  <2>1. c \in Seq(EventRecord) /\ Len(c) = n - first + 1
    BY <1>1, <1>6 DEF DequeInv
  <2>2. \A k \in 1 .. n - first + 1 : c[k] = queue[first + k - 1]
    BY <1>1, <1>6 DEF DequeInv
  <2> QED BY <2>1, <2>2
<1> HIDE DEF c
<1>8. DOMAIN c = 1 .. n - first + 1
  BY <1>7
<1>9. GoesUp(c)
  <2> SUFFICES ASSUME NEW i \in 1 .. n - first + 1, NEW j \in 1 .. n - first + 1, i < j PROVE c[i].id < c[j].id
    BY <1>8 DEF GoesUp
  <2>1. first + i - 1 \in 1 .. n /\ first + j - 1 \in 1 .. n /\ first + i - 1 < first + j - 1
    BY <1>1, <1>6
  <2> QED BY <1>2, <1>7, <2>1
<1>10. ASSUME NEW e \in ToSet(c) PROVE e \in ToSet(queue) /\ e.id > through
  <2>1. PICK k \in 1 .. n - first + 1 : e = c[k]
    BY <1>8 DEF ToSet
  <2>2. first + k - 1 \in 1 .. n /\ e = queue[first + k - 1] /\ first <= n /\ first \in 1 .. n
    BY <1>1, <1>6, <1>7, <2>1
  <2>3. first + k - 1 = first \/ first < first + k - 1
    BY <1>6, <2>1
  <2>4. queue[first].id <= e.id
    BY <1>1, <1>2, <2>2, <2>3
  <2>5. queue[first].id > through /\ queue[first].id \in Nat /\ e.id \in Nat
    BY <1>1, <1>6, <2>2
  <2>6. e \in ToSet(queue)
    BY <1>1, <2>2 DEF ToSet
  <2> QED BY <2>4, <2>5, <2>6
<1>11. ASSUME NEW e \in ToSet(queue), e.id > through PROVE e \in ToSet(c)
  <2>1. PICK i \in 1 .. n : e = queue[i]
    BY <1>1 DEF ToSet
  <2>2. ~(i \in 1 .. first - 1)
    <3> SUFFICES ASSUME i \in 1 .. first - 1 PROVE FALSE
      OBVIOUS
    <3>1. queue[i].id <= through /\ queue[i].id \in Nat
      BY <1>1, <1>6, <2>1
    <3> QED BY <1>11, <2>1, <3>1
  <2>3. i - first + 1 \in 1 .. n - first + 1 /\ first + (i - first + 1) - 1 = i
    BY <1>1, <1>6, <2>1, <2>2
  <2>4. c[i - first + 1] = e
    BY <1>7, <2>1, <2>3
  <2> QED BY <1>8, <2>3, <2>4 DEF ToSet
<1> QED BY <1>5, <1>7, <1>9, <1>10, <1>11

\* A poll's contents: what is above the id, and the virtual events, in the order of the ids.
LEMMA ContentsOfPoll ==
  ASSUME DequeInv, NEW through \in Int
  PROVE  LET c == Merged(Pruned(through))
         IN  /\ c \in Seq(EventRecord) /\ GoesUp(c)
             /\ ToSet(c) = {e \in ToSet(queue) : e.id > through} \cup Virtual
             /\ DistinctIds(ToSet(c)) /\ \A e \in ToSet(c) : e.id \in Nat /\ e.id < next_event_id
<1> DEFINE s == Pruned(through)
           S == ToSet(s) \cup Virtual
           c == Merged(s)
<1>1. s \in Seq(EventRecord) /\ GoesUp(s) /\ ToSet(s) = {e \in ToSet(queue) : e.id > through}
  BY PrunedQueue
<1> HIDE DEF s
<1>2. \A d, e \in S : EmittedBefore(s, d, e) <=> d.id < e.id
  BY <1>1, EmittedById
<1>3. DistinctIds(S) /\ IsFiniteSet(S) /\ S \in SUBSET EventRecord /\ \A e \in S : e.id \in Nat /\ e.id < next_event_id
  BY <1>1, PoolDistinct
<1>4. c = Emitted(s, S)
  BY DEF Merged
<1> HIDE DEF c, S
<1>5. c \in [1 .. Cardinality(S) -> S] /\ Cardinality(S) \in Nat /\ ToSet(c) = S /\ GoesUp(c)
  BY <1>2, <1>3, <1>4, EmittedInOrder
<1>6. c \in Seq(EventRecord)
  BY <1>3, <1>5
<1> QED BY <1>1, <1>3, <1>5, <1>6 DEF c, S, s

\* The events that the client has not seen.
Unseen == {e \in ToSet(queue) : e.id > last_event_id} \cup Virtual

\* The pointer that all events amount to is that of the youngest unseen pointer event, or the one shown.
PointerInv ==
  /\ (\A e \in Unseen : e.full # "pointer") => truth.pointer = shown.pointer
  /\ \A e \in Unseen :
       e.full = "pointer" /\ (\A d \in Unseen : d.full = "pointer" => d.id <= e.id)
         => truth.pointer = e.data[1]

\* A push leaves the deque in order and gives the event, or what it is coalesced with, the next id.
LEMMA PushKeepsOrder ==
  ASSUME DequeInv, NEW full \in PlainTypes \cup VirtualTypes, NEW data \in Seq(Messages \cup Pointers),
         Push(full, data), UNCHANGED last_event_id
  PROVE  /\ DequeInv'
         /\ \E v \in EventRecord :
              /\ v.id = next_event_id /\ v.full = full
              /\ full \notin FlagTypes => v.data = data
              /\ Unseen' = {e \in Unseen : ~(e \in Virtual /\ e.full = full)} \cup {v}
<1> DEFINE event  == [id |-> next_event_id, full |-> full, data |-> data,
                      carries |-> {next_event_id}]
           merged == [id |-> next_event_id, full |-> full,
                      data |-> IF full \in FlagTypes
                               THEN virtual_events[full].data \o data ELSE data,
                      carries |-> virtual_events[full].carries \cup {next_event_id}]
           put(e) == [t \in DOMAIN virtual_events \cup {full} |->
                        IF t = full THEN e ELSE virtual_events[t]]
<1>1. next_event_id \in Nat /\ next_event_id' = next_event_id + 1 /\ last_event_id' = last_event_id
  BY DEF Push, DequeInv
<1>2. event \in EventRecord /\ event.id = next_event_id /\ event.full = full /\ event.data = data
  BY <1>1 DEF EventRecord
<1>3. full \in DOMAIN virtual_events =>
        /\ merged \in EventRecord /\ merged.id = next_event_id /\ merged.full = full
        /\ full \notin FlagTypes => merged.data = data
  <2> SUFFICES ASSUME full \in DOMAIN virtual_events
               PROVE  /\ merged \in EventRecord /\ merged.id = next_event_id /\ merged.full = full
                      /\ full \notin FlagTypes => merged.data = data
    OBVIOUS
  <2>1. virtual_events[full].data \in Seq(Messages \cup Pointers) /\ virtual_events[full].carries \in SUBSET Nat
    BY DEF DequeInv, VirtualInv, EventRecord
  <2>2. virtual_events[full].data \o data \in Seq(Messages \cup Pointers)
    BY <2>1
  <2> QED BY <1>1, <2>1, <2>2 DEF EventRecord
<1>4. CASE full \notin VirtualTypes
  <2>1. queue' = Append(queue, event) /\ virtual_events' = virtual_events
    BY <1>4 DEF Push
  <2> HIDE DEF event, merged, put
  <2>2. queue \in Seq(EventRecord) /\ queue' \in Seq(EventRecord)
    BY <1>2, <2>1 DEF DequeInv
  <2>3. /\ DOMAIN queue = 1 .. Len(queue) /\ DOMAIN queue' = 1 .. Len(queue) + 1 /\ Len(queue) \in Nat
        /\ \A i \in 1 .. Len(queue) : queue'[i] = queue[i]
        /\ queue'[Len(queue) + 1] = event
    BY <2>1, <2>2
  <2>4. \A i \in DOMAIN queue : queue[i].id < next_event_id /\ queue[i].id \in Nat
    <3>1. \A i \in DOMAIN queue : queue[i] \in EventRecord
      BY <2>2
    <3> QED BY <3>1 DEF DequeInv, EventRecord
  <2>5. QueueSorted'
    <3> SUFFICES ASSUME NEW i \in DOMAIN queue', NEW j \in DOMAIN queue', i < j
                 PROVE  queue'[i].id < queue'[j].id
      BY DEF QueueSorted
    <3>1. i \in DOMAIN queue
      BY <2>3
    <3>2. CASE j \in DOMAIN queue
      BY <2>3, <3>1, <3>2 DEF DequeInv, QueueSorted
    <3>3. CASE j = Len(queue) + 1
      BY <1>2, <2>3, <2>4, <3>1, <3>3
    <3> QED BY <2>3, <3>2, <3>3
  <2>6. \A i \in DOMAIN queue' : queue'[i].id < next_event_id'
    BY <1>1, <1>2, <2>3, <2>4
  <2>7. VirtualInv'
    <3>1. \A t \in DOMAIN virtual_events : virtual_events[t].id \in Nat
      BY DEF DequeInv, VirtualInv, EventRecord
    <3> QED BY <1>1, <1>2, <2>1, <2>3, <3>1 DEF DequeInv, VirtualInv
  <2>8. DequeInv'
    BY <1>1, <2>2, <2>5, <2>6, <2>7 DEF DequeInv
  <2>9. ToSet(queue') = ToSet(queue) \cup {event} /\ Virtual' = Virtual
    BY <2>1, <2>3 DEF ToSet, Virtual
  <2>10. \A e \in Virtual : e.full # full
    BY <1>4 DEF Virtual, DequeInv, VirtualInv
  <2>11. event.id > last_event_id
    BY <1>2 DEF DequeInv
  <2>12. Unseen' = {e \in Unseen : ~(e \in Virtual /\ e.full = full)} \cup {event}
    BY <1>1, <2>9, <2>10, <2>11 DEF Unseen
  <2> QED BY <1>2, <2>8, <2>12
<1>5. ASSUME NEW v \in EventRecord, v.id = next_event_id, v.full = full, full \in VirtualTypes,
             full \notin FlagTypes => v.data = data,
             queue' = queue, virtual_events' = put(v)
      PROVE  /\ DequeInv'
             /\ Unseen' = {e \in Unseen : ~(e \in Virtual /\ e.full = full)} \cup {v}
  <2>1. /\ DOMAIN virtual_events' = DOMAIN virtual_events \cup {full} /\ virtual_events'[full] = v
        /\ \A t \in DOMAIN virtual_events : t # full => virtual_events'[t] = virtual_events[t]
    BY <1>5
  <2> HIDE DEF event, merged, put
  <2>2. \A t \in DOMAIN virtual_events : virtual_events[t].id \in Nat
    BY DEF DequeInv, VirtualInv, EventRecord
  <2>3. \A i \in DOMAIN queue : queue[i].id < next_event_id /\ queue[i].id \in Nat
    <3>1. \A i \in DOMAIN queue : queue[i] \in EventRecord
      BY DEF DequeInv
    <3> QED BY <3>1 DEF DequeInv, EventRecord
  <2>4. VirtualInv'
    <3>1. DOMAIN virtual_events' \subseteq VirtualTypes
      BY <1>5, <2>1 DEF DequeInv, VirtualInv
    <3>2. ASSUME NEW t \in DOMAIN virtual_events'
          PROVE  /\ virtual_events'[t] \in EventRecord /\ virtual_events'[t].full = t
                 /\ last_event_id' < virtual_events'[t].id /\ virtual_events'[t].id < next_event_id'
                 /\ \A i \in DOMAIN queue' : queue'[i].id # virtual_events'[t].id
      <4>1. CASE t = full
        BY <1>1, <1>5, <2>1, <2>3, <4>1 DEF DequeInv
      <4>2. CASE t # full
        BY <1>1, <1>5, <2>1, <2>2, <4>2 DEF DequeInv, VirtualInv
      <4> QED BY <4>1, <4>2
    <3>3. ASSUME NEW t \in DOMAIN virtual_events', NEW u \in DOMAIN virtual_events',
                 virtual_events'[t].id = virtual_events'[u].id
          PROVE  t = u
      BY <1>1, <1>5, <2>1, <2>2, <3>3 DEF DequeInv, VirtualInv
    <3> QED BY <3>1, <3>2, <3>3 DEF VirtualInv
  <2>5. DequeInv'
    <3>1. \A i \in DOMAIN queue' : queue'[i].id < next_event_id'
      BY <1>1, <1>5, <2>3
    <3>2. QueueSorted'
      BY <1>5 DEF DequeInv, QueueSorted
    <3> QED BY <1>1, <1>5, <2>4, <3>1, <3>2 DEF DequeInv
  <2>6. Virtual' = {e \in Virtual : e.full # full} \cup {v}
    BY <2>1 DEF Virtual, DequeInv, VirtualInv
  <2>7. \A e \in ToSet(queue) : e \notin Virtual
    BY DEF Virtual, DequeInv, VirtualInv, ToSet
  <2>8. Unseen' = {e \in Unseen : ~(e \in Virtual /\ e.full = full)} \cup {v}
    BY <1>1, <1>5, <2>6, <2>7 DEF Unseen
  <2> QED BY <2>5, <2>8
<1>6. CASE full \in VirtualTypes \ DOMAIN virtual_events
  <2>1. queue' = queue /\ virtual_events' = put(event)
    BY <1>6 DEF Push
  <2> QED BY <1>2, <1>5, <1>6, <2>1
<1>7. CASE full \in VirtualTypes \cap DOMAIN virtual_events
  <2>1. queue' = queue /\ virtual_events' = put(merged)
    BY <1>7 DEF Push
  <2> HIDE DEF merged, put
  <2> QED BY <1>3, <1>5, <1>7, <2>1
<1> QED BY <1>4, <1>6, <1>7

\* A poll leaves the deque in order; if its answer arrives, nothing is unseen.
LEMMA FetchKeepsOrder ==
  ASSUME DequeInv, Fetch
  PROVE  /\ DequeInv'
         /\ \/ UNCHANGED <<shown, last_event_id>> /\ Unseen' = Unseen
            \/ shown' = Applied(shown, Merged(Pruned(last_event_id))) /\ Unseen' = {}
         /\ UNCHANGED truth
<1> DEFINE c == Merged(Pruned(last_event_id))
<1>1. /\ c \in Seq(EventRecord) /\ GoesUp(c) /\ ToSet(c) = Unseen
      /\ \A e \in ToSet(c) : e.id \in Nat /\ e.id < next_event_id
  BY ContentsOfPoll DEF DequeInv, Unseen
<1>2. /\ queue' = c /\ virtual_events' = <<>> /\ next_event_id' = next_event_id
      /\ \/ last_event_id' = IF c = <<>> THEN last_event_id ELSE c[Len(c)].id
         \/ last_event_id' = last_event_id
      /\ \/ shown' = Applied(shown, c) /\ last_event_id' = IF c = <<>> THEN last_event_id ELSE c[Len(c)].id
         \/ UNCHANGED <<shown, last_event_id>>
  BY DEF Fetch
<1> HIDE DEF c
<1>3. DOMAIN c = 1 .. Len(c) /\ Len(c) \in Nat /\ (c = <<>> <=> Len(c) = 0) /\ \A i \in DOMAIN c : c[i] \in ToSet(c)
  BY <1>1 DEF ToSet
<1>4. \A i \in DOMAIN c : c[i].id \in Nat /\ c[i].id < next_event_id
  BY <1>1, <1>3
<1>5. DOMAIN virtual_events' = {} /\ Virtual' = {}
  BY <1>2 DEF Virtual
<1>6. VirtualInv'
  BY <1>5 DEF VirtualInv
<1>7. QueueSorted'
  BY <1>1, <1>2 DEF GoesUp, QueueSorted
<1>8. /\ last_event_id' \in Int /\ -1 <= last_event_id' /\ last_event_id' < next_event_id'
      /\ last_event_id' = last_event_id \/ (c # <<>> /\ last_event_id' = c[Len(c)].id)
  <2>1. CASE last_event_id' = last_event_id
    BY <1>2, <2>1 DEF DequeInv
  <2>2. CASE c # <<>> /\ last_event_id' = c[Len(c)].id
    <3>1. Len(c) \in DOMAIN c
      BY <1>3, <2>2
    <3>2. c[Len(c)].id \in Nat /\ c[Len(c)].id < next_event_id
      BY <1>4, <3>1
    <3> QED BY <1>2, <2>2, <3>2
  <2> QED BY <1>2, <2>1, <2>2
<1>9. DequeInv'
  <2>1. \A i \in DOMAIN queue' : queue'[i].id < next_event_id'
    BY <1>2, <1>4
  <2>2. queue' \in Seq(EventRecord) /\ next_event_id' \in Nat
    BY <1>1, <1>2 DEF DequeInv
  <2> QED BY <1>6, <1>7, <1>8, <2>1, <2>2 DEF DequeInv
<1>10. Unseen' = {e \in ToSet(c) : e.id > last_event_id'}
  BY <1>2, <1>5 DEF Unseen
<1>11. \A e \in Unseen : e.id > last_event_id
  BY DEF Unseen, Virtual, DequeInv, VirtualInv
<1>12. UNCHANGED last_event_id => Unseen' = Unseen
  BY <1>1, <1>10, <1>11
<1>13. ASSUME last_event_id' = IF c = <<>> THEN last_event_id ELSE c[Len(c)].id PROVE Unseen' = {}
  <2>1. CASE c = <<>>
    BY <1>10, <2>1 DEF ToSet
  <2>2. CASE c # <<>>
    <3>1. last_event_id' = c[Len(c)].id /\ Len(c) \in DOMAIN c
      BY <1>3, <1>13, <2>2
    <3>2. ASSUME NEW e \in ToSet(c) PROVE e.id <= c[Len(c)].id
      <4>1. PICK i \in DOMAIN c : e = c[i]
        BY DEF ToSet
      <4>2. i = Len(c) \/ i < Len(c)
        BY <1>3
      <4> QED BY <1>1, <1>4, <3>1, <4>1, <4>2 DEF GoesUp
    <3>3. c[Len(c)].id \in Nat /\ \A e \in ToSet(c) : e.id \in Nat
      BY <1>1, <1>4, <3>1
    <3> QED BY <1>10, <3>1, <3>2, <3>3
  <2> QED BY <2>1, <2>2
<1>14. \/ UNCHANGED <<shown, last_event_id>> /\ Unseen' = Unseen
       \/ shown' = Applied(shown, c) /\ Unseen' = {}
  BY <1>2, <1>12, <1>13
<1>15. UNCHANGED truth
  BY DEF Fetch
<1> QED BY <1>9, <1>14, <1>15 DEF c

\* Applying a list that goes up sets the pointer to that of its youngest pointer event.
LEMMA PointerApplied ==
  ASSUME NEW c \in Seq(EventRecord), GoesUp(c), NEW st
  PROVE  /\ (\A e \in ToSet(c) : e.full # "pointer") => Applied(st, c).pointer = st.pointer
         /\ \A e \in ToSet(c) : e.full = "pointer" =>
              \E f \in ToSet(c) : /\ f.full = "pointer" /\ Applied(st, c).pointer = f.data[1]
                                  /\ \A d \in ToSet(c) : d.full = "pointer" => d.id <= f.id
<1> DEFINE P == Pointing(c)
           k == LastPlace(P)
<1>1. DOMAIN c = 1 .. Len(c) /\ Len(c) \in Nat /\ P = {i \in DOMAIN c : c[i].full = "pointer"}
  BY DEF Pointing
<1>2. Applied(st, c).pointer = IF P = {} THEN st.pointer ELSE c[k].data[1]
  BY DEF Applied
<1>3. P # {} => k \in P /\ \A j \in P : j <= k
  <2> SUFFICES ASSUME P # {} PROVE \E i \in P : \A j \in P : j <= i
    BY DEF LastPlace
  <2> DEFINE n == Len(c)
             T == {n - i : i \in P}
  <2>1. P \in SUBSET (1 .. n) /\ n \in Nat /\ P # {}
    BY <1>1
  <2> HIDE DEF n, P
  <2>2. T \in SUBSET Nat /\ T # {}
    <3>1. \A i \in P : n - i \in Nat
      BY <2>1
    <3> QED BY <2>1, <3>1
  <2>3. PICK m \in T : \A l \in T : m <= l
    BY <2>2, LeastPlace
  <2>4. PICK i \in P : m = n - i
    BY <2>3
  <2>5. ASSUME NEW j \in P PROVE j <= i
    <3>1. m <= n - j
      BY <2>3
    <3> QED BY <2>1, <2>4, <3>1
  <2> QED BY <2>5
<1> HIDE DEF k, P
<1>4. \A x \in EventRecord : x.id \in Nat
  BY DEF EventRecord
<1>5. \A i \in DOMAIN c : c[i].id \in Nat
  <2>1. \A i \in DOMAIN c : c[i] \in EventRecord
    OBVIOUS
  <2> QED BY <1>4, <2>1
<1>6. CASE P = {}
  <2>1. \A e \in ToSet(c) : e.full # "pointer"
    BY <1>1, <1>6 DEF ToSet
  <2> QED BY <1>2, <1>6, <2>1
<1>7. CASE P # {}
  <2>1. k \in DOMAIN c /\ c[k] \in ToSet(c) /\ c[k].full = "pointer"
    BY <1>1, <1>3, <1>7 DEF ToSet
  <2>2. ASSUME NEW d \in ToSet(c), d.full = "pointer" PROVE d.id <= c[k].id
    <3>1. PICK i \in DOMAIN c : d = c[i]
      BY DEF ToSet
    <3>2. i \in P /\ (i = k \/ i < k)
      BY <1>1, <1>3, <1>7, <2>1, <2>2, <3>1
    <3> QED BY <1>5, <2>1, <3>1, <3>2 DEF GoesUp
  <2>3. Applied(st, c).pointer = c[k].data[1]
    BY <1>2, <1>7
  <2> QED BY <2>1, <2>2, <2>3
<1> QED BY <1>6, <1>7

\* So what is unseen, applied to what is shown, gives the true pointer.
LEMMA UnseenPointer ==
  ASSUME PointerInv, NEW c \in Seq(EventRecord), GoesUp(c), ToSet(c) = Unseen
  PROVE  Applied(shown, c).pointer = truth.pointer
<1>1. CASE \A e \in Unseen : e.full # "pointer"
  BY <1>1, PointerApplied DEF PointerInv
<1>2. CASE \E e \in Unseen : e.full = "pointer"
  <2>1. PICK f \in ToSet(c) : /\ f.full = "pointer" /\ Applied(shown, c).pointer = f.data[1]
                              /\ \A d \in ToSet(c) : d.full = "pointer" => d.id <= f.id
    BY <1>2, PointerApplied
  <2> QED BY <2>1 DEF PointerInv
<1> QED BY <1>1, <1>2

\* An event of its own, applied to the truth.
LEMMA OneApplied ==
  ASSUME NEW full, NEW data, NEW st
  PROVE  Applied(st, <<[full |-> full, data |-> data]>>).pointer
           = IF full = "pointer" THEN data[1] ELSE st.pointer
<1> DEFINE c == <<[full |-> full, data |-> data]>>
<1>1. DOMAIN c = {1} /\ c[1].full = full /\ c[1].data = data
  OBVIOUS
<1>2. Applied(st, c).pointer = IF Pointing(c) = {} THEN st.pointer ELSE c[LastPlace(Pointing(c))].data[1]
  BY DEF Applied
<1> HIDE DEF c
<1>3. Pointing(c) = IF full = "pointer" THEN {1} ELSE {}
  BY <1>1 DEF Pointing
<1>4. LastPlace({1}) = 1
  BY DEF LastPlace
<1> QED BY <1>1, <1>2, <1>3, <1>4 DEF c

\* Every event pushed is one that push knows.
LEMMA ChangesPush ==
  ASSUME DequeInv, UpdatePointer \/ UpdateMessageFlags \/ UpdateAllFlags \/ OtherEvent
  PROVE  \E full \in PlainTypes \cup VirtualTypes, data \in Seq(Messages \cup Pointers) : Change(full, data)
<1>1. \A p \in Pointers : <<p>> \in Seq(Messages \cup Pointers)
  OBVIOUS
<1>2. \A m \in Messages : <<m>> \in Seq(Messages \cup Pointers)
  OBVIOUS
<1>3. <<>> \in Seq(Messages \cup Pointers)
  OBVIOUS
<1>4. {"pointer", "message", "restart"} \cup FlagTypes \cup AllFlagTypes \subseteq PlainTypes \cup VirtualTypes
  BY DEF PlainTypes, VirtualTypes
<1>5. CASE UpdatePointer
  BY <1>1, <1>4, <1>5 DEF UpdatePointer
<1>6. CASE UpdateMessageFlags
  BY <1>2, <1>4, <1>6 DEF UpdateMessageFlags
<1>7. CASE UpdateAllFlags
  BY <1>3, <1>4, <1>7 DEF UpdateAllFlags
<1>8. CASE OtherEvent
  BY <1>3, <1>4, <1>8 DEF OtherEvent
<1> QED BY <1>5, <1>6, <1>7, <1>8

\* The invariant holds at first and every step keeps it.
LEMMA DequeInvInit == DequeInit => DequeInv /\ PointerInv
<1> SUFFICES ASSUME DequeInit PROVE DequeInv /\ PointerInv
  OBVIOUS
<1>1. queue = <<>> /\ virtual_events = <<>> /\ next_event_id = 0 /\ last_event_id = -1 /\ shown = truth
  BY DEF DequeInit
<1>2. DOMAIN queue = {} /\ DOMAIN virtual_events = {} /\ Unseen = {}
  BY <1>1 DEF Unseen, Virtual, ToSet
<1>3. DequeInv
  BY <1>1, <1>2 DEF DequeInv, VirtualInv, QueueSorted
<1> QED BY <1>1, <1>2, <1>3 DEF PointerInv

LEMMA DequeInvStep == DequeInv /\ PointerInv /\ [DequeNext]_dequeVars => DequeInv' /\ PointerInv'
<1> SUFFICES ASSUME DequeInv, PointerInv, [DequeNext]_dequeVars PROVE DequeInv' /\ PointerInv'
  OBVIOUS
<1>1. ASSUME NEW full \in PlainTypes \cup VirtualTypes, NEW data \in Seq(Messages \cup Pointers),
             Change(full, data)
      PROVE  DequeInv' /\ PointerInv'
  <2>1. /\ Push(full, data) /\ UNCHANGED last_event_id /\ shown' = shown
        /\ truth' = Applied(truth, <<[full |-> full, data |-> data]>>)
    BY <1>1 DEF Change
  <2>2. truth'.pointer = IF full = "pointer" THEN data[1] ELSE truth.pointer
    BY <2>1, OneApplied
  <2>3. DequeInv'
    BY <2>1, PushKeepsOrder
  <2>4. PICK v \in EventRecord :
          /\ v.id = next_event_id /\ v.full = full
          /\ full \notin FlagTypes => v.data = data
          /\ Unseen' = {e \in Unseen : ~(e \in Virtual /\ e.full = full)} \cup {v}
    BY <2>1, PushKeepsOrder
  <2>5. \A e \in Unseen : e.id < next_event_id /\ e.id \in Nat
    BY PoolDistinct DEF Unseen
  <2>6. CASE full = "pointer"
    <3>1. truth'.pointer = v.data[1] /\ v \in Unseen' /\ v.full = "pointer"
      BY <2>2, <2>4, <2>6 DEF FlagTypes
    <3>2. \A e \in Unseen' : e # v => e.id < v.id /\ e.id \in Nat
      BY <2>4, <2>5
    <3>3. v.id \in Nat
      BY <2>4 DEF DequeInv
    <3>4. ASSUME NEW e \in Unseen', \A d \in Unseen' : d.full = "pointer" => d.id <= e.id
          PROVE  e = v
      BY <3>1, <3>2, <3>3, <3>4
    <3> QED BY <2>3, <3>1, <3>4 DEF PointerInv
  <2>7. CASE full # "pointer"
    <3>1. truth'.pointer = truth.pointer /\ shown'.pointer = shown.pointer
      BY <2>1, <2>2, <2>7
    <3>2. \A e : e.full = "pointer" => (e \in Unseen' <=> e \in Unseen)
      BY <2>4, <2>7
    <3> QED BY <2>3, <3>1, <3>2 DEF PointerInv
  <2> QED BY <2>6, <2>7
<1>2. CASE Fetch
  <2> DEFINE c == Merged(Pruned(last_event_id))
  <2>1. /\ DequeInv' /\ UNCHANGED truth
        /\ \/ UNCHANGED <<shown, last_event_id>> /\ Unseen' = Unseen
           \/ shown' = Applied(shown, c) /\ Unseen' = {}
    BY <1>2, FetchKeepsOrder
  <2>2. Applied(shown, c).pointer = truth.pointer
    <3>1. c \in Seq(EventRecord) /\ GoesUp(c) /\ ToSet(c) = Unseen
      BY ContentsOfPoll DEF DequeInv, Unseen
    <3> HIDE DEF c
    <3> QED BY <3>1, UnseenPointer
  <2> HIDE DEF c
  <2>3. CASE UNCHANGED <<shown, last_event_id>> /\ Unseen' = Unseen
    BY <2>1, <2>3 DEF PointerInv
  <2>4. CASE shown' = Applied(shown, c) /\ Unseen' = {}
    BY <2>1, <2>2, <2>4 DEF PointerInv
  <2> QED BY <2>1, <2>3, <2>4
<1>3. CASE UNCHANGED dequeVars
  <2>1. DequeInv'
    BY <1>3 DEF dequeVars, DequeInv, VirtualInv, QueueSorted
  <2>2. Unseen' = Unseen
    BY <1>3 DEF dequeVars, Unseen, Virtual, ToSet
  <2> QED BY <1>3, <2>1, <2>2 DEF dequeVars, PointerInv
<1>4. CASE DequeNext
  <2>1. CASE Fetch
    BY <1>2, <2>1
  <2>2. CASE ~Fetch
    <3>1. \E full \in PlainTypes \cup VirtualTypes, data \in Seq(Messages \cup Pointers) : Change(full, data)
      BY <1>4, <2>2, ChangesPush DEF DequeNext
    <3> QED BY <1>1, <3>1
  <2> QED BY <2>1, <2>2
<1> QED BY <1>3, <1>4

\* A client that applies what is pending shows the pointer it would show
\* had no event been coalesced.
THEOREM PointerDoesConverge == DequeSpec => []PointerConverges
<1>1. ASSUME DequeInv, PointerInv PROVE PointerConverges
  <2> DEFINE c == Merged(Pruned(last_event_id))
  <2>1. c \in Seq(EventRecord) /\ GoesUp(c) /\ ToSet(c) = Unseen
    BY <1>1, ContentsOfPoll DEF DequeInv, Unseen
  <2>2. Replayed = Applied(shown, c)
    BY DEF Replayed, Pending
  <2> HIDE DEF c
  <2> QED BY <1>1, <2>1, <2>2, UnseenPointer DEF PointerConverges
<1> QED BY <1>1, DequeInvInit, DequeInvStep, PTL DEF DequeSpec

\* The id-level queue that the deque and the dict stand for.
EqView == [queue          |-> {IdView(e) : e \in ToSet(queue)},
           virtual_events |-> {IdView(virtual_events[t]) : t \in DOMAIN virtual_events},
           next_event_id  |-> next_event_id]

\* A push of the deque is a push of the id-level queue.
LEMMA PushImplements ==
  ASSUME DequeInv, NEW full \in PlainTypes \cup VirtualTypes, NEW data \in Seq(Messages \cup Pointers),
         Push(full, data)
  PROVE  EqView' = Abstract!Push(EqView, full, EqView.next_event_id)
<1> DEFINE n == next_event_id
           event  == [id |-> n, full |-> full, data |-> data, carries |-> {n}]
           merged == [id |-> n, full |-> full,
                      data |-> IF full \in FlagTypes
                               THEN virtual_events[full].data \o data ELSE data,
                      carries |-> virtual_events[full].carries \cup {n}]
           put(e) == [t \in DOMAIN virtual_events \cup {full} |->
                        IF t = full THEN e ELSE virtual_events[t]]
           absorbed == Abstract!Absorbed(EqView, full)
           pushed == Abstract!PushedEvent(EqView, full, n)
           views == {IdView(virtual_events[t]) : t \in DOMAIN virtual_events}
           listed == {IdView(e) : e \in ToSet(queue)}
<1>1. EqView.next_event_id = n /\ EqView.queue = listed /\ EqView.virtual_events = views
  BY DEF EqView
<1>2. absorbed = IF full \in DOMAIN virtual_events THEN {IdView(virtual_events[full])} ELSE {}
  <2>1. \A t \in DOMAIN virtual_events : IdView(virtual_events[t]).full = t
    BY DEF IdView, DequeInv, VirtualInv
  <2> QED BY <1>1, <2>1 DEF Abstract!Absorbed
<1>3. pushed = [id |-> n, full |-> full,
                carries |-> {n} \cup (IF full \in DOMAIN virtual_events
                                      THEN virtual_events[full].carries ELSE {})]
  <2>1. UNION {e.carries : e \in absorbed} = IF full \in DOMAIN virtual_events
                                             THEN virtual_events[full].carries ELSE {}
    <3>1. CASE full \in DOMAIN virtual_events
      <4>1. absorbed = {IdView(virtual_events[full])}
        BY <1>2, <3>1
      <4>2. IdView(virtual_events[full]).carries = virtual_events[full].carries
        BY DEF IdView
      <4> HIDE DEF absorbed
      <4> QED BY <3>1, <4>1, <4>2
    <3>2. CASE full \notin DOMAIN virtual_events
      <4>1. absorbed = {}
        BY <1>2, <3>2
      <4> HIDE DEF absorbed
      <4> QED BY <3>2, <4>1
    <3> QED BY <3>1, <3>2
  <2>2. pushed = [id |-> n, full |-> full, carries |-> {n} \cup UNION {e.carries : e \in absorbed}]
    BY <1>1 DEF Abstract!PushedEvent
  <2> HIDE DEF pushed, absorbed
  <2> QED BY <2>1, <2>2
<1>4. Abstract!Push(EqView, full, n) =
        IF full \in VirtualTypes
        THEN [queue |-> listed, virtual_events |-> (views \ absorbed) \cup {pushed},
              next_event_id |-> n + 1]
        ELSE [queue |-> listed \cup {pushed}, virtual_events |-> views, next_event_id |-> n + 1]
  BY <1>1 DEF Abstract!Push
<1>5. next_event_id' = n + 1
  BY DEF Push
<1>6. IdView(event) = [id |-> n, full |-> full, carries |-> {n}]
  BY DEF IdView
<1>7. IdView(merged) = [id |-> n, full |-> full, carries |-> {n} \cup virtual_events[full].carries]
  <2>1. virtual_events[full].carries \cup {n} = {n} \cup virtual_events[full].carries
    OBVIOUS
  <2> QED BY <2>1 DEF IdView
<1>8. CASE full \notin VirtualTypes
  <2>1. queue' = Append(queue, event) /\ virtual_events' = virtual_events
    BY <1>8 DEF Push
  <2>2. full \notin DOMAIN virtual_events
    BY <1>8 DEF DequeInv, VirtualInv
  <2>3. pushed = IdView(event)
    BY <1>3, <1>6, <2>2
  <2> HIDE DEF event, merged, put, absorbed, pushed
  <2>4. queue \in Seq(EventRecord)
    BY DEF DequeInv
  <2>5. ToSet(queue') = ToSet(queue) \cup {event}
    <3>1. /\ DOMAIN queue = 1 .. Len(queue) /\ DOMAIN queue' = 1 .. Len(queue) + 1 /\ Len(queue) \in Nat
          /\ \A i \in 1 .. Len(queue) : queue'[i] = queue[i]
          /\ queue'[Len(queue) + 1] = event
      BY <2>1, <2>4
    <3> QED BY <3>1 DEF ToSet
  <2>6. {IdView(e) : e \in ToSet(queue')} = listed \cup {pushed}
    BY <2>3, <2>5
  <2>7. {IdView(virtual_events'[t]) : t \in DOMAIN virtual_events'} = views
    BY <2>1
  <2>8. EqView' = [queue |-> listed \cup {pushed}, virtual_events |-> views, next_event_id |-> n + 1]
    BY <1>5, <2>6, <2>7 DEF EqView
  <2> HIDE DEF views, listed, n
  <2> QED BY <1>1, <1>4, <1>8, <2>8
<1>9. ASSUME NEW v, full \in VirtualTypes, queue' = queue, virtual_events' = put(v), IdView(v) = pushed
      PROVE  EqView' = Abstract!Push(EqView, full, EqView.next_event_id)
  <2>1. /\ DOMAIN virtual_events' = DOMAIN virtual_events \cup {full} /\ virtual_events'[full] = v
        /\ \A t \in DOMAIN virtual_events : t # full => virtual_events'[t] = virtual_events[t]
    BY <1>9
  <2> HIDE DEF event, merged, put, absorbed, pushed
  <2>2. \A t \in DOMAIN virtual_events : IdView(virtual_events[t]).full = t
    BY DEF IdView, DequeInv, VirtualInv
  <2>3. {IdView(virtual_events'[t]) : t \in DOMAIN virtual_events'} = (views \ absorbed) \cup {pushed}
    <3>1. \A t \in DOMAIN virtual_events : t # full => IdView(virtual_events[t]) \in views \ absorbed
      BY <1>2, <2>2
    <3>2. \A x \in views \ absorbed : \E t \in DOMAIN virtual_events : t # full /\ x = IdView(virtual_events[t])
      BY <1>2
    <3> HIDE DEF views
    <3> QED BY <1>9, <2>1, <3>1, <3>2
  <2>4. {IdView(e) : e \in ToSet(queue')} = listed
    BY <1>9
  <2>5. EqView' = [queue |-> listed, virtual_events |-> (views \ absorbed) \cup {pushed},
                   next_event_id |-> n + 1]
    BY <1>5, <2>3, <2>4 DEF EqView
  <2> HIDE DEF views, listed, n
  <2> QED BY <1>1, <1>4, <1>9, <2>5
<1>10. CASE full \in VirtualTypes \ DOMAIN virtual_events
  <2>1. queue' = queue /\ virtual_events' = put(event)
    BY <1>10 DEF Push
  <2>2. IdView(event) = pushed
    BY <1>3, <1>6, <1>10
  <2> HIDE DEF event, merged, put, absorbed, pushed, n
  <2> QED BY <1>9, <1>10, <2>1, <2>2
<1>11. CASE full \in VirtualTypes \cap DOMAIN virtual_events
  <2>1. queue' = queue /\ virtual_events' = put(merged)
    BY <1>11 DEF Push
  <2>2. IdView(merged) = pushed
    BY <1>3, <1>7, <1>11
  <2> HIDE DEF event, merged, put, absorbed, pushed, n
  <2> QED BY <1>9, <1>11, <2>1, <2>2
<1> QED BY <1>8, <1>10, <1>11

\* A poll of the deque prunes the id-level queue and takes its contents.
LEMMA FetchImplements ==
  ASSUME DequeInv, Fetch
  PROVE  EqView' = Abstract!Contents(Abstract!Prune(EqView, last_event_id))
<1> DEFINE c == Merged(Pruned(last_event_id))
           listed == {IdView(e) : e \in ToSet(queue)}
           views == {IdView(virtual_events[t]) : t \in DOMAIN virtual_events}
<1>1. ToSet(c) = {e \in ToSet(queue) : e.id > last_event_id} \cup Virtual
  BY ContentsOfPoll DEF DequeInv
<1>2. queue' = c /\ virtual_events' = <<>> /\ next_event_id' = next_event_id
  BY DEF Fetch
<1> HIDE DEF c
<1>3. \A e : IdView(e).id = e.id
  BY DEF IdView
<1>4. {IdView(e) : e \in ToSet(queue')} = {x \in listed : x.id > last_event_id} \cup views
  BY <1>1, <1>2, <1>3 DEF Virtual
<1>5. {IdView(virtual_events'[t]) : t \in DOMAIN virtual_events'} = {}
  BY <1>2
<1>6. EqView' = [queue |-> {x \in listed : x.id > last_event_id} \cup views, virtual_events |-> {},
                 next_event_id |-> next_event_id]
  BY <1>2, <1>4, <1>5 DEF EqView
<1>7. EqView = [queue |-> listed, virtual_events |-> views, next_event_id |-> next_event_id]
  BY DEF EqView
<1> HIDE DEF listed, views
<1>8. Abstract!Prune(EqView, last_event_id)
        = [queue |-> {x \in listed : x.id > last_event_id}, virtual_events |-> views,
           next_event_id |-> next_event_id]
  BY <1>7 DEF Abstract!Prune
<1> DEFINE q == Abstract!Prune(EqView, last_event_id)
<1> HIDE DEF q
<1>9. Abstract!AllEvents(q) = {x \in listed : x.id > last_event_id} \cup views
  BY <1>8 DEF Abstract!AllEvents, q
<1>10. Abstract!Contents(q) = [q EXCEPT !.queue = Abstract!AllEvents(q), !.virtual_events = {}]
  BY DEF Abstract!Contents
<1>11. q = [queue |-> {x \in listed : x.id > last_event_id}, virtual_events |-> views,
            next_event_id |-> next_event_id]
  BY <1>8 DEF q
<1>12. EqView' = Abstract!Contents(q)
  BY <1>6, <1>9, <1>10, <1>11
<1> QED BY <1>12 DEF q

\* The deque with its virtual events implements the queue of ids.
THEOREM DequeImplementsIds == DequeSpec => ImplementsIdQueue
<1>1. DequeInit => Abstract!Init
  <2> SUFFICES ASSUME DequeInit PROVE EqView = Abstract!NewQueue
    BY DEF Abstract!Init, EqView
  <2>1. queue = <<>> /\ virtual_events = <<>> /\ next_event_id = 0
    BY DEF DequeInit
  <2>2. ToSet(queue) = {} /\ DOMAIN virtual_events = {}
    BY <2>1 DEF ToSet
  <2> QED BY <2>1, <2>2 DEF EqView, Abstract!NewQueue
<1>2. ASSUME DequeInv, [DequeNext]_dequeVars PROVE Abstract!Next \/ EqView' = EqView
  <2>1. ASSUME NEW full \in PlainTypes \cup VirtualTypes, NEW data \in Seq(Messages \cup Pointers),
               Change(full, data)
        PROVE  Abstract!DoPush
    <3>1. EqView' = Abstract!Push(EqView, full, EqView.next_event_id)
      BY <1>2, <2>1, PushImplements DEF Change
    <3> QED BY <3>1 DEF Abstract!DoPush, Abstract!EventTypes, EqView
  <2>2. CASE Fetch
    <3>1. EqView' = Abstract!Contents(Abstract!Prune(EqView, last_event_id))
      BY <1>2, <2>2, FetchImplements
    <3>2. last_event_id \in -1 .. EqView.next_event_id - 1
      <4>1. EqView.next_event_id = next_event_id
        BY DEF EqView
      <4>2. /\ last_event_id \in Int /\ next_event_id \in Nat
            /\ -1 <= last_event_id /\ last_event_id < next_event_id
        BY <1>2 DEF DequeInv
      <4> QED BY <4>1, <4>2
    <3>3. Abstract!DoFetch
      BY <3>1, <3>2 DEF Abstract!DoFetch, EqView
    <3> QED BY <3>3 DEF Abstract!Next
  <2>3. CASE UNCHANGED dequeVars
    <3>1. queue' = queue /\ virtual_events' = virtual_events /\ next_event_id' = next_event_id
      BY <2>3 DEF dequeVars
    <3> QED BY <3>1 DEF EqView
  <2>4. CASE DequeNext /\ ~Fetch
    <3>1. \E full \in PlainTypes \cup VirtualTypes, data \in Seq(Messages \cup Pointers) : Change(full, data)
      BY <1>2, <2>4, ChangesPush DEF DequeNext
    <3> QED BY <2>1, <3>1 DEF Abstract!Next
  <2> QED BY <1>2, <2>2, <2>3, <2>4
<1>3. EqView = [queue          |-> {IdView(e) : e \in ToSet(queue)},
                virtual_events |-> {IdView(virtual_events[t]) : t \in DOMAIN virtual_events},
                next_event_id  |-> next_event_id]
  BY DEF EqView
<1>4. DequeInv /\ [DequeNext]_dequeVars => [Abstract!Next]_EqView
  BY <1>2
<1> QED BY <1>1, <1>4, DequeInvInit, DequeInvStep, PTL DEF DequeSpec, ImplementsIdQueue, Abstract!Spec, EqView
=============================================================================
