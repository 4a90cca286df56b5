------------------------- MODULE QueueRegistryProofs -------------------------
(***************************************************************************)
(* Proofs about what reaches users who are away: the registry of queues    *)
(* with its offline notices, the devices that are registered for them, and *)
(* scheduled mail, for every value of the constants.                       *)
(***************************************************************************)
EXTENDS QueueRegistry, PushDevices, ScheduledMail, FiniteSetTheorems, TLAPS

-----------------------------------------------------------------------------
(* QueueRegistry *)


(* allocate_client_descriptor keeps the three dicts in agreement.          *)
LEMMA AllocateConsistent ==
    ASSUME RegistryConsistent, NEW c \in Queues, Allocate(c)
    PROVE  RegistryConsistent'
<1>1. /\ clients' = clients \cup {c}
      /\ user_clients' = [u \in DOMAIN user_clients \cup {Owner[c]} |->
                             ClientsFor(u) \cup {d \in {c} : Owner[d] = u}]
      /\ realm_clients' = realm_clients \cup ({c} \cap AllStreams)
  BY DEF Allocate
<1>2. DOMAIN user_clients' = {Owner[d] : d \in clients'}
  BY <1>1 DEF RegistryConsistent
<1>3. \A u : ClientsFor(u) = {d \in clients : Owner[d] = u}
  BY DEF ClientsFor, RegistryConsistent
<1>4. ASSUME NEW u \in DOMAIN user_clients'
      PROVE  user_clients'[u] = {d \in clients' : Owner[d] = u}
  <2>1. user_clients'[u] = ClientsFor(u) \cup {d \in {c} : Owner[d] = u}
    BY <1>1, <1>4
  <2> QED BY <1>1, <1>3, <2>1
<1> QED BY <1>1, <1>2, <1>4 DEF RegistryConsistent

(* do_gc_event_queues does, whichever queues go.                           *)
LEMMA DoGcConsistent ==
    ASSUME RegistryConsistent, NEW to_remove, DoGc(to_remove)
    PROVE  RegistryConsistent'
<1> DEFINE keep == {v \in DOMAIN user_clients : ~ user_clients[v] \subseteq to_remove}
<1>1. /\ clients' = clients \ to_remove
      /\ user_clients' = [u \in keep |-> user_clients[u] \ to_remove]
      /\ realm_clients' = realm_clients \ to_remove
  BY DEF DoGc, Remove, Filtered
<1>2. keep = {Owner[d] : d \in clients \ to_remove}
  <2>1. ASSUME NEW v \in keep PROVE \E d \in clients \ to_remove : Owner[d] = v
    BY <2>1 DEF RegistryConsistent
  <2>2. ASSUME NEW d \in clients \ to_remove PROVE Owner[d] \in keep
    BY DEF RegistryConsistent
  <2> QED BY <2>1, <2>2
<1>3. ASSUME NEW u \in keep
      PROVE  user_clients'[u] = {d \in clients' : Owner[d] = u}
  BY <1>1 DEF RegistryConsistent
<1> QED BY <1>1, <1>2, <1>3 DEF RegistryConsistent

(* load_event_queues rebuilds them from clients alone.                     *)
LEMMA RestartConsistent ==
    ASSUME RegistryConsistent, Restart
    PROVE  RegistryConsistent'
BY DEF RegistryConsistent, Restart

(* The dicts clients, user_clients and realm_clients_all_streams agree     *)
(* after every sequence of allocations, sweeps, deletions and reloads, for *)
(* any number of users and queues: an event never misses a live queue for  *)
(* want of an entry, and last_for_client means what it says.               *)
THEOREM DictsAgree == Spec => []RegistryConsistent
<1>1. Init => RegistryConsistent
  BY DEF Init, RegistryConsistent
<1>2. RegistryConsistent /\ [Next]_vars => RegistryConsistent'
  <2> SUFFICES ASSUME RegistryConsistent, [Next]_vars PROVE RegistryConsistent'
    OBVIOUS
  <2>1. ASSUME NEW c \in Queues, Allocate(c) PROVE RegistryConsistent'
    BY <2>1, AllocateConsistent
  <2>2. CASE GcEventQueues
    BY <2>2, DoGcConsistent DEF GcEventQueues
  <2>3. ASSUME NEW c \in Queues, CleanupEventQueue(c) PROVE RegistryConsistent'
    BY <2>3, DoGcConsistent DEF CleanupEventQueue
  <2>4. CASE Restart
    BY <2>4, RestartConsistent
  <2>5. ASSUME UNCHANGED registry PROVE RegistryConsistent'
    BY <2>5 DEF registry, RegistryConsistent
  <2>6. ASSUME NEW s, ProcessMessageEvent(s) PROVE UNCHANGED registry
    BY <2>6 DEF ProcessMessageEvent
  <2>7. ASSUME NEW c, FetchEvents(c) \/ GoesIdle(c) \/ PresenceChanges(c)
        PROVE  UNCHANGED registry
    BY <2>7 DEF FetchEvents, GoesIdle, PresenceChanges
  <2>8. CASE UNCHANGED vars
    BY <2>8, <2>5 DEF vars, registry
  <2> QED BY <2>1, <2>2, <2>3, <2>4, <2>5, <2>6, <2>7, <2>8 DEF Next
<1> QED BY <1>1, <1>2, PTL DEF Spec

(* A sweep or a deletion keeps the types.                                  *)
LEMMA DoGcType ==
    ASSUME TypeOK, NEW to_remove \in SUBSET clients, DoGc(to_remove),
           UNCHANGED <<unused, away, sent, fetched>>
    PROVE  TypeOK'
<1> USE RegistryAssumption
<1> DEFINE hooks(n) == {c \in to_remove : /\ Owner[c] \in Users \ DOMAIN user_clients'
                                          /\ HookNotifies(c, n[1], n[2], n[3])}
<1>1. \A n : Cardinality(hooks(n)) \in Nat
  <2>1. \A n : hooks(n) \subseteq Queues
    BY DEF TypeOK
  <2> QED BY <2>1, FS_Subset, FS_CardinalityType
<1>2. notices' = [n \in DOMAIN notices |-> notices[n] + Cardinality(hooks(n))]
  BY DEF DoGc, RunHooks
<1>3. notices' \in [Users \X Messages \X Channels -> Nat]
  <2> HIDE DEF hooks
  <2> QED BY <1>1, <1>2 DEF TypeOK
<1>4. /\ held' \in [Queues -> SUBSET Event] /\ returned' \in [Queues -> SUBSET Messages]
      /\ clients' \subseteq Queues \ unused' /\ idle' \subseteq clients'
      /\ realm_clients' \subseteq Queues
  BY DEF DoGc, Remove, TypeOK
<1>5. DOMAIN user_clients' \subseteq Users
      /\ \A u \in DOMAIN user_clients' : user_clients'[u] \subseteq Queues
  BY DEF DoGc, Remove, Filtered, TypeOK
<1> QED BY <1>3, <1>4, <1>5 DEF TypeOK

(* Every step keeps the types.                                             *)
LEMMA TypeStep == TypeOK /\ [Next]_vars => TypeOK'
<1> SUFFICES ASSUME TypeOK, [Next]_vars PROVE TypeOK'
  OBVIOUS
<1> USE RegistryAssumption
<1>1. ASSUME NEW c \in Queues, Allocate(c) PROVE TypeOK'
  <2>1. LoadedBy(c) \subseteq Messages
    BY DEF LoadedBy, TypeOK, SentMessage
  <2>2. fetched' \in [Users -> SUBSET Messages]
    BY <1>1, <2>1 DEF Allocate, TypeOK
  <2>3. DOMAIN user_clients' \subseteq Users
        /\ \A u \in DOMAIN user_clients' : user_clients'[u] \subseteq Queues
    BY <1>1 DEF Allocate, TypeOK, ClientsFor
  <2> QED BY <1>1, <2>2, <2>3 DEF Allocate, TypeOK
<1>2. ASSUME NEW s \in SentMessage, ProcessMessageEvent(s) PROVE TypeOK'
  <2>1. \A c : EventFor(s, c) \in Event
    BY DEF EventFor, Event, SentMessage, NotifyNow, Notable
  <2>2. held' \in [Queues -> SUBSET Event]
    BY <1>2, <2>1 DEF ProcessMessageEvent, TypeOK
  <2>3. notices' \in [Users \X Messages \X Channels -> Nat]
    BY <1>2 DEF ProcessMessageEvent, TypeOK
  <2>4. UNCHANGED <<unused, clients, user_clients, realm_clients, returned, idle,
                    away, fetched>> /\ sent' = sent \cup {s}
    BY <1>2 DEF ProcessMessageEvent, registry
  <2> QED BY <2>2, <2>3, <2>4 DEF TypeOK
<1>3. ASSUME NEW c \in Queues, FetchEvents(c) PROVE TypeOK'
  <2> DEFINE rest == {e \in held[c] : e.msg \notin returned[c]}
             msgs == {e.msg : e \in rest}
  <2>1. /\ held' = [held EXCEPT ![c] = rest]
        /\ returned' = [returned EXCEPT ![c] = msgs]
        /\ fetched' = [fetched EXCEPT ![Owner[c]] = @ \cup msgs]
        /\ idle' \subseteq idle
        /\ UNCHANGED <<unused, clients, user_clients, realm_clients, away, sent, notices>>
    BY <1>3 DEF FetchEvents, registry
  <2>2. rest \in SUBSET Event /\ msgs \in SUBSET Messages
    BY DEF TypeOK, Event
  <2> HIDE DEF rest, msgs
  <2>3. /\ held' \in [Queues -> SUBSET Event] /\ returned' \in [Queues -> SUBSET Messages]
        /\ fetched' \in [Users -> SUBSET Messages]
    BY <2>1, <2>2 DEF TypeOK
  <2> QED BY <2>1, <2>3 DEF TypeOK
<1>4. ASSUME NEW c \in Queues, GoesIdle(c) PROVE TypeOK'
  BY <1>4 DEF GoesIdle, registry, TypeOK
<1>5. ASSUME NEW u \in Users, PresenceChanges(u) PROVE TypeOK'
  BY <1>5 DEF PresenceChanges, registry, TypeOK
<1>6. CASE GcEventQueues
  BY <1>6, DoGcType DEF GcEventQueues, TypeOK
<1>7. ASSUME NEW c \in Queues, CleanupEventQueue(c) PROVE TypeOK'
  BY <1>7, DoGcType DEF CleanupEventQueue
<1>8. CASE Restart
  BY <1>8 DEF Restart, TypeOK
<1>9. CASE UNCHANGED vars
  BY <1>9 DEF vars, TypeOK
<1> QED BY <1>1, <1>2, <1>3, <1>4, <1>5, <1>6, <1>7, <1>8, <1>9 DEF Next

(* The dicts, the queues and the published notices have their types.       *)
THEOREM TypeCorrect == Spec => []TypeOK
<1>1. Init => TypeOK
  BY DEF Init, TypeOK
<1> QED BY <1>1, TypeStep, PTL DEF Spec

(* A step of do_gc_event_queues notifies only users who have no queue      *)
(* left.                                                                   *)
LEMMA DoGcNotifies ==
    ASSUME TypeOK, RegistryConsistent', NEW to_remove, DoGc(to_remove),
           NEW n \in Users \X Messages \X Channels, notices'[n] > notices[n]
    PROVE  \A c \in clients' : Owner[c] # n[1]
<1> DEFINE hooks == {c \in to_remove : /\ Owner[c] \in Users \ DOMAIN user_clients'
                                       /\ HookNotifies(c, n[1], n[2], n[3])}
<1>1. notices'[n] = notices[n] + Cardinality(hooks)
  BY DEF DoGc, RunHooks, TypeOK
<1>2. hooks # {}
  <2>1. notices[n] \in Nat
    BY DEF TypeOK
  <2>2. Cardinality({}) = 0
    BY FS_EmptySet
  <2>3. SUFFICES ASSUME hooks = {} PROVE FALSE
    OBVIOUS
  <2>4. Cardinality(hooks) = 0
    BY <2>2, <2>3, Zenon
  <2> HIDE DEF hooks
  <2> QED BY <1>1, <2>1, <2>4
<1>3. PICK c \in to_remove : Owner[c] \notin DOMAIN user_clients' /\ n[1] = Owner[c]
  BY <1>2 DEF HookNotifies
<1> QED BY <1>3 DEF RegistryConsistent

(* missedmessage_hook speaks only for users who have left: for any number  *)
(* of queues, a sweep or a deletion that notifies a user took the last one.*)
THEOREM HookWaitsForLast == Spec => HookOnlyForLast
<1> DEFINE A == \A n \in Users \X Messages \X Channels :
                   clients' # clients /\ notices'[n] > notices[n] =>
                       \A c \in clients' : Owner[c] # n[1]
<1>1. TypeOK /\ RegistryConsistent' /\ [Next]_vars => [A]_vars
  <2> SUFFICES ASSUME TypeOK, RegistryConsistent', Next,
                      NEW n \in Users \X Messages \X Channels,
                      clients' # clients, notices'[n] > notices[n]
               PROVE  \A c \in clients' : Owner[c] # n[1]
    OBVIOUS
  <2>1. notices' # notices
    BY DEF TypeOK
  <2>2. \/ GcEventQueues \/ \E c \in Queues : CleanupEventQueue(c)
    <3>1. ASSUME NEW c, Allocate(c) \/ GoesIdle(c) \/ FetchEvents(c) \/ PresenceChanges(c)
          PROVE  FALSE
      BY <2>1, <3>1 DEF Allocate, GoesIdle, FetchEvents, PresenceChanges
    <3>2. ASSUME NEW s, ProcessMessageEvent(s) PROVE FALSE
      BY <3>2 DEF ProcessMessageEvent, registry
    <3>3. ~Restart
      BY <2>1 DEF Restart
    <3> QED BY <3>1, <3>2, <3>3 DEF Next
  <2> QED BY <2>2, DoGcNotifies DEF GcEventQueues, CleanupEventQueue
<1> QED BY <1>1, TypeCorrect, DictsAgree, PTL DEF Spec, HookOnlyForLast

-----------------------------------------------------------------------------
Told(u, m, ch) == notices[u, m, ch] > 0

(* An event in a queue says what the message was to the queue's owner, and *)
(* bears a mark only if the notice was published.                          *)
MarksTrue(c, e, s) ==
    /\ Owner[c] \in s.to \cap s.mentioned => e.mentioned
    /\ e.read => Owner[c] = s.sender
    /\ e.push_notified => Told(Owner[c], s.msg, "push")
    /\ e.email_notified => Told(Owner[c], s.msg, "email")

HeldTrue ==
    /\ \A c \in Queues : \A e \in held[c] : \E s \in sent : e.msg = s.msg
    /\ \A c \in Queues : \A e \in held[c], s \in sent : e.msg = s.msg => MarksTrue(c, e, s)
    /\ \A c \in Queues : returned[c] \subseteq fetched[Owner[c]]

HasEvent(c, m) == \E e \in held[c] : e.msg = m

(* Every live queue of the user has the mention: the hook of the last one  *)
(* finds it.                                                               *)
Remembered(s, u, ch) ==
    \/ Told(u, s.msg, ch)
    \/ s.msg \in fetched[u]
    \/ HasSilentQueue(u)
    \/ /\ \E c \in clients : Owner[c] = u
       /\ \A c \in clients : Owner[c] = u => HasEvent(c, s.msg)

Mention(s, u) == u \in s.to \cap s.mentioned /\ u # s.sender

MentionInv ==
    /\ TypeOK /\ RegistryConsistent /\ HeldTrue
    /\ \A s \in sent, u \in Users, ch \in Channels : Mention(s, u) => Remembered(s, u, ch)

(* Marks stay true while notices are counted up.                           *)
LEMMA MarksStay ==
    ASSUME NEW c, NEW e, NEW s, MarksTrue(c, e, s),
           Told(Owner[c], s.msg, "push") => Told(Owner[c], s.msg, "push")',
           Told(Owner[c], s.msg, "email") => Told(Owner[c], s.msg, "email")'
    PROVE  MarksTrue(c, e, s)'
BY Zenon DEF MarksTrue

(* Notices are counted up, silent queues stay.                             *)
LEMMA StaysRemembered ==
    ASSUME NEW s, NEW u, NEW ch, Remembered(s, u, ch),
           Told(u, s.msg, ch) => Told(u, s.msg, ch)',
           fetched[u] \subseteq fetched'[u], unused' \subseteq unused, clients' = clients,
           \A c \in clients : Owner[c] = u /\ HasEvent(c, s.msg) => HasEvent(c, s.msg)' \/ s.msg \in fetched'[u]
    PROVE  Remembered(s, u, ch)'
BY DEF Remembered, HasSilentQueue

\* Allocating a queue forgets no mention.
LEMMA AllocateRemembers ==
    ASSUME MentionInv, TypeOK', RegistryConsistent', NEW c \in Queues, Allocate(c)
    PROVE  MentionInv'
<1> USE RegistryAssumption
<1>1. /\ clients' = clients \cup {c} /\ unused' = unused \ {c} /\ c \in unused
      /\ fetched' = [fetched EXCEPT ![Owner[c]] = @ \cup LoadedBy(c)]
      /\ UNCHANGED <<held, returned, sent, notices>>
  BY DEF Allocate
<1>2. \A u \in Users : fetched[u] \subseteq fetched'[u]
  BY <1>1 DEF MentionInv, TypeOK
<1>2a. \A u, m, ch : Told(u, m, ch) <=> Told(u, m, ch)'
  BY <1>1 DEF Told
<1>3. HeldTrue'
  <2>1. \A d, e, t : MarksTrue(d, e, t) => MarksTrue(d, e, t)'
    BY <1>2a, MarksStay
  <2> QED BY <1>1, <1>2, <2>1 DEF MentionInv, HeldTrue
<1>4. ASSUME NEW s \in sent, NEW u \in Users, NEW ch \in Channels, Mention(s, u) PROVE Remembered(s, u, ch)'
  <2>1. Remembered(s, u, ch)
    BY <1>4 DEF MentionInv
  <2>2. CASE Owner[c] # u
    <3>1. HasSilentQueue(u) => HasSilentQueue(u)'
      BY <1>1 DEF HasSilentQueue
    <3> QED BY <1>1, <1>2, <1>2a, <2>1, <2>2, <3>1 DEF Remembered, HasEvent
  <2>3. CASE Owner[c] = u /\ c \in TakesMessages
    <3>1. s.msg \in LoadedBy(c)
      BY <1>4, <2>3 DEF LoadedBy, Mention
    <3>2. s.msg \in fetched'[u]
      BY <1>1, <2>3, <3>1 DEF MentionInv, TypeOK
    <3> QED BY <3>2 DEF Remembered
  <2>4. CASE Owner[c] = u /\ c \notin TakesMessages
    <3>1. HasSilentQueue(u)'
      BY <1>1, <2>4 DEF HasSilentQueue
    <3> QED BY <3>1 DEF Remembered
  <2> QED BY <2>2, <2>3, <2>4
<1> QED BY <1>1, <1>3, <1>4 DEF MentionInv

\* A message forgets none that came before.
LEMMA SendRemembers ==
    ASSUME MentionInv, TypeOK', RegistryConsistent', NEW s \in SentMessage, ProcessMessageEvent(s)
    PROVE  MentionInv'
<1> USE RegistryAssumption
<1>1. /\ \A t \in sent : t.msg # s.msg
      /\ sent' = sent \cup {s} /\ UNCHANGED <<unused, clients, user_clients, realm_clients, returned, fetched, away>>
      /\ held' = [c \in Queues |-> held[c] \cup {EventFor(s, d) : d \in {c} \cap SendTo(s)}]
  BY DEF ProcessMessageEvent, registry
<1>2. ASSUME NEW u \in Users, NEW m \in Messages, NEW ch \in Channels
      PROVE  /\ Told(u, m, ch) => Told(u, m, ch)'
             /\ m = s.msg /\ NotifyNow(s, u, ch) => Told(u, m, ch)'
  <2>1. PICK n : n = <<u, m, ch>>
    OBVIOUS
  <2>2. n \in DOMAIN notices /\ notices[n] \in Nat /\ n[1] = u /\ n[2] = m /\ n[3] = ch
    BY <2>1 DEF MentionInv, TypeOK
  <2>3. notices'[n] = IF n[2] = s.msg /\ NotifyNow(s, n[1], n[3]) THEN notices[n] + 1 ELSE notices[n]
    BY <2>2 DEF ProcessMessageEvent
  <2>4. /\ notices[n] > 0 => notices'[n] > 0
        /\ m = s.msg /\ NotifyNow(s, u, ch) => notices'[n] > 0
    BY <2>1, <2>2, <2>3
  <2> QED BY <2>1, <2>4 DEF Told
<1>3. s.msg \in Messages /\ \A t \in sent : t.msg \in Messages
  BY DEF SentMessage, MentionInv, TypeOK
<1>4. ASSUME NEW c \in Queues, NEW e \in held'[c]
      PROVE  (e \in held[c] /\ \E t \in sent : e.msg = t.msg) \/ e = EventFor(s, c)
  BY <1>1 DEF MentionInv, HeldTrue
<1>5. ASSUME NEW c \in Queues, NEW ev, ev = EventFor(s, c)
      PROVE  ev.msg = s.msg /\ MarksTrue(c, ev, s)'
  <2>1. /\ ev.msg = s.msg /\ (Owner[c] \in s.to /\ Owner[c] \in s.mentioned => ev.mentioned)
        /\ (ev.read => Owner[c] = s.sender)
        /\ (ev.push_notified => NotifyNow(s, Owner[c], "push"))
        /\ (ev.email_notified => NotifyNow(s, Owner[c], "email"))
    BY <1>5 DEF EventFor
  <2>2. NotifyNow(s, Owner[c], "push") => Told(Owner[c], s.msg, "push")'
    BY <1>2, <1>3 DEF Channels
  <2>3. NotifyNow(s, Owner[c], "email") => Told(Owner[c], s.msg, "email")'
    BY <1>2, <1>3 DEF Channels
  <2>4. MarksTrue(c, ev, s)'
    BY <2>1, <2>2, <2>3, Zenon DEF MarksTrue
  <2> QED BY <2>1, <2>4
<1>6. HeldTrue'
  <2>1. ASSUME NEW c \in Queues, NEW e \in held'[c] PROVE \E t \in sent' : e.msg = t.msg
    BY <1>1, <1>4, <1>5
  <2>2. ASSUME NEW c \in Queues, NEW e \in held'[c], NEW t \in sent', e.msg = t.msg PROVE MarksTrue(c, e, t)'
    <3>1. CASE t = s
      <4>1. e = EventFor(s, c)
        BY <1>1, <1>4, <2>2, <3>1
      <4> QED BY <1>5, <3>1, <4>1
    <3>2. CASE t \in sent
      <4>1. e \in held[c]
        BY <1>1, <1>4, <1>5, <2>2, <3>2
      <4>2. MarksTrue(c, e, t)
        BY <2>2, <3>2, <4>1 DEF MentionInv, HeldTrue
      <4>3. t.msg \in Messages /\ Owner[c] \in Users
        BY <1>3, <3>2
      <4> QED BY <1>2, <4>2, <4>3, MarksStay DEF Channels
    <3> QED BY <1>1, <3>1, <3>2
  <2> QED BY <1>1, <2>1, <2>2 DEF HeldTrue, MentionInv
<1>7. ASSUME NEW t \in sent, NEW u \in Users, NEW ch \in Channels, Mention(t, u) PROVE Remembered(t, u, ch)'
  <2>1. Remembered(t, u, ch)
    BY <1>7 DEF MentionInv
  <2>2. \A c \in clients : HasEvent(c, t.msg) => HasEvent(c, t.msg)'
    BY <1>1 DEF HasEvent, MentionInv, TypeOK
  <2> QED BY <1>1, <1>2, <1>3, <2>1, <2>2, StaysRemembered
<1>8. ASSUME NEW u \in Users, NEW ch \in Channels, Mention(s, u) PROVE Remembered(s, u, ch)'
  <2>1. CASE ReceiverIsIdle(u)
    <3>1. NotifyNow(s, u, ch)
      BY <1>8, <2>1 DEF NotifyNow, Notable, Mention
    <3> QED BY <1>2, <1>3, <3>1 DEF Remembered
  <2>2. CASE ~ReceiverIsIdle(u) /\ ~HasSilentQueue(u)
    <3>1. ClientsFor(u) = {c \in clients : Owner[c] = u}
      BY DEF ClientsFor, MentionInv, RegistryConsistent
    <3>2. \E c \in clients : Owner[c] = u
      BY <2>2, <3>1 DEF ReceiverIsIdle
    <3>3. ASSUME NEW c \in clients, Owner[c] = u PROVE HasEvent(c, s.msg)'
      <4>1. c \in TakesMessages /\ c \in Queues
        BY <2>2, <3>3 DEF HasSilentQueue, MentionInv, TypeOK
      <4>2. c \in SendTo(s)
        BY <1>8, <3>1, <3>3, <4>1 DEF SendTo, Mention
      <4>3. EventFor(s, c) \in held'[c]
        BY <1>1, <4>1, <4>2
      <4> QED BY <1>5, <4>1, <4>3 DEF HasEvent
    <3> QED BY <1>1, <3>2, <3>3 DEF Remembered
  <2>3. CASE HasSilentQueue(u)
    BY <1>1, <2>3 DEF Remembered, HasSilentQueue
  <2> QED BY <2>1, <2>2, <2>3
<1> QED BY <1>1, <1>6, <1>7, <1>8 DEF MentionInv

\* Fetching events forgets none.
LEMMA FetchRemembers ==
    ASSUME MentionInv, TypeOK', RegistryConsistent', NEW c \in Queues, FetchEvents(c)
    PROVE  MentionInv'
<1> USE RegistryAssumption
<1> DEFINE rest == {e \in held[c] : e.msg \notin returned[c]}
           msgs == {e.msg : e \in rest}
<1>1. /\ held' = [held EXCEPT ![c] = rest] /\ returned' = [returned EXCEPT ![c] = msgs]
      /\ fetched' = [fetched EXCEPT ![Owner[c]] = @ \cup msgs]
      /\ UNCHANGED <<unused, clients, sent, notices>>
  BY DEF FetchEvents, registry
<1>2. rest \subseteq held[c] /\ \A e \in held[c] : e \in rest \/ e.msg \in returned[c]
  OBVIOUS
<1> HIDE DEF rest, msgs
<1>3. /\ \A u \in Users : fetched[u] \subseteq fetched'[u]
      /\ \A d \in Queues : held'[d] \subseteq held[d]
      /\ \A d \in Queues : \A e \in held[d] : e \in held'[d] \/ e.msg \in fetched'[Owner[d]]
  BY <1>1, <1>2 DEF MentionInv, HeldTrue, TypeOK
<1>3a. \A u, m, ch : Told(u, m, ch) <=> Told(u, m, ch)'
  BY <1>1 DEF Told
<1>4. HeldTrue'
  <2>1. \A d \in Queues : returned'[d] \subseteq fetched'[Owner[d]]
    BY <1>1, <1>3 DEF MentionInv, HeldTrue, TypeOK
  <2>2. \A d, e, t : MarksTrue(d, e, t) => MarksTrue(d, e, t)'
    BY <1>3a, MarksStay
  <2> QED BY <1>1, <1>3, <2>1, <2>2 DEF MentionInv, HeldTrue
<1>5. ASSUME NEW s \in sent, NEW u \in Users, NEW ch \in Channels, Mention(s, u) PROVE Remembered(s, u, ch)'
  <2>1. Remembered(s, u, ch)
    BY <1>5 DEF MentionInv
  <2>2. \A d \in clients : Owner[d] = u /\ HasEvent(d, s.msg) => HasEvent(d, s.msg)' \/ s.msg \in fetched'[u]
    BY <1>3 DEF HasEvent, MentionInv, TypeOK
  <2> QED BY <1>1, <1>3, <1>3a, <2>1, <2>2, StaysRemembered
<1> QED BY <1>1, <1>4, <1>5 DEF MentionInv

\* Collecting queues forgets no mention that the hooks do not hear of.
LEMMA GcRemembers ==
    ASSUME MentionInv, TypeOK', RegistryConsistent', NEW to_remove \in SUBSET clients, DoGc(to_remove),
           UNCHANGED <<unused, away, sent, fetched>>
    PROVE  MentionInv'
<1> USE RegistryAssumption
<1>1. /\ clients' = clients \ to_remove
      /\ \A c \in Queues : held'[c] = (IF c \in to_remove THEN {} ELSE held[c])
      /\ \A c \in Queues : returned'[c] = (IF c \in to_remove THEN {} ELSE returned[c])
  BY DEF DoGc, Remove
<1>2. \A c \in to_remove : c \in Queues
  BY DEF MentionInv, TypeOK
<1>3. ASSUME NEW u \in Users, NEW m \in Messages, NEW ch \in Channels
      PROVE  /\ Told(u, m, ch) => Told(u, m, ch)'
             /\ (\E c \in to_remove : Owner[c] \in Users \ DOMAIN user_clients' /\ HookNotifies(c, u, m, ch)) => Told(u, m, ch)'
  <2>0. PICK n : n = <<u, m, ch>>
    OBVIOUS
  <2> DEFINE hooks == {c \in to_remove : Owner[c] \in Users \ DOMAIN user_clients' /\ HookNotifies(c, n[1], n[2], n[3])}
  <2>1. n \in DOMAIN notices /\ notices[n] \in Nat /\ n[1] = u /\ n[2] = m /\ n[3] = ch
    BY <2>0 DEF MentionInv, TypeOK
  <2>2. notices'[n] = notices[n] + Cardinality(hooks)
    BY <2>1 DEF DoGc, RunHooks
  <2>3. IsFiniteSet(hooks)
    <3>1. hooks \subseteq Queues
      BY <1>2
    <3> QED BY <3>1, FS_Subset
  <2>4. Cardinality(hooks) \in Nat /\ (hooks # {} => Cardinality(hooks) # 0)
    <3> HIDE DEF hooks
    <3> QED BY <2>3, FS_CardinalityType, FS_EmptySet
  <2>5. (\E c \in to_remove : Owner[c] \in Users \ DOMAIN user_clients' /\ HookNotifies(c, u, m, ch)) => hooks # {}
    BY <2>1
  <2> HIDE DEF hooks
  <2>6. /\ notices[n] > 0 => notices'[n] > 0
        /\ hooks # {} => notices'[n] > 0
    BY <2>1, <2>2, <2>4
  <2> QED BY <2>0, <2>5, <2>6 DEF Told
<1>4. \A t \in sent : t.msg \in Messages
  BY DEF MentionInv, TypeOK, SentMessage
<1>5. HeldTrue'
  <2>1. ASSUME NEW c \in Queues, NEW e \in held'[c] PROVE e \in held[c]
    BY <1>1
  <2>2. ASSUME NEW c \in Queues, NEW e \in held'[c], NEW t \in sent, e.msg = t.msg PROVE MarksTrue(c, e, t)'
    <3>1. MarksTrue(c, e, t)
      BY <2>1, <2>2 DEF MentionInv, HeldTrue
    <3>2. t.msg \in Messages /\ Owner[c] \in Users
      BY <1>4
    <3> QED BY <1>3, <3>1, <3>2, MarksStay DEF Channels
  <2>3. ASSUME NEW c \in Queues PROVE returned'[c] \subseteq fetched'[Owner[c]]
    BY <1>1 DEF MentionInv, HeldTrue
  <2> QED BY <2>1, <2>2, <2>3 DEF MentionInv, HeldTrue
<1>6. ASSUME NEW s \in sent, NEW u \in Users, NEW ch \in Channels, Mention(s, u) PROVE Remembered(s, u, ch)'
  <2>1. Remembered(s, u, ch) /\ s.msg \in Messages
    BY <1>4, <1>6 DEF MentionInv
  <2>2. CASE Told(u, s.msg, ch) \/ s.msg \in fetched[u] \/ HasSilentQueue(u)
    BY <1>3, <2>1, <2>2 DEF Remembered, HasSilentQueue
  <2>3. CASE ~(Told(u, s.msg, ch)) /\ (\E c \in clients : Owner[c] = u)
             /\ \A c \in clients : Owner[c] = u => HasEvent(c, s.msg)
    <3>1. CASE \E c \in clients' : Owner[c] = u
      <4>1. \A c \in clients' : c \in clients /\ held'[c] = held[c]
        BY <1>1 DEF MentionInv, TypeOK
      <4> QED BY <2>3, <3>1, <4>1 DEF Remembered, HasEvent
    <3>2. CASE ~\E c \in clients' : Owner[c] = u
      <4>1. PICK c \in to_remove : Owner[c] = u /\ HasEvent(c, s.msg)
        BY <1>1, <2>3, <3>2
      <4>2. PICK e \in held[c] : e.msg = s.msg
        BY <4>1 DEF HasEvent
      <4>3. MarksTrue(c, e, s)
        BY <1>2, <4>2 DEF MentionInv, HeldTrue
      <4>4. e.mentioned /\ ~e.read /\ (ch = "push" => ~e.push_notified) /\ (ch = "email" => ~e.email_notified)
        BY <1>6, <2>3, <4>1, <4>3 DEF MarksTrue, Mention
      <4>5. HookNotifies(c, u, s.msg, ch)
        BY <4>1, <4>2, <4>4 DEF HookNotifies, Channels
      <4>6. u \notin DOMAIN user_clients'
        BY <3>2 DEF RegistryConsistent
      <4> QED BY <1>3, <2>1, <4>1, <4>5, <4>6 DEF Remembered
    <3> QED BY <3>1, <3>2
  <2> QED BY <2>1, <2>2, <2>3 DEF Remembered
<1> QED BY <1>5, <1>6 DEF MentionInv

(* Every step keeps the mentions.                                          *)
LEMMA MentionStep == MentionInv /\ TypeOK' /\ RegistryConsistent' /\ [Next]_vars => MentionInv'
<1> SUFFICES ASSUME MentionInv, TypeOK', RegistryConsistent', [Next]_vars PROVE MentionInv'
  OBVIOUS
<1>1. CASE UNCHANGED <<unused, clients, held, returned, sent, notices, fetched>>
  <2>1. \A u, m, ch : Told(u, m, ch)' = Told(u, m, ch)
    BY <1>1 DEF Told
  <2> QED BY <1>1, <2>1 DEF MentionInv, HeldTrue, MarksTrue, Remembered, HasSilentQueue, HasEvent
<1>2. ASSUME NEW c \in Queues, Allocate(c) PROVE MentionInv'
  BY <1>2, AllocateRemembers
<1>3. ASSUME NEW s \in SentMessage, ProcessMessageEvent(s) PROVE MentionInv'
  BY <1>3, SendRemembers
<1>4. ASSUME NEW c \in Queues, FetchEvents(c) PROVE MentionInv'
  BY <1>4, FetchRemembers
<1>5. CASE GcEventQueues
  <2>1. idle \in SUBSET clients
    BY DEF MentionInv, TypeOK
  <2> QED BY <1>5, <2>1, GcRemembers DEF GcEventQueues
<1>6. ASSUME NEW c \in Queues, CleanupEventQueue(c) PROVE MentionInv'
  BY <1>6, GcRemembers DEF CleanupEventQueue
<1>7. ASSUME NEW c, GoesIdle(c) \/ PresenceChanges(c) PROVE MentionInv'
  BY <1>1, <1>7 DEF GoesIdle, PresenceChanges, registry
<1>8. CASE Restart \/ UNCHANGED vars
  BY <1>1, <1>8 DEF Restart, vars
<1> QED BY <1>2, <1>3, <1>4, <1>5, <1>6, <1>7, <1>8 DEF Next

(* No mention is forgotten, for any users, queues and messages, unless the *)
(* user has had a queue that takes no messages.                            *)
THEOREM MentionsStay == Spec => []NoMentionForgotten
<1>1. Init /\ TypeOK /\ RegistryConsistent => MentionInv
  BY RegistryAssumption DEF Init, MentionInv, HeldTrue
<1>2. MentionInv => NoMentionForgotten
  BY DEF MentionInv, NoMentionForgotten, Mention, Remembered, HasEvent, Holds, Told
<1> QED BY <1>1, <1>2, MentionStep, TypeCorrect, DictsAgree, PTL DEF Spec

-----------------------------------------------------------------------------
(* PushDevices *)

\* Rows of PushDeviceToken and the history of registrations.
DeviceRows == [user : Owners, last_updated : Int]
OwnedRows == [user : Owners, at : Int]

\* The variables of PushDevices.
PushType ==
  /\ time \in Int /\ adding \subseteq [user : Owners, token : Tokens]
  /\ devices \in [DOMAIN devices -> DeviceRows] /\ owned \in [DOMAIN owned -> OwnedRows]

\* A row is at least as new as the registration that should stand.
Stands(t) == t \in DOMAIN devices /\ devices[t].user = owned[t].user /\ owned[t].at <= devices[t].last_updated

\* The inductive invariant: what was registered and never taken away has a row that is
\* as new, which is what keeps Apple's feedback from deleting it.
PushInv == PushType /\ \A t \in DOMAIN owned : Stands(t)

\* No device is registered at the start.
LEMMA PushStarts == PushInit => PushInv
<1> SUFFICES ASSUME PushInit PROVE PushInv
  OBVIOUS
<1>1. <<>> = [x \in {} |-> 0] /\ DOMAIN <<>> = {}
  OBVIOUS
<1>2. devices \in [DOMAIN devices -> DeviceRows] /\ owned \in [DOMAIN owned -> OwnedRows] /\ DOMAIN owned = {}
  BY <1>1 DEF PushInit
<1> QED
  BY <1>2 DEF PushInit, PushInv, PushType

\* A step that touches no row.
LEMMA RowsKept ==
  ASSUME PushInv, devices' = devices, owned' = owned, time' \in Int, adding' \subseteq [user : Owners, token : Tokens]
  PROVE  PushInv'
BY DEF PushInv, PushType, Stands

\* A row goes, and with it what should stand.
LEMMA RowGoes ==
  ASSUME PushInv, NEW t, devices' = Without(devices, t), owned' = Without(owned, t),
         time' = time, adding' \subseteq [user : Owners, token : Tokens]
  PROVE  PushInv'
<1>1. devices' = [x \in DOMAIN devices \ {t} |-> devices[x]] /\ owned' = [x \in DOMAIN owned \ {t} |-> owned[x]]
  BY DEF Without, Restrict
<1>2. devices' \in [DOMAIN devices' -> DeviceRows] /\ owned' \in [DOMAIN owned' -> OwnedRows]
  BY <1>1 DEF PushInv, PushType
<1> QED
  BY <1>1, <1>2 DEF PushInv, PushType, Stands

\* A registration: its row takes the time of now.
LEMMA AddEndsKeeps ==
  ASSUME PushInv, NEW c \in adding, AddEnds(c)
  PROVE  PushInv'
<1>1. adding' \subseteq [user : Owners, token : Tokens] /\ time' = time /\ time \in Int /\ c.user \in Owners
  BY DEF PushInv, PushType, AddEnds
<1>2. CASE c.token \in DOMAIN devices /\ ~Owns(c.user, c.token)
  BY <1>1, <1>2, RowsKept DEF AddEnds
<1>3. CASE ~(c.token \in DOMAIN devices /\ ~Owns(c.user, c.token))
  <2>1. PICK t, device, entry : t = c.token /\ device = [user |-> c.user, last_updated |-> time] /\ entry = [user |-> c.user, at |-> time]
    OBVIOUS
  <2>2. devices' = With(devices, t, device) /\ owned' = With(owned, t, entry)
    BY <1>3, <2>1 DEF AddEnds, RenewedAt
  <2>3. /\ devices' = [x \in DOMAIN devices \union {t} |-> IF x = t THEN device ELSE devices[x]]
        /\ owned' = [x \in DOMAIN owned \union {t} |-> IF x = t THEN entry ELSE owned[x]]
    BY <2>2 DEF With
  <2>4. device \in DeviceRows /\ entry \in OwnedRows /\ device.user = entry.user /\ entry.at <= device.last_updated
    BY <1>1, <2>1 DEF DeviceRows, OwnedRows
  <2>5. devices' \in [DOMAIN devices' -> DeviceRows] /\ owned' \in [DOMAIN owned' -> OwnedRows]
    BY <2>3, <2>4 DEF PushInv, PushType
  <2>6. \A x \in DOMAIN owned' : Stands(x)'
    BY <2>3, <2>4 DEF PushInv, Stands
  <2> QED
    BY <1>1, <2>5, <2>6 DEF PushInv, PushType
<1> QED
  BY <1>2, <1>3

\* Google's newer token takes the row and what should stand of it.
LEMMA CanonicalKeeps ==
  ASSUME PushInv, NEW t, NEW new \in GoogleTokens \ {t}, Canonical(t, new), time' = time, adding' = adding
  PROVE  PushInv'
<1>1. CASE new \in DOMAIN devices \/ t \notin DOMAIN devices
  BY <1>1, RowGoes DEF Canonical, PushInv, PushType
<1>2. CASE ~(new \in DOMAIN devices \/ t \notin DOMAIN devices)
  <2>1. PICK device : device = devices[t]
    OBVIOUS
  <2>2. new \notin DOMAIN owned
    BY <1>2 DEF PushInv, Stands
  <2>3. devices' = With(Without(devices, t), new, device)
    BY <1>2, <2>1 DEF Canonical
  <2>4. devices' = [x \in (DOMAIN devices \ {t}) \union {new} |-> IF x = new THEN device ELSE devices[x]]
    BY <2>3 DEF With, Without, Restrict
  <2>5. device \in DeviceRows
    BY <1>2, <2>1 DEF PushInv, PushType
  <2>6. devices' \in [DOMAIN devices' -> DeviceRows]
    BY <2>4, <2>5 DEF PushInv, PushType
  <2>7. CASE t \in DOMAIN owned
    <3>1. PICK entry : entry = owned[t]
      OBVIOUS
    <3>2. owned' = With(Without(owned, t), new, entry)
      BY <1>2, <2>7, <3>1 DEF Canonical
    <3>3. owned' = [x \in (DOMAIN owned \ {t}) \union {new} |-> IF x = new THEN entry ELSE owned[x]]
      BY <3>2 DEF With, Without, Restrict
    <3>4. entry \in OwnedRows /\ device.user = entry.user /\ entry.at <= device.last_updated
      BY <2>1, <2>7, <3>1 DEF PushInv, PushType, Stands
    <3>5. owned' \in [DOMAIN owned' -> OwnedRows]
      BY <3>3, <3>4 DEF PushInv, PushType
    <3>6. \A x \in DOMAIN owned' : Stands(x)'
      BY <3>3, <3>4, <2>4 DEF PushInv, Stands
    <3> QED
      BY <3>5, <3>6, <2>6 DEF PushInv, PushType
  <2>8. CASE t \notin DOMAIN owned
    <3>1. owned' = owned
      BY <1>2, <2>8 DEF Canonical
    <3>2. \A x \in DOMAIN owned' : Stands(x)'
      BY <3>1, <2>2, <2>4, <2>8 DEF PushInv, Stands
    <3> QED
      BY <3>1, <3>2, <2>6 DEF PushInv, PushType
  <2> QED
    BY <2>7, <2>8
<1> QED
  BY <1>1, <1>2

\* Apple's report on a moment before the registration leaves it.
LEMMA FeedbackKeeps ==
  ASSUME PushInv, NEW t, NEW since \in Int, check_apns_feedback(t, since)
  PROVE  PushInv'
<1>1. time' = time /\ adding' = adding /\ t \in DOMAIN devices
  BY DEF check_apns_feedback
<1>2. \A x \in DOMAIN devices : devices[x].last_updated \in Int
  BY DEF PushInv, PushType, DeviceRows
<1>3. \A x \in DOMAIN owned : owned[x].at \in Int
  BY DEF PushInv, PushType, OwnedRows
<1>4. /\ devices' = devices \/ devices' = [x \in DOMAIN devices \ {t} |-> devices[x]]
      /\ owned' = owned \/ owned' = [x \in DOMAIN owned \ {t} |-> owned[x]]
  BY DEF check_apns_feedback, Without, Restrict
<1>5. devices' \in [DOMAIN devices' -> DeviceRows] /\ owned' \in [DOMAIN owned' -> OwnedRows]
  BY <1>4 DEF PushInv, PushType
<1>6. ASSUME t \in DOMAIN owned' PROVE devices' = devices
  <2>1. t \in DOMAIN owned /\ ~(owned[t].at < since)
    BY <1>6 DEF check_apns_feedback, Without, Restrict
  <2>2. owned[t].at <= devices[t].last_updated
    BY <2>1 DEF PushInv, Stands
  <2>3. ~Unused(t, since)
    BY <1>1, <1>2, <1>3, <2>1, <2>2 DEF Unused
  <2> QED
    BY <2>3 DEF check_apns_feedback
<1>7. \A x \in DOMAIN owned' : Stands(x)'
  BY <1>4, <1>6 DEF PushInv, Stands
<1> QED
  BY <1>1, <1>5, <1>7 DEF PushInv, PushType

\* Every step of PushDevices keeps the invariant.
LEMMA PushStep == PushInv /\ [PushNext]_pushVars => PushInv'
<1> SUFFICES ASSUME PushInv, [PushNext]_pushVars PROVE PushInv'
  OBVIOUS
<1>0. time \in Int /\ adding \subseteq [user : Owners, token : Tokens]
  BY DEF PushInv, PushType
<1>1. ASSUME NEW u \in Owners, NEW t \in Tokens, AddBegins(u, t) PROVE PushInv'
  <2>1. adding' \subseteq [user : Owners, token : Tokens] /\ time' = time
    BY <1>0, <1>1 DEF AddBegins
  <2> QED
    BY <1>0, <1>1, <2>1, RowsKept, RowGoes DEF AddBegins
<1>2. ASSUME NEW c \in adding, AddEnds(c) PROVE PushInv'
  BY <1>2, AddEndsKeeps
<1>3. ASSUME NEW t \in Tokens, remove_push_device_token(t) PROVE PushInv'
  BY <1>0, <1>3, RowGoes DEF remove_push_device_token
<1>4. ASSUME NEW u \in Owners, PushBegins(u) \/ FallsQuiet(u) PROVE PushInv'
  BY <1>0, <1>4, RowsKept DEF PushBegins, FallsQuiet
<1>5. CASE send_apple_push_notification
  BY <1>0, <1>5, RowsKept DEF send_apple_push_notification
<1>6. ASSUME NEW t \in GoogleTokens, send_android_push_notification(t) PROVE PushInv'
  <2>1. time' = time /\ adding' = adding
    BY <1>6 DEF send_android_push_notification
  <2>2. \/ devices' = devices /\ owned' = owned
        \/ \E new \in GoogleTokens \ {t} : Canonical(t, new)
        \/ devices' = Without(devices, t) /\ owned' = Without(owned, t)
    BY <1>6 DEF send_android_push_notification, Sent, NotRegistered
  <2> QED
    BY <1>0, <2>1, <2>2, RowsKept, CanonicalKeeps, RowGoes
<1>7. ASSUME NEW n \in sentTo, response_listener(n) PROVE PushInv'
  BY <1>0, <1>7, RowsKept, RowGoes DEF response_listener
<1>8. ASSUME NEW t \in AppleTokens, NEW since \in 0 .. time, check_apns_feedback(t, since) PROVE PushInv'
  BY <1>8, FeedbackKeeps
<1>9. CASE Tick
  BY <1>0, <1>9, RowsKept DEF Tick
<1>10. CASE UNCHANGED pushVars
  BY <1>0, <1>10, RowsKept DEF pushVars
<1> QED
  BY <1>1, <1>2, <1>3, <1>4, <1>5, <1>6, <1>7, <1>8, <1>9, <1>10 DEF PushNext

(***************************************************************************)
(* A device that a user registered and nobody took away is still the       *)
(* user's: registrations that overlap, Google's canonical ids and Apple's  *)
(* late feedback never cost one (add_push_device_token,                    *)
(* send_android_push_notification, check_apns_feedback).                   *)
(***************************************************************************)
THEOREM RegistrationsStand == PushSpec => []RegistrationStands
<1>1. PushSpec => []PushInv
  BY PushStarts, PushStep, PTL DEF PushSpec
<1>2. PushInv => RegistrationStands
  BY DEF PushInv, Stands, RegistrationStands, Owns
<1> QED
  BY <1>1, <1>2, PTL

-----------------------------------------------------------------------------
(* ScheduledMail *)

\* Rows of ScheduledEmail, and the ids of a set of them.
ScheduledRows == [id : Nat, type : AllTypes, user : Members \union {"nobody"}, address : Members \union {"nobody"}, due : Nat]
Ids(js) == {j.id : j \in js}

\* Rows have ids of their own, those of mail for later and of the deliverer's list alike.
ScheduledType ==
  /\ day \in Nat /\ made \in Nat /\ deliverDeaths \in Nat
  /\ sentTimes \in [1 .. MaxJobs -> Nat] /\ made <= MaxJobs
  /\ jobs \subseteq ScheduledRows /\ dueList \subseteq ScheduledRows
  /\ \A j \in jobs : j.type = "reminder" => j.user = "nobody"

IdsApart ==
  /\ \A j \in jobs \union dueList : j.id \in 1 .. made
  /\ \A j, k \in jobs \union dueList : j.id = k.id => j = k
  /\ takenBack \subseteq 1 .. made /\ takenBack \intersect Ids(jobs) = {}

\* A row that may still be mailed was mailed only by processes that died.
NotYetMailed ==
  /\ \A n \in 1 .. MaxJobs : sentTimes[n] <= 1 + deliverDeaths
  /\ \A n \in Ids(jobs \union dueList) : sentTimes[n] <= deliverDeaths
  /\ \A n \in 1 .. MaxJobs : n > made => sentTimes[n] = 0

\* A row is there until its mail went or it was taken back.
NoneMissing == \A n \in 1 .. made : n \in Ids(jobs) \/ sentTimes[n] > 0 \/ n \in takenBack

\* Of the rows taken back the deliverer's list holds those it held at that time.
NotListed == takenBack \intersect Ids(dueList) \subseteq duringRound

\* The inductive invariant of scheduled mail.
ScheduledInv == ScheduledType /\ IdsApart /\ NotYetMailed /\ NoneMissing /\ NotListed

\* No mail is scheduled at the start.
LEMMA ScheduledStarts == ScheduledInit => ScheduledInv
<1> SUFFICES ASSUME ScheduledInit PROVE ScheduledInv
  OBVIOUS
<1>1. MaxJobs \in Nat
  BY ScheduledMailAssumption
<1> QED
  BY <1>1 DEF ScheduledInit, ScheduledInv, ScheduledType, IdsApart, NotYetMailed, NoneMissing, NotListed, Ids

\* New rows have new ids.
LEMMA MoreRows ==
  ASSUME ScheduledInv, NEW k \in Nat, NEW new, new \subseteq ScheduledRows, Ids(new) = (made + 1) .. (made + k),
         \A i, j \in new : i.id = j.id => i = j, \A j \in new : j.type # "reminder" \/ j.user = "nobody",
         made + k <= MaxJobs, jobs' = jobs \union new, made' = made + k, takenBack' = takenBack, duringRound' = duringRound,
         dueList' = dueList, sentTimes' = sentTimes, day' = day, deliverDeaths' \in Nat, deliverDeaths <= deliverDeaths'
  PROVE  ScheduledInv'
<1> USE ScheduledMailAssumption
<1>1. ScheduledType'
  BY DEF ScheduledInv, ScheduledType
<1>2. made \in Nat /\ deliverDeaths \in Nat /\ sentTimes \in [1 .. MaxJobs -> Nat]
  BY DEF ScheduledInv, ScheduledType
<1>3. \A j \in new : j.id \in (made + 1) .. (made + k)
  BY DEF Ids
<1>4. IdsApart'
  <2>1. \A j \in jobs' \union dueList' : j.id \in 1 .. made'
    BY <1>2, <1>3 DEF ScheduledInv, IdsApart
  <2>2. \A i, j \in jobs' \union dueList' : i.id = j.id => i = j
    BY <1>2, <1>3 DEF ScheduledInv, IdsApart
  <2>3. takenBack' \subseteq 1 .. made' /\ takenBack' \intersect Ids(jobs)' = {}
    <3>1. \A n \in takenBack : n \in 1 .. made /\ n \notin Ids(jobs)
      BY DEF ScheduledInv, IdsApart
    <3>2. \A j \in new : j.id \notin 1 .. made
      BY <1>2, <1>3
    <3> QED
      BY <1>2, <3>1, <3>2 DEF Ids
  <2> QED
    BY <2>1, <2>2, <2>3 DEF IdsApart
<1>5. NotYetMailed'
  <2>1. \A n \in Ids(jobs' \union dueList') : n \in Ids(jobs \union dueList) \/ n \in (made + 1) .. (made + k)
    BY <1>3 DEF Ids
  <2>2. \A n \in Ids(jobs \union dueList) : n \in 1 .. MaxJobs
    BY <1>2 DEF ScheduledInv, IdsApart, ScheduledType, Ids
  <2>3. \A n \in 1 .. MaxJobs : sentTimes[n] \in Nat
    BY <1>2
  <2>4. \A n \in Ids(jobs \union dueList) : sentTimes[n] <= deliverDeaths'
    <3> SUFFICES ASSUME NEW n \in Ids(jobs \union dueList) PROVE sentTimes[n] <= deliverDeaths'
      OBVIOUS
    <3>1. sentTimes[n] \in Nat
      BY <2>2, <2>3
    <3>2. sentTimes[n] <= deliverDeaths
      BY DEF ScheduledInv, NotYetMailed
    <3> QED
      BY <1>2, <3>1, <3>2
  <2>5. \A n \in (made + 1) .. (made + k) : n \in 1 .. MaxJobs /\ sentTimes[n] = 0
    BY <1>2 DEF ScheduledInv, NotYetMailed
  <2>6. \A n \in Ids(jobs' \union dueList') : sentTimes[n] <= deliverDeaths'
    <3> SUFFICES ASSUME NEW n \in Ids(jobs' \union dueList') PROVE sentTimes[n] <= deliverDeaths'
      OBVIOUS
    <3>1. CASE n \in Ids(jobs \union dueList)
      BY <2>4, <3>1
    <3>2. CASE n \in (made + 1) .. (made + k)
      BY <1>2, <2>5, <3>2
    <3> QED
      BY <2>1, <3>1, <3>2
  <2>7. \A n \in 1 .. MaxJobs : sentTimes[n] <= 1 + deliverDeaths'
    BY <1>2, <2>3 DEF ScheduledInv, NotYetMailed
  <2>8. \A n \in 1 .. MaxJobs : n > made' => sentTimes[n] = 0
    BY <1>2 DEF ScheduledInv, NotYetMailed
  <2> QED
    BY <2>6, <2>7, <2>8 DEF NotYetMailed, Ids
<1>6. NoneMissing'
  <2>1. \A n \in 1 .. made' : n \in 1 .. made \/ n \in Ids(new)
    BY <1>2
  <2>2. Ids(jobs)' = Ids(jobs) \union Ids(new)
    BY DEF Ids
  <2> QED
    BY <2>1, <2>2 DEF ScheduledInv, NoneMissing
<1>7. NotListed'
  BY DEF ScheduledInv, NotListed, Ids
<1> QED
  BY <1>1, <1>4, <1>5, <1>6, <1>7 DEF ScheduledInv

\* A row for user u: it is well formed and has the id it is given.
LEMMA JobIsRow ==
  ASSUME ScheduledInv, NEW n \in Nat, NEW type \in AllTypes, NEW user \in Members \union {"nobody"},
         NEW address \in Members \union {"nobody"}, NEW delay \in Nat
  PROVE  /\ Job(n, type, user, address, delay) \in ScheduledRows
         /\ Job(n, type, user, address, delay).id = made + n
         /\ Job(n, type, user, address, delay).type = type
         /\ Job(n, type, user, address, delay).user = user
BY DEF Job, ScheduledRows, ScheduledInv, ScheduledType

\* One row more.
LEMMA OneMore ==
  ASSUME ScheduledInv, NEW type \in AllTypes, NEW user \in Members \union {"nobody"}, NEW address \in Members \union {"nobody"},
         NEW delay \in Nat, type # "reminder" \/ user = "nobody",
         send_future_email(jobs, {Job(1, type, user, address, delay)}),
         dueList' = dueList, sentTimes' = sentTimes, day' = day, deliverDeaths' \in Nat, deliverDeaths <= deliverDeaths'
  PROVE  ScheduledInv'
<1>1. PICK j : j = Job(1, type, user, address, delay)
  OBVIOUS
<1>2. j \in ScheduledRows /\ j.id = made + 1 /\ j.type = type /\ j.user = user
  BY <1>1, JobIsRow
<1>3. Cardinality({j}) = 1
  BY FS_Singleton
<1>4. /\ made + 1 <= MaxJobs /\ jobs' = jobs \union {j} /\ made' = made + 1
      /\ takenBack' = takenBack /\ duringRound' = duringRound
  BY <1>1, <1>3 DEF send_future_email
<1>5. made \in Nat
  BY DEF ScheduledInv, ScheduledType
<1>6. Ids({j}) = (made + 1) .. (made + 1)
  BY <1>2, <1>5 DEF Ids
<1>7. {j} \subseteq ScheduledRows /\ \A i \in {j} : i.type # "reminder" \/ i.user = "nobody"
  BY <1>2
<1>8. PICK new : new = {j}
  OBVIOUS
<1>9. /\ new \subseteq ScheduledRows /\ Ids(new) = (made + 1) .. (made + 1)
      /\ \A i, l \in new : i.id = l.id => i = l
      /\ \A l \in new : l.type # "reminder" \/ l.user = "nobody"
  BY <1>6, <1>7, <1>8
<1>10. jobs' = jobs \union new /\ 1 \in Nat
  BY <1>4, <1>8
<1> QED
  BY <1>4, <1>9, <1>10, MoreRows

\* No reminder has a user, so a signup takes none back.
LEMMA NoReminderOfUser ==
  ASSUME ScheduledInv, NEW u \in Members
  PROVE  jobs \ Scheduled({u}, {"reminder"}) = jobs
BY ScheduledMailAssumption DEF Scheduled, ScheduledInv, ScheduledType

\* A signup: two welcome mails, none, or one and the worker dies.
LEMMA SignupKeeps ==
  ASSUME ScheduledInv, NEW u \in Members, SignupWorker(u)
  PROVE  ScheduledInv'
<1>1. dueList' = dueList /\ sentTimes' = sentTimes /\ day' = day /\ deliverDeaths \in Nat /\ made \in Nat
  BY DEF SignupWorker, ScheduledInv, ScheduledType
<1>2. \/ send_future_email(jobs, enqueue_welcome_emails(u)) /\ deliverDeaths' = deliverDeaths
      \/ send_future_email(jobs, {}) /\ deliverDeaths' = deliverDeaths
      \/ send_future_email(jobs, {Job(1, "welcome", u, "nobody", 1)}) /\ deliverDeaths' = deliverDeaths + 1
  BY NoReminderOfUser DEF SignupWorker, Dies
<1>3. CASE send_future_email(jobs, enqueue_welcome_emails(u)) /\ deliverDeaths' = deliverDeaths
  <2>1. PICK a, b : a = Job(1, "welcome", u, "nobody", 1) /\ b = Job(2, "welcome", u, "nobody", 2)
    OBVIOUS
  <2>2. /\ a \in ScheduledRows /\ a.id = made + 1 /\ a.type = "welcome"
        /\ b \in ScheduledRows /\ b.id = made + 2 /\ b.type = "welcome"
    <3>1. "welcome" \in AllTypes /\ u \in Members \union {"nobody"} /\ "nobody" \in Members \union {"nobody"}
      BY DEF AllTypes
    <3>2. 1 \in Nat /\ 2 \in Nat
      OBVIOUS
    <3> QED
      BY <2>1, <3>1, <3>2, JobIsRow
  <2>3. a # b
    BY <2>2, <1>1
  <2>4. Cardinality({a, b}) = 2
    <3>1. IsFiniteSet({a}) /\ Cardinality({a}) = 1
      BY FS_Singleton
    <3>2. Cardinality({a} \union {b}) = Cardinality({a}) + 1
      BY <3>1, <2>3, FS_AddElement
    <3>3. {a} \union {b} = {a, b}
      OBVIOUS
    <3> QED
      BY <3>1, <3>2, <3>3
  <2>5. /\ made + 2 <= MaxJobs /\ jobs' = jobs \union {a, b} /\ made' = made + 2
        /\ takenBack' = takenBack /\ duringRound' = duringRound
    BY <1>3, <2>1, <2>4 DEF send_future_email, enqueue_welcome_emails
  <2>6. Ids({a, b}) = (made + 1) .. (made + 2)
    BY <2>2, <1>1 DEF Ids
  <2> QED
    BY <1>1, <1>3, <2>2, <2>5, <2>6, MoreRows
<1>4. CASE send_future_email(jobs, {}) /\ deliverDeaths' = deliverDeaths
  <2>1. Cardinality({}) = 0
    BY FS_EmptySet
  <2>2. made <= MaxJobs /\ jobs' = jobs /\ made' = made /\ takenBack' = takenBack /\ duringRound' = duringRound
    BY <1>1, <1>4, <2>1 DEF send_future_email
  <2> QED
    BY <1>1, <1>4, <2>2 DEF ScheduledInv, ScheduledType, IdsApart, NotYetMailed, NoneMissing, NotListed, Ids
<1>5. CASE send_future_email(jobs, {Job(1, "welcome", u, "nobody", 1)}) /\ deliverDeaths' = deliverDeaths + 1
  BY <1>1, <1>5, OneMore DEF AllTypes
<1> QED
  BY <1>2, <1>3, <1>4, <1>5

\* Rows are taken back; those of the deliverer's list are noted.
LEMMA ClearKeeps ==
  ASSUME ScheduledInv, NEW us, NEW types, clear_scheduled_emails(us, types),
         dueList' = dueList, sentTimes' = sentTimes, day' = day, deliverDeaths' = deliverDeaths
  PROVE  ScheduledInv'
<1>1. PICK gone : gone = Scheduled(us, types)
  OBVIOUS
<1>2. gone \subseteq jobs
  BY <1>1 DEF Scheduled
<1>3. /\ jobs' = jobs \ gone /\ takenBack' = takenBack \union Ids(gone)
      /\ duringRound' = duringRound \union Ids(gone \intersect dueList) /\ made' = made
  BY <1>1 DEF clear_scheduled_emails, Ids
<1>4. ScheduledType'
  BY <1>2, <1>3 DEF ScheduledInv, ScheduledType
<1>5. IdsApart'
  <2>1. \A j \in jobs \ gone : j.id \notin Ids(gone)
    BY <1>2 DEF ScheduledInv, IdsApart, Ids
  <2>2. Ids(gone) \subseteq 1 .. made
    BY <1>2 DEF ScheduledInv, IdsApart, Ids
  <2>3. \A j \in jobs' \union dueList' : j \in jobs \union dueList
    BY <1>3
  <2>4. takenBack' \intersect Ids(jobs)' = {}
    BY <1>3, <2>1 DEF ScheduledInv, IdsApart, Ids
  <2> QED
    BY <1>3, <2>2, <2>3, <2>4 DEF ScheduledInv, IdsApart
<1>6. NotYetMailed'
  <2>1. \A n \in Ids(jobs \union dueList)' : n \in Ids(jobs \union dueList)
    BY <1>3 DEF Ids
  <2> QED
    BY <1>3, <2>1 DEF ScheduledInv, NotYetMailed
<1>7. NoneMissing'
  <2>1. \A n \in Ids(jobs) : n \in Ids(jobs)' \/ n \in Ids(gone)
    BY <1>3 DEF Ids
  <2> QED
    BY <1>3, <2>1 DEF ScheduledInv, NoneMissing
<1>8. NotListed'
  <2> SUFFICES ASSUME NEW n \in takenBack' \intersect Ids(dueList) PROVE n \in duringRound'
    BY DEF NotListed
  <2>1. CASE n \in takenBack
    BY <2>1, <1>3 DEF ScheduledInv, NotListed
  <2>2. CASE n \in Ids(gone)
    <3>1. PICK j \in gone : n = j.id
      BY <2>2 DEF Ids
    <3>2. PICK k \in dueList : n = k.id
      BY DEF Ids
    <3>3. j = k
      BY <3>1, <3>2, <1>2 DEF ScheduledInv, IdsApart
    <3> QED
      BY <3>1, <3>2, <3>3, <1>3 DEF Ids
  <2> QED
    BY <2>1, <2>2, <1>3
<1> QED
  BY <1>4, <1>5, <1>6, <1>7, <1>8 DEF ScheduledInv

\* A mail goes, and its row and its place in the list with it.
LEMMA DeliverKeeps ==
  ASSUME ScheduledInv, NEW j \in dueList, DeliverJob(j)
  PROVE  ScheduledInv'
<1> USE ScheduledMailAssumption
<1>1. PICK n : n = j.id
  OBVIOUS
<1>2. /\ dueList' = dueList \ {j} /\ jobs' = jobs \ {j} /\ sentTimes' = [sentTimes EXCEPT ![n] = @ + 1]
      /\ day' = day /\ made' = made /\ takenBack' = takenBack /\ duringRound' = duringRound /\ deliverDeaths' = deliverDeaths
  BY <1>1 DEF DeliverJob, Mailed, memberVars
<1>3. /\ sentTimes \in [1 .. MaxJobs -> Nat] /\ made \in Nat /\ made <= MaxJobs /\ deliverDeaths \in Nat
      /\ n \in 1 .. made /\ n \in 1 .. MaxJobs
  BY <1>1 DEF ScheduledInv, ScheduledType, IdsApart
<1>4. /\ sentTimes' \in [1 .. MaxJobs -> Nat] /\ sentTimes'[n] = sentTimes[n] + 1
      /\ \A k \in 1 .. MaxJobs : k # n => sentTimes'[k] = sentTimes[k]
  BY <1>2, <1>3
<1>5. n \notin Ids(jobs' \union dueList') /\ Ids(jobs' \union dueList') \subseteq Ids(jobs \union dueList)
  BY <1>1, <1>2 DEF ScheduledInv, IdsApart, Ids
<1>6. ScheduledType'
  BY <1>2, <1>4 DEF ScheduledInv, ScheduledType
<1>7. IdsApart'
  BY <1>2 DEF ScheduledInv, IdsApart, Ids
<1>8. NotYetMailed'
  <2>1. sentTimes[n] <= deliverDeaths
    BY <1>1 DEF ScheduledInv, NotYetMailed, Ids
  <2>2. Ids(jobs \union dueList) \subseteq 1 .. MaxJobs
    BY <1>3 DEF ScheduledInv, IdsApart, Ids
  <2>3. \A k \in Ids(jobs' \union dueList') : sentTimes'[k] <= deliverDeaths
    BY <1>4, <1>5, <2>2 DEF ScheduledInv, NotYetMailed
  <2>4. \A k \in 1 .. MaxJobs : sentTimes'[k] <= 1 + deliverDeaths
    BY <1>3, <1>4, <2>1 DEF ScheduledInv, NotYetMailed
  <2>5. \A k \in 1 .. MaxJobs : k > made => sentTimes'[k] = 0
    BY <1>3, <1>4 DEF ScheduledInv, NotYetMailed
  <2> QED
    BY <1>2, <2>3, <2>4, <2>5 DEF NotYetMailed, Ids
<1>9. NoneMissing'
  <2>1. \A k \in 1 .. made : k # n => (k \in Ids(jobs) => k \in Ids(jobs'))
    BY <1>1, <1>2 DEF Ids
  <2>2. sentTimes'[n] > 0
    BY <1>3, <1>4
  <2>3. \A k \in 1 .. made : k \in 1 .. MaxJobs
    BY <1>3
  <2> QED
    BY <1>2, <1>4, <2>1, <2>2, <2>3 DEF ScheduledInv, NoneMissing, Ids
<1>10. NotListed'
  BY <1>2 DEF ScheduledInv, NotListed, Ids
<1> QED
  BY <1>6, <1>7, <1>8, <1>9, <1>10 DEF ScheduledInv

\* The deliverer dies, before or after the mail went.
LEMMA DelivererDiesKeeps ==
  ASSUME ScheduledInv, NEW j \in dueList, DelivererDies(j)
  PROVE  ScheduledInv'
<1> USE ScheduledMailAssumption
<1>1. PICK n : n = j.id
  OBVIOUS
<1>2. /\ dueList' = {} /\ jobs' = jobs /\ day' = day /\ made' = made /\ takenBack' = takenBack /\ duringRound' = duringRound
      /\ deliverDeaths' = deliverDeaths + 1
      /\ sentTimes' = sentTimes \/ sentTimes' = [sentTimes EXCEPT ![n] = @ + 1]
  BY <1>1 DEF DelivererDies, Mailed, memberVars, jobVars, Dies
<1>3. /\ sentTimes \in [1 .. MaxJobs -> Nat] /\ made \in Nat /\ made <= MaxJobs /\ deliverDeaths \in Nat
      /\ n \in 1 .. made /\ n \in 1 .. MaxJobs
  BY <1>1 DEF ScheduledInv, ScheduledType, IdsApart
<1>4. /\ sentTimes' \in [1 .. MaxJobs -> Nat]
      /\ \A k \in 1 .. MaxJobs : sentTimes[k] <= sentTimes'[k] /\ sentTimes'[k] <= sentTimes[k] + 1
      /\ \A k \in 1 .. MaxJobs : k # n => sentTimes'[k] = sentTimes[k]
  BY <1>2, <1>3
<1>5. Ids(jobs \union dueList)' = Ids(jobs) /\ Ids(jobs) \subseteq Ids(jobs \union dueList) /\ Ids(jobs) \subseteq 1 .. MaxJobs
  BY <1>2, <1>3 DEF Ids, ScheduledInv, IdsApart
<1>6. ScheduledType'
  BY <1>2, <1>4 DEF ScheduledInv, ScheduledType
<1>7. IdsApart'
  BY <1>2 DEF ScheduledInv, IdsApart, Ids
<1>8. NotYetMailed'
  <2>1. \A k \in Ids(jobs) : sentTimes'[k] <= deliverDeaths'
    <3> SUFFICES ASSUME NEW k \in Ids(jobs) PROVE sentTimes'[k] <= deliverDeaths + 1
      BY <1>2
    <3>1. k \in 1 .. MaxJobs
      BY <1>5
    <3>2. k \in Ids(jobs \union dueList)
      BY <1>5
    <3>3. sentTimes[k] <= deliverDeaths
      BY <3>2 DEF ScheduledInv, NotYetMailed
    <3>4. sentTimes[k] \in Nat /\ sentTimes'[k] \in Nat /\ sentTimes'[k] <= sentTimes[k] + 1
      BY <1>3, <1>4, <3>1
    <3> QED
      BY <1>3, <3>3, <3>4
  <2>2. \A k \in 1 .. MaxJobs : sentTimes'[k] <= 1 + deliverDeaths'
    BY <1>2, <1>3, <1>4 DEF ScheduledInv, NotYetMailed
  <2>3. \A k \in 1 .. MaxJobs : k > made => sentTimes'[k] = 0
    BY <1>3, <1>4 DEF ScheduledInv, NotYetMailed
  <2> QED
    BY <1>2, <1>5, <2>1, <2>2, <2>3 DEF NotYetMailed
<1>9. NoneMissing'
  <2>1. \A k \in 1 .. made : k \in 1 .. MaxJobs /\ (sentTimes[k] > 0 => sentTimes'[k] > 0)
    BY <1>3, <1>4
  <2> QED
    BY <1>2, <2>1 DEF ScheduledInv, NoneMissing, Ids
<1>10. NotListed'
  BY <1>2 DEF ScheduledInv, NotListed, Ids
<1> QED
  BY <1>6, <1>7, <1>8, <1>9, <1>10 DEF ScheduledInv

\* Steps that make no row, take none back and mail nothing.
LEMMA OtherKeeps ==
  ASSUME ScheduledInv, UNCHANGED <<jobVars, sentTimes, deliverDeaths>>, day' \in Nat,
         dueList' \subseteq dueList \/ dueList' \subseteq jobs
  PROVE  ScheduledInv'
<1>1. /\ jobs' = jobs /\ made' = made /\ takenBack' = takenBack /\ duringRound' = duringRound
      /\ sentTimes' = sentTimes /\ deliverDeaths' = deliverDeaths
  BY DEF jobVars
<1>2. ScheduledType'
  BY <1>1 DEF ScheduledInv, ScheduledType
<1>3. dueList' \subseteq jobs \union dueList
  OBVIOUS
<1>4. IdsApart'
  BY <1>1, <1>3 DEF ScheduledInv, IdsApart, Ids
<1>5. NotYetMailed'
  BY <1>1, <1>3 DEF ScheduledInv, NotYetMailed, Ids
<1>6. NoneMissing'
  BY <1>1 DEF ScheduledInv, NoneMissing, Ids
<1>7. NotListed'
  BY <1>1 DEF ScheduledInv, IdsApart, NotListed, Ids
<1> QED
  BY <1>2, <1>4, <1>5, <1>6, <1>7 DEF ScheduledInv

\* Every step of ScheduledMail keeps the invariant.
LEMMA ScheduledStep == ScheduledInv /\ [ScheduledNext]_scheduledVars => ScheduledInv'
<1> SUFFICES ASSUME ScheduledInv, [ScheduledNext]_scheduledVars PROVE ScheduledInv'
  OBVIOUS
<1>0. day \in Nat /\ deliverDeaths \in Nat
  BY DEF ScheduledInv, ScheduledType
<1>1. ASSUME NEW u \in Members, ConfirmationEmailWorker(u) PROVE ScheduledInv'
  BY <1>0, <1>1, OneMore DEF ConfirmationEmailWorker, deliverVars, AllTypes
<1>2. ASSUME NEW u \in Members, process_new_human_user(u) \/ queue_digest_recipient(u) PROVE ScheduledInv'
  <2>1. UNCHANGED <<jobVars, sentTimes, deliverDeaths>> /\ dueList' = dueList /\ day' = day
    BY <1>2 DEF process_new_human_user, queue_digest_recipient, jobVars, deliverVars
  <2> QED
    BY <1>0, <2>1, OtherKeeps
<1>3. ASSUME NEW u \in Members, SignupWorker(u) PROVE ScheduledInv'
  BY <1>3, SignupKeeps
<1>4. ASSUME NEW u \in Members, handle_digest_email(u) PROVE ScheduledInv'
  <2>1. dueList' = dueList /\ sentTimes' = sentTimes /\ day' = day /\ deliverDeaths' = deliverDeaths
    BY <1>4 DEF handle_digest_email, deliverVars
  <2>2. CASE send_future_email(jobs, {Job(1, "digest", u, "nobody", 0)})
    BY <1>0, <2>1, <2>2, OneMore DEF AllTypes
  <2>3. CASE UNCHANGED jobVars
    BY <1>0, <2>1, <2>3, OtherKeeps
  <2> QED
    BY <1>4, <2>2, <2>3 DEF handle_digest_email
<1>5. ASSUME NEW u \in Members, do_digest_unsubscribe(u) \/ do_welcome_unsubscribe(u) \/ do_deactivate_user(u) PROVE ScheduledInv'
  <2>1. dueList' = dueList /\ sentTimes' = sentTimes /\ day' = day /\ deliverDeaths' = deliverDeaths
    BY <1>5 DEF do_digest_unsubscribe, do_welcome_unsubscribe, do_deactivate_user, deliverVars
  <2>2. \E types : clear_scheduled_emails({u}, types)
    BY <1>5 DEF do_digest_unsubscribe, do_welcome_unsubscribe, do_deactivate_user
  <2> QED
    BY <2>1, <2>2, ClearKeeps
<1>6. CASE do_deactivate_realm
  BY <1>6, ClearKeeps DEF do_deactivate_realm, deliverVars
<1>7. CASE ReadDueJobs
  <2>1. UNCHANGED <<jobVars, sentTimes, deliverDeaths>> /\ dueList' \subseteq jobs /\ day' = day
    BY <1>7 DEF ReadDueJobs, DueJobs, jobVars
  <2> QED
    BY <1>0, <2>1, OtherKeeps
<1>8. CASE DayPasses
  <2>1. UNCHANGED <<jobVars, sentTimes, deliverDeaths>> /\ dueList' = dueList /\ day' \in Nat
    BY <1>0, <1>8 DEF DayPasses, jobVars, deliverVars
  <2> QED
    BY <2>1, OtherKeeps
<1>9. ASSUME NEW j \in dueList, DeliverJob(j) PROVE ScheduledInv'
  BY <1>9, DeliverKeeps
<1>10. ASSUME NEW j \in dueList, NotDelivered(j) PROVE ScheduledInv'
  <2>1. UNCHANGED <<jobVars, sentTimes, deliverDeaths>> /\ dueList' \subseteq dueList /\ day' = day
    BY <1>10 DEF NotDelivered, jobVars
  <2> QED
    BY <1>0, <2>1, OtherKeeps
<1>11. ASSUME NEW j \in dueList, DelivererDies(j) PROVE ScheduledInv'
  BY <1>11, DelivererDiesKeeps
<1>12. CASE UNCHANGED scheduledVars
  <2>1. UNCHANGED <<jobVars, sentTimes, deliverDeaths>> /\ dueList' = dueList /\ day' = day
    BY <1>12 DEF scheduledVars, jobVars, deliverVars
  <2> QED
    BY <1>0, <2>1, OtherKeeps
<1> QED
  BY <1>1, <1>2, <1>3, <1>4, <1>5, <1>6, <1>7, <1>8, <1>9, <1>10, <1>11, <1>12 DEF ScheduledNext

(***************************************************************************)
(* Scheduled mail goes out once unless it is taken back, and what is taken *)
(* back before the deliverer listed it stays unsent: the list that         *)
(* deliver_email read, against send_future_email and                       *)
(* clear_scheduled_emails, with processes that die.                        *)
(***************************************************************************)
THEOREM ScheduledMailGoesOnce == ScheduledSpec => []ScheduledMailRight
<1>1. ScheduledSpec => []ScheduledInv
  BY ScheduledStarts, ScheduledStep, PTL DEF ScheduledSpec
<1>2. ScheduledInv => ScheduledMailRight
  <2> SUFFICES ASSUME ScheduledInv, NEW n \in 1 .. made
               PROVE  /\ sentTimes[n] <= 1 + deliverDeaths
                      /\ n \in {j.id : j \in jobs} \/ sentTimes[n] > 0 \/ n \in takenBack
                      /\ n \in takenBack \ duringRound => n \notin {j.id : j \in dueList}
    BY DEF ScheduledMailRight
  <2>1. n \in 1 .. MaxJobs
    BY ScheduledMailAssumption DEF ScheduledInv, ScheduledType
  <2>2. sentTimes[n] <= 1 + deliverDeaths
    BY <2>1 DEF ScheduledInv, NotYetMailed
  <2>3. n \in {j.id : j \in jobs} \/ sentTimes[n] > 0 \/ n \in takenBack
    BY DEF ScheduledInv, NoneMissing, Ids
  <2>4. n \in takenBack \ duringRound => n \notin {j.id : j \in dueList}
    BY DEF ScheduledInv, NotListed, Ids
  <2> QED
    BY <2>2, <2>3, <2>4
<1> QED
  BY <1>1, <1>2, PTL
=============================================================================
