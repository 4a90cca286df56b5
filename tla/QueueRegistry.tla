---------------------------- MODULE QueueRegistry ----------------------------
(***************************************************************************)
(* The client dictionaries of zerver/tornado/event_queue.py and the        *)
(* offline notifications that hang on them: which queues a message is put  *)
(* into, when its recipients are notified at once, and what the garbage    *)
(* collection hook notifies later for messages that nobody fetched.        *)
(*                                                                         *)
(* One realm.  An event is kept as the message with the flags and marks    *)
(* that missedmessage_hook reads.                                          *)
(***************************************************************************)
EXTENDS Naturals, FiniteSets

CONSTANTS Users, Messages,
          Queues,        \* queue ids, each allocated at most once
          Owner,         \* user_profile_id of each queue
          TakesMessages, \* queues whose event_types let messages through
          AllStreams,    \* queues with all_public_streams or a narrow
          AlwaysPush     \* users with enable_online_push_notifications

ASSUME RegistryAssumption ==
    /\ IsFiniteSet(Queues) /\ Owner \in [Queues -> Users]
    /\ TakesMessages \subseteq Queues /\ AllStreams \subseteq Queues
    /\ AlwaysPush \subseteq Users

VARIABLES
    unused,        \* queue ids not allocated yet
    clients,       \* keys of the dict clients
    user_clients,  \* the dict from user id to that user's queues
    realm_clients, \* realm_clients_all_streams of the realm
    held,          \* events in each queue
    returned,      \* messages each queue has sent but not seen acknowledged
    idle,          \* queues where no poll was parked for queue_timeout
    away,          \* users with no recent active presence
    sent,          \* messages sent, with what made them notable for whom
    notices,       \* published offline notifications, counted
    fetched        \* history: messages that reached a client of each user

vars == <<unused, clients, user_clients, realm_clients, held, returned, idle,
          away, sent, notices, fetched>>

registry == <<clients, user_clients, realm_clients>>

Channels == {"push", "email"}

Event == [msg : Messages, mentioned : BOOLEAN, read : BOOLEAN,
          push_notified : BOOLEAN, email_notified : BOOLEAN]

SentMessage == [msg : Messages, private : BOOLEAN, sender : Users,
                to : SUBSET Users, mentioned : SUBSET Users]

Init ==
    /\ unused = Queues /\ clients = {} /\ user_clients = [u \in {} |-> {}]
    /\ realm_clients = {} /\ idle = {} /\ sent = {}
    /\ held = [c \in Queues |-> {}] /\ returned = [c \in Queues |-> {}]
    /\ away \in SUBSET Users
    /\ notices = [n \in Users \X Messages \X Channels |-> 0]
    /\ fetched = [u \in Users |-> {}]

-----------------------------------------------------------------------------
(* get_client_descriptors_for_user: a dict lookup with default [].         *)
ClientsFor(u) == IF u \in DOMAIN user_clients THEN user_clients[u] ELSE {}

(* What a client that takes messages loads along with its registration:    *)
(* the messages already sent to its user.                                  *)
LoadedBy(c) ==
    {s.msg : s \in {t \in sent : c \in TakesMessages /\ Owner[c] \in t.to}}

(* allocate_client_descriptor and add_to_client_dicts.                     *)
Allocate(c) ==
    /\ c \in unused /\ unused' = unused \ {c}
    /\ clients' = clients \cup {c}
    /\ user_clients' = [u \in DOMAIN user_clients \cup {Owner[c]} |->
                           ClientsFor(u) \cup {d \in {c} : Owner[d] = u}]
    /\ realm_clients' = realm_clients \cup ({c} \cap AllStreams)
    /\ fetched' = [fetched EXCEPT ![Owner[c]] = @ \cup LoadedBy(c)]
    /\ UNCHANGED <<held, returned, idle, away, sent, notices>>

(* receiver_is_idle: no queue that takes messages, or no active presence.  *)
ReceiverIsIdle(u) == ClientsFor(u) \cap TakesMessages = {} \/ u \in away

(* process_message_event, users loop: who is notified at once.             *)
Notable(s, u) ==
    /\ u \in s.to
    /\ (s.private /\ u # s.sender) \/ u \in s.mentioned

NotifyNow(s, u, ch) ==
    /\ Notable(s, u)
    /\ ReceiverIsIdle(u) \/ (ch = "push" /\ u \in AlwaysPush)

(* process_message_event, last loop: the event for queue c.  A recipient's *)
(* flags win over the flags=None of a queue that gets all public streams;  *)
(* a sender has read what was sent.                                        *)
EventFor(s, c) ==
    LET u == Owner[c]
    IN  [msg |-> s.msg,
         mentioned |-> u \in s.to /\ u \in s.mentioned,
         read |-> u \in s.to /\ u = s.sender,
         push_notified |-> NotifyNow(s, u, "push"),
         email_notified |-> NotifyNow(s, u, "email")]

SendTo(s) ==
    {c \in TakesMessages : \/ c \in UNION {ClientsFor(u) : u \in s.to}
                           \/ ~s.private /\ c \in realm_clients}

ProcessMessageEvent(s) ==
    /\ s.msg \notin {t.msg : t \in sent}
    /\ sent' = sent \cup {s}
    /\ held' = [c \in Queues |-> held[c] \cup {EventFor(s, d) : d \in {c} \cap SendTo(s)}]
    /\ notices' = [n \in DOMAIN notices |->
                     IF n[2] = s.msg /\ NotifyNow(s, n[1], n[3])
                     THEN notices[n] + 1 ELSE notices[n]]
    /\ UNCHANGED <<unused, registry, returned, idle, away, fetched>>

(* A poll of queue c: what was returned before is pruned, the rest is      *)
(* returned.  Only a poll that is parked (so nothing is left, and not      *)
(* dont_block) sets last_connection_time and ends the queue's idleness.    *)
FetchEvents(c) ==
    /\ c \in clients
    /\ LET rest == {e \in held[c] : e.msg \notin returned[c]}
           msgs == {e.msg : e \in rest}
       IN  /\ held' = [held EXCEPT ![c] = rest]
           /\ returned' = [returned EXCEPT ![c] = msgs]
           /\ fetched' = [fetched EXCEPT ![Owner[c]] = @ \cup msgs]
           /\ \/ rest = {} /\ idle' = idle \ {c}
              \/ UNCHANGED idle
    /\ UNCHANGED <<unused, registry, away, sent, notices>>

(* No poll is parked on c for queue_timeout.                               *)
GoesIdle(c) ==
    /\ c \in clients /\ idle' = idle \cup {c}
    /\ UNCHANGED <<unused, registry, held, returned, away, sent, notices, fetched>>

PresenceChanges(u) ==
    /\ away' = (away \ {u}) \cup ({u} \ away)
    /\ UNCHANGED <<unused, registry, held, returned, idle, sent, notices, fetched>>

(* missedmessage_hook for queue c.                                         *)
HookNotifies(c, u, m, ch) ==
    /\ u = Owner[c]
    /\ \E e \in held[c] : /\ e.msg = m /\ e.mentioned /\ ~e.read
                          /\ IF ch = "push" THEN ~e.push_notified
                                            ELSE ~e.email_notified

(* The dicts without the queues in to_remove; a user without queues has no *)
(* key.                                                                    *)
Filtered(to_remove) ==
    [u \in {v \in DOMAIN user_clients : ~ user_clients[v] \subseteq to_remove} |->
        user_clients[u] \ to_remove]

Remove(to_remove) ==
    /\ user_clients' = Filtered(to_remove)
    /\ clients' = clients \ to_remove
    /\ idle' = idle \ to_remove
    /\ held' = [c \in Queues |-> IF c \in to_remove THEN {} ELSE held[c]]
    /\ returned' = [c \in Queues |-> IF c \in to_remove THEN {} ELSE returned[c]]

(* The hook runs for each queue; it acts for owners among last.            *)
RunHooks(to_remove, last) ==
    notices' = [n \in DOMAIN notices |->
        notices[n] + Cardinality({c \in to_remove :
            Owner[c] \in last /\ HookNotifies(c, n[1], n[2], n[3])})]

(* MUTANT of DoGc: the hook runs before the dicts are filtered.            *)
MutDoGcHookFirst(to_remove) ==
    /\ Remove(to_remove) /\ realm_clients' = realm_clients \ to_remove
    /\ RunHooks(to_remove, Users \ DOMAIN user_clients)

(* MUTANT of DoGc: realm_clients_all_streams is not filtered.              *)
MutDoGcRealmKept(to_remove) ==
    /\ Remove(to_remove) /\ UNCHANGED realm_clients
    /\ RunHooks(to_remove, Users \ DOMAIN user_clients')

(* MUTANT of DoGc: the hook ignores last_for_client.                       *)
MutDoGcEveryQueue(to_remove) ==
    /\ Remove(to_remove) /\ realm_clients' = realm_clients \ to_remove
    /\ RunHooks(to_remove, Users)

(* do_gc_event_queues: the dicts are filtered first, for all queues that   *)
(* go; then the hook runs for each, with last_for_client when the user has *)
(* no key left in user_clients.                                            *)
DoGc(to_remove) ==
    /\ Remove(to_remove) /\ realm_clients' = realm_clients \ to_remove
    /\ RunHooks(to_remove, Users \ DOMAIN user_clients')

GcEventQueues ==
    /\ idle # {} /\ DoGc(idle)
    /\ UNCHANGED <<unused, away, sent, fetched>>

(* DELETE /events.                                                         *)
CleanupEventQueue(c) ==
    /\ c \in clients /\ DoGc({c})
    /\ UNCHANGED <<unused, away, sent, fetched>>

(* SIGTERM and start: dump_event_queues, then load_event_queues, which     *)
(* rebuilds the other two dicts from clients.                              *)
Restart ==
    /\ user_clients' = [u \in {Owner[c] : c \in clients} |->
                           {c \in clients : Owner[c] = u}]
    /\ realm_clients' = clients \cap AllStreams
    /\ UNCHANGED <<unused, clients, held, returned, idle, away, sent, notices, fetched>>

Next ==
    \/ \E c \in Queues : Allocate(c)
    \/ \E s \in SentMessage : ProcessMessageEvent(s)
    \/ \E c \in Queues : FetchEvents(c)
    \/ \E c \in Queues : GoesIdle(c)
    \/ \E u \in Users : PresenceChanges(u)
    \/ GcEventQueues
    \/ \E c \in Queues : CleanupEventQueue(c)
    \/ Restart

Spec == Init /\ [][Next]_vars

-----------------------------------------------------------------------------
TypeOK ==
    /\ unused \subseteq Queues /\ clients \subseteq Queues \ unused
    /\ DOMAIN user_clients \subseteq Users
    /\ \A u \in DOMAIN user_clients : user_clients[u] \subseteq Queues
    /\ realm_clients \subseteq Queues
    /\ held \in [Queues -> SUBSET Event]
    /\ returned \in [Queues -> SUBSET Messages]
    /\ idle \subseteq clients /\ away \subseteq Users
    /\ sent \subseteq SentMessage
    /\ notices \in [Users \X Messages \X Channels -> Nat]
    /\ fetched \in [Users -> SUBSET Messages]

(* The three dicts agree after any sequence of allocations, sweeps,        *)
(* deletions and reloads: each live queue is listed for its owner, and for *)
(* the realm if it takes all streams, and nothing else is; no user has an  *)
(* empty list, on which last_for_client relies.                            *)
RegistryConsistent ==
    /\ DOMAIN user_clients = {Owner[c] : c \in clients}
    /\ \A u \in DOMAIN user_clients : user_clients[u] = {c \in clients : Owner[c] = u}
    /\ realm_clients = clients \cap AllStreams

Holds(u, m) ==
    \E c \in clients : Owner[c] = u /\ \E e \in held[c] : e.msg = m

(* The user has had a queue that takes no messages.                        *)
HasSilentQueue(u) ==
    \E c \in Queues \ TakesMessages : Owner[c] = u /\ c \notin unused

(* A mention is not forgotten: it was notified, or reached a client of the *)
(* user, or waits in a live queue of that user, where the client or the    *)
(* garbage collection hook will find it.  The exception: a queue that      *)
(* takes no messages may outlive the queue with the mention, whose hook    *)
(* then takes the user for present.                                        *)
NoMentionForgotten ==
    \A s \in sent, u \in Users, ch \in Channels :
        u \in s.to \cap s.mentioned /\ u # s.sender =>
            \/ notices[u, s.msg, ch] > 0
            \/ s.msg \in fetched[u]
            \/ Holds(u, s.msg)
            \/ HasSilentQueue(u)

(* The hook speaks only for users who have left: a sweep or a deletion     *)
(* notifies a user only if it took the user's last queue.                  *)
HookOnlyForLast ==
    [][\A n \in Users \X Messages \X Channels :
          clients' # clients /\ notices'[n] > notices[n] =>
              \A c \in clients' : Owner[c] # n[1]]_vars
=============================================================================
