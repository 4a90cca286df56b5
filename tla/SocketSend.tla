----------------------------- MODULE SocketSend -----------------------------
(***************************************************************************)
(* Sending a message over a socket: SocketConnection in Tornado, which     *)
(* publishes the request to the queue message_sender, MessageSenderWorker, *)
(* which stores the message and publishes the answer to tornado_return,    *)
(* and Tornado's consumer of that queue, which answers on the connection   *)
(* that has the client's id by then.  RabbitMQ's connections break, the    *)
(* worker and Tornado may be killed, and a client that connects again asks *)
(* redis what became of its requests.                                      *)
(***************************************************************************)
EXTENDS Naturals, Sequences, SequencesExt, FiniteSets, TLC

CONSTANTS
  Queues,      \* ids of event queues, which are the clients' ids
  Conns,       \* sockets
  Requests,    \* req_ids of messages to send
  Workers,     \* processes of the worker message_sender
  UserOfConn,  \* the user of the session cookie of a socket
  OwnerOf,     \* the owner of an event queue
  QueueOf,     \* the client that makes a request
  Refused,     \* requests that the view answers with an error
  MaxFaults    \* bound: crashes, lost links and failed calls

ASSUME OwnersAreUsers == DOMAIN UserOfConn = Conns /\ DOMAIN OwnerOf = Queues /\ QueueOf \in [Requests -> Queues]
ASSUME RefusedAreRequests == Refused \subseteq Requests
ASSUME NoneIsNobody == "none" \notin Queues \cup Conns \cup Requests
ASSUME FaultsAreCounted == MaxFaults \in Nat

VARIABLES
  conn,        \* per socket its state and client_id
  connections, \* socket.connections
  redis,       \* socket_req_status of each request
  tq,          \* the TornadoQueueClient of Tornado
  ready,       \* RabbitMQ: messages of the two queues
  unacked,     \* answers delivered to Tornado whose consumer raised
  worker,      \* per worker the request it holds and where it is
  stored,      \* how often do_send_messages stored the message of a request
  client,      \* what each client knows of its requests
  dropped,     \* history: requests that the code gave up or forgot
  exposed,     \* history: requests handled again after they were handled
  faults

sendVars == <<conn, connections, redis, tq, ready, unacked, worker, stored, client, dropped, exposed, faults>>
sockets == <<conn, connections>>
rabbit == <<tq, ready, unacked>>
history == <<dropped, exposed>>

None == "none"
ConnStates == {"none", "open", "auth", "closed"}
WorkerSteps == {"idle", "consume", "respond", "return", "ack"}
NewClient == [link |-> "connecting", channel |-> FALSE, declared |-> FALSE,
              cbs |-> <<>>, declaring |-> <<>>, timer |-> FALSE]

SendInit ==
  /\ conn = [c \in Conns |-> [state |-> "none", client_id |-> None]]
  /\ connections = [q \in Queues |-> None]
  /\ redis = [r \in Requests |-> "absent"]
  /\ tq = NewClient
  /\ ready = [message_sender |-> <<>>, tornado_return |-> <<>>]
  /\ unacked = <<>>
  /\ worker = [w \in Workers |-> [req |-> None, step |-> "idle"]]
  /\ stored = [r \in Requests |-> 0]
  /\ client = [r \in Requests |-> "new"]
  /\ dropped = {} /\ exposed = {} /\ faults = 0

-----------------------------------------------------------------------------
(* SocketConnection.                                                         *)

\* Without the cookies the connection is closed on the next tick; else a timer waits for auth.
on_open(c) ==
  /\ conn[c].state = "none"
  /\ \E cookies \in BOOLEAN : conn' = [conn EXCEPT ![c].state = IF cookies THEN "open" ELSE "closed"]
  /\ UNCHANGED <<connections, redis, rabbit, worker, stored, client, history, faults>>

\* auth_timeout: on_close with close_info, nothing was registered.
auth_timeout(c) ==
  /\ conn[c].state = "open"
  /\ conn' = [conn EXCEPT ![c].state = "closed"]
  /\ UNCHANGED <<connections, redis, rabbit, worker, stored, client, history, faults>>

MutDeregisterNothing(cs, c) == cs
deregister_connection(cs, c) ==
  IF conn[c].client_id = None THEN cs ELSE [cs EXCEPT ![conn[c].client_id] = None]

\* close() runs on_close before it returns.
on_close(c) ==
  /\ conn[c].state \in {"open", "auth"}
  /\ connections' = deregister_connection(connections, c)
  /\ conn' = [conn EXCEPT ![c].state = "closed"]
  /\ UNCHANGED <<redis, rabbit, worker, stored, client, history, faults>>

\* What the client sent is lost when the socket goes first.
LostOnWire(c, r) ==
  /\ conn[c].state = "auth" /\ conn[c].client_id = QueueOf[r] /\ client[r] = "new"
  /\ connections' = deregister_connection(connections, c)
  /\ conn' = [conn EXCEPT ![c].state = "closed"]
  /\ client' = [client EXCEPT ![r] = "sent"]
  /\ UNCHANGED <<redis, rabbit, worker, stored, history, faults>>

register_connection(q, c) ==
  LET old == connections[q]
  IN /\ connections' = [(IF old = None THEN connections ELSE deregister_connection(connections, old)) EXCEPT ![q] = c]
     /\ conn' = [d \in Conns |-> IF d = c THEN [state |-> "auth", client_id |-> q]
                                 ELSE IF d = old THEN [conn[d] EXCEPT !.state = "closed"] ELSE conn[d]]

\* The queue must be the user's own.  The status inquiries tell the client what it may send again.
authenticate_client(c, q) ==
  /\ conn[c].state = "open"
  /\ UserOfConn[c] = OwnerOf[q]
  /\ register_connection(q, c)
  /\ client' = [r \in Requests |->
                 IF QueueOf[r] # q \/ client[r] # "sent" THEN client[r]
                 ELSE CASE redis[r] = "absent" -> "new"
                        [] redis[r] = "complete" -> "answered"
                        [] OTHER -> "sent"]
  /\ UNCHANGED <<redis, rabbit, worker, stored, history, faults>>

-----------------------------------------------------------------------------
(* The queue clients.                                                        *)

reconnect(t) == [t EXCEPT !.link = "connecting", !.channel = FALSE, !.declared = FALSE]

\* json_publish of the Tornado client: a queue that is not declared is declared first, without
\* a channel the call is kept for on_channel_open, and a broken link is opened anew.
json_publish(t, r) ==
  IF t.channel /\ t.link = "up"
  THEN IF t.declared THEN [client |-> t, out |-> <<r>>]
       ELSE [client |-> [t EXCEPT !.declaring = Append(@, r)], out |-> <<>>]
  ELSE LET u == IF t.channel \/ t.declared THEN reconnect(t) ELSE t
       IN [client |-> [u EXCEPT !.cbs = Append(@, r)], out |-> <<>>]

\* Published first: Tornado may stop before redis knows.
MutPublishFirst(c, r) ==
  /\ conn[c].state = "auth" /\ conn[c].client_id = QueueOf[r] /\ client[r] = "new"
  /\ LET p == json_publish(tq, r)
     IN /\ tq' = p.client
        /\ ready' = [ready EXCEPT !.message_sender = @ \o p.out]
  /\ client' = [client EXCEPT ![r] = "sent"]
  /\ \E marked \in BOOLEAN : redis' = IF marked THEN [redis EXCEPT ![r] = "received"] ELSE redis
  /\ UNCHANGED <<sockets, unacked, worker, stored, history, faults>>

\* Marked received first, then published.
on_message(c, r) ==
  /\ conn[c].state = "auth" /\ conn[c].client_id = QueueOf[r] /\ client[r] = "new"
  /\ redis' = [redis EXCEPT ![r] = "received"]
  /\ LET p == json_publish(tq, r)
     IN /\ tq' = p.client
        /\ ready' = [ready EXCEPT !.message_sender = @ \o p.out]
  /\ client' = [client EXCEPT ![r] = "sent"]
  /\ UNCHANGED <<sockets, unacked, worker, stored, history, faults>>

\* Parked calls run on every opening of a channel: they stay in _on_open_cbs.
on_channel_open ==
  /\ tq.link = "connecting"
  /\ tq' = [tq EXCEPT !.link = "up", !.channel = TRUE, !.declaring = @ \o tq.cbs]
  /\ exposed' = exposed \cup {r \in Range(tq.cbs) : stored[r] > 0 \/ r \in Range(ready.message_sender)
                                                   \/ (\E w \in Workers : worker[w].req = r)
                                                   \/ r \in Range(tq.declaring)}
  /\ UNCHANGED <<sockets, redis, ready, unacked, worker, stored, client, dropped, faults>>

\* finish: the queue is declared; the publish goes out on the channel there is by now.
DeclareOk ==
  /\ tq.declaring # <<>>
  /\ LET r == Head(tq.declaring)
     IN /\ tq' = [tq EXCEPT !.declaring = Tail(@), !.declared = TRUE]
        /\ IF tq.channel /\ tq.link = "up"
           THEN ready' = [ready EXCEPT !.message_sender = Append(@, r)] /\ UNCHANGED dropped
           ELSE dropped' = dropped \cup ({r} \ Range(tq.cbs)) /\ UNCHANGED ready
  /\ UNCHANGED <<sockets, redis, unacked, worker, stored, client, exposed, faults>>

\* Declarations that were not confirmed are forgotten, answers not acknowledged come again.
on_connection_closed ==
  /\ tq.link = "up" /\ faults < MaxFaults
  /\ faults' = faults + 1
  /\ tq' = [tq EXCEPT !.link = "down", !.declaring = <<>>, !.timer = TRUE]
  /\ dropped' = dropped \cup (Range(tq.declaring) \ Range(tq.cbs))
  /\ ready' = [ready EXCEPT !.tornado_return = unacked \o @]
  /\ unacked' = <<>>
  /\ UNCHANGED <<sockets, redis, worker, stored, client, exposed>>

\* The timer reconnects even if json_publish did so before it.
on_timeout ==
  /\ tq.timer
  /\ tq' = [reconnect(tq) EXCEPT !.timer = FALSE]
  /\ UNCHANGED <<sockets, redis, ready, unacked, worker, stored, client, history, faults>>

-----------------------------------------------------------------------------
(* MessageSenderWorker: register_consumer acknowledges after the consumer.   *)

GoTo(w, step) == worker' = [worker EXCEPT ![w].step = step]

\* The consumer is not registered again once something failed.
MutNotRegisteredAgain(w) ==
  /\ worker[w].step = "idle" /\ ready.message_sender # <<>> /\ faults = 0
  /\ worker' = [worker EXCEPT ![w] = [req |-> Head(ready.message_sender), step |-> "consume"]]
  /\ ready' = [ready EXCEPT !.message_sender = Tail(@)]
  /\ UNCHANGED <<sockets, redis, tq, unacked, stored, client, history, faults>>

Deliver(w) ==
  /\ worker[w].step = "idle" /\ ready.message_sender # <<>>
  /\ worker' = [worker EXCEPT ![w] = [req |-> Head(ready.message_sender), step |-> "consume"]]
  /\ ready' = [ready EXCEPT !.message_sender = Tail(@)]
  /\ UNCHANGED <<sockets, redis, tq, unacked, stored, client, history, faults>>

get_response(w) ==
  /\ worker[w].step = "consume"
  /\ stored' = [stored EXCEPT ![worker[w].req] = IF worker[w].req \in Refused THEN @ ELSE @ + 1]
  /\ GoTo(w, "respond")
  /\ UNCHANGED <<sockets, redis, rabbit, client, history, faults>>

MarkComplete(w) ==
  /\ worker[w].step = "respond"
  /\ redis' = [redis EXCEPT ![worker[w].req] = "complete"]
  /\ GoTo(w, "return")
  /\ UNCHANGED <<sockets, rabbit, stored, client, history, faults>>

\* After a connection error json_publish sends again what may have arrived.
PublishResult(w) ==
  /\ worker[w].step = "return"
  /\ \E again \in BOOLEAN :
       /\ again => faults < MaxFaults
       /\ faults' = IF again THEN faults + 1 ELSE faults
       /\ ready' = [ready EXCEPT !.tornado_return = @ \o (IF again THEN <<worker[w].req, worker[w].req>> ELSE <<worker[w].req>>)]
  /\ GoTo(w, "ack")
  /\ UNCHANGED <<sockets, redis, tq, unacked, stored, client, history>>

basic_ack(w) ==
  /\ worker[w].step = "ack"
  /\ worker' = [worker EXCEPT ![w] = [req |-> None, step |-> "idle"]]
  /\ UNCHANGED <<sockets, redis, rabbit, stored, client, history, faults>>

\* consume_wrapper writes the event to the errors file; the delivery is acknowledged.
ConsumeFails(w) ==
  /\ worker[w].step \in {"consume", "respond"} /\ faults < MaxFaults
  /\ faults' = faults + 1
  /\ dropped' = dropped \cup {worker[w].req}
  /\ worker' = [worker EXCEPT ![w] = [req |-> None, step |-> "idle"]]
  /\ UNCHANGED <<sockets, redis, rabbit, stored, client, exposed>>

\* Acknowledged on delivery: nothing comes again.
MutAckedBefore(w) ==
  /\ worker[w].step # "idle" /\ faults < MaxFaults
  /\ faults' = faults + 1
  /\ worker' = [worker EXCEPT ![w] = [req |-> None, step |-> "idle"]]
  /\ UNCHANGED <<sockets, redis, rabbit, stored, client, history>>

\* Killed, by SIGUSR1 of check_and_send_restart_signal too: what was not acknowledged comes again.
WorkerStops(w) ==
  /\ worker[w].step # "idle" /\ faults < MaxFaults
  /\ faults' = faults + 1
  /\ ready' = [ready EXCEPT !.message_sender = <<worker[w].req>> \o @]
  /\ exposed' = IF worker[w].step = "consume" THEN exposed ELSE exposed \cup {worker[w].req}
  /\ worker' = [worker EXCEPT ![w] = [req |-> None, step |-> "idle"]]
  /\ UNCHANGED <<sockets, redis, tq, unacked, stored, client, dropped>>

-----------------------------------------------------------------------------
(* The answer, and Tornado's end.                                            *)

respond_send_message ==
  /\ ready.tornado_return # <<>> /\ tq.link = "up"
  /\ LET r == Head(ready.tornado_return)
     IN client' = IF connections[QueueOf[r]] = None THEN client ELSE [client EXCEPT ![r] = "answered"]
  /\ ready' = [ready EXCEPT !.tornado_return = Tail(@)]
  /\ UNCHANGED <<sockets, redis, tq, unacked, worker, stored, history, faults>>

\* The wrapped consumer of the Tornado client has no nack.
RespondRaises ==
  /\ ready.tornado_return # <<>> /\ tq.link = "up" /\ faults < MaxFaults
  /\ faults' = faults + 1
  /\ unacked' = Append(unacked, Head(ready.tornado_return))
  /\ ready' = [ready EXCEPT !.tornado_return = Tail(@)]
  /\ UNCHANGED <<sockets, redis, tq, worker, stored, client, history>>

\* Tornado stops, maybe in on_message after redis was told: sockets, parked and undeclared publishes are gone.
TornadoStops ==
  /\ faults < MaxFaults /\ faults' = faults + 1
  /\ conn' = [c \in Conns |-> IF conn[c].state = "none" THEN conn[c] ELSE [conn[c] EXCEPT !.state = "closed"]]
  /\ connections' = [q \in Queues |-> None]
  /\ tq' = NewClient
  /\ ready' = [ready EXCEPT !.tornado_return = unacked \o @]
  /\ unacked' = <<>>
  /\ \E cut \in {{}} \cup {{r} : r \in {x \in Requests : client[x] = "new" /\ connections[QueueOf[x]] # None}} :
       /\ redis' = [r \in Requests |-> IF r \in cut THEN "received" ELSE redis[r]]
       /\ client' = [r \in Requests |-> IF r \in cut THEN "sent" ELSE client[r]]
       /\ dropped' = dropped \cup cut \cup Range(tq.cbs) \cup Range(tq.declaring)
  /\ UNCHANGED <<worker, stored, exposed>>

-----------------------------------------------------------------------------

SocketNext ==
  \/ \E c \in Conns : on_open(c) \/ auth_timeout(c) \/ on_close(c)
  \/ \E c \in Conns, q \in Queues : authenticate_client(c, q)
  \/ \E c \in Conns, r \in Requests : on_message(c, r) \/ LostOnWire(c, r)

RabbitNext == on_channel_open \/ DeclareOk \/ on_connection_closed \/ on_timeout

WorkerNext == \E w \in Workers :
  Deliver(w) \/ get_response(w) \/ MarkComplete(w) \/ PublishResult(w) \/ basic_ack(w) \/ ConsumeFails(w) \/ WorkerStops(w)

SendNext == SocketNext \/ RabbitNext \/ WorkerNext \/ respond_send_message \/ RespondRaises \/ TornadoStops

\* pika opens and declares what is asked for, the IOLoop fires timers, workers are restarted.
SendFairness ==
  /\ WF_sendVars(on_channel_open) /\ WF_sendVars(DeclareOk) /\ WF_sendVars(on_timeout)
  /\ \A w \in Workers : WF_sendVars(Deliver(w)) /\ WF_sendVars(get_response(w)) /\ WF_sendVars(MarkComplete(w))
                        /\ WF_sendVars(PublishResult(w)) /\ WF_sendVars(basic_ack(w))

SendSpec == SendInit /\ [][SendNext]_sendVars /\ SendFairness

-----------------------------------------------------------------------------

SendTypeOK ==
  /\ conn \in [Conns -> [state : ConnStates, client_id : Queues \cup {None}]]
  /\ connections \in [Queues -> Conns \cup {None}]
  /\ redis \in [Requests -> {"absent", "received", "complete"}]
  /\ worker \in [Workers -> [req : Requests \cup {None}, step : WorkerSteps]]
  /\ stored \in [Requests -> Nat] /\ client \in [Requests -> {"new", "sent", "answered"}]
  /\ \A s \in {ready.message_sender, ready.tornado_return, unacked, tq.cbs, tq.declaring} : Range(s) \subseteq Requests
  /\ dropped \subseteq Requests /\ exposed \subseteq Requests /\ faults \in 0..MaxFaults

\* Answers go to the right browser: a registered socket is open, belongs to the queue's owner
\* and has that queue's id, and an authenticated socket that is open is the registered one,
\* through replacement, closing and restarts of Tornado.
RegistryIsLive ==
  /\ \A q \in Queues : connections[q] # None =>
       /\ conn[connections[q]] = [state |-> "auth", client_id |-> q]
       /\ UserOfConn[connections[q]] = OwnerOf[q]
  /\ \A c \in Conns : conn[c].state = "auth" => connections[conn[c].client_id] = c

Parked(r) == r \in Range(tq.cbs) \cup Range(tq.declaring)
InFlight(r) == Parked(r) \/ r \in Range(ready.message_sender) \/ \E w \in Workers : worker[w].req = r

\* A request that redis calls received is on its way or held by a worker, unless Tornado
\* stopped with it, its declaration was lost, or it went to the errors file.
ReceivedIsKept == \A r \in Requests : redis[r] = "received" => InFlight(r) \/ r \in dropped

\* A message is stored twice only if its worker stopped after storing it or a parked publish
\* ran again: a client that sends again on "not_received" doubles nothing.  A client that has
\* an answer, from a status inquiry too, has a stored message or a refusal.
StoredAsAnswered ==
  \A r \in Requests : /\ stored[r] > 1 => r \in exposed
                      /\ client[r] = "answered" /\ r \notin Refused => stored[r] > 0

\* A received request is completed in the end, unless it is dropped, whatever links and
\* workers fail on the way (finitely often).
ReceivedCompletes == \A r \in Requests : redis[r] = "received" ~> redis[r] = "complete" \/ r \in dropped

=============================================================================
