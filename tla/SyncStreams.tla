----------------------------- MODULE SyncStreams -----------------------------
(***************************************************************************)
(* Streams and subscriptions: the views of zerver/views/streams.py, the    *)
(* functions that change Stream and Subscription rows, the queries of      *)
(* gather_subscriptions_helper and do_get_streams, and apply_event for     *)
(* stream and subscription events.                                         *)
(***************************************************************************)
EXTENDS SyncState

\* A Stream row.  name is <<stream, version>>, so that names are unique; was_public is history.
StreamRows ==
  [present: BOOLEAN, deactivated: BOOLEAN, invite_only: BOOLEAN, name: Streams \X (0..1),
   description: 0..1, was_public: BOOLEAN]

NewStream(s, private) ==
  [present |-> TRUE, deactivated |-> FALSE, invite_only |-> private, name |-> <<s, 0>>,
   description |-> 0, was_public |-> ~private]

\* Subscription rows: there is none yet, or it is active or not; color is a property of Me's.
SubscriptionRows == [Users -> [Streams -> {"never", "active", "inactive"}]]

is_public(d, s) == ~d.streams[s].invite_only
Live(d) == {s \in Streams : d.streams[s].present /\ ~d.streams[s].deactivated}
Subscribed(d, s) == {u \in Users : d.subs[u][s] = "active"}
private_stream_user_ids(d, s) == Subscribed(d, s)
can_access_stream_user_ids(d, s) == IF is_public(d, s) THEN active_user_ids(d) ELSE private_stream_user_ids(d, s)
get_subscribers(d, s) == Subscribed(d, s) \cap active_user_ids(d)
get_occupied_streams(d) == {s \in Live(d) : get_subscribers(d, s) # {}}

\* Stream.to_dict
StreamDict(d, s) ==
  [stream_id |-> s, name |-> d.streams[s].name, description |-> d.streams[s].description,
   invite_only |-> d.streams[s].invite_only]

StreamEvent(d, op, s) == [type |-> "stream", op |-> op, stream |-> StreamDict(d, s)]

\* What a request does once the events before it are sent: the rest of a view that commits twice.
Then(what, args) == [next |-> what, args |-> args]

-----------------------------------------------------------------------------

\* A new public stream is announced to everyone, before anybody is subscribed.
create_stream_if_needed(s, private, rest) ==
  LET rows == [db EXCEPT !.streams[s] = NewStream(s, private)]
  IN Commit(rows, (IF private THEN <<>> ELSE <<ToRealm(rows, StreamEvent(rows, "create", s))>>) \o rest)

\* The payload of the event that tells user u of the new subscription.
notify_subscriptions_added(d, u, s) ==
  send_event([type |-> "subscription", op |-> "add",
              sub |-> Update(StreamDict(d, s), [subscribers |-> get_subscribers(d, s), color |-> d.color[s]])], {u})

\* Mutant: everybody is told of changes to a private stream.
EveryPeer(d, s, altered) == active_user_ids(d) \ altered

get_peer_user_ids_for_stream_change(d, s, altered) ==
  (IF d.streams[s].invite_only THEN get_subscribers(d, s) ELSE active_user_ids(d)) \ altered

PeerNotices(d, op, s, altered) ==
  LET peers == get_peer_user_ids_for_stream_change(d, s, altered)
      one(u) == send_event([type |-> "subscription", op |-> op, name |-> d.streams[s].name, user_id |-> u,
                            stream_id |-> s], peers)
      order == SetToSeq(altered)
  IN IF peers = {} THEN <<>> ELSE [i \in 1..Len(order) |-> one(order[i])]

\* The rows after subscribing users to stream s, and the notices in the order they are sent:
\* the stream is occupied, the private stream exists, you are subscribed, they are subscribed.
bulk_add_subscriptions(d, s, users) ==
  LET new == {u \in users : d.subs[u][s] # "active"}
      rows == [d EXCEPT !.subs = [u \in Users |-> IF u \in new THEN [@[u] EXCEPT ![s] = "active"] ELSE @[u]]]
      occupied == s \in get_occupied_streams(rows) \ get_occupied_streams(d) /\ is_public(d, s)
      order == SetToSeq(new)
  IN [rows |-> rows,
      notices |-> (IF occupied THEN <<ToRealm(rows, StreamEvent(rows, "occupy", s))>> ELSE <<>>)
        \o (IF is_public(d, s) THEN <<>> ELSE <<send_event(StreamEvent(rows, "create", s), new)>>)
        \o [i \in 1..Len(order) |-> notify_subscriptions_added(rows, order[i], s)]
        \o PeerNotices(rows, "peer_add", s, new)]

\* filter_stream_authorization: whoever subscribes others to a private stream is on it.
filter_stream_authorization(actor, s) == is_public(db, s) \/ db.subs[actor][s] = "active"

\* list_to_streams with autocreate: a stream that is missing is created by those who may.
list_to_streams(actor, s, private, rest) ==
  /\ ~db.streams[s].present
  /\ can_create_streams([me |-> db.users[actor], realm |-> db.realm])
  /\ create_stream_if_needed(s, private, rest)

\* Subscribing creates the stream first if there is none; the creator is authorised.
add_subscriptions_backend(actor, s, users, private) ==
  /\ actor \in active_user_ids(db)
  /\ \/ list_to_streams(actor, s, private, <<Then("bulk_add_subscriptions", <<s, users>>)>>)
     \/ /\ s \in Live(db) /\ filter_stream_authorization(actor, s)
        /\ LET change == bulk_add_subscriptions(db, s, users) IN Commit(change.rows, change.notices)

-----------------------------------------------------------------------------

\* Everyone with access is told, then the stream gets another name and no active subscription.
do_deactivate_stream(d, s) ==
  LET affected == can_access_stream_user_ids(d, s)
      rows == [d EXCEPT !.streams[s].deactivated = TRUE, !.streams[s].invite_only = TRUE,
                        !.subs = [u \in Users |-> IF @[u][s] = "active" THEN [@[u] EXCEPT ![s] = "inactive"] ELSE @[u]]]
  IN [rows |-> rows, notices |-> <<send_event(StreamEvent(d, "delete", s), affected)>>]

notify_subscriptions_removed(d, u, s) ==
  send_event([type |-> "subscription", op |-> "remove", name |-> d.streams[s].name, stream_id |-> s], {u})

\* A public stream without subscribers is vacated; a private one is deactivated before the
\* events of the removal go out.
bulk_remove_subscriptions(d, s, users) ==
  LET gone == {u \in users : d.subs[u][s] = "active"}
      rows == [d EXCEPT !.subs = [u \in Users |-> IF u \in gone THEN [@[u] EXCEPT ![s] = "inactive"] ELSE @[u]]]
      vacant == s \in get_occupied_streams(d) \ get_occupied_streams(rows)
      order == SetToSeq(gone)
  IN [rows |-> rows,
      notices |->
        (CASE vacant /\ is_public(d, s) -> <<ToRealm(rows, StreamEvent(rows, "vacate", s))>>
           [] vacant /\ ~is_public(d, s) -> <<Then("do_deactivate_stream", <<s>>)>>
           [] OTHER -> <<>>)
        \o [i \in 1..Len(order) |-> notify_subscriptions_removed(rows, order[i], s)]
        \o PeerNotices(rows, "peer_remove", s, gone)]

\* Only an administrator removes others, and from a private stream only if on it.
remove_subscriptions_backend(actor, s, users) ==
  /\ actor \in active_user_ids(db) /\ s \in Live(db)
  /\ users # {actor} => /\ db.users[actor].admin
                        /\ is_public(db, s) \/ db.subs[actor][s] = "active"
  /\ LET change == bulk_remove_subscriptions(db, s, users) IN Commit(change.rows, change.notices)

\* access_stream_by_id for an administrator.
AdminWithAccess(s) ==
  /\ s \in Live(db)
  /\ \E admin \in get_admin_users(db) : is_public(db, s) \/ db.subs[admin][s] = "active"

deactivate_stream_backend(s) ==
  AdminWithAccess(s) /\ LET change == do_deactivate_stream(db, s) IN Commit(change.rows, change.notices)

\* The command that moves everyone who is on one stream over to another, and ends it.
merge_streams(keep, destroy) ==
  LET users_to_activate == Subscribed(db, destroy) \ Subscribed(db, keep)
      change == bulk_remove_subscriptions(db, destroy, Subscribed(db, destroy))
  IN Commit(change.rows, change.notices \o <<Then("do_deactivate_stream", <<destroy>>),
                                             Then("bulk_add_subscriptions", <<keep, users_to_activate>>)>>)

UpdateEvent(s, property, value) ==
  [type |-> "stream", op |-> "update", stream_id |-> s, name |-> db.streams[s].name,
   property |-> property, value |-> value]

\* Two events, both keyed by the old name; the email address follows from the name.
do_rename_stream(s) ==
  LET new == <<s, 1 - db.streams[s].name[2]>>
      rows == [db EXCEPT !.streams[s].name = new]
  IN Commit(rows, <<send_event(UpdateEvent(s, "email_address", new), can_access_stream_user_ids(rows, s)),
                    send_event(UpdateEvent(s, "name", new), can_access_stream_user_ids(rows, s))>>)

do_change_stream_description(s) ==
  LET rows == [db EXCEPT !.streams[s].description = 1 - @]
  IN Commit(rows, <<send_event(UpdateEvent(s, "description", rows.streams[s].description),
                               can_access_stream_user_ids(rows, s))>>)

\* No event tells of a stream that becomes private or public.
do_change_stream_invite_only(s, private) ==
  SilentCommit([db EXCEPT !.streams[s].invite_only = private, !.streams[s].was_public = @ \/ ~private], s)

update_stream_backend(s) ==
  /\ AdminWithAccess(s)
  /\ \/ do_change_stream_description(s)
     \/ do_rename_stream(s)
     \/ \E private \in BOOLEAN : do_change_stream_invite_only(s, private)

do_change_subscription_property(s) ==
  Commit([db EXCEPT !.color[s] = 1 - @],
         <<ToMe([type |-> "subscription", op |-> "update", stream_id |-> s, name |-> db.streams[s].name,
                 value |-> 1 - db.color[s]])>>)

\* Only for a stream the user is subscribed to.
update_subscription_properties_backend(s) ==
  s \in Live(db) /\ db.subs[Me][s] = "active" /\ do_change_subscription_property(s)

StreamsRequest ==
  /\ Request("streams")
  /\ \/ \E actor \in Humans, s \in Streams, users \in SUBSET Humans \ {{}}, private \in BOOLEAN :
          users \subseteq active_user_ids(db) /\ add_subscriptions_backend(actor, s, users, private)
     \/ \E actor \in Humans, s \in Streams, users \in SUBSET Humans \ {{}} :
          remove_subscriptions_backend(actor, s, users)
     \/ \E s \in Streams : deactivate_stream_backend(s)
     \/ \E keep, destroy \in Live(db) : keep # destroy /\ merge_streams(keep, destroy)
     \/ \E s \in Streams : update_stream_backend(s)
     \/ \E s \in Streams : update_subscription_properties_backend(s)

\* The request goes on with its second commit.
StreamsContinue ==
  /\ outbox # <<>> /\ "next" \in DOMAIN Head(outbox)
  /\ LET args == Head(outbox).args
         change == IF Head(outbox).next = "bulk_add_subscriptions"
                   THEN bulk_add_subscriptions(db, args[1], args[2])
                   ELSE do_deactivate_stream(db, args[1])
     IN db' = change.rows /\ outbox' = change.notices \o Tail(outbox)
  /\ UNCHANGED <<changes, area, client>>

-----------------------------------------------------------------------------

\* gather_subscriptions_helper makes three queries: Me's subscriptions, the active streams,
\* and the subscribers of those streams; raw holds the results of the first two.
QuerySubscriptions(d) == [subs |-> d.subs[Me], color |-> d.color]
QueryStreams(d) == [s \in Live(d) |-> StreamDict(d, s)]

\* The subscribers of a private stream are shown to those on it.
validate_user_access_to_subscribers(stream, subscribed) == stream.invite_only => subscribed
bulk_get_subscriber_user_ids(d, stream, subscribed) ==
  IF validate_user_access_to_subscribers(stream, subscribed) THEN get_subscribers(d, stream.stream_id) ELSE {}

SubscriptionsOf(raw, d, status) ==
  {Update(raw.streams[s], [subscribers |-> bulk_get_subscriber_user_ids(d, raw.streams[s], status = "active"),
                           color |-> raw.mine.color[s]]) :
     s \in {s \in DOMAIN raw.streams : raw.mine.subs[s] = status}}

gather_subscriptions_helper(raw, d) ==
  [subscriptions |-> SubscriptionsOf(raw, d, "active"),
   unsubscribed |-> SubscriptionsOf(raw, d, "inactive"),
   never_subscribed |-> {
     Update(raw.streams[s], [subscribers |-> bulk_get_subscriber_user_ids(d, raw.streams[s], FALSE)]) :
     s \in {s \in DOMAIN raw.streams : raw.mine.subs[s] = "never" /\ ~raw.streams[s].invite_only}}]

do_get_streams(d) ==
  {StreamDict(d, s) : s \in {s \in get_occupied_streams(d) : is_public(d, s) \/ d.subs[Me][s] = "active"}}

NoStreams == [subscriptions |-> {}, unsubscribed |-> {}, never_subscribed |-> {}, streams |-> {},
              raw |-> [mine |-> <<>>, streams |-> <<>>]]
StreamsQueries == <<"subscriptions", "all_streams", "subscribers", "streams">>

FetchStreams(s, query, d) ==
  CASE query = "subscriptions" -> [s EXCEPT !.raw.mine = QuerySubscriptions(d)]
    [] query = "all_streams" -> [s EXCEPT !.raw.streams = QueryStreams(d)]
    [] query = "subscribers" -> Update(s, gather_subscriptions_helper(s.raw, d))
    [] query = "streams" -> [s EXCEPT !.streams = do_get_streams(d)]

Named(name, dicts) == {x \in dicts : x.name = name}
WithSubscriber(u, dicts, name) ==
  {IF x.name = name THEN [x EXCEPT !.subscribers = @ \cup {u}] ELSE x : x \in dicts}

ApplyStream(s, e) ==
  CASE e.op = "create" ->
         [s EXCEPT !.streams = @ \cup {e.stream},
                   !.never_subscribed = IF e.stream.invite_only THEN @
                                        ELSE @ \cup {Update(e.stream, [subscribers |-> {}])}]
    [] e.op = "delete" ->
         [s EXCEPT !.streams = {x \in @ : x.stream_id # e.stream.stream_id},
                   !.never_subscribed = {x \in @ : x.stream_id # e.stream.stream_id}]
    [] e.op = "update" ->
         LET Set(x) == IF x.name = e.name /\ e.property \in DOMAIN x THEN [x EXCEPT ![e.property] = e.value] ELSE x
         IN [s EXCEPT !.subscriptions = {Set(x) : x \in @}, !.streams = {Set(x) : x \in @}]
    [] e.op = "occupy" -> [s EXCEPT !.streams = @ \cup {e.stream}]
    [] e.op = "vacate" -> [s EXCEPT !.streams = {x \in @ : x.stream_id # e.stream.stream_id}]

ApplySubscription(s, e) ==
  CASE e.op = "add" ->
         [s EXCEPT !.subscriptions = @ \cup {e.sub},
                   !.unsubscribed = @ \ Named(e.sub.name, @),
                   !.never_subscribed = @ \ Named(e.sub.name, @)]
    [] e.op = "remove" ->
         [s EXCEPT !.subscriptions = @ \ Named(e.name, @),
                   !.unsubscribed = @ \cup {[x EXCEPT !.subscribers = @ \ {Me}] : x \in Named(e.name, s.subscriptions)}]
    [] e.op = "update" ->
         [s EXCEPT !.subscriptions = {IF x.name = e.name THEN [x EXCEPT !.color = e.value] ELSE x : x \in @}]
    [] e.op = "peer_add" ->
         [s EXCEPT !.subscriptions = WithSubscriber(e.user_id, @, e.name),
                   !.never_subscribed = WithSubscriber(e.user_id, @, e.name)]
    [] e.op = "peer_remove" ->
         [s EXCEPT !.subscriptions =
            {IF x.name = e.name THEN [x EXCEPT !.subscribers = @ \ {e.user_id}] ELSE x : x \in @}]
=============================================================================
