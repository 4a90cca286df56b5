------------------------------ MODULE StateSync ------------------------------
(***************************************************************************)
(* do_events_register: the user's row is loaded, Tornado allocates an      *)
(* event queue, the initial data is read in one query after the other, and *)
(* the events that came meanwhile are applied to it.  All the time other   *)
(* requests change the rows and send events.  A behaviour is about one     *)
(* area of the data: what the areas read and change does not overlap.      *)
(* How presence comes about is an area of its own, with its workers.       *)
(***************************************************************************)
EXTENDS SyncSettings, SyncUsers, SyncStreams, SyncMessages, Activity

CONSTANTS Admins, Absent, Areas   \* administrators and users without an account at first; areas to look at

vars == <<syncVars, activityVars>>

ASSUME AdminsAreHuman == Admins \subseteq Humans /\ Admins \ Absent # {} /\ Absent \subseteq Users \ {Me}

\* The rows at first; in the area of messages Me is on the first of the public streams.
InitRows(a) ==
  LET first == CHOOSE s \in Streams : TRUE
      there == a = "messages"
  IN [own |-> InitSettings.own, realm |-> InitSettings.realm, domains |-> InitSettings.domains,
      lists |-> InitSettings.lists, hotspots |-> InitSettings.hotspots,
      msgs |-> InitMessages.msgs, last_id |-> InitMessages.last_id, presence |-> InitMessages.presence,
      users |-> InitUsers(Admins, Absent),
      streams |-> [s \in Streams |-> [NewStream(s, ~there) EXCEPT !.present = there]],
      subs |-> [u \in Users |-> [s \in Streams |-> IF there /\ s = first THEN "active" ELSE "never"]],
      color |-> [s \in Streams |-> 0]]

Init ==
  /\ area \in Areas
  /\ db = InitRows(area)
  /\ outbox = <<>> /\ changes = 0
  /\ phase = 1 /\ profile = <<>> /\ queue = <<>> /\ pending = <<>> /\ state = <<>> /\ lost = {}
  /\ ActivityInit

Queries ==
  CASE area = "settings" -> SettingsQueries
    [] area = "users" -> UsersQueries
    [] area = "streams" -> StreamsQueries
    [] area = "messages" -> MessagesQueries
    [] area = "presence" -> <<>>

Steps == <<"load", "allocate">> \o Queries \o <<"get_user_events", "apply", "returned">>
At(step) == Steps[phase] = step
Allocated == phase > 2
Returned == At("returned")

OfProfile(p) ==
  CASE area = "settings" -> SettingsOfProfile(p)
    [] area = "users" -> UsersOfProfile(p)
    [] area = "streams" -> NoStreams
    [] area = "messages" -> MessagesOfProfile(p)

fetch_initial_state_data(s, query, d, p) ==
  CASE area = "settings" -> FetchSettings(s, query, d)
    [] area = "users" -> FetchUsers(s, query, d, p)
    [] area = "streams" -> FetchStreams(s, query, d)
    [] area = "messages" -> FetchMessages(s, query, d)

apply_event(s, e, d, p) ==
  CASE area = "settings" -> ApplySettings(s, e, p)
    [] area = "users" -> ApplyUsers(s, e, d, p)
    [] area = "streams" -> IF e.type = "stream" THEN ApplyStream(s, e) ELSE ApplySubscription(s, e)
    [] area = "messages" -> ApplyMessages(s, e, d)

-----------------------------------------------------------------------------

ProfileOf(d) == [own |-> d.own, realm |-> d.realm, me |-> d.users[Me]]

\* The decorators authenticate the request and hand the loaded row on to the view.
LoadProfile ==
  /\ At("load") /\ Me \in active_user_ids(db)
  /\ profile' = ProfileOf(db)
  /\ phase' = phase + 1
  /\ UNCHANGED <<writer, area, queue, pending, state, lost>>

\* request_event_queue: from now on Tornado keeps the events for Me.
AllocateQueue ==
  /\ At("allocate")
  /\ state' = OfProfile(profile)
  /\ phase' = phase + 1
  /\ UNCHANGED <<writer, area, profile, queue, pending, lost>>

Fetch ==
  /\ \E i \in 1..Len(Queries) : At(Queries[i])
  /\ state' = fetch_initial_state_data(state, Steps[phase], db, profile)
  /\ phase' = phase + 1
  /\ UNCHANGED <<writer, area, profile, queue, pending, lost>>

get_user_events ==
  /\ At("get_user_events")
  /\ pending' = queue
  /\ queue' = <<>>
  /\ phase' = phase + 1
  /\ UNCHANGED <<writer, area, profile, state, lost>>

\* apply_events, one event at a time; the dictionary is returned after the last.
apply_events ==
  /\ At("apply")
  /\ IF pending = <<>> THEN phase' = phase + 1 /\ UNCHANGED <<pending, state>>
     ELSE /\ state' = apply_event(state, Head(pending), db, profile)
          /\ pending' = Tail(pending)
          /\ UNCHANGED phase
  /\ UNCHANGED <<writer, area, profile, queue, lost>>

\* What the client does not learn when it misses event e.
KeysOf(e) ==
  CASE e.type \in {"own", "realm"} -> {e.key}
    [] e.type = "pointer" -> {"pointer"}
    [] e.type = "realm_user" -> {"me"}
    [] e.type = "realm_bot" -> {e.bot.user_id}
    [] OTHER -> {}

\* What apply_event gets wrong although the event came: a bot with a new owner joins no list;
\* streams are found by name, which after a change of name does not fit what was read; Me
\* loses the own bots with the rights of an administrator, and bots are matched by Me's address.
Misapplied(e) ==
  CASE e.type = "realm_bot" /\ e.op = "update" /\ "owner" \in DOMAIN e.bot -> {e.bot.user_id}
    [] e.type = "stream" /\ e.op = "update" /\ e.property = "name" -> {e.stream_id}
    [] e.type = "realm_user" /\ e.op = "update" /\ e.person.user_id = Me
       /\ DOMAIN e.person \cap {"is_admin", "new_email"} # {} -> {"bots"}
    [] OTHER -> {}

Untold(notice) ==
  Misapplied(notice.event) \cup
  (IF Me \notin notice.users \/ phase = 2 THEN KeysOf(notice.event) ELSE {})

\* send_event and process_event: the next notice reaches Tornado, which has a queue for Me or not.
Publish ==
  /\ outbox # <<>> /\ "event" \in DOMAIN Head(outbox)
  /\ outbox' = Tail(outbox)
  /\ queue' = IF Allocated /\ Me \in Head(outbox).users THEN Append(queue, Head(outbox).event) ELSE queue
  /\ lost' = lost \cup (IF phase = 1 THEN {} ELSE Untold(Head(outbox)))
                  \cup (IF Me \in active_user_ids(db) THEN {} ELSE {"inactive"})
  /\ UNCHANGED <<db, changes, area, phase, profile, pending, state>>

Registration == LoadProfile \/ AllocateQueue \/ Fetch \/ get_user_events \/ apply_events
Requests == SettingsRequest \/ UsersRequest \/ StreamsRequest \/ StreamsContinue \/ MessagesRequest

Next ==
  \/ area # "presence" /\ (Registration \/ Publish \/ Requests) /\ UNCHANGED activityVars
  \/ area = "presence" /\ ActivityNext /\ UNCHANGED syncVars

Spec == Init /\ [][Next]_vars

-----------------------------------------------------------------------------

TypeOK ==
  /\ area \in Areas /\ changes \in 0..MaxChanges /\ phase \in 1..Len(Steps)
  /\ DOMAIN db.own = OwnKeys /\ db.realm \in [RealmKeys -> 0..1]
  /\ db.users \in [Users -> UserRows]
  /\ db.streams \in [Streams -> StreamRows] /\ db.subs \in SubscriptionRows
  /\ DOMAIN db.msgs \subseteq MessageIds /\ \A m \in DOMAIN db.msgs : db.msgs[m] \in MessageRows
  /\ phase = 1 => queue = <<>> /\ profile = <<>>

\* What a registration would read that ran alone, now.
Fresh == FoldLeft(LAMBDA s, q : fetch_initial_state_data(s, q, db, ProfileOf(db)), OfProfile(ProfileOf(db)), Queries)

\* Register has returned and every event sent was applied.
Settled == Returned /\ outbox = <<>> /\ queue = <<>>

\* Settings: what register returns is what the rows hold and a later registration would read,
\* except for the columns of which no event tells, for events that came between loading
\* user_profile and allocating the queue, and for can_create_streams, which is computed from
\* the loaded realm.
SettingsConverge ==
  area = "settings" /\ Settled =>
    /\ \A k \in OwnKeys \ lost : state.own[k] = db.own[k]
    /\ \A k \in RealmKeys \ lost : state.realm[k] = db.realm[k]
    /\ state.lists = db.lists /\ state.hotspots = get_next_hotspots(db) /\ state.realm_domains = db.domains
    /\ profile.realm = db.realm => state.can_create_streams = can_create_streams(ProfileOf(db))

\* Users: the list of people is complete and right in everything but addresses, whose event
\* has no field that apply_event takes over; the user's own row likewise unless an event came
\* before the queue; of a bot that is owned all along there is an entry with its present data.
UsersConverge ==
  area = "users" /\ Settled /\ "inactive" \notin lost =>
    LET NoEmail(q) == [k \in {"user_id", "is_admin", "full_name", "avatar", "timezone"} |-> q[k]]
        Mine(s) == {b \in s.realm_bots : b.user_id \notin lost /\ b.owner = Me}
    IN /\ {NoEmail(q) : q \in state.realm_users} = {NoEmail(q) : q \in Fresh.realm_users}
       /\ "me" \in lost \/ \A k \in {"is_admin", "full_name", "avatar"} : state.me[k] = Fresh.me[k]
       /\ "bots" \notin lost => Mine(Fresh) \subseteq Mine(state)

\* Streams: of every subscription of Me to a stream that still exists, and of no other, there
\* is an entry with its present name, colour and subscribers (a second one, older, may be there
\* too: apply_event appends); the other lists name the right streams.
StreamsConverge ==
  area = "streams" /\ Settled =>
    LET Known == Live(db) \ lost
        About(dicts) == {x \in dicts : x.stream_id \in Known}
        Ids(dicts) == {x.stream_id : x \in About(dicts)}
    IN /\ About(Fresh.subscriptions) \subseteq About(state.subscriptions)
       /\ Ids(state.subscriptions) = Ids(Fresh.subscriptions)
       /\ Ids(state.unsubscribed) = Ids(Fresh.unsubscribed)
       /\ Ids(state.never_subscribed) = Ids(Fresh.never_subscribed)
       /\ About(Fresh.streams) \subseteq About(state.streams)

\* Messages: no unread message is missing from what register returns (unless Me marked it
\* unread again), the newest message is not missed, the pointer is right, and nobody who is
\* active is shown otherwise.
UnreadConverge ==
  area = "messages" /\ Settled =>
    LET Shown == UNION {BagToSet(state.unread_msgs.threads[i].ids) : i \in DOMAIN state.unread_msgs.threads}
        Delivered == {m \in Received(db) : "historical" \notin db.msgs[m].flags}
    IN /\ \A m \in Unread(db) : m \in Shown \/ db.msgs[m].reopened
       /\ state.max_message_id \in Max(Delivered \cup {-1})..max_message_id(db)
       /\ "pointer" \in lost \/ state.pointer = db.own["pointer"]
       /\ \A u \in Users : db.presence[u] = "active" => state.presences[u] = "active"

\* What register returns, with the events that came while it read, is what a registration
\* reads that runs later and alone, in every area and within the limits that each part names.
RegisterConverges == SettingsConverge /\ UsersConverge /\ StreamsConverge /\ UnreadConverge

\* The streams that Me never could read, and the entries and events that name one of some streams.
HiddenStreams(d) == {s \in Streams : ~d.streams[s].was_public /\ d.subs[Me][s] = "never"}
Names(r, streams) ==
  \/ "stream_id" \in DOMAIN r /\ r.stream_id \in streams
  \/ "stream" \in DOMAIN r /\ r.stream.stream_id \in streams
  \/ "sub" \in DOMAIN r /\ r.sub.stream_id \in streams

\* A private stream that Me never could read shows up in nothing that Me's client gets.
PrivateStreamsHidden ==
  area = "streams" /\ Allocated =>
    /\ \A i \in 1..Len(queue) : ~Names(queue[i], HiddenStreams(db))
    /\ \A x \in state.subscriptions \cup state.unsubscribed \cup state.never_subscribed \cup state.streams :
          ~Names(x, HiddenStreams(db))

\* One request after the other cannot leave the organisation without an administrator.
AlwaysAnAdmin == get_admin_users(db) # {}
=============================================================================
