------------------------------ MODULE SyncState ------------------------------
(***************************************************************************)
(* What the modules about registration share: the database rows that the   *)
(* requests of zerver/lib/actions.py change, the events those requests     *)
(* send, and the state dictionary that do_events_register builds for the   *)
(* client of the user Me.                                                  *)
(*                                                                         *)
(* A request commits its rows first and calls send_event afterwards; the   *)
(* calls not made yet are in outbox.  One request changes the database at  *)
(* a time (MaxChanges requests in a behaviour): the instances ask what the *)
(* registration does to a well-ordered stream of events.                   *)
(***************************************************************************)
EXTENDS Integers, FiniteSets, SequencesExt

CONSTANTS
  Me,            \* the user whose client registers
  Humans,        \* ids of people, Me among them; some have no account yet
  Bots,          \* ids of bots
  Streams,       \* ids of streams
  MaxChanges     \* bound: requests that change the database

ASSUME MeIsHuman == Me \in Humans /\ Humans \cap Bots = {}
ASSUME UsersAreFinite == IsFiniteSet(Humans \cup Bots)
ASSUME MaxChangesIsNat == MaxChanges \in Nat

VARIABLES
  db,        \* the rows: own, realm, domains, sets, users, streams, subs, msgs
  outbox,    \* <<[event, users], ...>> still to be handed to Tornado
  changes,   \* requests made so far
  area,      \* the part of the system the requests of this behaviour change
  phase,     \* how far the registration has come: an index into its Steps
  profile,   \* user_profile and user_profile.realm as the register request loaded them
  queue,     \* events Tornado holds for the client
  pending,   \* events that register has fetched and not applied yet
  state,     \* the dictionary that register returns
  lost       \* history: keys of events that came after profile was loaded and never reached queue

writer == <<db, outbox, changes>>
client == <<phase, profile, queue, pending, state, lost>>
syncVars == <<db, outbox, changes, area, phase, profile, queue, pending, state, lost>>

Users == Humans \cup Bots

\* UserProfile.objects.filter(realm=realm, is_active=True), of rows d.
active_user_ids(d) == {u \in Users : d.users[u].present /\ d.users[u].active}

\* realm.get_admin_users()
get_admin_users(d) == {u \in active_user_ids(d) : d.users[u].admin}

\* The decorator of the administrator's endpoints: some active administrator asks.
require_realm_admin == get_admin_users(db) # {}

\* UserProfile.can_create_streams: an administrator may, and others if the realm lets them.
can_create_streams(p) == p.me.admin \/ p.realm["create_stream_by_admins_only"] = 0

\* send_event: the notice that goes to RabbitMQ once the rows are committed.
send_event(event, users) == [event |-> event, users |-> users]

ToRealm(d, event) == send_event(event, active_user_ids(d))
ToMe(event) == send_event(event, {Me})

\* Another request may start when the one before has sent its events.
Request(a) == area = a /\ outbox = <<>> /\ changes < MaxChanges

\* The request commits the rows and has the notices still to send.
Commit(rows, notices) ==
  /\ db' = rows
  /\ outbox' = notices
  /\ changes' = changes + 1
  /\ UNCHANGED <<area, client>>

\* The same for a change of which no event tells; key names what the client cannot learn.
SilentCommit(rows, key) ==
  /\ db' = rows
  /\ changes' = changes + 1
  /\ lost' = IF phase = 1 THEN lost ELSE lost \cup {key}
  /\ UNCHANGED <<outbox, area, phase, profile, queue, pending, state>>

\* dict.update: the keys of new replace those of old.
Update(old, new) == [k \in DOMAIN old \cup DOMAIN new |-> IF k \in DOMAIN new THEN new[k] ELSE old[k]]
=============================================================================
