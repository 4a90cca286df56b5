------------------------------ MODULE SyncUsers ------------------------------
(***************************************************************************)
(* People and bots: the views of zerver/views/users.py, the functions that *)
(* change UserProfile rows, what registering reads of them and what        *)
(* apply_event does with realm_user and realm_bot events.                  *)
(***************************************************************************)
EXTENDS SyncState

Attributes == {"full_name", "avatar", "timezone", "email", "api_key", "all_public"}
NoOwner == "none"

ASSUME NoOwnerIsNobody == NoOwner \notin Humans

\* The streams a bot sends to and gets events of by default: none, a public or a private one.
BotStreams == {"default_sending_stream", "default_events_register_stream"}
StreamChoices == {"none", "public", "private"}

\* A UserProfile row.
UserRows ==
  [present: BOOLEAN, active: BOOLEAN, admin: BOOLEAN, owner: Humans \cup {NoOwner},
   attr: [Attributes -> 0..1], stream: [BotStreams -> StreamChoices]]

NewRow(owner) == [present |-> TRUE, active |-> TRUE, admin |-> FALSE, owner |-> owner,
                  attr |-> [a \in Attributes |-> 0], stream |-> [b \in BotStreams |-> "none"]]
NoRow == [NewRow(NoOwner) EXCEPT !.present = FALSE, !.active = FALSE]

\* Admins administer the organisation at first; the people and bots in Absent have no account yet.
InitUsers(admins, absent) ==
  [u \in Users |-> IF u \in absent THEN NoRow
                   ELSE [NewRow(IF u \in Bots THEN Me ELSE NoOwner) EXCEPT !.admin = u \in admins]]

\* get_realm_user_dicts: one entry of realm_users.
UserDict(d, u) ==
  [user_id |-> u, is_admin |-> d.users[u].admin, full_name |-> d.users[u].attr["full_name"],
   avatar |-> d.users[u].attr["avatar"], timezone |-> d.users[u].attr["timezone"],
   email |-> d.users[u].attr["email"]]

\* One entry of realm_bots.
BotDict(d, b) ==
  [user_id |-> b, email |-> d.users[b].attr["email"], is_active |-> d.users[b].active, owner |-> d.users[b].owner,
   full_name |-> d.users[b].attr["full_name"], avatar |-> d.users[b].attr["avatar"],
   api_key |-> d.users[b].attr["api_key"], all_public |-> d.users[b].attr["all_public"]] @@ d.users[b].stream

\* Events about a bot go to its owner, and to the administrators unless a default stream is private.
bot_owner_userids(d, b) ==
  (IF \E s \in BotStreams : d.users[b].stream[s] = "private" THEN {} ELSE get_admin_users(d)) \cup ({d.users[b].owner} \ {NoOwner})

UserEvent(d, op, person) == ToRealm(d, [type |-> "realm_user", op |-> op, person |-> person])
BotEvent(d, op, bot) ==
  send_event([type |-> "realm_bot", op |-> op, bot |-> bot], bot_owner_userids(d, bot.user_id))

notify_created_user(d, u) == UserEvent(d, "add", UserDict(d, u))
notify_created_bot(d, b) == BotEvent(d, "add", BotDict(d, b))

\* Events about user u: the first always, the second only for bots.
Both(u, userNotice, botNotice) == IF u \in Bots THEN <<userNotice, botNotice>> ELSE <<userNotice>>

-----------------------------------------------------------------------------

\* UserProfile.can_admin_user: the owner of a bot, or an administrator.
can_admin_user(actor, target) ==
  actor \in active_user_ids(db) /\ (db.users[target].owner = actor \/ db.users[actor].admin)

\* Mutant: the administrator asked about is counted as well.
CountsItself(user) == get_admin_users(db) = {}
check_last_admin(user) == db.users[user].admin /\ Cardinality(get_admin_users(db)) = 1

do_create_user(u, owner) ==
  LET rows == [db EXCEPT !.users[u] = NewRow(owner)]
  IN Commit(rows, Both(u, notify_created_user(rows, u), notify_created_bot(rows, u)))

create_user_backend(u) ==
  require_realm_admin /\ u \in Humans /\ ~db.users[u].present /\ do_create_user(u, NoOwner)

add_bot_backend(actor, b) ==
  actor \in active_user_ids(db) /\ ~db.users[b].present /\ do_create_user(b, actor)

\* The row, then its two events; then the same for the bots the user owns, one after the other.
DeactivationNotices(d, u) ==
  Both(u, UserEvent(d, "remove", [user_id |-> u]), BotEvent(d, "remove", [user_id |-> u]))

do_deactivate_user(u) ==
  LET rows == [db EXCEPT !.users[u].active = FALSE]
      owned == {b \in Bots : rows.users[b].active /\ rows.users[b].owner = u}
      all == [rows EXCEPT !.users = [v \in Users |-> IF v \in owned THEN [@[v] EXCEPT !.active = FALSE]
                                                     ELSE @[v]]]
      cascade == SetToSeq(owned)
  IN IF ~db.users[u].active THEN Commit(db, <<>>)
     ELSE Commit(all, DeactivationNotices(rows, u) \o
                      FlattenSeq([i \in 1..Len(cascade) |-> DeactivationNotices(all, cascade[i])]))

_deactivate_user_profile_backend(actor, target) == can_admin_user(actor, target) /\ do_deactivate_user(target)

deactivate_user_backend(actor, target) ==
  /\ target \in Humans /\ db.users[target].present
  /\ ~check_last_admin(target)
  /\ _deactivate_user_profile_backend(actor, target)

deactivate_user_own_backend(user) ==
  user \in active_user_ids(db) \cap Humans /\ ~check_last_admin(user) /\ do_deactivate_user(user)

deactivate_bot_backend(actor, b) == db.users[b].present /\ _deactivate_user_profile_backend(actor, b)

do_reactivate_user(u) ==
  LET rows == [db EXCEPT !.users[u].active = TRUE]
  IN Commit(rows, Both(u, notify_created_user(rows, u), notify_created_bot(rows, u)))

reactivate_user_backend(actor, target) ==
  db.users[target].present /\ can_admin_user(actor, target) /\ do_reactivate_user(target)

\* do_activate_user also resets the password and the terms of service; it never notifies of a bot.
do_activate_user(u) ==
  LET rows == [db EXCEPT !.users[u].active = TRUE] IN Commit(rows, <<notify_created_user(rows, u)>>)

\* The one attribute a changes; person is what the realm_user event says of it.
SetAttribute(u, a, notices(_)) ==
  LET rows == [db EXCEPT !.users[u].attr[a] = 1 - @] IN Commit(rows, notices(rows))

do_change_full_name(u) ==
  LET payload(d) == [user_id |-> u, email |-> d.users[u].attr["email"], full_name |-> d.users[u].attr["full_name"]]
      notices(d) == Both(u, UserEvent(d, "update", payload(d)), BotEvent(d, "update", payload(d)))
  IN SetAttribute(u, "full_name", notices)

\* The bot's event comes first here.
do_change_avatar_fields(u) ==
  LET person(d) == [user_id |-> u, email |-> d.users[u].attr["email"], avatar |-> d.users[u].attr["avatar"]]
      bot(d) == [user_id |-> u, avatar |-> d.users[u].attr["avatar"]]
      notices(d) == (IF u \in Bots THEN <<BotEvent(d, "update", bot(d))>> ELSE <<>>)
                    \o <<UserEvent(d, "update", person(d))>>
  IN SetAttribute(u, "avatar", notices)

do_regenerate_api_key(u) ==
  LET notices(d) == IF u \in Bots
                    THEN <<BotEvent(d, "update", [user_id |-> u, api_key |-> d.users[u].attr["api_key"]])>>
                    ELSE <<>>
  IN SetAttribute(u, "api_key", notices)

do_change_timezone(u) ==
  LET notices(d) == <<UserEvent(d, "update", [user_id |-> u, email |-> d.users[u].attr["email"],
                                              timezone |-> d.users[u].attr["timezone"]])>>
  IN SetAttribute(u, "timezone", notices)

\* The event says new_email, and not email.
do_change_user_email(u) ==
  LET notices(d) == <<UserEvent(d, "update", [user_id |-> u, new_email |-> d.users[u].attr["email"]])>>
  IN SetAttribute(u, "email", notices)

do_change_is_admin(u, value) ==
  LET rows == [db EXCEPT !.users[u].admin = value]
  IN Commit(rows, <<UserEvent(rows, "update", [user_id |-> u, email |-> db.users[u].attr["email"],
                                               is_admin |-> value])>>)

\* An administrator is removed unless the one who asks is the last administrator.
update_user_backend(actor, target, value) ==
  /\ db.users[target].present /\ can_admin_user(actor, target)
  /\ value \/ ~check_last_admin(actor)
  /\ do_change_is_admin(target, value)

do_change_bot_owner(b, owner) ==
  LET rows == [db EXCEPT !.users[b].owner = owner]
  IN Commit(rows, <<BotEvent(rows, "update", [user_id |-> b, owner |-> owner])>>)

\* A private stream only if the owner of the bot is on it; member tells whether.
_default_stream_permision_check(b, stream, member) ==
  stream = "private" => member /\ db.users[b].owner # NoOwner

SetBotStream(b, which, stream) ==
  LET rows == [db EXCEPT !.users[b].stream[which] = stream]
  IN Commit(rows, <<BotEvent(rows, "update", (which :> stream) @@ [user_id |-> b])>>)

do_change_default_sending_stream(b, stream, member) ==
  _default_stream_permision_check(b, stream, member) /\ SetBotStream(b, "default_sending_stream", stream)

do_change_default_events_register_stream(b, stream, member) ==
  _default_stream_permision_check(b, stream, member) /\ SetBotStream(b, "default_events_register_stream", stream)

do_change_default_all_public_streams(b) ==
  LET notices(d) == <<BotEvent(d, "update", [user_id |-> b, all_public |-> d.users[b].attr["all_public"]])>>
  IN SetAttribute(b, "all_public", notices)

\* The parts of a bot that its administrators may change.
patch_bot_backend(actor, b) ==
  /\ db.users[b].present /\ can_admin_user(actor, b)
  /\ \/ do_change_full_name(b)
     \/ \E owner \in Humans : db.users[owner].present /\ do_change_bot_owner(b, owner)
     \/ \E stream \in StreamChoices, member \in BOOLEAN : do_change_default_sending_stream(b, stream, member)
     \/ \E stream \in StreamChoices, member \in BOOLEAN : do_change_default_events_register_stream(b, stream, member)
     \/ do_change_default_all_public_streams(b)
     \/ do_change_avatar_fields(b)

regenerate_bot_api_key(actor, b) == db.users[b].present /\ can_admin_user(actor, b) /\ do_regenerate_api_key(b)

\* The user's own settings.
json_change_settings(u) == do_change_full_name(u)
set_avatar_backend(u) == do_change_avatar_fields(u)
delete_avatar_backend(u) == do_change_avatar_fields(u)
regenerate_api_key(u) == do_regenerate_api_key(u)
confirm_email_change(u) == do_change_user_email(u)

UsersRequest ==
  /\ Request("users")
  /\ \/ \E u \in Humans : create_user_backend(u)
     \/ \E actor \in Humans, b \in Bots : add_bot_backend(actor, b)
     \/ \E actor, u \in Humans : deactivate_user_backend(actor, u)
     \/ \E u \in Humans : deactivate_user_own_backend(u)
     \/ \E actor \in Humans, b \in Bots : deactivate_bot_backend(actor, b)
     \/ \E actor \in Humans, u \in Users : reactivate_user_backend(actor, u)
     \/ \E actor, u \in Humans, value \in BOOLEAN : update_user_backend(actor, u, value)
     \/ \E actor \in Humans, b \in Bots : patch_bot_backend(actor, b)
     \/ \E u \in Humans : db.users[u].present /\ ~db.users[u].active /\ do_activate_user(u)
     \/ \E actor \in Humans, b \in Bots : regenerate_bot_api_key(actor, b)
     \/ \E u \in active_user_ids(db) \cap Humans :
          \/ json_change_settings(u)
          \/ set_avatar_backend(u)
          \/ delete_avatar_backend(u)
          \/ regenerate_api_key(u)
          \/ do_change_timezone(u)
          \/ confirm_email_change(u)

-----------------------------------------------------------------------------

\* All bots of the organisation for an administrator, else the bots the user owns.
get_owned_bot_dicts(d, p) ==
  {BotDict(d, b) : b \in {b \in Bots : d.users[b].present /\ (p.me.admin \/ d.users[b].owner = Me)}}

UsersOfProfile(p) ==
  [realm_users |-> {}, realm_bots |-> {},
   me |-> [is_admin |-> p.me.admin, email |-> p.me.attr["email"], full_name |-> p.me.attr["full_name"],
           avatar |-> p.me.attr["avatar"]]]

UsersQueries == <<"realm_users", "realm_bots">>

FetchUsers(s, query, d, p) ==
  CASE query = "realm_users" -> [s EXCEPT !.realm_users = {UserDict(d, u) : u \in active_user_ids(d)}]
    [] query = "realm_bots" -> [s EXCEPT !.realm_bots = get_owned_bot_dicts(d, p)]

\* A change of Me from or to administrator empties or refetches the list of bots, the
\* latter with the profile that was loaded before.
RefetchedBots(s, person, d, p) ==
  LET old == {q \in s.realm_users : q.user_id = Me}
      applies == person.user_id = Me /\ "is_admin" \in DOMAIN person /\ person.email = p.me.attr["email"]
  IN IF applies /\ ~person.is_admin /\ (\E q \in old : q.is_admin) THEN {}
     ELSE IF applies /\ person.is_admin /\ (\E q \in old : ~q.is_admin) THEN get_owned_bot_dicts(d, p)
     ELSE s.realm_bots

ApplyUsers(s, e, d, p) ==
  CASE e.type = "realm_user" /\ e.op = "add" -> [s EXCEPT !.realm_users = @ \cup {e.person}]
    [] e.type = "realm_user" /\ e.op = "remove" ->
         [s EXCEPT !.realm_users = {q \in @ : q.user_id # e.person.user_id}]
    [] e.type = "realm_user" /\ e.op = "update" ->
         [s EXCEPT !.realm_bots = RefetchedBots(s, e.person, d, p),
                   !.realm_users = {IF q.user_id = e.person.user_id THEN Update(q, e.person) ELSE q : q \in @},
                   !.me = IF e.person.user_id # Me THEN @
                          ELSE [k \in DOMAIN @ |-> IF k \in DOMAIN e.person THEN e.person[k] ELSE @[k]]]
    [] e.type = "realm_bot" /\ e.op = "add" -> [s EXCEPT !.realm_bots = @ \cup {e.bot}]
    [] e.type = "realm_bot" /\ e.op = "remove" ->
         [s EXCEPT !.realm_bots = {IF b.user_id = e.bot.user_id THEN [b EXCEPT !.is_active = FALSE] ELSE b : b \in @}]
    [] e.type = "realm_bot" /\ e.op = "update" ->
         [s EXCEPT !.realm_bots = {IF b.user_id = e.bot.user_id THEN Update(b, e.bot) ELSE b : b \in @}]
=============================================================================
