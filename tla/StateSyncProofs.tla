--------------------------- MODULE StateSyncProofs ---------------------------
(***************************************************************************)
(* Proofs about registration against concurrent changes: for any people,   *)
(* bots, streams and settings and any number of requests somebody          *)
(* administers the organisation, and a private stream stays hidden.  And   *)
(* about presence and activity: for any clients, thresholds that fit one   *)
(* another and any number of reports, workers and deaths of workers, what  *)
(* is shown and counted is what was reported.                              *)
(***************************************************************************)
EXTENDS StateSync, FiniteSetTheorems, WellFoundedInduction, TLAPS

-----------------------------------------------------------------------------
(* Administrators *)

\* The table of users, of which bots are no administrators and people have no owner.
UsersOK(users) ==
  /\ users \in [Users -> UserRows]
  /\ \A b \in Bots : ~users[b].admin
  /\ \A u \in Humans : users[u].owner = NoOwner
AdminsOf(users) == {u \in Users : users[u].present /\ users[u].active /\ users[u].admin}
AdminInv == "users" \in DOMAIN db /\ UsersOK(db.users) /\ AdminsOf(db.users) # {}

\* What leaves the table of users alone.
KeepsUsers == DOMAIN db' = DOMAIN db /\ db'.users = db.users

\* Saving something else leaves it alone.
LEMMA OtherTable ==
  ASSUME AdminInv, NEW f, f # "users", NEW v, db' = [db EXCEPT ![f] = v]
  PROVE  KeepsUsers
BY DEF AdminInv, KeepsUsers

\* The settings' requests leave the users alone.
LEMMA SettingsKeepUsers == AdminInv /\ SettingsRequest => KeepsUsers
<1> SUFFICES ASSUME AdminInv, SettingsRequest PROVE KeepsUsers
  OBVIOUS
<1> USE DEF AdminInv, KeepsUsers, Commit, SilentCommit
<1>1. ASSUME NEW key \in RealmKeys \ {"icon"}, NEW value, update_realm(key, value) PROVE KeepsUsers
  <2>1. db' = [db EXCEPT !.realm[key] = value]
    BY <1>1 DEF RealmKeys, update_realm, Done, do_set_realm_property, do_set_realm_authentication_methods,
                do_set_realm_message_editing, do_set_realm_notifications_stream
  <2> QED
    BY <2>1
<1>2. upload_icon \/ delete_icon_backend => KeepsUsers
  BY DEF upload_icon, delete_icon_backend, Done, do_change_icon_source, do_set_realm_property
<1>3. ASSUME NEW domain, NEW allow, create_realm_domain(domain, allow) PROVE KeepsUsers
  BY <1>3 DEF create_realm_domain, do_add_realm_domain
<1>4. ASSUME NEW row, NEW allow, patch_realm_domain(row, allow) PROVE KeepsUsers
  BY <1>4 DEF patch_realm_domain, do_change_realm_domain
<1>5. ASSUME NEW row, delete_realm_domain(row) PROVE KeepsUsers
  BY <1>5 DEF delete_realm_domain, do_remove_realm_domain, do_set_realm_property
<1>6. ASSUME NEW e, upload_emoji(e) \/ delete_emoji(e) PROVE KeepsUsers
  BY <1>6 DEF upload_emoji, delete_emoji, WithEntry
<1>7. ASSUME NEW e, create_filter(e) \/ delete_filter(e) PROVE KeepsUsers
  BY <1>7 DEF create_filter, delete_filter, WithEntry, WithoutEntry
<1>8. ASSUME NEW e, create_realm_custom_profile_field(e) \/ delete_realm_custom_profile_field(e) PROVE KeepsUsers
  BY <1>8 DEF create_realm_custom_profile_field, delete_realm_custom_profile_field, WithEntry, WithoutEntry
<1>9. ASSUME NEW e, NEW f, update_realm_custom_profile_field(e, f) PROVE KeepsUsers
  BY <1>9 DEF update_realm_custom_profile_field
<1>10. ASSUME NEW e, add_default_stream(e) \/ remove_default_stream(e) PROVE KeepsUsers
  BY <1>10 DEF add_default_stream, remove_default_stream, do_add_default_stream, do_remove_default_stream,
               WithEntry, WithoutEntry
<1>11. ASSUME NEW words, do_add_alert_words(words) \/ do_remove_alert_words(words) \/ do_set_alert_words(words) PROVE KeepsUsers
  BY <1>11 DEF do_add_alert_words, do_remove_alert_words, do_set_alert_words, SetWords, SetOwn
<1>12. ASSUME NEW topics, do_set_muted_topics(topics) PROVE KeepsUsers
  BY <1>12 DEF do_set_muted_topics, SetOwn
<1>13. ASSUME NEW topic, NEW op, update_muted_topic(topic, op) PROVE KeepsUsers
  BY <1>13 DEF update_muted_topic, do_set_muted_topics, SetOwn
<1>14. ASSUME NEW value, update_display_settings_backend(value) \/ json_change_notify_settings(value) PROVE KeepsUsers
  BY <1>14 DEF update_display_settings_backend, json_change_notify_settings, do_set_user_display_setting,
               do_change_notification_settings, SetOwn
<1>15. ASSUME NEW key, NEW value, json_change_ui_settings(key, value) \/ do_change_enter_sends(value) PROVE KeepsUsers
  BY <1>15 DEF json_change_ui_settings, do_change_enter_sends
<1>16. ASSUME NEW hotspot, do_mark_hotspot_as_read(hotspot) PROVE KeepsUsers
  BY <1>16 DEF do_mark_hotspot_as_read
<1> QED
  BY <1>1, <1>2, <1>3, <1>4, <1>5, <1>6, <1>7, <1>8, <1>9, <1>10, <1>11, <1>12, <1>13, <1>14, <1>15, <1>16
     DEF SettingsRequest

\* The streams' requests and what they go on with.
LEMMA StreamChangesKeep ==
  ASSUME AdminInv, NEW s, NEW users
  PROVE  /\ \A d : "users" \in DOMAIN d => /\ DOMAIN bulk_add_subscriptions(d, s, users).rows = DOMAIN d
                    /\ bulk_add_subscriptions(d, s, users).rows.users = d.users
                    /\ DOMAIN bulk_remove_subscriptions(d, s, users).rows = DOMAIN d
                    /\ bulk_remove_subscriptions(d, s, users).rows.users = d.users
                    /\ DOMAIN do_deactivate_stream(d, s).rows = DOMAIN d
                    /\ do_deactivate_stream(d, s).rows.users = d.users
BY DEF bulk_add_subscriptions, bulk_remove_subscriptions, do_deactivate_stream

\* So do the requests about streams, also when they go on.
LEMMA StreamsKeepUsers == AdminInv /\ (StreamsRequest \/ StreamsContinue) => KeepsUsers
<1> SUFFICES ASSUME AdminInv, StreamsRequest \/ StreamsContinue PROVE KeepsUsers
  OBVIOUS
<1>0. "users" \in DOMAIN db
  BY DEF AdminInv
<1> USE DEF KeepsUsers, Commit, SilentCommit
<1>1. ASSUME NEW actor, NEW s, NEW users, NEW private, add_subscriptions_backend(actor, s, users, private) PROVE KeepsUsers
  <2>1. CASE list_to_streams(actor, s, private, <<Then("bulk_add_subscriptions", <<s, users>>)>>)
    <3>1. db' = [db EXCEPT !.streams[s] = NewStream(s, private)]
      BY <2>1 DEF list_to_streams, create_stream_if_needed
    <3> QED
      BY <1>0, <3>1
  <2>2. CASE db' = bulk_add_subscriptions(db, s, users).rows
    BY <1>0, <2>2, StreamChangesKeep
  <2> QED
    BY <1>1, <2>1, <2>2 DEF add_subscriptions_backend
<1>2. ASSUME NEW actor, NEW s, NEW users, remove_subscriptions_backend(actor, s, users) PROVE KeepsUsers
  <2>1. db' = bulk_remove_subscriptions(db, s, users).rows
    BY <1>2 DEF remove_subscriptions_backend
  <2> QED
    BY <1>0, <2>1, StreamChangesKeep
<1>3. ASSUME NEW s, deactivate_stream_backend(s) PROVE KeepsUsers
  <2>1. db' = do_deactivate_stream(db, s).rows
    BY <1>3 DEF deactivate_stream_backend
  <2> QED
    BY <1>0, <2>1, StreamChangesKeep
<1>4. ASSUME NEW keep, NEW destroy, merge_streams(keep, destroy) PROVE KeepsUsers
  <2>1. db' = bulk_remove_subscriptions(db, destroy, Subscribed(db, destroy)).rows
    BY <1>4 DEF merge_streams
  <2> QED
    BY <1>0, <2>1, StreamChangesKeep
<1>5. ASSUME NEW s, update_stream_backend(s) PROVE KeepsUsers
  BY <1>0, <1>5 DEF update_stream_backend, do_change_stream_description, do_rename_stream, do_change_stream_invite_only
<1>6. ASSUME NEW s, update_subscription_properties_backend(s) PROVE KeepsUsers
  BY <1>0, <1>6 DEF update_subscription_properties_backend, do_change_subscription_property
<1>7. StreamsContinue => KeepsUsers
  <2> SUFFICES ASSUME StreamsContinue PROVE KeepsUsers
    OBVIOUS
  <2>1. PICK args : \/ db' = bulk_add_subscriptions(db, args[1], args[2]).rows
                    \/ db' = do_deactivate_stream(db, args[1]).rows
    BY DEF StreamsContinue
  <2> QED
    BY <1>0, <2>1, StreamChangesKeep
<1> QED
  BY <1>1, <1>2, <1>3, <1>4, <1>5, <1>6, <1>7 DEF StreamsRequest

\* So do those about messages.
LEMMA MessagesKeepUsers == AdminInv /\ MessagesRequest => KeepsUsers
<1> SUFFICES ASSUME AdminInv, MessagesRequest PROVE KeepsUsers
  OBVIOUS
<1>0. "users" \in DOMAIN db
  BY DEF AdminInv
<1> USE <1>0 DEF KeepsUsers, Commit
<1>1. ASSUME NEW sender, NEW to, NEW subject, NEW mentioned, do_send_messages(sender, to, subject, mentioned) PROVE KeepsUsers
  BY <1>1 DEF do_send_messages
<1>2. ASSUME NEW editor, NEW m, NEW subject, NEW mode, NEW content, NEW mentioned,
             update_message_backend(editor, m, subject, mode, content, mentioned)
      PROVE  KeepsUsers
  BY <1>2 DEF update_message_backend, do_update_message
<1>3. ASSUME NEW m, NEW mentioned, do_update_embedded_data(m, mentioned) PROVE KeepsUsers
  BY <1>3 DEF do_update_embedded_data
<1>4. ASSUME NEW user, NEW m, delete_message_backend(user, m) PROVE KeepsUsers
  BY <1>4 DEF delete_message_backend, do_delete_message
<1>5. ASSUME NEW m, add_reaction_backend(m) PROVE KeepsUsers
  BY <1>5 DEF add_reaction_backend
<1>6. do_send_typing_notification => KeepsUsers
  BY DEF do_send_typing_notification
<1>7. ASSUME NEW op, NEW flag, NEW named, NEW scope, NEW topic, update_message_flags(op, flag, named, scope, topic) PROVE KeepsUsers
  BY <1>7 DEF update_message_flags, do_update_message_flags
<1>8. ASSUME NEW pointer, NEW android, update_pointer_backend(pointer, android) PROVE KeepsUsers
  BY <1>8 DEF update_pointer_backend, do_update_pointer
<1>9. ASSUME NEW u, NEW status, NEW stale, do_update_user_presence(u, status, stale) PROVE KeepsUsers
  BY <1>9 DEF do_update_user_presence
<1> QED
  BY <1>1, <1>2, <1>3, <1>4, <1>5, <1>6, <1>7, <1>8, <1>9 DEF MessagesRequest

\* One row of the table changes.
LEMMA RowChanged ==
  ASSUME NEW users, UsersOK(users), NEW u \in Users, NEW row \in UserRows,
         u \in Bots => ~row.admin, u \in Humans => row.owner = NoOwner,
         NEW new, new = [users EXCEPT ![u] = row]
  PROVE  /\ UsersOK(new)
         /\ \A v \in Users \ {u} : v \in AdminsOf(new) <=> v \in AdminsOf(users)
         /\ u \in AdminsOf(new) <=> row.present /\ row.active /\ row.admin
<1>1. new \in [Users -> UserRows] /\ new[u] = row /\ \A v \in Users \ {u} : new[v] = users[v]
  BY DEF UsersOK
<1>2. UsersOK(new)
  BY <1>1 DEF UsersOK
<1> QED
  BY <1>1, <1>2 DEF AdminsOf

\* Saved rows of which the table stays right, with an administrator in it.
LEMMA RowSaved ==
  ASSUME AdminInv, NEW u \in Users, NEW row \in UserRows,
         u \in Bots => ~row.admin, u \in Humans => row.owner = NoOwner,
         \/ row.present /\ row.active /\ row.admin
         \/ u \notin AdminsOf(db.users)
         \/ \E v \in AdminsOf(db.users) : v # u,
         db' = [db EXCEPT !.users[u] = row]
  PROVE  AdminInv'
<1>1. PICK users, new : users = db.users /\ new = [users EXCEPT ![u] = row]
  OBVIOUS
<1>2. UsersOK(users) /\ AdminsOf(users) # {} /\ AdminsOf(users) \subseteq Users
  BY <1>1 DEF AdminInv, AdminsOf
<1>3. /\ UsersOK(new)
      /\ \A v \in Users \ {u} : v \in AdminsOf(new) <=> v \in AdminsOf(users)
      /\ u \in AdminsOf(new) <=> row.present /\ row.active /\ row.admin
  BY <1>1, <1>2, RowChanged
<1>4. AdminsOf(new) # {}
  BY <1>1, <1>2, <1>3
<1>5. "users" \in DOMAIN db' /\ db'.users = new
  BY <1>1 DEF AdminInv
<1> QED
  BY <1>3, <1>4, <1>5 DEF AdminInv

\* The parts of a row.
LEMMA RowOf ==
  ASSUME AdminInv, NEW u \in Users
  PROVE  /\ db.users[u] \in UserRows /\ (u \in Bots => ~db.users[u].admin) /\ (u \in Humans => db.users[u].owner = NoOwner)
         /\ u \in AdminsOf(db.users) <=> db.users[u].present /\ db.users[u].active /\ db.users[u].admin
BY DEF AdminInv, UsersOK, AdminsOf

\* An attribute of a row, or a default stream, and a new account.
LEMMA AttributeSaved ==
  ASSUME AdminInv, NEW u \in Users, NEW a \in Attributes, db' = [db EXCEPT !.users[u].attr[a] = 1 - @]
  PROVE  AdminInv'
<1>1. PICK row : row = [db.users[u] EXCEPT !.attr[a] = 1 - @]
  OBVIOUS
<1>2. db' = [db EXCEPT !.users[u] = row]
  BY <1>1
<1>3. PICK old \in UserRows : old = db.users[u]
  BY RowOf
<1>4. row \in UserRows /\ row.present = old.present /\ row.active = old.active /\ row.admin = old.admin /\ row.owner = old.owner
  BY <1>1, <1>3 DEF UserRows
<1> QED
  BY <1>2, <1>3, <1>4, RowOf, RowSaved

\* A bot gets another default stream.
LEMMA BotStreamSaved ==
  ASSUME AdminInv, NEW b \in Bots, NEW which \in BotStreams, NEW stream \in StreamChoices, db' = [db EXCEPT !.users[b].stream[which] = stream]
  PROVE  AdminInv'
<1>1. PICK row : row = [db.users[b] EXCEPT !.stream[which] = stream]
  OBVIOUS
<1>2. db' = [db EXCEPT !.users[b] = row] /\ b \in Users
  BY <1>1 DEF Users
<1>3. PICK old \in UserRows : old = db.users[b]
  BY <1>2, RowOf
<1>4. row \in UserRows /\ row.present = old.present /\ row.active = old.active /\ row.admin = old.admin /\ row.owner = old.owner
  BY <1>1, <1>3 DEF UserRows
<1> QED
  BY <1>2, <1>3, <1>4, RowOf, RowSaved

\* A bot gets another owner.
LEMMA BotOwnerSaved ==
  ASSUME AdminInv, NEW b \in Bots, NEW owner \in Humans, db' = [db EXCEPT !.users[b].owner = owner]
  PROVE  AdminInv'
<1>1. PICK row : row = [db.users[b] EXCEPT !.owner = owner]
  OBVIOUS
<1>2. db' = [db EXCEPT !.users[b] = row] /\ b \in Users /\ b \notin Humans
  BY <1>1, MeIsHuman DEF Users
<1>3. PICK old \in UserRows : old = db.users[b]
  BY <1>2, RowOf
<1>4. row \in UserRows /\ row.present = old.present /\ row.active = old.active /\ row.admin = old.admin
  BY <1>1, <1>3 DEF UserRows
<1> QED
  BY <1>2, <1>3, <1>4, RowOf, RowSaved

\* A new account is active and no administrator.
LEMMA AccountMade ==
  ASSUME AdminInv, NEW u \in Users, NEW owner \in Humans \cup {NoOwner}, u \in Humans => owner = NoOwner,
         ~db.users[u].present, db' = [db EXCEPT !.users[u] = NewRow(owner)]
  PROVE  AdminInv'
<1>1. NewRow(owner) \in UserRows /\ ~NewRow(owner).admin /\ NewRow(owner).owner = owner
  BY DEF NewRow, UserRows, Attributes, BotStreams, StreamChoices
<1>2. u \notin AdminsOf(db.users)
  BY DEF AdminsOf
<1> QED
  BY <1>1, <1>2, RowSaved

\* An account is activated.
LEMMA Activated ==
  ASSUME AdminInv, NEW u \in Users, db' = [db EXCEPT !.users[u].active = TRUE]
  PROVE  AdminInv'
<1>1. PICK row : row = [db.users[u] EXCEPT !.active = TRUE]
  OBVIOUS
<1>2. db' = [db EXCEPT !.users[u] = row]
  BY <1>1
<1>3. PICK old \in UserRows : old = db.users[u]
  BY RowOf
<1>4. row \in UserRows /\ row.present = old.present /\ row.active = TRUE /\ row.admin = old.admin /\ row.owner = old.owner
  BY <1>1, <1>3 DEF UserRows
<1> QED
  BY <1>2, <1>3, <1>4, RowOf, RowSaved

\* Who is not the last administrator leaves another one.
LEMMA NotTheLast ==
  ASSUME AdminInv, NEW u \in Users, ~check_last_admin(u), u \in AdminsOf(db.users)
  PROVE  \E v \in AdminsOf(db.users) : v # u
<1>1. db.users[u].admin /\ get_admin_users(db) = AdminsOf(db.users)
  BY DEF AdminsOf, get_admin_users, active_user_ids
<1>2. Cardinality(AdminsOf(db.users)) # 1
  BY <1>1 DEF check_last_admin
<1>3. AdminsOf(db.users) # {u}
  BY <1>2, FS_Singleton
<1> QED
  BY <1>3

\* Deactivating takes the account and the bots that it owns.
LEMMA Deactivated ==
  ASSUME AdminInv, NEW u \in Users, \/ u \notin AdminsOf(db.users)
                                    \/ \E v \in AdminsOf(db.users) : v # u,
         do_deactivate_user(u)
  PROVE  AdminInv'
<1>1. CASE ~db.users[u].active
  BY <1>1 DEF do_deactivate_user, Commit, AdminInv
<1>2. CASE db.users[u].active
  <2> DEFINE rows == [db EXCEPT !.users[u].active = FALSE]
             owned == {b \in Bots : rows.users[b].active /\ rows.users[b].owner = u}
  <2>3. db' = [rows EXCEPT !.users = [v \in Users |-> IF v \in owned THEN [@[v] EXCEPT !.active = FALSE] ELSE @[v]]]
    BY <1>2 DEF do_deactivate_user, Commit
  <2>1. rows = [db EXCEPT !.users[u].active = FALSE]
    OBVIOUS
  <2>2. owned \subseteq Bots
    OBVIOUS
  <2> HIDE DEF rows, owned
  <2>4. PICK users, new : users = db.users /\ new = db'.users
    OBVIOUS
  <2>5. "users" \in DOMAIN db' /\ new = [v \in Users |-> IF v \in owned THEN [rows.users[v] EXCEPT !.active = FALSE] ELSE rows.users[v]]
    BY <2>1, <2>3, <2>4 DEF AdminInv
  <2>6. UsersOK(users) /\ AdminsOf(users) # {}
    BY <2>4 DEF AdminInv
  <2>7. rows.users = [users EXCEPT ![u].active = FALSE]
    BY <2>1, <2>4 DEF AdminInv
  <2>8. ASSUME NEW v \in Users
        PROVE  /\ new[v] \in UserRows /\ new[v].admin = users[v].admin /\ new[v].owner = users[v].owner
               /\ new[v].present = users[v].present /\ (v # u /\ v \notin Bots => new[v].active = users[v].active)
    <3>1. PICK old \in UserRows : old = users[v]
      BY <2>6 DEF UsersOK
    <3>2. rows.users[v] = old \/ (rows.users[v] = [old EXCEPT !.active = FALSE] /\ v = u)
      BY <2>6, <2>7, <3>1 DEF UsersOK
    <3>3. new[v] = rows.users[v] \/ (new[v] = [rows.users[v] EXCEPT !.active = FALSE] /\ v \in Bots)
      BY <2>2, <2>5
    <3>4. new[v] = old \/ (new[v] = [old EXCEPT !.active = FALSE] /\ (v = u \/ v \in Bots))
      BY <3>1, <3>2, <3>3 DEF UserRows
    <3> QED
      BY <3>1, <3>4 DEF UserRows
  <2>9. UsersOK(new)
    BY <2>5, <2>6, <2>8 DEF UsersOK, Users
  <2>10. PICK w \in AdminsOf(users) : w # u
    BY <2>4, <2>6
  <2>11. w \in AdminsOf(new)
    BY <2>6, <2>8, <2>10 DEF AdminsOf, UsersOK
  <2> QED
    BY <2>4, <2>5, <2>9, <2>11 DEF AdminInv
<1> QED
  BY <1>1, <1>2

\* Of people only the rights change through a view, and never those of the last administrator.
LEMMA RightsChanged ==
  ASSUME AdminInv, NEW actor \in Humans, NEW target \in Humans, NEW value \in BOOLEAN, update_user_backend(actor, target, value)
  PROVE  AdminInv'
<1>1. target \in Users /\ actor \in Users
  BY DEF Users
<1>2. PICK old \in UserRows : old = db.users[target]
  BY <1>1, RowOf
<1>3. PICK row : row = [old EXCEPT !.admin = value]
  OBVIOUS
<1>4. db' = [db EXCEPT !.users[target] = row]
  BY <1>2, <1>3 DEF update_user_backend, do_change_is_admin, Commit
<1>5. row \in UserRows /\ row.admin = value /\ row.present = old.present /\ row.active = old.active /\ row.owner = old.owner
  BY <1>2, <1>3 DEF UserRows
<1>6. target \notin Bots /\ row.owner = NoOwner
  BY <1>1, <1>2, <1>5, RowOf, MeIsHuman
<1>7. \/ row.present /\ row.active /\ row.admin
      \/ target \notin AdminsOf(db.users)
      \/ \E v \in AdminsOf(db.users) : v # target
  <2>1. CASE value
    BY <1>1, <1>2, <1>5, <2>1, RowOf
  <2>2. CASE ~value /\ actor # target
    <3>1. actor \in AdminsOf(db.users)
      <4>1. db.users[target].owner # actor
        BY <1>1, RowOf, NoOwnerIsNobody
      <4> QED
        BY <1>1, <4>1 DEF update_user_backend, can_admin_user, active_user_ids, AdminsOf
    <3> QED
      BY <2>2, <3>1
  <2>3. CASE ~value /\ actor = target
    <3>1. ~check_last_admin(target)
      BY <2>3 DEF update_user_backend
    <3> QED
      BY <1>1, <3>1, NotTheLast
  <2> QED
    BY <2>1, <2>2, <2>3
<1> QED
  BY <1>1, <1>4, <1>5, <1>6, <1>7, RowSaved

\* The requests about users keep an administrator.
LEMMA UsersKeepAdmin == AdminInv /\ UsersRequest => AdminInv'
<1> SUFFICES ASSUME AdminInv, UsersRequest PROVE AdminInv'
  OBVIOUS
<1>0. Humans \subseteq Users /\ Bots \subseteq Users /\ Humans \cap Bots = {}
  BY MeIsHuman DEF Users
<1>1. ASSUME NEW u \in Humans, create_user_backend(u) PROVE AdminInv'
  BY <1>0, <1>1, AccountMade DEF create_user_backend, do_create_user, Commit
<1>2. ASSUME NEW actor \in Humans, NEW b \in Bots, add_bot_backend(actor, b) PROVE AdminInv'
  BY <1>0, <1>2, AccountMade DEF add_bot_backend, do_create_user, Commit
<1>3. ASSUME NEW actor \in Humans, NEW u \in Humans, deactivate_user_backend(actor, u) PROVE AdminInv'
  <2>1. ~check_last_admin(u) /\ do_deactivate_user(u)
    BY <1>3 DEF deactivate_user_backend, _deactivate_user_profile_backend
  <2> QED
    BY <1>0, <2>1, NotTheLast, Deactivated
<1>4. ASSUME NEW u \in Humans, deactivate_user_own_backend(u) PROVE AdminInv'
  <2>1. ~check_last_admin(u) /\ do_deactivate_user(u)
    BY <1>4 DEF deactivate_user_own_backend
  <2> QED
    BY <1>0, <2>1, NotTheLast, Deactivated
<1>5. ASSUME NEW actor \in Humans, NEW b \in Bots, deactivate_bot_backend(actor, b) PROVE AdminInv'
  <2>1. do_deactivate_user(b)
    BY <1>5 DEF deactivate_bot_backend, _deactivate_user_profile_backend
  <2>2. b \notin AdminsOf(db.users)
    BY <1>0, RowOf
  <2> QED
    BY <1>0, <2>1, <2>2, Deactivated
<1>6. ASSUME NEW u \in Users, do_reactivate_user(u) \/ do_activate_user(u) PROVE AdminInv'
  BY <1>6, Activated DEF do_reactivate_user, do_activate_user, Commit
<1>7. ASSUME NEW u \in Users, \/ do_change_full_name(u) \/ do_change_avatar_fields(u) \/ do_regenerate_api_key(u)
                              \/ do_change_timezone(u) \/ do_change_user_email(u) \/ do_change_default_all_public_streams(u)
      PROVE  AdminInv'
  <2>1. \E a \in Attributes : db' = [db EXCEPT !.users[u].attr[a] = 1 - @]
    BY <1>7 DEF Attributes, do_change_full_name, do_change_avatar_fields, do_regenerate_api_key, do_change_timezone,
                do_change_user_email, do_change_default_all_public_streams, SetAttribute, Commit
  <2> QED
    BY <2>1, AttributeSaved
<1>8. ASSUME NEW actor \in Humans, NEW b \in Bots, patch_bot_backend(actor, b) PROVE AdminInv'
  <2>1. ASSUME NEW owner \in Humans, do_change_bot_owner(b, owner) PROVE AdminInv'
    BY <2>1, BotOwnerSaved DEF do_change_bot_owner, Commit
  <2>2. ASSUME NEW stream \in StreamChoices, NEW member,
               do_change_default_sending_stream(b, stream, member) \/ do_change_default_events_register_stream(b, stream, member)
        PROVE  AdminInv'
    BY <2>2, BotStreamSaved DEF do_change_default_sending_stream, do_change_default_events_register_stream,
                                SetBotStream, BotStreams, Commit
  <2> QED
    BY <1>0, <1>7, <1>8, <2>1, <2>2 DEF patch_bot_backend
<1>9. ASSUME NEW u \in Humans, \/ json_change_settings(u) \/ set_avatar_backend(u) \/ delete_avatar_backend(u)
                               \/ regenerate_api_key(u) \/ do_change_timezone(u) \/ confirm_email_change(u)
      PROVE  AdminInv'
  BY <1>0, <1>7, <1>9 DEF json_change_settings, set_avatar_backend, delete_avatar_backend, regenerate_api_key, confirm_email_change
<1> QED
  BY <1>0, <1>1, <1>2, <1>3, <1>4, <1>5, <1>6, <1>7, <1>8, <1>9, RightsChanged
     DEF UsersRequest, reactivate_user_backend, regenerate_bot_api_key

\* At first somebody administers the organisation.
LEMMA AdminStarts == Init => AdminInv
<1> SUFFICES ASSUME Init PROVE AdminInv
  OBVIOUS
<1>1. "users" \in DOMAIN db /\ db.users = InitUsers(Admins, Absent)
  BY DEF Init, InitRows
<1>2. PICK users : users = InitUsers(Admins, Absent)
  OBVIOUS
<1>3. ASSUME NEW u \in Users
      PROVE  /\ users[u] \in UserRows /\ (u \in Bots => ~users[u].admin) /\ (u \in Humans => users[u].owner = NoOwner)
             /\ u \in Admins \ Absent => users[u].present /\ users[u].active /\ users[u].admin
  <2>1. CASE u \in Absent
    <3>1. users[u] = NoRow
      BY <1>2, <2>1 DEF InitUsers
    <3>2. NoRow \in UserRows /\ ~NoRow.admin /\ NoRow.owner = NoOwner
      <4>1. NewRow(NoOwner) \in UserRows /\ NewRow(NoOwner).owner = NoOwner /\ ~NewRow(NoOwner).admin
        BY DEF NewRow, UserRows, Attributes, BotStreams, StreamChoices
      <4>2. PICK row \in UserRows : row = NewRow(NoOwner) /\ row.owner = NoOwner /\ ~row.admin
        BY <4>1
      <4>3. NoRow = [row EXCEPT !.present = FALSE, !.active = FALSE]
        BY <4>2 DEF NoRow
      <4> QED
        BY <4>2, <4>3 DEF UserRows
    <3> QED
      BY <2>1, <3>1, <3>2
  <2>2. CASE u \notin Absent
    <3>1. users[u] = [NewRow(IF u \in Bots THEN Me ELSE NoOwner) EXCEPT !.admin = u \in Admins]
      BY <1>2, <2>2 DEF InitUsers
    <3>2. PICK o \in Humans \cup {NoOwner} : o = IF u \in Bots THEN Me ELSE NoOwner
      BY MeIsHuman
    <3>3. NewRow(o) \in UserRows /\ NewRow(o).owner = o /\ NewRow(o).present /\ NewRow(o).active
      BY DEF NewRow, UserRows, Attributes, BotStreams, StreamChoices
    <3>4. PICK row \in UserRows : row = NewRow(o) /\ row.owner = o /\ row.present /\ row.active
      BY <3>3
    <3>5. PICK new : new = [row EXCEPT !.admin = u \in Admins]
      OBVIOUS
    <3>6. new \in UserRows /\ new.owner = o /\ new.present /\ new.active /\ (new.admin <=> u \in Admins)
      <4>1. (u \in Admins) = TRUE \/ (u \in Admins) = FALSE
        OBVIOUS
      <4>2. (new = [row EXCEPT !.admin = TRUE] /\ u \in Admins) \/ (new = [row EXCEPT !.admin = FALSE] /\ u \notin Admins)
        BY <3>5, <4>1
      <4> QED
        BY <3>4, <4>2 DEF UserRows
    <3>7. users[u] = new
      BY <3>1, <3>2, <3>4, <3>5
    <3> QED
      BY <3>2, <3>6, <3>7, MeIsHuman, AdminsAreHuman
  <2> QED
    BY <2>1, <2>2
<1>4. UsersOK(users)
  <2>1. DOMAIN users = Users /\ users \in [Users -> UserRows]
    BY <1>2, <1>3 DEF InitUsers
  <2> QED
    BY <1>3, <2>1 DEF UsersOK, Users
<1>5. AdminsOf(users) # {}
  BY <1>3, AdminsAreHuman DEF AdminsOf, Users
<1> QED
  BY <1>1, <1>2, <1>4, <1>5 DEF AdminInv

\* No step takes the last administrator away.
LEMMA AdminStays == AdminInv /\ [Next]_vars => AdminInv'
<1> SUFFICES ASSUME AdminInv, [Next]_vars PROVE AdminInv'
  OBVIOUS
<1>1. ASSUME KeepsUsers PROVE AdminInv'
  BY <1>1 DEF KeepsUsers, AdminInv
<1>2. CASE UNCHANGED vars
  BY <1>1, <1>2 DEF vars, syncVars, KeepsUsers
<1>3. CASE Registration \/ Publish
  BY <1>1, <1>3 DEF Registration, Publish, LoadProfile, AllocateQueue, Fetch, get_user_events, apply_events, writer, KeepsUsers
<1>4. CASE Requests
  BY <1>1, <1>4, SettingsKeepUsers, UsersKeepAdmin, StreamsKeepUsers, MessagesKeepUsers DEF Requests
<1>5. CASE UNCHANGED syncVars
  BY <1>1, <1>5 DEF syncVars, KeepsUsers
<1> QED
  BY <1>2, <1>3, <1>4, <1>5 DEF Next

\* Whatever requests follow each other, the organisation keeps an administrator.
THEOREM AdministratorsRemain == Spec => []AlwaysAnAdmin
<1>1. AdminInv => AlwaysAnAdmin
  BY DEF AdminInv, AlwaysAnAdmin, AdminsOf, get_admin_users, active_user_ids
<1> QED
  BY <1>1, AdminStarts, AdminStays, PTL DEF Spec

-----------------------------------------------------------------------------
(* Private streams *)

\* The rows of streams: what was never public is private, what does not exist was never public.
RowsFine(d) ==
  /\ {"streams", "subs"} \subseteq DOMAIN d
  /\ d.streams \in [Streams -> StreamRows] /\ d.subs \in SubscriptionRows
  /\ \A s \in Streams : /\ d.streams[s].was_public = FALSE => d.streams[s].invite_only = TRUE
                        /\ d.streams[s].present = FALSE => d.streams[s].was_public = FALSE

\* The entry of a stream that is not hidden, an event of such a stream.
IsDict(x) == "stream_id" \in DOMAIN x /\ "stream" \notin DOMAIN x /\ "sub" \notin DOMAIN x
DictFine(x, hidden) == IsDict(x) /\ x.stream_id \notin hidden
DictsFine(dicts, hidden) == \A x \in dicts : DictFine(x, hidden)
EventFine(e, hidden) ==
  /\ ~Names(e, hidden)
  /\ \/ e.type = "stream" /\ e.op \in {"create", "delete", "occupy", "vacate"} /\ "stream" \in DOMAIN e /\ IsDict(e.stream)
     \/ e.type = "stream" /\ e.op = "update" /\ e.property \in {"email_address", "name", "description"}
     \/ e.type = "subscription" /\ e.op = "add" /\ "sub" \in DOMAIN e /\ IsDict(e.sub)
     \/ e.type = "subscription" /\ e.op \in {"remove", "update", "peer_add", "peer_remove"}

\* A notice for Me is of such an event; the second half of a request is about a stream and users.
NoticeFine(n, hidden) ==
  \/ "event" \in DOMAIN n /\ "next" \notin DOMAIN n /\ (Me \in n.users => EventFine(n.event, hidden))
  \/ /\ "event" \notin DOMAIN n /\ "next" \in DOMAIN n /\ n.args[1] \in Streams
     /\ n.next \in {"bulk_add_subscriptions", "do_deactivate_stream"}
     /\ n.next = "bulk_add_subscriptions" => n.args[2] \subseteq Users

IsSequence(s) == \E S : s \in Seq(S)
NoticesFine(s, hidden) == IsSequence(s) /\ \A i \in 1..Len(s) : NoticeFine(s[i], hidden)
EventsFine(s, hidden) == IsSequence(s) /\ \A i \in 1..Len(s) : EventFine(s[i], hidden)

\* What register has read.
StateFine(s, hidden) ==
  /\ {"subscriptions", "unsubscribed", "never_subscribed", "streams", "raw"} \subseteq DOMAIN s
  /\ {"mine", "streams"} \subseteq DOMAIN s.raw
  /\ DictsFine(s.subscriptions, hidden) /\ DictsFine(s.unsubscribed, hidden)
  /\ DictsFine(s.never_subscribed, hidden) /\ DictsFine(s.streams, hidden)
MineFine(mine, hidden) == \A s \in Streams : mine.subs[s] # "never" => s \notin hidden
RawFine(streams, hidden) ==
  \A s \in DOMAIN streams : /\ s \in Streams /\ IsDict(streams[s]) /\ streams[s].stream_id = s
                            /\ streams[s].invite_only = FALSE => s \notin hidden

HiddenInv ==
  area = "streams" =>
    /\ RowsFine(db) /\ NoticesFine(outbox, HiddenStreams(db))
    /\ EventsFine(queue, HiddenStreams(db)) /\ EventsFine(pending, HiddenStreams(db))
    /\ phase \in 1..9
    /\ phase > 2 => StateFine(state, HiddenStreams(db))
    /\ phase \in {4, 5} => MineFine(state.raw.mine, HiddenStreams(db))
    /\ phase = 5 => RawFine(state.raw.streams, HiddenStreams(db))

\* With fewer hidden streams all that stays right.
LEMMA FewerHidden ==
  ASSUME NEW more, NEW hidden \in SUBSET more
  PROVE  /\ \A s : NoticesFine(s, more) => NoticesFine(s, hidden)
         /\ \A s : EventsFine(s, more) => EventsFine(s, hidden)
         /\ \A s : StateFine(s, more) => StateFine(s, hidden)
         /\ \A m : MineFine(m, more) => MineFine(m, hidden)
         /\ \A r : RawFine(r, more) => RawFine(r, hidden)
<1>1. \A e : EventFine(e, more) => EventFine(e, hidden)
  BY DEF EventFine, Names
<1>2. \A n : NoticeFine(n, more) => NoticeFine(n, hidden)
  BY <1>1 DEF NoticeFine
<1>3. \A dicts : DictsFine(dicts, more) => DictsFine(dicts, hidden)
  BY DEF DictsFine, DictFine
<1>4. \A s : NoticesFine(s, more) => NoticesFine(s, hidden)
  BY <1>2 DEF NoticesFine
<1>5. \A s : EventsFine(s, more) => EventsFine(s, hidden)
  BY <1>1 DEF EventsFine
<1>6. \A s : StateFine(s, more) => StateFine(s, hidden)
  BY <1>3 DEF StateFine
<1>7. \A m : MineFine(m, more) => MineFine(m, hidden)
  BY DEF MineFine
<1>8. \A r : RawFine(r, more) => RawFine(r, hidden)
  BY DEF RawFine
<1> QED
  BY <1>4, <1>5, <1>6, <1>7, <1>8

\* Sequences of notices: none, one, two parts, the rest, and one for each of a set.
LEMMA Nothing == ASSUME NEW hidden PROVE NoticesFine(<<>>, hidden)
<1>1. <<>> \in Seq({})
  OBVIOUS
<1> QED
  BY <1>1 DEF NoticesFine, IsSequence

\* One notice.
LEMMA Single == ASSUME NEW hidden, NEW n, NoticeFine(n, hidden) PROVE NoticesFine(<<n>>, hidden)
<1>1. <<n>> \in Seq({n}) /\ Len(<<n>>) = 1 /\ <<n>>[1] = n
  OBVIOUS
<1>2. IsSequence(<<n>>)
  BY <1>1 DEF IsSequence
<1>3. \A i \in 1..Len(<<n>>) : <<n>>[i] = n
  BY <1>1
<1> QED
  BY <1>2, <1>3 DEF NoticesFine

\* Two notices.
LEMMA Double == ASSUME NEW hidden, NEW a, NEW b, NoticeFine(a, hidden), NoticeFine(b, hidden) PROVE NoticesFine(<<a, b>>, hidden)
<1>1. <<a, b>> \in Seq({a, b}) /\ Len(<<a, b>>) = 2 /\ <<a, b>>[1] = a /\ <<a, b>>[2] = b
  OBVIOUS
<1>2. IsSequence(<<a, b>>)
  BY <1>1 DEF IsSequence
<1>3. \A i \in 1..Len(<<a, b>>) : <<a, b>>[i] \in {a, b}
  BY <1>1
<1> QED
  BY <1>2, <1>3 DEF NoticesFine

\* The notices of one part and then those of another.
LEMMA Joined ==
  ASSUME NEW hidden, NEW s, NEW t, NoticesFine(s, hidden), NoticesFine(t, hidden)
  PROVE  NoticesFine(s \o t, hidden)
<1>1. PICK S : s \in Seq(S)
  BY DEF NoticesFine, IsSequence
<1>2. PICK T : t \in Seq(T)
  BY DEF NoticesFine, IsSequence
<1>3. s \in Seq(S \cup T) /\ t \in Seq(S \cup T)
  BY <1>1, <1>2
<1>4. s \o t \in Seq(S \cup T) /\ Len(s \o t) = Len(s) + Len(t) /\ Len(s) \in Nat /\ Len(t) \in Nat
  BY <1>3
<1>5. ASSUME NEW i \in 1..Len(s \o t) PROVE NoticeFine((s \o t)[i], hidden)
  <2>1. CASE i <= Len(s)
    <3>1. (s \o t)[i] = s[i] /\ i \in 1..Len(s)
      BY <1>3, <1>4, <2>1
    <3> QED
      BY <3>1 DEF NoticesFine
  <2>2. CASE i > Len(s)
    <3>1. (s \o t)[i] = t[i - Len(s)] /\ i - Len(s) \in 1..Len(t)
      BY <1>3, <1>4, <2>2
    <3> QED
      BY <3>1 DEF NoticesFine
  <2> QED
    BY <1>4, <2>1, <2>2
<1>6. IsSequence(s \o t)
  BY <1>4 DEF IsSequence
<1> QED
  BY <1>5, <1>6 DEF NoticesFine

\* The first notice, and those after it.
LEMMA Rested ==
  ASSUME NEW hidden, NEW s, NoticesFine(s, hidden), s # <<>>
  PROVE  NoticeFine(Head(s), hidden) /\ NoticesFine(Tail(s), hidden)
<1>1. PICK S : s \in Seq(S)
  BY DEF NoticesFine, IsSequence
<1>2. /\ Tail(s) \in Seq(S) /\ Len(Tail(s)) = Len(s) - 1 /\ Len(s) \in Nat /\ Len(s) > 0
      /\ \A i \in 1..Len(Tail(s)) : Tail(s)[i] = s[i + 1]
  BY <1>1
<1>3. Head(s) = s[1] /\ 1 \in 1..Len(s)
  BY <1>1, <1>2
<1>4. \A i \in 1..Len(Tail(s)) : i + 1 \in 1..Len(s)
  BY <1>2
<1>5. IsSequence(Tail(s))
  BY <1>2 DEF IsSequence
<1> QED
  BY <1>2, <1>3, <1>4, <1>5 DEF NoticesFine

\* A finite set put in some order.
LEMMA Ordered ==
  ASSUME NEW S, IsFiniteSet(S)
  PROVE  /\ SetToSeq(S) \in Seq(S) /\ Len(SetToSeq(S)) \in Nat
         /\ \A i \in 1..Len(SetToSeq(S)) : SetToSeq(S)[i] \in S
<1>1. Cardinality(S) \in Nat /\ ExistsBijection(1..Cardinality(S), S)
  BY FS_CardinalityType
<1>2. \E f \in [1..Cardinality(S) -> S] : IsInjective(f)
  BY <1>1 DEF ExistsBijection, Bijection, Injection, IsInjective
<1>3. SetToSeq(S) \in [1..Cardinality(S) -> S]
  BY <1>2 DEF SetToSeq
<1>4. SetToSeq(S) \in Seq(S) /\ Len(SetToSeq(S)) = Cardinality(S)
  BY <1>1, <1>3
<1> QED
  BY <1>1, <1>3, <1>4

\* One notice for each number up to n.
LEMMA Listed ==
  ASSUME NEW hidden, NEW n \in Nat, NEW s, s = [i \in 1..n |-> s[i]], \A i \in 1..n : NoticeFine(s[i], hidden)
  PROVE  NoticesFine(s, hidden)
<1>1. s \in Seq({s[i] : i \in 1..n}) /\ Len(s) = n
  OBVIOUS
<1> QED
  BY <1>1 DEF NoticesFine, IsSequence

\* Sequences of events: another one, and the rest.
LEMMA Queued ==
  ASSUME NEW hidden, NEW s, EventsFine(s, hidden)
  PROVE  /\ \A e : EventFine(e, hidden) => EventsFine(Append(s, e), hidden)
         /\ s # <<>> => EventFine(Head(s), hidden) /\ EventsFine(Tail(s), hidden)
<1>1. PICK S : s \in Seq(S)
  BY DEF EventsFine, IsSequence
<1>2. ASSUME NEW e, EventFine(e, hidden) PROVE EventsFine(Append(s, e), hidden)
  <2>1. s \in Seq(S \cup {e}) /\ Append(s, e) \in Seq(S \cup {e})
    BY <1>1
  <2>2. \A i \in 1..Len(Append(s, e)) : (i \in 1..Len(s) /\ Append(s, e)[i] = s[i]) \/ Append(s, e)[i] = e
    BY <2>1
  <2>3. IsSequence(Append(s, e))
    BY <2>1 DEF IsSequence
  <2> QED
    BY <1>2, <2>2, <2>3 DEF EventsFine
<1>3. ASSUME s # <<>> PROVE EventFine(Head(s), hidden) /\ EventsFine(Tail(s), hidden)
  <2>2. /\ Tail(s) \in Seq(S) /\ Len(Tail(s)) = Len(s) - 1 /\ Len(s) \in Nat /\ Len(s) > 0
        /\ \A i \in 1..Len(Tail(s)) : Tail(s)[i] = s[i + 1]
    BY <1>1, <1>3
  <2>3. Head(s) = s[1] /\ 1 \in 1..Len(s)
    BY <1>1, <2>2
  <2>4. \A i \in 1..Len(Tail(s)) : i + 1 \in 1..Len(s)
    BY <2>2
  <2>5. IsSequence(Tail(s))
    BY <2>2 DEF IsSequence
  <2> QED
    BY <2>2, <2>3, <2>4, <2>5 DEF EventsFine
<1> QED
  BY <1>2, <1>3

\* What rows d2 are after a change of rows d that hides nothing more.
Discloses(d, d2) == RowsFine(d2) /\ HiddenStreams(d2) \subseteq HiddenStreams(d)

\* One row of a stream changes, the subscriptions change: never to no row at all.
LEMMA StreamRowSaved ==
  ASSUME NEW d, RowsFine(d), NEW s \in Streams, NEW row \in StreamRows,
         row.was_public = FALSE => row.invite_only = TRUE, row.present = FALSE => row.was_public = FALSE,
         d.streams[s].was_public = TRUE => row.was_public = TRUE
  PROVE  Discloses(d, [d EXCEPT !.streams[s] = row])
<1>1. PICK d2 : d2 = [d EXCEPT !.streams[s] = row]
  OBVIOUS
<1>2. {"streams", "subs"} \subseteq DOMAIN d2 /\ d2.subs = d.subs /\ d2.streams = [d.streams EXCEPT ![s] = row]
  BY <1>1 DEF RowsFine
<1>3. d2.streams \in [Streams -> StreamRows] /\ d2.streams[s] = row /\ \A t \in Streams \ {s} : d2.streams[t] = d.streams[t]
  BY <1>2 DEF RowsFine
<1>4. RowsFine(d2)
  BY <1>2, <1>3 DEF RowsFine
<1>5. ASSUME NEW t \in Streams, ~d2.streams[t].was_public PROVE ~d.streams[t].was_public
  <2>1. CASE t = s
    BY <1>3, <1>5, <2>1 DEF RowsFine, StreamRows
  <2>2. CASE t # s
    BY <1>3, <1>5, <2>2
  <2> QED
    BY <2>1, <2>2
<1>6. HiddenStreams(d2) \subseteq HiddenStreams(d)
  BY <1>2, <1>5 DEF HiddenStreams
<1> QED
  BY <1>1, <1>4, <1>6 DEF Discloses

\* Subscriptions change, and no row of Me's goes away.
LEMMA SubscriptionsSaved ==
  ASSUME NEW d, RowsFine(d), NEW subs \in SubscriptionRows,
         \A s \in Streams : subs[Me][s] = "never" => d.subs[Me][s] = "never"
  PROVE  Discloses(d, [d EXCEPT !.subs = subs])
<1>1. PICK d2 : d2 = [d EXCEPT !.subs = subs]
  OBVIOUS
<1>2. {"streams", "subs"} \subseteq DOMAIN d2 /\ d2.subs = subs /\ d2.streams = d.streams
  BY <1>1 DEF RowsFine
<1> QED
  BY <1>1, <1>2 DEF Discloses, RowsFine, HiddenStreams

\* One change after the other.
LEMMA DisclosesOn ==
  ASSUME NEW d, NEW d2, NEW d3, Discloses(d, d2), Discloses(d2, d3)
  PROVE  Discloses(d, d3)
BY DEF Discloses

\* Who may see a stream's entry: it is public, or Me is on it.
LEMMA Accessible ==
  ASSUME NEW d, RowsFine(d), NEW s \in Streams,
         \/ is_public(d, s)
         \/ d.subs[Me][s] = "active"
         \/ Me \in can_access_stream_user_ids(d, s)
         \/ \E altered : Me \in get_peer_user_ids_for_stream_change(d, s, altered)
  PROVE  s \notin HiddenStreams(d)
<1>1. ~d.streams[s].invite_only \/ d.subs[Me][s] = "active"
  BY DEF is_public, can_access_stream_user_ids, private_stream_user_ids, Subscribed, get_peer_user_ids_for_stream_change, get_subscribers
<1>2. CASE ~d.streams[s].invite_only
  <2>1. d.streams[s] \in StreamRows
    BY DEF RowsFine
  <2>2. d.streams[s].was_public = TRUE
    BY <1>2, <2>1 DEF RowsFine, StreamRows
  <2> QED
    BY <2>2 DEF HiddenStreams
<1>3. CASE d.subs[Me][s] = "active"
  BY <1>3 DEF HiddenStreams
<1> QED
  BY <1>1, <1>2, <1>3

\* The notices of an event with the whole entry, and of one with the id.
LEMMA EntryNotice ==
  ASSUME NEW d, NEW s, NEW hidden, NEW users, NEW op \in {"create", "delete", "occupy", "vacate"}, Me \in users => s \notin hidden
  PROVE  NoticeFine(send_event(StreamEvent(d, op, s), users), hidden)
<1>0. IsDict(StreamDict(d, s)) /\ StreamDict(d, s).stream_id = s
  BY DEF StreamDict, IsDict
<1>1. PICK x : x = StreamDict(d, s) /\ IsDict(x) /\ x.stream_id = s
  BY <1>0
<1>2. PICK e : e = StreamEvent(d, op, s) /\ e = [type |-> "stream", op |-> op, stream |-> x]
  BY <1>1 DEF StreamEvent
<1>3. s \notin hidden => EventFine(e, hidden)
  BY <1>1, <1>2 DEF EventFine, Names
<1>4. PICK n : n = [event |-> e, users |-> users]
  OBVIOUS
<1>5. NoticeFine(n, hidden)
  BY <1>3, <1>4 DEF NoticeFine
<1> QED
  BY <1>2, <1>4, <1>5 DEF send_event

\* The notices to the peers of those who come or go.
LEMMA PeersFine ==
  ASSUME NEW d, RowsFine(d), NEW s \in Streams, NEW op \in {"peer_add", "peer_remove"}, NEW altered, IsFiniteSet(altered)
  PROVE  NoticesFine(PeerNotices(d, op, s, altered), HiddenStreams(d))
<1> DEFINE peers == get_peer_user_ids_for_stream_change(d, s, altered)
           order == SetToSeq(altered)
           notice(u) == send_event([type |-> "subscription", op |-> op, name |-> d.streams[s].name, user_id |-> u,
                                    stream_id |-> s], peers)
<1>1. PICK n : n = Len(order) /\ n \in Nat
  BY Ordered
<1>2. PICK notices : notices = [i \in 1..n |-> notice(order[i])]
  OBVIOUS
<1>3. PeerNotices(d, op, s, altered) = IF peers = {} THEN <<>> ELSE notices
  BY <1>1, <1>2 DEF PeerNotices
<1>4. Me \in peers => s \notin HiddenStreams(d)
  BY Accessible
<1>5. ASSUME NEW i \in 1..n PROVE NoticeFine(notices[i], HiddenStreams(d))
  <2> DEFINE e == [type |-> "subscription", op |-> op, name |-> d.streams[s].name, user_id |-> order[i], stream_id |-> s]
  <2>1. notices[i] = [event |-> e, users |-> peers]
    BY <1>2 DEF send_event
  <2>2. s \notin HiddenStreams(d) => EventFine(e, HiddenStreams(d))
    BY DEF EventFine, Names
  <2> HIDE DEF e, peers
  <2> QED
    BY <1>4, <2>1, <2>2 DEF NoticeFine
<1>6. notices = [i \in 1..n |-> notices[i]]
  BY <1>2
<1> HIDE DEF notice, order, peers
<1>7. NoticesFine(notices, HiddenStreams(d))
  BY <1>1, <1>5, <1>6, Listed
<1> QED
  BY <1>3, <1>7, Nothing

\* The changes to rows of subscriptions, and what is sent of them.
LEMMA Adding ==
  ASSUME NEW d, RowsFine(d), NEW s \in Streams, NEW users \in SUBSET Users
  PROVE  LET change == bulk_add_subscriptions(d, s, users)
         IN Discloses(d, change.rows) /\ NoticesFine(change.notices, HiddenStreams(change.rows))
<1> DEFINE new == {u \in users : d.subs[u][s] # "active"}
           subs == [u \in Users |-> IF u \in new THEN [d.subs[u] EXCEPT ![s] = "active"] ELSE d.subs[u]]
           rows == [d EXCEPT !.subs = [u \in Users |-> IF u \in new THEN [@[u] EXCEPT ![s] = "active"] ELSE @[u]]]
           occupied == s \in get_occupied_streams(rows) \ get_occupied_streams(d) /\ is_public(d, s)
           order == SetToSeq(new)
           hidden == HiddenStreams(rows)
           first == IF occupied THEN <<ToRealm(rows, StreamEvent(rows, "occupy", s))>> ELSE <<>>
           second == IF is_public(d, s) THEN <<>> ELSE <<send_event(StreamEvent(rows, "create", s), new)>>
           third == [i \in 1..Len(order) |-> notify_subscriptions_added(rows, order[i], s)]
           fourth == PeerNotices(rows, "peer_add", s, new)
<1>1. rows = [d EXCEPT !.subs = subs]
  BY DEF RowsFine
<1>2. subs \in SubscriptionRows /\ \A t \in Streams : subs[Me][t] = "never" => d.subs[Me][t] = "never"
  <2>1. Me \in Users
    BY MeIsHuman DEF Users
  <2>2. d.subs \in [Users -> [Streams -> {"never", "active", "inactive"}]]
    BY DEF RowsFine, SubscriptionRows
  <2>3. \A u \in Users : subs[u] \in [Streams -> {"never", "active", "inactive"}]
                         /\ \A t \in Streams : subs[u][t] = "never" => d.subs[u][t] = "never"
    BY <2>2
  <2> QED
    BY <2>1, <2>3 DEF SubscriptionRows
<1>3. Discloses(d, rows) /\ RowsFine(rows)
  BY <1>1, <1>2, SubscriptionsSaved DEF Discloses
<1>4. IsFiniteSet(new) /\ new \subseteq Users
  BY UsersAreFinite, FS_Subset DEF Users
<1>5. rows.streams = d.streams /\ \A u \in new : rows.subs[u][s] = "active"
  <2>1. rows.subs = subs /\ rows.streams = d.streams
    BY <1>1 DEF RowsFine
  <2>2. \A u \in new : subs[u] = [d.subs[u] EXCEPT ![s] = "active"] /\ d.subs[u] \in [Streams -> {"never", "active", "inactive"}]
    BY <1>4 DEF RowsFine, SubscriptionRows
  <2> QED
    BY <2>1, <2>2
<1> HIDE DEF rows, subs, new
<1>6. is_public(d, s) \/ Me \in new => s \notin hidden
  BY <1>3, <1>5, Accessible DEF is_public
<1> HIDE DEF hidden
<1>7. NoticesFine(first, hidden)
  <2>1. CASE occupied
    <3>1. NoticeFine(ToRealm(rows, StreamEvent(rows, "occupy", s)), hidden)
      BY <1>6, <2>1, EntryNotice DEF ToRealm
    <3> QED
      BY <2>1, <3>1, Single
  <2>2. CASE ~occupied
    BY <2>2, Nothing
  <2> QED
    BY <2>1, <2>2
<1>8. NoticesFine(second, hidden)
  <2>1. NoticeFine(send_event(StreamEvent(rows, "create", s), new), hidden)
    BY <1>6, EntryNotice
  <2> QED
    BY <2>1, Single, Nothing
<1>9. NoticesFine(third, hidden)
  <2>1. PICK n : n = Len(order) /\ n \in Nat /\ \A i \in 1..n : order[i] \in new
    BY <1>4, Ordered
  <2>2. ASSUME NEW i \in 1..n PROVE NoticeFine(third[i], hidden)
    <3> DEFINE x == Update(StreamDict(rows, s), [subscribers |-> get_subscribers(rows, s), color |-> rows.color[s]])
               e == [type |-> "subscription", op |-> "add", sub |-> x]
    <3>1. third[i] = [event |-> e, users |-> {order[i]}]
      BY <2>1 DEF notify_subscriptions_added, send_event
    <3>2. IsDict(x) /\ x.stream_id = s
      BY DEF IsDict, Update, StreamDict
    <3>3. s \notin hidden => EventFine(e, hidden)
      <4> HIDE DEF x
      <4> QED
        BY <3>2 DEF EventFine, Names
    <3>4. Me \in {order[i]} => s \notin hidden
      BY <1>6, <2>1
    <3> HIDE DEF e
    <3> QED
      BY <3>1, <3>3, <3>4 DEF NoticeFine
  <2> QED
    BY <2>1, <2>2, Listed
<1>10. NoticesFine(fourth, hidden)
  BY <1>3, <1>4, PeersFine DEF hidden
<1> HIDE DEF first, second, third, fourth
<1>11. NoticesFine(first \o second \o third \o fourth, hidden)
  BY <1>7, <1>8, <1>9, <1>10, Joined
<1>12. bulk_add_subscriptions(d, s, users) = [rows |-> rows, notices |-> first \o second \o third \o fourth]
  BY DEF bulk_add_subscriptions, rows, new, first, second, third, fourth
<1> QED
  BY <1>3, <1>11, <1>12 DEF hidden

\* A stream is deactivated: those with access learn of it.
LEMMA Deactivating ==
  ASSUME NEW d, RowsFine(d), NEW s \in Streams
  PROVE  LET change == do_deactivate_stream(d, s)
         IN Discloses(d, change.rows) /\ NoticesFine(change.notices, HiddenStreams(change.rows))
<1> DEFINE subs == [u \in Users |-> IF d.subs[u][s] = "active" THEN [d.subs[u] EXCEPT ![s] = "inactive"] ELSE d.subs[u]]
           row == [d.streams[s] EXCEPT !.deactivated = TRUE, !.invite_only = TRUE]
           middle == [d EXCEPT !.streams[s] = row]
           rows == [d EXCEPT !.streams[s].deactivated = TRUE, !.streams[s].invite_only = TRUE,
                             !.subs = [u \in Users |-> IF @[u][s] = "active" THEN [@[u] EXCEPT ![s] = "inactive"] ELSE @[u]]]
<1>1. PICK old \in StreamRows : old = d.streams[s]
  BY DEF RowsFine
<1>2. row \in StreamRows /\ row.was_public = old.was_public /\ row.invite_only = TRUE /\ row.present = old.present
  BY <1>1 DEF StreamRows
<1>3. Discloses(d, middle)
  <2>1. row.present = FALSE => row.was_public = FALSE
    BY <1>1, <1>2 DEF RowsFine
  <2> HIDE DEF row
  <2> QED
    BY <1>1, <1>2, <2>1, StreamRowSaved
<1>4. rows = [middle EXCEPT !.subs = subs] /\ middle.subs = d.subs
  BY DEF RowsFine
<1>5. subs \in SubscriptionRows /\ \A t \in Streams : subs[Me][t] = "never" => d.subs[Me][t] = "never"
  <2>1. Me \in Users
    BY MeIsHuman DEF Users
  <2>2. d.subs \in [Users -> [Streams -> {"never", "active", "inactive"}]]
    BY DEF RowsFine, SubscriptionRows
  <2>3. \A u \in Users : subs[u] \in [Streams -> {"never", "active", "inactive"}]
                         /\ \A t \in Streams : subs[u][t] = "never" => d.subs[u][t] = "never"
    BY <2>2
  <2> QED
    BY <2>1, <2>3 DEF SubscriptionRows
<1> HIDE DEF middle, subs, rows
<1>6. Discloses(middle, rows)
  BY <1>3, <1>4, <1>5, SubscriptionsSaved DEF Discloses
<1>7. Discloses(d, rows)
  BY <1>3, <1>6, DisclosesOn
<1>8. PICK affected : affected = can_access_stream_user_ids(d, s)
  OBVIOUS
<1>9. Me \in affected => s \notin HiddenStreams(rows)
  BY <1>7, <1>8, Accessible DEF Discloses
<1>10. do_deactivate_stream(d, s) = [rows |-> rows, notices |-> <<send_event(StreamEvent(d, "delete", s), affected)>>]
  BY <1>8 DEF do_deactivate_stream, rows
<1>11. NoticesFine(<<send_event(StreamEvent(d, "delete", s), affected)>>, HiddenStreams(rows))
  BY <1>9, EntryNotice, Single
<1> QED
  BY <1>7, <1>10, <1>11

\* Subscriptions end: the stream may be vacated, those who go and those who stay learn of it.
LEMMA Removing ==
  ASSUME NEW d, RowsFine(d), NEW s \in Streams, NEW users \in SUBSET Users
  PROVE  LET change == bulk_remove_subscriptions(d, s, users)
         IN Discloses(d, change.rows) /\ NoticesFine(change.notices, HiddenStreams(change.rows))
<1> DEFINE gone == {u \in users : d.subs[u][s] = "active"}
           subs == [u \in Users |-> IF u \in gone THEN [d.subs[u] EXCEPT ![s] = "inactive"] ELSE d.subs[u]]
           rows == [d EXCEPT !.subs = [u \in Users |-> IF u \in gone THEN [@[u] EXCEPT ![s] = "inactive"] ELSE @[u]]]
           vacant == s \in get_occupied_streams(d) \ get_occupied_streams(rows)
           order == SetToSeq(gone)
           hidden == HiddenStreams(rows)
           first == CASE vacant /\ is_public(d, s) -> <<ToRealm(rows, StreamEvent(rows, "vacate", s))>>
                      [] vacant /\ ~is_public(d, s) -> <<Then("do_deactivate_stream", <<s>>)>>
                      [] OTHER -> <<>>
           second == [i \in 1..Len(order) |-> notify_subscriptions_removed(rows, order[i], s)]
           third == PeerNotices(rows, "peer_remove", s, gone)
<1>1. rows = [d EXCEPT !.subs = subs]
  BY DEF RowsFine
<1>2. subs \in SubscriptionRows /\ \A t \in Streams : subs[Me][t] = "never" => d.subs[Me][t] = "never"
  <2>1. Me \in Users
    BY MeIsHuman DEF Users
  <2>2. d.subs \in [Users -> [Streams -> {"never", "active", "inactive"}]]
    BY DEF RowsFine, SubscriptionRows
  <2>3. \A u \in Users : subs[u] \in [Streams -> {"never", "active", "inactive"}]
                         /\ \A t \in Streams : subs[u][t] = "never" => d.subs[u][t] = "never"
    BY <2>2
  <2> QED
    BY <2>1, <2>3 DEF SubscriptionRows
<1>3. Discloses(d, rows) /\ RowsFine(rows)
  BY <1>1, <1>2, SubscriptionsSaved DEF Discloses
<1>4. IsFiniteSet(gone) /\ gone \subseteq Users
  BY UsersAreFinite, FS_Subset DEF Users
<1>5. is_public(d, s) \/ Me \in gone => s \notin hidden
  <2>1. Me \in gone => s \notin HiddenStreams(d)
    BY Accessible
  <2> QED
    BY <1>3, <2>1, Accessible DEF Discloses
<1> HIDE DEF rows, subs, gone, hidden
<1>6. NoticesFine(first, hidden)
  <2>1. CASE vacant /\ is_public(d, s)
    <3>1. NoticeFine(ToRealm(rows, StreamEvent(rows, "vacate", s)), hidden)
      BY <1>5, <2>1, EntryNotice DEF ToRealm
    <3> QED
      BY <2>1, <3>1, Single
  <2>2. CASE vacant /\ ~is_public(d, s)
    <3>1. PICK n : n = [next |-> "do_deactivate_stream", args |-> <<s>>]
      OBVIOUS
    <3>2. NoticeFine(n, hidden)
      BY <3>1 DEF NoticeFine
    <3>3. first = <<n>>
      BY <2>2, <3>1 DEF Then
    <3> QED
      BY <3>2, <3>3, Single
  <2>3. CASE ~vacant
    BY <2>3, Nothing
  <2> QED
    BY <2>1, <2>2, <2>3
<1>7. NoticesFine(second, hidden)
  <2>1. PICK n : n = Len(order) /\ n \in Nat /\ \A i \in 1..n : order[i] \in gone
    BY <1>4, Ordered
  <2>2. ASSUME NEW i \in 1..n PROVE NoticeFine(second[i], hidden)
    <3> DEFINE e == [type |-> "subscription", op |-> "remove", name |-> rows.streams[s].name, stream_id |-> s]
    <3>1. second[i] = [event |-> e, users |-> {order[i]}]
      BY <2>1 DEF notify_subscriptions_removed, send_event
    <3>2. s \notin hidden => EventFine(e, hidden)
      BY DEF EventFine, Names
    <3>3. Me \in {order[i]} => s \notin hidden
      BY <1>5, <2>1
    <3> HIDE DEF e
    <3> QED
      BY <3>1, <3>2, <3>3 DEF NoticeFine
  <2> QED
    BY <2>1, <2>2, Listed
<1>8. NoticesFine(third, hidden)
  BY <1>3, <1>4, PeersFine DEF hidden
<1> HIDE DEF first, second, third
<1>9. NoticesFine(first \o second \o third, hidden)
  BY <1>6, <1>7, <1>8, Joined
<1>10. bulk_remove_subscriptions(d, s, users) = [rows |-> rows, notices |-> first \o second \o third]
  BY DEF bulk_remove_subscriptions, rows, gone, first, second, third
<1> QED
  BY <1>3, <1>9, <1>10 DEF hidden

\* What a request leaves: rows that hide nothing more, and notices that suit them.
Sends(rows, notices) == Discloses(db, rows) /\ NoticesFine(notices, HiddenStreams(rows))

\* What a request does next is about a stream and users.
LEMMA ThenFine ==
  ASSUME NEW hidden, NEW n, NEW s \in Streams, NEW users \in SUBSET Users,
         n = Then("do_deactivate_stream", <<s>>) \/ n = Then("bulk_add_subscriptions", <<s, users>>)
  PROVE  NoticeFine(n, hidden)
<1>1. CASE n = Then("do_deactivate_stream", <<s>>)
  BY <1>1 DEF NoticeFine, Then
<1>2. CASE n = Then("bulk_add_subscriptions", <<s, users>>)
  BY <1>2 DEF NoticeFine, Then
<1> QED
  BY <1>1, <1>2

\* A stream's new property, told by its id.
LEMMA UpdateNotice ==
  ASSUME NEW s, NEW hidden, NEW users, NEW value, NEW property \in {"email_address", "name", "description"}, Me \in users => s \notin hidden
  PROVE  NoticeFine(send_event(UpdateEvent(s, property, value), users), hidden)
<1>1. PICK e : e = UpdateEvent(s, property, value)
  OBVIOUS
<1>2. s \notin hidden => EventFine(e, hidden)
  BY <1>1 DEF UpdateEvent, EventFine, Names
<1>3. PICK n : n = [event |-> e, users |-> users]
  OBVIOUS
<1>4. NoticeFine(n, hidden)
  BY <1>2, <1>3 DEF NoticeFine
<1> QED
  BY <1>1, <1>3, <1>4 DEF send_event

\* Every request about streams, whatever part of it is at hand, sends Me nothing hidden.
LEMMA RequestsHide ==
  ASSUME RowsFine(db), StreamsRequest, outbox = <<>>
  PROVE  Discloses(db, db') /\ NoticesFine(outbox', HiddenStreams(db'))
<1>0. PICK d : d = db
  OBVIOUS
<1>1. Humans \subseteq Users /\ RowsFine(d)
  BY <1>0 DEF Users
<1>2. ASSUME NEW actor \in Humans, NEW s \in Streams, NEW users \in SUBSET Humans, NEW private \in BOOLEAN,
             add_subscriptions_backend(actor, s, users, private)
      PROVE  Discloses(db, db') /\ NoticesFine(outbox', HiddenStreams(db'))
  <2>1. CASE list_to_streams(actor, s, private, <<Then("bulk_add_subscriptions", <<s, users>>)>>)
    <3>1. PICK row : row = NewStream(s, private)
      OBVIOUS
    <3>2. PICK rest : rest = <<Then("bulk_add_subscriptions", <<s, users>>)>>
      OBVIOUS
    <3>3. PICK rows : rows = [d EXCEPT !.streams[s] = row]
      OBVIOUS
    <3>4. row \in StreamRows /\ row.was_public = ~private /\ row.invite_only = private /\ row.present = TRUE
      BY <3>1 DEF NewStream, StreamRows
    <3>5. d.streams[s].was_public = FALSE
      BY <1>0, <1>1, <2>1 DEF list_to_streams, RowsFine, StreamRows
    <3>6. Discloses(d, rows)
      BY <1>1, <3>3, <3>4, <3>5, StreamRowSaved
    <3>7. rows.streams[s] = row
      BY <1>1, <3>3 DEF RowsFine
    <3>8. ~private => s \notin HiddenStreams(rows)
      BY <3>4, <3>7 DEF HiddenStreams
    <3>9. PICK first : first = IF private THEN <<>> ELSE <<ToRealm(rows, StreamEvent(rows, "create", s))>>
      OBVIOUS
    <3>10. NoticesFine(first, HiddenStreams(rows))
      <4>1. CASE private
        BY <3>9, <4>1, Nothing
      <4>2. CASE ~private
        <5>1. NoticeFine(ToRealm(rows, StreamEvent(rows, "create", s)), HiddenStreams(rows))
          BY <3>8, <4>2, EntryNotice DEF ToRealm
        <5> QED
          BY <3>9, <4>2, <5>1, Single
      <4> QED
        BY <4>1, <4>2
    <3>11. NoticesFine(rest, HiddenStreams(rows))
      BY <1>1, <3>2, ThenFine, Single
    <3>12. db' = rows /\ outbox' = first \o rest
      BY <1>0, <2>1, <3>1, <3>2, <3>3, <3>9 DEF list_to_streams, create_stream_if_needed, Commit
    <3> QED
      BY <1>0, <3>6, <3>10, <3>11, <3>12, Joined
  <2>2. CASE LET change == bulk_add_subscriptions(db, s, users) IN Commit(change.rows, change.notices)
    BY <1>0, <1>1, <2>2, Adding DEF Commit
  <2> QED
    BY <1>2, <2>1, <2>2 DEF add_subscriptions_backend
<1>3. ASSUME NEW actor \in Humans, NEW s \in Streams, NEW users \in SUBSET Humans, remove_subscriptions_backend(actor, s, users)
      PROVE  Discloses(db, db') /\ NoticesFine(outbox', HiddenStreams(db'))
  BY <1>0, <1>1, <1>3, Removing DEF remove_subscriptions_backend, Commit
<1>4. ASSUME NEW s \in Streams, deactivate_stream_backend(s)
      PROVE  Discloses(db, db') /\ NoticesFine(outbox', HiddenStreams(db'))
  BY <1>0, <1>1, <1>4, Deactivating DEF deactivate_stream_backend, Commit
<1>5. ASSUME NEW keep \in Streams, NEW destroy \in Streams, merge_streams(keep, destroy)
      PROVE  Discloses(db, db') /\ NoticesFine(outbox', HiddenStreams(db'))
  <2>1. PICK leave : leave = Subscribed(d, destroy)
    OBVIOUS
  <2>2. PICK move : move = Subscribed(d, destroy) \ Subscribed(d, keep)
    OBVIOUS
  <2>3. leave \in SUBSET Users /\ move \in SUBSET Users
    BY <2>1, <2>2 DEF Subscribed
  <2>4. PICK change : change = bulk_remove_subscriptions(d, destroy, leave)
    OBVIOUS
  <2>5. Discloses(d, change.rows) /\ NoticesFine(change.notices, HiddenStreams(change.rows))
    BY <1>1, <2>3, <2>4, Removing
  <2>6. PICK a, b : a = Then("do_deactivate_stream", <<destroy>>) /\ b = Then("bulk_add_subscriptions", <<keep, move>>)
    OBVIOUS
  <2>7. NoticesFine(<<a, b>>, HiddenStreams(change.rows))
    BY <2>3, <2>6, ThenFine, Double
  <2>10. db' = change.rows /\ outbox' = change.notices \o <<a, b>>
    BY <1>0, <1>5, <2>1, <2>2, <2>4, <2>6 DEF merge_streams, Commit
  <2> QED
    BY <1>0, <2>5, <2>7, <2>10, Joined
<1>6. ASSUME NEW s \in Streams, update_stream_backend(s)
      PROVE  Discloses(db, db') /\ NoticesFine(outbox', HiddenStreams(db'))
  <2>0. PICK old \in StreamRows : old = d.streams[s]
    BY <1>1 DEF RowsFine
  <2>1. CASE do_change_stream_description(s)
    <3>1. PICK row : row = [old EXCEPT !.description = 1 - @]
      OBVIOUS
    <3>2. row \in StreamRows /\ row.was_public = old.was_public /\ row.invite_only = old.invite_only /\ row.present = old.present
      BY <2>0, <3>1 DEF StreamRows
    <3>3. PICK rows : rows = [d EXCEPT !.streams[s] = row]
      OBVIOUS
    <3>4. Discloses(d, rows)
      BY <1>1, <2>0, <3>2, <3>3, StreamRowSaved DEF RowsFine
    <3>5. rows = [d EXCEPT !.streams[s].description = 1 - @]
      BY <2>0, <3>1, <3>3
    <3>6. db' = rows /\ outbox' = <<send_event(UpdateEvent(s, "description", rows.streams[s].description), can_access_stream_user_ids(rows, s))>>
      BY <1>0, <2>1, <3>5 DEF do_change_stream_description, Commit
    <3>7. Me \in can_access_stream_user_ids(rows, s) => s \notin HiddenStreams(rows)
      BY <3>4, Accessible DEF Discloses
    <3>8. NoticeFine(send_event(UpdateEvent(s, "description", rows.streams[s].description), can_access_stream_user_ids(rows, s)), HiddenStreams(rows))
      BY <3>7, UpdateNotice
    <3> QED
      BY <1>0, <3>4, <3>6, <3>8, Single
  <2>2. CASE do_rename_stream(s)
    <3>0. PICK new : new = <<s, 1 - old.name[2]>>
      OBVIOUS
    <3>1. PICK row : row = [old EXCEPT !.name = new]
      OBVIOUS
    <3>2. row \in StreamRows /\ row.was_public = old.was_public /\ row.invite_only = old.invite_only /\ row.present = old.present
      <4>1. old.name[2] \in 0..1
        BY <2>0 DEF StreamRows
      <4>2. new \in Streams \X (0..1)
        BY <3>0, <4>1
      <4> QED
        BY <2>0, <3>1, <4>2 DEF StreamRows
    <3>3. PICK rows : rows = [d EXCEPT !.streams[s] = row]
      OBVIOUS
    <3>4. Discloses(d, rows)
      BY <1>1, <2>0, <3>2, <3>3, StreamRowSaved DEF RowsFine
    <3>5. rows = [d EXCEPT !.streams[s].name = new]
      BY <2>0, <3>1, <3>3
    <3>6. PICK a, b : /\ a = send_event(UpdateEvent(s, "email_address", new), can_access_stream_user_ids(rows, s))
                      /\ b = send_event(UpdateEvent(s, "name", new), can_access_stream_user_ids(rows, s))
      OBVIOUS
    <3>7. db' = rows /\ outbox' = <<a, b>>
      BY <1>0, <2>0, <2>2, <3>0, <3>5, <3>6 DEF do_rename_stream, Commit
    <3>8. Me \in can_access_stream_user_ids(rows, s) => s \notin HiddenStreams(rows)
      BY <3>4, Accessible DEF Discloses
    <3>9. NoticeFine(a, HiddenStreams(rows)) /\ NoticeFine(b, HiddenStreams(rows))
      BY <3>6, <3>8, UpdateNotice
    <3>10. NoticesFine(<<a, b>>, HiddenStreams(rows))
      BY <3>9, Double
    <3> QED
      BY <1>0, <3>4, <3>7, <3>10
  <2>3. ASSUME NEW private \in BOOLEAN, do_change_stream_invite_only(s, private)
        PROVE  Discloses(db, db') /\ NoticesFine(outbox', HiddenStreams(db'))
    <3>1. PICK row : row = [old EXCEPT !.invite_only = private, !.was_public = @ \/ ~private]
      OBVIOUS
    <3>2. row \in StreamRows /\ row.present = old.present /\ row.invite_only = private
          /\ (old.was_public = TRUE => row.was_public = TRUE) /\ (row.was_public = FALSE => private = TRUE)
          /\ (private = TRUE => row.was_public = old.was_public)
      <4>1. (private = TRUE /\ row = [old EXCEPT !.invite_only = TRUE]) \/ (private = FALSE /\ row = [old EXCEPT !.invite_only = FALSE, !.was_public = TRUE])
        BY <2>0, <3>1 DEF StreamRows
      <4> QED
        BY <2>0, <4>1 DEF StreamRows
    <3>3. PICK rows : rows = [d EXCEPT !.streams[s] = row]
      OBVIOUS
    <3>4. row.present = FALSE => row.was_public = FALSE
      BY <1>0, <1>6, <2>0, <3>2 DEF update_stream_backend, AdminWithAccess, Live
    <3>5. Discloses(d, rows)
      BY <1>1, <2>0, <3>2, <3>3, <3>4, StreamRowSaved
    <3>6. db' = rows /\ outbox' = <<>>
      BY <1>0, <2>0, <2>3, <3>1, <3>3 DEF do_change_stream_invite_only, SilentCommit
    <3> QED
      BY <1>0, <3>5, <3>6, Nothing
  <2> QED
    BY <1>6, <2>1, <2>2, <2>3 DEF update_stream_backend
<1>7. ASSUME NEW s \in Streams, update_subscription_properties_backend(s)
      PROVE  Discloses(db, db') /\ NoticesFine(outbox', HiddenStreams(db'))
  <2>1. PICK rows : rows = [d EXCEPT !.color[s] = 1 - @]
    OBVIOUS
  <2>2. rows.streams = d.streams /\ rows.subs = d.subs /\ {"streams", "subs"} \subseteq DOMAIN rows
    BY <1>1, <2>1 DEF RowsFine
  <2>3. Discloses(d, rows)
    BY <1>1, <2>2 DEF Discloses, RowsFine, HiddenStreams
  <2>4. s \notin HiddenStreams(rows)
    BY <1>0, <1>7, <2>2 DEF update_subscription_properties_backend, HiddenStreams
  <2> DEFINE e == [type |-> "subscription", op |-> "update", stream_id |-> s, name |-> d.streams[s].name, value |-> 1 - d.color[s]]
  <2>5. EventFine(e, HiddenStreams(rows))
    BY <2>4 DEF EventFine, Names
  <2>6. db' = rows /\ outbox' = <<[event |-> e, users |-> {Me}]>>
    BY <1>0, <1>7, <2>1 DEF update_subscription_properties_backend, do_change_subscription_property, Commit, ToMe, send_event
  <2> HIDE DEF e
  <2>7. NoticeFine([event |-> e, users |-> {Me}], HiddenStreams(rows))
    BY <2>5 DEF NoticeFine
  <2> QED
    BY <1>0, <2>3, <2>6, <2>7, Single
<1> QED
  BY <1>2, <1>3, <1>4, <1>5, <1>6, <1>7 DEF StreamsRequest, Live

\* A request that goes on hides as much as one that starts.
LEMMA ContinueHides ==
  ASSUME RowsFine(db), NoticesFine(outbox, HiddenStreams(db)), StreamsContinue
  PROVE  Discloses(db, db') /\ NoticesFine(outbox', HiddenStreams(db'))
<1>0. PICK d, old : d = db /\ old = outbox
  OBVIOUS
<1>1. NoticeFine(Head(old), HiddenStreams(d)) /\ NoticesFine(Tail(old), HiddenStreams(d))
  BY <1>0, Rested DEF StreamsContinue
<1>2. PICK s, users : /\ s \in Streams /\ s = Head(old).args[1] /\ users = Head(old).args[2]
                      /\ Head(old).next = "bulk_add_subscriptions" => users \subseteq Users
  BY <1>0, <1>1 DEF StreamsContinue, NoticeFine
<1>3. PICK change : change = IF Head(old).next = "bulk_add_subscriptions" THEN bulk_add_subscriptions(d, s, users)
                             ELSE do_deactivate_stream(d, s)
  OBVIOUS
<1>4. Discloses(d, change.rows) /\ NoticesFine(change.notices, HiddenStreams(change.rows))
  BY <1>0, <1>2, <1>3, Adding, Deactivating
<1>5. NoticesFine(Tail(old), HiddenStreams(change.rows))
  BY <1>1, <1>4, FewerHidden DEF Discloses
<1>6. NoticesFine(change.notices \o Tail(old), HiddenStreams(change.rows))
  BY <1>4, <1>5, Joined
<1>7. db' = change.rows /\ outbox' = change.notices \o Tail(old)
  BY <1>0, <1>2, <1>3 DEF StreamsContinue
<1> QED
  BY <1>0, <1>4, <1>6, <1>7

\* The entries that a query of the streams finds.
LEMMA FetchHides ==
  ASSUME NEW d, RowsFine(d), NEW hidden, hidden = HiddenStreams(d), NEW s, StateFine(s, hidden)
  PROVE  /\ StateFine(FetchStreams(s, "subscriptions", d), hidden) /\ MineFine(FetchStreams(s, "subscriptions", d).raw.mine, hidden)
         /\ StateFine(FetchStreams(s, "all_streams", d), hidden) /\ RawFine(FetchStreams(s, "all_streams", d).raw.streams, hidden)
         /\ FetchStreams(s, "all_streams", d).raw.mine = s.raw.mine
         /\ StateFine(FetchStreams(s, "streams", d), hidden)
         /\ MineFine(s.raw.mine, hidden) /\ RawFine(s.raw.streams, hidden) => StateFine(FetchStreams(s, "subscribers", d), hidden)
<1>1. PICK s1 : s1 = [s EXCEPT !.raw.mine = QuerySubscriptions(d)]
  OBVIOUS
<1>2. PICK s2 : s2 = [s EXCEPT !.raw.streams = QueryStreams(d)]
  OBVIOUS
<1>3. PICK s3 : s3 = [s EXCEPT !.streams = do_get_streams(d)]
  OBVIOUS
<1>4. PICK gathered : gathered = gather_subscriptions_helper(s.raw, d)
  OBVIOUS
<1>5. StateFine(s1, hidden) /\ MineFine(s1.raw.mine, hidden)
  <2>1. MineFine(QuerySubscriptions(d), hidden)
    BY DEF MineFine, QuerySubscriptions, HiddenStreams
  <2> QED
    BY <1>1, <2>1 DEF StateFine
<1>6. StateFine(s2, hidden) /\ RawFine(s2.raw.streams, hidden) /\ s2.raw.mine = s.raw.mine
  <2>1. ASSUME NEW t \in Live(d)
        PROVE  t \in Streams /\ IsDict(StreamDict(d, t)) /\ StreamDict(d, t).stream_id = t
               /\ (StreamDict(d, t).invite_only = FALSE => t \notin hidden)
    <3>1. IsDict(StreamDict(d, t)) /\ StreamDict(d, t).stream_id = t /\ StreamDict(d, t).invite_only = d.streams[t].invite_only
      BY DEF IsDict, StreamDict
    <3>2. d.streams[t].invite_only = FALSE => t \notin hidden
      BY Accessible DEF is_public, Live
    <3> QED
      BY <3>1, <3>2 DEF Live
  <2>2. RawFine(QueryStreams(d), hidden)
    BY <2>1 DEF RawFine, QueryStreams
  <2> QED
    BY <1>2, <2>2 DEF StateFine
<1>7. StateFine(s3, hidden)
  <2>1. ASSUME NEW t \in get_occupied_streams(d), is_public(d, t) \/ d.subs[Me][t] = "active"
        PROVE  DictFine(StreamDict(d, t), hidden)
    <3>1. t \in Streams /\ t \notin hidden
      BY <2>1, Accessible DEF get_occupied_streams, Live
    <3> QED
      BY <3>1 DEF DictFine, IsDict, StreamDict
  <2>2. DictsFine(do_get_streams(d), hidden)
    BY <2>1 DEF DictsFine, do_get_streams
  <2> QED
    BY <1>3, <2>2 DEF StateFine
<1>8. ASSUME MineFine(s.raw.mine, hidden), RawFine(s.raw.streams, hidden) PROVE StateFine(Update(s, gathered), hidden)
  <2>1. ASSUME NEW t \in DOMAIN s.raw.streams, t \notin hidden, NEW more, "stream_id" \notin DOMAIN more, IsDict(Update(s.raw.streams[t], more))
        PROVE  DictFine(Update(s.raw.streams[t], more), hidden)
    BY <1>8, <2>1 DEF DictFine, IsDict, Update, RawFine
  <2>2. ASSUME NEW status \in {"active", "inactive"} PROVE DictsFine(SubscriptionsOf(s.raw, d, status), hidden)
    <3>1. ASSUME NEW t \in DOMAIN s.raw.streams, s.raw.mine.subs[t] = status, NEW subscribers, NEW color
          PROVE  DictFine(Update(s.raw.streams[t], [subscribers |-> subscribers, color |-> color]), hidden)
      <4>1. t \notin hidden /\ IsDict(s.raw.streams[t])
        BY <1>8, <3>1 DEF MineFine, RawFine
      <4>2. IsDict(Update(s.raw.streams[t], [subscribers |-> subscribers, color |-> color]))
        BY <4>1 DEF IsDict, Update
      <4> QED
        BY <2>1, <4>1, <4>2
    <3> QED
      BY <3>1 DEF DictsFine, SubscriptionsOf
  <2>3. DictsFine(gathered.never_subscribed, hidden)
    <3>1. ASSUME NEW t \in DOMAIN s.raw.streams, ~s.raw.streams[t].invite_only, NEW subscribers
          PROVE  DictFine(Update(s.raw.streams[t], [subscribers |-> subscribers]), hidden)
      <4>1. t \notin hidden /\ IsDict(s.raw.streams[t])
        BY <1>8, <3>1 DEF RawFine
      <4>2. IsDict(Update(s.raw.streams[t], [subscribers |-> subscribers]))
        BY <4>1 DEF IsDict, Update
      <4> QED
        BY <2>1, <4>1, <4>2
    <3> QED
      BY <1>4, <3>1 DEF DictsFine, gather_subscriptions_helper
  <2>4. /\ DOMAIN gathered = {"subscriptions", "unsubscribed", "never_subscribed"}
        /\ gathered.subscriptions = SubscriptionsOf(s.raw, d, "active")
        /\ gathered.unsubscribed = SubscriptionsOf(s.raw, d, "inactive")
    BY <1>4 DEF gather_subscriptions_helper
  <2>5. PICK new : new = Update(s, gathered)
    OBVIOUS
  <2>6. /\ DOMAIN new = DOMAIN s \cup DOMAIN gathered
        /\ new.subscriptions = gathered.subscriptions /\ new.unsubscribed = gathered.unsubscribed
        /\ new.never_subscribed = gathered.never_subscribed /\ new.streams = s.streams /\ new.raw = s.raw
    BY <2>4, <2>5 DEF Update, StateFine
  <2> QED
    BY <2>2, <2>3, <2>4, <2>5, <2>6 DEF StateFine
<1> QED
  BY <1>1, <1>2, <1>3, <1>4, <1>5, <1>6, <1>7, <1>8 DEF FetchStreams

\* An entry with a changed field other than its id is the entry of the same stream.
LEMMA EntryChanged ==
  ASSUME NEW hidden, NEW x, DictFine(x, hidden), NEW f, f # "stream_id", NEW v
  PROVE  DictFine([x EXCEPT ![f] = v], hidden)
BY DEF DictFine, IsDict

\* Applying an event that names nothing hidden.
LEMMA StreamApplied ==
  ASSUME NEW hidden, NEW s, StateFine(s, hidden), NEW e, EventFine(e, hidden), e.type = "stream"
  PROVE  StateFine(ApplyStream(s, e), hidden)
<1>1. CASE e.op \in {"create", "delete", "occupy", "vacate"}
  <2>1. DictFine(e.stream, hidden)
    BY <1>1 DEF EventFine, Names, DictFine
  <2>2. DictFine(Update(e.stream, [subscribers |-> {}]), hidden)
    BY <2>1 DEF DictFine, IsDict, Update
  <2>3. CASE e.op = "create"
    <3>1. PICK never : /\ DictsFine(never, hidden)
                       /\ never = IF e.stream.invite_only THEN s.never_subscribed
                                  ELSE s.never_subscribed \cup {Update(e.stream, [subscribers |-> {}])}
      BY <2>2 DEF StateFine, DictsFine
    <3>2. DictsFine(s.streams \cup {e.stream}, hidden)
      BY <2>1 DEF StateFine, DictsFine
    <3>3. ApplyStream(s, e) = [s EXCEPT !.streams = s.streams \cup {e.stream}, !.never_subscribed = never]
      BY <2>3, <3>1 DEF ApplyStream
    <3> QED
      BY <3>1, <3>2, <3>3 DEF StateFine
  <2>4. CASE e.op = "delete"
    <3>1. PICK streams, never : /\ streams = {x \in s.streams : x.stream_id # e.stream.stream_id}
                                /\ never = {x \in s.never_subscribed : x.stream_id # e.stream.stream_id}
      OBVIOUS
    <3>2. ApplyStream(s, e) = [s EXCEPT !.streams = streams, !.never_subscribed = never]
      BY <2>4, <3>1 DEF ApplyStream
    <3> QED
      BY <3>1, <3>2 DEF StateFine, DictsFine
  <2>5. CASE e.op = "occupy"
    <3>1. ApplyStream(s, e) = [s EXCEPT !.streams = s.streams \cup {e.stream}]
      BY <2>5 DEF ApplyStream
    <3> QED
      BY <2>1, <3>1 DEF StateFine, DictsFine
  <2>6. CASE e.op = "vacate"
    <3>1. PICK streams : streams = {x \in s.streams : x.stream_id # e.stream.stream_id}
      OBVIOUS
    <3>2. ApplyStream(s, e) = [s EXCEPT !.streams = streams]
      BY <2>6, <3>1 DEF ApplyStream
    <3> QED
      BY <3>1, <3>2 DEF StateFine, DictsFine
  <2> QED
    BY <1>1, <2>3, <2>4, <2>5, <2>6
<1>2. CASE e.op = "update" /\ e.property \in {"email_address", "name", "description"}
  <2> DEFINE Set(x) == IF x.name = e.name /\ e.property \in DOMAIN x THEN [x EXCEPT ![e.property] = e.value] ELSE x
  <2>1. \A x : DictFine(x, hidden) => DictFine(Set(x), hidden)
    BY <1>2, EntryChanged
  <2>2. ApplyStream(s, e) = [s EXCEPT !.subscriptions = {Set(x) : x \in s.subscriptions}, !.streams = {Set(x) : x \in s.streams}]
    BY <1>2 DEF ApplyStream
  <2> HIDE DEF Set
  <2>3. DictsFine({Set(x) : x \in s.subscriptions}, hidden) /\ DictsFine({Set(x) : x \in s.streams}, hidden)
    BY <2>1 DEF StateFine, DictsFine
  <2> QED
    BY <2>2, <2>3 DEF StateFine
<1> QED
  BY <1>1, <1>2 DEF EventFine

\* The same for an event about a subscription.
LEMMA SubscriptionApplied ==
  ASSUME NEW hidden, NEW s, StateFine(s, hidden), NEW e, EventFine(e, hidden), e.type = "subscription"
  PROVE  StateFine(ApplySubscription(s, e), hidden)
<1>0. /\ DictsFine(s.subscriptions, hidden) /\ DictsFine(s.unsubscribed, hidden) /\ DictsFine(s.never_subscribed, hidden)
      /\ \A dicts, name : DictsFine(dicts, hidden) => DictsFine(dicts \ Named(name, dicts), hidden)
  BY DEF StateFine, DictsFine
<1>1. CASE e.op = "add" /\ "sub" \in DOMAIN e /\ IsDict(e.sub)
  <2>1. DictFine(e.sub, hidden)
    BY <1>1 DEF EventFine, Names, DictFine
  <2>2. PICK a, b, c : /\ a = s.subscriptions \cup {e.sub} /\ b = s.unsubscribed \ Named(e.sub.name, s.unsubscribed)
                       /\ c = s.never_subscribed \ Named(e.sub.name, s.never_subscribed)
    OBVIOUS
  <2>3. DictsFine(a, hidden) /\ DictsFine(b, hidden) /\ DictsFine(c, hidden)
    BY <1>0, <2>1, <2>2 DEF DictsFine
  <2>4. ApplySubscription(s, e) = [s EXCEPT !.subscriptions = a, !.unsubscribed = b, !.never_subscribed = c]
    BY <1>1, <2>2 DEF ApplySubscription
  <2> QED
    BY <2>3, <2>4 DEF StateFine
<1>2. CASE e.op = "remove"
  <2>1. PICK a, b : /\ a = s.subscriptions \ Named(e.name, s.subscriptions)
                    /\ b = s.unsubscribed \cup {[x EXCEPT !.subscribers = @ \ {Me}] : x \in Named(e.name, s.subscriptions)}
    OBVIOUS
  <2>2. ASSUME NEW x \in Named(e.name, s.subscriptions) PROVE DictFine([x EXCEPT !.subscribers = @ \ {Me}], hidden)
    BY <1>0, EntryChanged DEF Named, DictsFine
  <2>3. DictsFine(a, hidden) /\ DictsFine(b, hidden)
    BY <1>0, <2>1, <2>2 DEF DictsFine
  <2>4. ApplySubscription(s, e) = [s EXCEPT !.subscriptions = a, !.unsubscribed = b]
    BY <1>2, <2>1 DEF ApplySubscription
  <2> QED
    BY <2>3, <2>4 DEF StateFine
<1>3. CASE e.op = "update"
  <2>1. PICK a : a = {IF x.name = e.name THEN [x EXCEPT !.color = e.value] ELSE x : x \in s.subscriptions}
    OBVIOUS
  <2>2. DictsFine(a, hidden)
    BY <1>0, <2>1, EntryChanged DEF DictsFine
  <2>3. ApplySubscription(s, e) = [s EXCEPT !.subscriptions = a]
    BY <1>3, <2>1 DEF ApplySubscription
  <2> QED
    BY <2>2, <2>3 DEF StateFine
<1>4. CASE e.op = "peer_add"
  <2>1. PICK a, b : /\ a = WithSubscriber(e.user_id, s.subscriptions, e.name)
                    /\ b = WithSubscriber(e.user_id, s.never_subscribed, e.name)
    OBVIOUS
  <2>2. DictsFine(a, hidden) /\ DictsFine(b, hidden)
    <3>1. ASSUME NEW x, DictFine(x, hidden)
          PROVE  DictFine(IF x.name = e.name THEN [x EXCEPT !.subscribers = @ \cup {e.user_id}] ELSE x, hidden)
      BY <3>1, EntryChanged
    <3> QED
      BY <1>0, <2>1, <3>1 DEF DictsFine, WithSubscriber
  <2>3. ApplySubscription(s, e) = [s EXCEPT !.subscriptions = a, !.never_subscribed = b]
    BY <1>4, <2>1 DEF ApplySubscription
  <2> QED
    BY <2>2, <2>3 DEF StateFine
<1>5. CASE e.op = "peer_remove"
  <2>1. PICK a : a = {IF x.name = e.name THEN [x EXCEPT !.subscribers = @ \ {e.user_id}] ELSE x : x \in s.subscriptions}
    OBVIOUS
  <2>2. DictsFine(a, hidden)
    <3>1. ASSUME NEW x, DictFine(x, hidden)
          PROVE  DictFine(IF x.name = e.name THEN [x EXCEPT !.subscribers = @ \ {e.user_id}] ELSE x, hidden)
      BY <3>1, EntryChanged
    <3> QED
      BY <1>0, <2>1, <3>1 DEF DictsFine
  <2>3. ApplySubscription(s, e) = [s EXCEPT !.subscriptions = a]
    BY <1>5, <2>1 DEF ApplySubscription
  <2> QED
    BY <2>2, <2>3 DEF StateFine
<1> QED
  BY <1>1, <1>2, <1>3, <1>4, <1>5 DEF EventFine

\* The names of the steps of a registration in the area of streams.
StepNames == {"load", "allocate", "subscriptions", "all_streams", "subscribers", "streams", "get_user_events", "apply", "returned"}

\* The parts of two sequences put together.
LEMMA Parts ==
  ASSUME NEW S, NEW s \in Seq(S), NEW t \in Seq(S)
  PROVE  /\ s \o t \in Seq(S) /\ Len(s \o t) = Len(s) + Len(t)
         /\ \A i \in 1..Len(s) : (s \o t)[i] = s[i]
         /\ \A i \in 1..Len(t) : (s \o t)[Len(s) + i] = t[i]
OBVIOUS

\* Their names, one by one.
LEMMA StreamSteps ==
  ASSUME area = "streams"
  PROVE  /\ Queries = <<"subscriptions", "all_streams", "subscribers", "streams">>
         /\ Steps[1] = "load" /\ Steps[2] = "allocate" /\ Steps[3] = "subscriptions" /\ Steps[4] = "all_streams"
         /\ Steps[5] = "subscribers" /\ Steps[6] = "streams" /\ Steps[7] = "get_user_events" /\ Steps[8] = "apply"
         /\ Steps[9] = "returned"
<1>1. Queries = <<"subscriptions", "all_streams", "subscribers", "streams">>
  BY DEF Queries, StreamsQueries
<1>2. PICK a, b, c : /\ a = <<"load", "allocate">> /\ b = <<"subscriptions", "all_streams", "subscribers", "streams">>
                     /\ c = <<"get_user_events", "apply", "returned">>
  OBVIOUS
<1>3. a \in Seq(StepNames) /\ Len(a) = 2 /\ a[1] = "load" /\ a[2] = "allocate"
  BY <1>2 DEF StepNames
<1>4. b \in Seq(StepNames) /\ Len(b) = 4 /\ b[1] = "subscriptions" /\ b[2] = "all_streams" /\ b[3] = "subscribers" /\ b[4] = "streams"
  BY <1>2 DEF StepNames
<1>5. c \in Seq(StepNames) /\ Len(c) = 3 /\ c[1] = "get_user_events" /\ c[2] = "apply" /\ c[3] = "returned"
  BY <1>2 DEF StepNames
<1>6. PICK ab : ab = a \o b
  OBVIOUS
<1>7. /\ ab \in Seq(StepNames) /\ Len(ab) = 2 + 4 /\ \A i \in 1..2 : ab[i] = a[i]
      /\ \A i \in 1..4 : ab[2 + i] = b[i]
  <2>1. /\ ab \in Seq(StepNames) /\ Len(ab) = Len(a) + Len(b) /\ \A i \in 1..Len(a) : ab[i] = a[i]
        /\ \A i \in 1..Len(b) : ab[Len(a) + i] = b[i]
    <3>1. a \in Seq(StepNames) /\ b \in Seq(StepNames)
      BY <1>3, <1>4
    <3> QED
      BY <1>6, <3>1, Parts
  <2> QED
    BY <1>3, <1>4, <2>1
<1>8. /\ ab[1] = "load" /\ ab[2] = "allocate" /\ ab[3] = "subscriptions"
      /\ ab[4] = "all_streams" /\ ab[5] = "subscribers" /\ ab[6] = "streams"
  <2>1. ab[2 + 1] = b[1] /\ ab[2 + 2] = b[2] /\ ab[2 + 3] = b[3] /\ ab[2 + 4] = b[4] /\ ab[1] = a[1] /\ ab[2] = a[2]
    BY <1>7
  <2> QED
    BY <1>3, <1>4, <2>1
<1>9. PICK abc : abc = ab \o c
  OBVIOUS
<1>10. (\A i \in 1..6 : abc[i] = ab[i]) /\ \A i \in 1..3 : abc[6 + i] = c[i]
  <2>1. /\ \A i \in 1..Len(ab) : abc[i] = ab[i]
        /\ \A i \in 1..Len(c) : abc[Len(ab) + i] = c[i]
    <3>1. ab \in Seq(StepNames) /\ c \in Seq(StepNames)
      BY <1>5, <1>7
    <3> QED
      BY <1>9, <3>1, Parts
  <2>2. Len(ab) = 6 /\ Len(c) = 3
    BY <1>5, <1>7
  <2> QED
    BY <2>1, <2>2
<1>11. /\ abc[1] = "load" /\ abc[2] = "allocate" /\ abc[3] = "subscriptions" /\ abc[4] = "all_streams"
       /\ abc[5] = "subscribers" /\ abc[6] = "streams" /\ abc[7] = "get_user_events" /\ abc[8] = "apply" /\ abc[9] = "returned"
  <2>1. /\ abc[1] = ab[1] /\ abc[2] = ab[2] /\ abc[3] = ab[3] /\ abc[4] = ab[4] /\ abc[5] = ab[5] /\ abc[6] = ab[6]
        /\ abc[6 + 1] = c[1] /\ abc[6 + 2] = c[2] /\ abc[6 + 3] = c[3]
    BY <1>10
  <2> QED
    BY <1>5, <1>8, <2>1
<1>12. Steps = abc
  BY <1>1, <1>2, <1>6, <1>9 DEF Steps
<1> QED
  BY <1>1, <1>11, <1>12

\* At first no stream exists.
LEMMA HiddenStarts == Init => HiddenInv
<1> SUFFICES ASSUME Init, area = "streams" PROVE HiddenInv
  BY DEF HiddenInv
<1>1. RowsFine(db)
  <2>1. PICK d : d = InitRows("streams")
    OBVIOUS
  <2>2. d = db
    BY <2>1 DEF Init
  <2>3. /\ DOMAIN d = {"own", "realm", "domains", "lists", "hotspots", "msgs", "last_id", "presence", "users", "streams", "subs", "color"}
        /\ d.streams = [s \in Streams |-> [NewStream(s, TRUE) EXCEPT !.present = FALSE]]
        /\ d.subs = [u \in Users |-> [s \in Streams |-> "never"]]
    BY <2>1 DEF InitRows
  <2>4. ASSUME NEW s \in Streams
        PROVE  d.streams[s] \in StreamRows /\ d.streams[s].invite_only = TRUE /\ d.streams[s].was_public = FALSE
    <3>1. PICK row : /\ row = [present |-> TRUE, deactivated |-> FALSE, invite_only |-> TRUE, name |-> <<s, 0>>,
                               description |-> 0, was_public |-> FALSE]
                     /\ row = NewStream(s, TRUE)
      BY DEF NewStream
    <3>2. row \in StreamRows /\ row.invite_only = TRUE /\ row.was_public = FALSE
      BY <3>1 DEF StreamRows
    <3>3. d.streams[s] = [row EXCEPT !.present = FALSE]
      BY <2>3, <3>1
    <3> QED
      BY <3>2, <3>3 DEF StreamRows
  <2>5. d.streams \in [Streams -> StreamRows] /\ d.subs \in SubscriptionRows
    <3>1. d.streams = [s \in Streams |-> d.streams[s]]
      BY <2>3
    <3>2. d.streams \in [Streams -> StreamRows]
      BY <2>4, <3>1
    <3>3. d.subs \in SubscriptionRows
      BY <2>3 DEF SubscriptionRows
    <3> QED
      BY <3>2, <3>3
  <2> QED
    BY <2>2, <2>3, <2>4, <2>5 DEF RowsFine
<1>2. <<>> \in Seq({})
  OBVIOUS
<1>3. IsSequence(<<>>)
  BY <1>2 DEF IsSequence
<1> QED
  BY <1>1, <1>3 DEF Init, HiddenInv, NoticesFine, EventsFine

\* What leaves the registration as it is.
Quiet == UNCHANGED <<area, phase, profile, queue, pending, state>>
\* Every request does.
LEMMA RequestsAreQuiet == Requests => Quiet
<1>1. /\ \A rows, notices : Commit(rows, notices) => Quiet
      /\ \A rows, key : SilentCommit(rows, key) => Quiet
  BY DEF Commit, SilentCommit, Quiet, client
<1>2. SettingsRequest => Quiet
  <2>1. \A change : Done(change) => Quiet
    BY <1>1 DEF Done
  <2>2. \A key, value, notices : SetOwn(key, value, notices) => Quiet
    BY <1>1 DEF SetOwn
  <2>3. \A value : \A key \in RealmKeys \ {"icon"} : update_realm(key, value) => Quiet
    BY <2>1 DEF update_realm, RealmKeys
  <2>4. upload_icon \/ delete_icon_backend => Quiet
    BY <2>1 DEF upload_icon, delete_icon_backend
  <2>5. \A domain, allow : create_realm_domain(domain, allow) \/ patch_realm_domain(domain, allow) => Quiet
    BY <1>1 DEF create_realm_domain, do_add_realm_domain, patch_realm_domain, do_change_realm_domain
  <2>6. \A row : delete_realm_domain(row) => Quiet
    BY <1>1 DEF delete_realm_domain, do_remove_realm_domain
  <2>7. \A e : upload_emoji(e) \/ delete_emoji(e) \/ create_filter(e) \/ delete_filter(e) => Quiet
    BY <1>1 DEF upload_emoji, delete_emoji, create_filter, delete_filter
  <2>8. \A e, f : (\/ create_realm_custom_profile_field(e) \/ delete_realm_custom_profile_field(e)
                   \/ update_realm_custom_profile_field(e, f)) => Quiet
    BY <1>1 DEF create_realm_custom_profile_field, delete_realm_custom_profile_field, update_realm_custom_profile_field
  <2>9. \A e : add_default_stream(e) \/ remove_default_stream(e) => Quiet
    BY <1>1 DEF add_default_stream, remove_default_stream, do_add_default_stream, do_remove_default_stream
  <2>10. \A words : do_add_alert_words(words) \/ do_remove_alert_words(words) \/ do_set_alert_words(words) => Quiet
    BY <2>2 DEF do_add_alert_words, do_remove_alert_words, do_set_alert_words, SetWords
  <2>11. \A topics, topic, op : do_set_muted_topics(topics) \/ update_muted_topic(topic, op) => Quiet
    BY <2>2 DEF do_set_muted_topics, update_muted_topic
  <2>12. \A value : update_display_settings_backend(value) \/ json_change_notify_settings(value) => Quiet
    BY <2>2 DEF update_display_settings_backend, json_change_notify_settings, do_set_user_display_setting, do_change_notification_settings
  <2>13. \A key, value : json_change_ui_settings(key, value) \/ do_change_enter_sends(value) => Quiet
    BY <1>1 DEF json_change_ui_settings, do_change_enter_sends
  <2>14. \A hotspot : do_mark_hotspot_as_read(hotspot) => Quiet
    BY <1>1 DEF do_mark_hotspot_as_read
  <2> QED
    BY <2>3, <2>4, <2>5, <2>6, <2>7, <2>8, <2>9, <2>10, <2>11, <2>12, <2>13, <2>14 DEF SettingsRequest
<1>3. UsersRequest => Quiet
  <2>1. \A u : (\/ do_change_full_name(u) \/ do_change_avatar_fields(u) \/ do_regenerate_api_key(u) \/ do_change_timezone(u)
                \/ do_change_user_email(u) \/ do_change_default_all_public_streams(u)) => Quiet
    BY <1>1 DEF do_change_full_name, do_change_avatar_fields, do_regenerate_api_key, do_change_timezone,
                do_change_user_email, do_change_default_all_public_streams, SetAttribute
  <2>2. \A u : do_deactivate_user(u) \/ do_reactivate_user(u) \/ do_activate_user(u) => Quiet
    BY <1>1 DEF do_deactivate_user, do_reactivate_user, do_activate_user
  <2>5. \A b, owner : do_change_bot_owner(b, owner) => Quiet
    BY <1>1 DEF do_change_bot_owner
  <2>6. \A b, stream, member : do_change_default_sending_stream(b, stream, member)
                              \/ do_change_default_events_register_stream(b, stream, member) => Quiet
    BY <1>1 DEF do_change_default_sending_stream, do_change_default_events_register_stream, SetBotStream
  <2>3. \A actor, b : patch_bot_backend(actor, b) => Quiet
    BY <2>1, <2>5, <2>6 DEF patch_bot_backend
  <2>4. \A actor, u, value : create_user_backend(u) \/ add_bot_backend(actor, u) \/ update_user_backend(actor, u, value) => Quiet
    BY <1>1 DEF create_user_backend, add_bot_backend, do_create_user, update_user_backend, do_change_is_admin
  <2> QED
    BY <2>1, <2>2, <2>3, <2>4
       DEF UsersRequest, deactivate_user_backend, deactivate_user_own_backend, deactivate_bot_backend,
           _deactivate_user_profile_backend, reactivate_user_backend, regenerate_bot_api_key, json_change_settings,
           set_avatar_backend, delete_avatar_backend, regenerate_api_key, confirm_email_change
<1>4. StreamsRequest \/ StreamsContinue => Quiet
  <2>1. StreamsContinue => Quiet
    BY DEF StreamsContinue, client, Quiet
  <2>2. \A actor, s, users, private : add_subscriptions_backend(actor, s, users, private) => Quiet
    BY <1>1 DEF add_subscriptions_backend, list_to_streams, create_stream_if_needed
  <2>3. \A s : update_stream_backend(s) => Quiet
    BY <1>1 DEF update_stream_backend, do_change_stream_description, do_rename_stream, do_change_stream_invite_only
  <2> QED
    BY <1>1, <2>1, <2>2, <2>3 DEF StreamsRequest, remove_subscriptions_backend, deactivate_stream_backend, merge_streams,
         update_subscription_properties_backend, do_change_subscription_property
<1>5. MessagesRequest => Quiet
  <2>1. \A sender, to, subject, mentioned : do_send_messages(sender, to, subject, mentioned) => Quiet
    BY <1>1 DEF do_send_messages
  <2>2. \A editor, m, subject, mode, content, mentioned : update_message_backend(editor, m, subject, mode, content, mentioned) => Quiet
    <3>1. \A m, subject, mode, content, mentioned : do_update_message(m, subject, mode, content, mentioned) => Quiet
      BY <1>1 DEF do_update_message
    <3> QED
      BY <3>1 DEF update_message_backend
  <2>3. \A op, flag, named, scope, topic : update_message_flags(op, flag, named, scope, topic) => Quiet
    <3>1. \A op, flag, named, scope, topic : do_update_message_flags(op, flag, named, scope, topic) => Quiet
      BY <1>1 DEF do_update_message_flags
    <3> QED
      BY <3>1 DEF update_message_flags
  <2>4. \A m, mentioned : do_update_embedded_data(m, mentioned) \/ add_reaction_backend(m) => Quiet
    BY <1>1 DEF do_update_embedded_data, add_reaction_backend
  <2>5. \A user, m : delete_message_backend(user, m) => Quiet
    BY <1>1 DEF delete_message_backend, do_delete_message
  <2>6. \A pointer, android : update_pointer_backend(pointer, android) => Quiet
    BY <1>1 DEF update_pointer_backend, do_update_pointer
  <2>7. \A u, status, stale : do_update_user_presence(u, status, stale) => Quiet
    BY <1>1 DEF do_update_user_presence
  <2>8. do_send_typing_notification => Quiet
    BY <1>1 DEF do_send_typing_notification
  <2> QED
    BY <2>1, <2>2, <2>3, <2>4, <2>5, <2>6, <2>7, <2>8 DEF MessagesRequest
<1> QED
  BY <1>2, <1>3, <1>4, <1>5 DEF Requests

\* Every step keeps the invariant.
LEMMA HiddenStays == HiddenInv /\ [Next]_vars => HiddenInv'
<1> SUFFICES ASSUME HiddenInv, [Next]_vars, area' = "streams" PROVE HiddenInv'
  BY DEF HiddenInv
<1>0. area = "streams"
  <2>1. UNCHANGED area
    BY RequestsAreQuiet DEF Next, vars, syncVars, Registration, LoadProfile, AllocateQueue, Fetch, get_user_events,
                            apply_events, Publish, Quiet
  <2> QED
    BY <2>1
<1> DEFINE hidden == HiddenStreams(db)
<1>1. CASE UNCHANGED syncVars
  BY <1>1 DEF syncVars, HiddenInv
<1>2. /\ RowsFine(db) /\ NoticesFine(outbox, hidden) /\ EventsFine(queue, hidden) /\ EventsFine(pending, hidden)
      /\ phase \in 1..9 /\ (phase > 2 => StateFine(state, hidden))
      /\ (phase \in {4, 5} => MineFine(state.raw.mine, hidden)) /\ (phase = 5 => RawFine(state.raw.streams, hidden))
  BY <1>0 DEF HiddenInv
<1>3. CASE Requests
  <2>1. Discloses(db, db') /\ NoticesFine(outbox', HiddenStreams(db')) /\ UNCHANGED <<queue, pending, phase, state>>
    <3>1. StreamsRequest \/ StreamsContinue
      BY <1>0, <1>3 DEF Requests, SettingsRequest, UsersRequest, MessagesRequest, Request
    <3>2. UNCHANGED <<queue, pending, phase, state>>
      BY <1>3, RequestsAreQuiet DEF Quiet
    <3>3. StreamsRequest => outbox = <<>>
      BY DEF StreamsRequest, Request
    <3> QED
      BY <1>2, <3>1, <3>2, <3>3, RequestsHide, ContinueHides
  <2>2. PICK less : less = HiddenStreams(db') /\ less \subseteq hidden
    BY <2>1 DEF Discloses
  <2> HIDE DEF hidden
  <2>3. /\ EventsFine(queue, less) /\ EventsFine(pending, less)
        /\ (phase > 2 => StateFine(state, less))
        /\ (phase \in {4, 5} => MineFine(state.raw.mine, less)) /\ (phase = 5 => RawFine(state.raw.streams, less))
    BY <1>2, <2>2, FewerHidden
  <2> QED
    BY <1>2, <2>1, <2>2, <2>3 DEF HiddenInv, Discloses
<1>4. CASE Publish
  <2>1. /\ UNCHANGED <<db, phase, pending, state>> /\ outbox' = Tail(outbox) /\ outbox # <<>> /\ "event" \in DOMAIN Head(outbox)
        /\ queue' = IF Allocated /\ Me \in Head(outbox).users THEN Append(queue, Head(outbox).event) ELSE queue
    BY <1>4 DEF Publish
  <2>2. NoticeFine(Head(outbox), hidden) /\ NoticesFine(Tail(outbox), hidden)
    BY <1>2, <2>1, Rested
  <2>3. EventsFine(queue', hidden)
    <3>1. Me \in Head(outbox).users => EventFine(Head(outbox).event, hidden)
      BY <2>1, <2>2 DEF NoticeFine
    <3> HIDE DEF hidden
    <3> QED
      BY <1>2, <2>1, <3>1, Queued
  <2> QED
    BY <1>2, <2>1, <2>2, <2>3 DEF HiddenInv
<1>5. CASE Registration
  <2>0. /\ Queries = <<"subscriptions", "all_streams", "subscribers", "streams">>
        /\ Steps[1] = "load" /\ Steps[2] = "allocate" /\ Steps[3] = "subscriptions" /\ Steps[4] = "all_streams"
        /\ Steps[5] = "subscribers" /\ Steps[6] = "streams" /\ Steps[7] = "get_user_events" /\ Steps[8] = "apply"
        /\ Steps[9] = "returned"
    BY <1>0, StreamSteps
  <2>1. CASE LoadProfile
    <3>1. phase = 1
      BY <1>2, <2>0, <2>1 DEF LoadProfile, At
    <3> QED
      BY <1>2, <2>1, <3>1 DEF LoadProfile, writer, HiddenInv
  <2>2. CASE AllocateQueue
    <3>1. phase = 2
      BY <1>2, <2>0, <2>2 DEF AllocateQueue, At
    <3>2. state' = NoStreams
      BY <1>0, <2>2 DEF AllocateQueue, OfProfile
    <3>3. StateFine(NoStreams, hidden)
      BY DEF NoStreams, StateFine, DictsFine
    <3> QED
      BY <1>2, <2>2, <3>1, <3>2, <3>3 DEF AllocateQueue, writer, HiddenInv
  <2>3. CASE Fetch
    <3>1. phase \in 3..6
      BY <1>2, <2>0, <2>3 DEF Fetch, At
    <3>2. state' = FetchStreams(state, Steps[phase], db)
      BY <1>0, <2>3 DEF Fetch, fetch_initial_state_data
    <3>3. PICK d, s, new : d = db /\ s = state /\ new = state'
      OBVIOUS
    <3>4. PICK h : h = HiddenStreams(d)
      OBVIOUS
    <3>5. /\ StateFine(new, h) /\ (phase = 3 => MineFine(new.raw.mine, h))
          /\ (phase = 4 => MineFine(new.raw.mine, h) /\ RawFine(new.raw.streams, h))
      <4>1. RowsFine(d) /\ StateFine(s, h) /\ (phase \in {4, 5} => MineFine(s.raw.mine, h)) /\ (phase = 5 => RawFine(s.raw.streams, h))
        BY <1>2, <3>1, <3>3, <3>4
      <4>2. CASE phase = 3
        BY <2>0, <3>2, <3>3, <3>4, <4>1, <4>2, FetchHides
      <4>3. CASE phase = 4
        BY <2>0, <3>2, <3>3, <3>4, <4>1, <4>3, FetchHides
      <4>4. CASE phase = 5
        BY <2>0, <3>2, <3>3, <3>4, <4>1, <4>4, FetchHides
      <4>5. CASE phase = 6
        BY <2>0, <3>2, <3>3, <3>4, <4>1, <4>5, FetchHides
      <4> QED
        BY <3>1, <4>2, <4>3, <4>4, <4>5
    <3>6. phase' = phase + 1 /\ UNCHANGED <<db, outbox, queue, pending>>
      BY <2>3 DEF Fetch, writer
    <3> QED
      BY <1>2, <3>1, <3>3, <3>4, <3>5, <3>6 DEF HiddenInv
  <2>4. CASE get_user_events
    <3>1. phase = 7
      BY <1>2, <2>0, <2>4 DEF get_user_events, At
    <3>2. EventsFine(<<>>, hidden)
      <4>1. <<>> \in Seq({})
        OBVIOUS
      <4> QED
        BY <4>1 DEF EventsFine, IsSequence
    <3> QED
      BY <1>2, <2>4, <3>1, <3>2 DEF get_user_events, writer, HiddenInv
  <2>5. CASE apply_events
    <3>1. phase = 8
      BY <1>2, <2>0, <2>5 DEF apply_events, At
    <3>2. CASE pending = <<>>
      BY <1>2, <2>5, <3>1, <3>2 DEF apply_events, writer, HiddenInv
    <3>3. CASE pending # <<>>
      <4>1. EventFine(Head(pending), hidden) /\ EventsFine(Tail(pending), hidden)
        <5> HIDE DEF hidden
        <5> QED
          BY <1>2, <3>3, Queued
      <4>2. PICK e, s, h : e = Head(pending) /\ s = state /\ h = hidden
        OBVIOUS
      <4>3. state' = IF e.type = "stream" THEN ApplyStream(s, e) ELSE ApplySubscription(s, e)
        BY <1>0, <2>5, <3>3, <4>2 DEF apply_events, apply_event
      <4>4. StateFine(s, h) /\ EventFine(e, h) /\ e.type \in {"stream", "subscription"}
        BY <1>2, <3>1, <4>1, <4>2 DEF EventFine
      <4>5. StateFine(state', h)
        <5>1. CASE e.type = "stream"
          BY <4>3, <4>4, <5>1, StreamApplied
        <5>2. CASE e.type = "subscription"
          BY <4>3, <4>4, <5>2, SubscriptionApplied
        <5> QED
          BY <4>4, <5>1, <5>2
      <4>6. UNCHANGED <<db, outbox, queue, phase>> /\ pending' = Tail(pending)
        BY <2>5, <3>3 DEF apply_events, writer
      <4> QED
        BY <1>2, <3>1, <4>1, <4>2, <4>5, <4>6 DEF HiddenInv
    <3> QED
      BY <3>2, <3>3
  <2> QED
    BY <1>5, <2>1, <2>2, <2>3, <2>4, <2>5 DEF Registration
<1> QED
  BY <1>1, <1>3, <1>4, <1>5 DEF Next, vars

\* A private stream that Me never could read shows up in nothing that Me's client gets.
THEOREM PrivateStaysPrivate == Spec => []PrivateStreamsHidden
<1>1. HiddenInv => PrivateStreamsHidden
  <2> SUFFICES ASSUME HiddenInv, area = "streams", Allocated PROVE PrivateStreamsHidden
    BY DEF PrivateStreamsHidden
  <2>1. EventsFine(queue, HiddenStreams(db)) /\ StateFine(state, HiddenStreams(db))
    BY DEF HiddenInv, Allocated
  <2>2. \A x : DictFine(x, HiddenStreams(db)) => ~Names(x, HiddenStreams(db))
    BY DEF DictFine, IsDict, Names
  <2>3. \A i \in 1..Len(queue) : ~Names(queue[i], HiddenStreams(db))
    BY <2>1 DEF EventsFine, EventFine
  <2>4. \A x \in state.subscriptions \cup state.unsubscribed \cup state.never_subscribed \cup state.streams :
           ~Names(x, HiddenStreams(db))
    BY <2>1, <2>2 DEF StateFine, DictsFine
  <2> QED
    BY <2>3, <2>4 DEF PrivateStreamsHidden
<1> QED
  BY <1>1, HiddenStarts, HiddenStays, PTL DEF Spec

-----------------------------------------------------------------------------
(* Presence and activity *)

\* Of the subsets of a finite set some have a least one among them.
LEMMA LeastSubset ==
  ASSUME NEW S, IsFiniteSet(S), NEW D \in SUBSET (SUBSET S), D # {}
  PROVE  \E s \in D : \A t \in D : ~(t \subseteq s /\ t # s)
<1>1. IsWellFoundedOn(StrictSubsetOrdering(S), SUBSET S)
  BY FS_StrictSubsetOrderingWellFounded, FS_FiniteSubsetsOfFinite
<1>2. \E s \in D : \A t \in D : <<t, s>> \notin StrictSubsetOrdering(S)
  BY <1>1, WFMin, Zenon
<1> QED
  BY <1>2 DEF StrictSubsetOrdering

\* What do_pull_minutes_active adds for an interval.
Part(i, a, b) == Min({b, i[2]}) - Max({a, i[1]})
Within(a, b) == {i \in intervals : i[2] > a /\ i[1] < b}

\* h says of each set of intervals what they add up to.
AddsUp(h, within, a, b) ==
  /\ DOMAIN h = SUBSET within /\ h = [s \in DOMAIN h |-> h[s]]
  /\ h[{}] = 0
  /\ \A s \in SUBSET within : \A x \in s : h[s] = Part(x, a, b) + h[s \ {x}]

\* What is added up, one interval after the other, is what h says if h takes the same for each.
LEMMA SumIs ==
  ASSUME NEW a \in Int, NEW b \in Int, NEW within, within = Within(a, b), IsFiniteSet(within),
         NEW h, AddsUp(h, within, a, b)
  PROVE  do_pull_minutes_active(a, b) = h[within]
<1> DEFINE Chosen(s) == CHOOSE x \in s : TRUE
           Sums(it) == it = [s \in SUBSET within |-> IF s = {} THEN 0 ELSE Part(Chosen(s), a, b) + it[s \ {Chosen(s)}]]
<1>0. /\ DOMAIN h = SUBSET within /\ h = [s \in DOMAIN h |-> h[s]] /\ h[{}] = 0
      /\ \A s \in SUBSET within : \A x \in s : h[s] = Part(x, a, b) + h[s \ {x}]
  BY DEF AddsUp
<1>1. do_pull_minutes_active(a, b) = (CHOOSE it : Sums(it))[within]
  BY DEF Part, Within, do_pull_minutes_active, MapThenSumSet, MapThenFoldSet
<1>2. \A s : s # {} => Chosen(s) \in s
  OBVIOUS
<1>3. \A s \in SUBSET within : s # {} => h[s] = Part(Chosen(s), a, b) + h[s \ {Chosen(s)}]
  BY <1>0, <1>2
<1> HIDE DEF Chosen
<1>4. Sums(h)
  <2>1. \A s \in SUBSET within : h[s] = IF s = {} THEN 0 ELSE Part(Chosen(s), a, b) + h[s \ {Chosen(s)}]
    BY <1>0, <1>3
  <2> QED
    BY <1>0, <2>1
<1>5. PICK it : it = CHOOSE g : Sums(g)
  OBVIOUS
<1>6. Sums(it)
  BY <1>4, <1>5, Zenon
<1>9. \A s \in SUBSET within : it[s] = IF s = {} THEN 0 ELSE Part(Chosen(s), a, b) + it[s \ {Chosen(s)}]
  BY <1>6
<1>7. SUFFICES it[within] = h[within]
  BY <1>1, <1>5
<1> DEFINE D == {s \in SUBSET within : it[s] # h[s]}
<1>8. D = {}
  <2> SUFFICES ASSUME D # {} PROVE FALSE
    OBVIOUS
  <2>1. PICK s \in D : \A t \in D : ~(t \subseteq s /\ t # s)
    <3> HIDE DEF D
    <3>1. D \in SUBSET (SUBSET within)
      BY DEF D
    <3> QED
      BY <3>1, LeastSubset
  <2>4. it[s] # h[s] /\ s \in SUBSET within
    OBVIOUS
  <2>2. s # {}
    BY <1>0, <1>9, <2>4
  <2>3. it[s \ {Chosen(s)}] = h[s \ {Chosen(s)}]
    <3>1. PICK t : t = s \ {Chosen(s)}
      OBVIOUS
    <3>2. t \subseteq s /\ t # s /\ t \in SUBSET within
      BY <1>2, <2>2, <2>4, <3>1
    <3>3. t \notin D
      BY <2>1, <3>2
    <3> QED
      BY <3>1, <3>2, <3>3
  <2> QED
    BY <1>3, <1>9, <2>2, <2>3, <2>4
<1> QED
  BY <1>8

-----------------------------------------------------------------------------
(* Presence and activity *)

MinutesOf(i, a, b) == {t \in a..(b - 1) : i[1] <= t /\ t < i[2]}
\* The minutes from a to b with the interval of s that each lies in.
Parted(s, a, b) == {p \in s \X (a..(b - 1)) : p[1][1] <= p[2] /\ p[2] < p[1][2]}

LEMMA MinutesUpTo ==
  ASSUME NEW a \in Int, NEW b \in Int
  PROVE  IsFiniteSet(a..(b - 1)) /\ (a <= b => Cardinality(a..(b - 1)) = b - a)
<1>1. PICK c : c = b - 1
  OBVIOUS
<1>2. c \in Int /\ b = c + 1
  BY <1>1
<1>3. /\ IsFiniteSet(a..c)
      /\ Cardinality(a..c) = IF a > c THEN 0 ELSE c - a + 1
  BY <1>2, FS_Interval
<1> QED
  BY <1>1, <1>2, <1>3

\* For an interval that is the number of its minutes in the period.
LEMMA MinutesOfOne ==
  ASSUME NEW a \in Int, NEW b \in Int, a <= b, NEW i, i[1] \in Int, i[2] \in Int, i[1] <= i[2], i[2] > a, i[1] < b
  PROVE  /\ IsFiniteSet(MinutesOf(i, a, b))
         /\ Cardinality(MinutesOf(i, a, b)) = Part(i, a, b)
<1>1. PICK x, y : x = i[1] /\ y = i[2]
  OBVIOUS
<1>2. PICK lo, hi : lo = (IF a < x THEN x ELSE a) /\ hi = (IF b < y THEN b ELSE y)
  OBVIOUS
<1>3. Min({b, y}) = hi
  BY <1>1, <1>2 DEF Min
<1>4. Max({a, x}) = lo
  BY <1>1, <1>2 DEF Max
<1>5. MinutesOf(i, a, b) = lo..(hi - 1)
  BY <1>1, <1>2 DEF MinutesOf
<1>6. lo \in Int /\ hi \in Int /\ lo <= hi
  BY <1>1, <1>2
<1>7. IsFiniteSet(lo..(hi - 1)) /\ Cardinality(lo..(hi - 1)) = hi - lo
  BY <1>6, MinutesUpTo
<1> QED
  BY <1>1, <1>3, <1>4, <1>5, <1>7 DEF Part

\* One interval less, its minutes less.
LEMMA PartedWithout ==
  ASSUME NEW a \in Int, NEW b \in Int, NEW s, IsFiniteSet(s), NEW x \in s
  PROVE  /\ IsFiniteSet(Parted(s, a, b))
         /\ Cardinality(Parted(s, a, b)) = Cardinality(MinutesOf(x, a, b)) + Cardinality(Parted(s \ {x}, a, b))
<1>1. IsFiniteSet(a..(b - 1)) /\ IsFiniteSet(s \X (a..(b - 1)))
  <2>1. IsFiniteSet(a..(b - 1))
    BY MinutesUpTo
  <2> QED
    BY <2>1, FS_Product
<1>2. IsFiniteSet(Parted(s, a, b)) /\ IsFiniteSet(MinutesOf(x, a, b))
  BY <1>1, FS_Subset DEF Parted, MinutesOf
<1>3. IsFiniteSet({x}) /\ Cardinality({x}) = 1
  BY FS_Singleton
<1>4. /\ IsFiniteSet({x} \X MinutesOf(x, a, b))
      /\ Cardinality({x} \X MinutesOf(x, a, b)) = Cardinality({x}) * Cardinality(MinutesOf(x, a, b))
  BY <1>2, <1>3, FS_Product
<1>5. Cardinality(MinutesOf(x, a, b)) \in Nat /\ Cardinality({x} \X MinutesOf(x, a, b)) = Cardinality(MinutesOf(x, a, b))
  <2>1. Cardinality(MinutesOf(x, a, b)) \in Nat
    BY <1>2, FS_CardinalityType
  <2> QED
    BY <1>3, <1>4, <2>1
<1>6. Parted(s, a, b) = Parted(s \ {x}, a, b) \cup ({x} \X MinutesOf(x, a, b))
  BY DEF Parted, MinutesOf
<1>7. Parted(s \ {x}, a, b) \cap ({x} \X MinutesOf(x, a, b)) = {}
  BY DEF Parted
<1>8. IsFiniteSet(Parted(s \ {x}, a, b)) /\ Cardinality(Parted(s \ {x}, a, b)) \in Nat
  <2>1. Parted(s \ {x}, a, b) \subseteq Parted(s, a, b)
    BY <1>6
  <2> QED
    BY <1>2, <2>1, FS_Subset, FS_CardinalityType
<1>9. Cardinality(Parted(s, a, b)) = Cardinality(Parted(s \ {x}, a, b)) + Cardinality({x} \X MinutesOf(x, a, b))
  <2>1. Cardinality({}) = 0
    BY FS_EmptySet
  <2>2. PICK X, Y : X = Parted(s \ {x}, a, b) /\ Y = {x} \X MinutesOf(x, a, b)
    OBVIOUS
  <2>3. Cardinality(X \cup Y) = Cardinality(X) + Cardinality(Y) - Cardinality(X \cap Y)
    BY <1>4, <1>8, <2>2, FS_Union
  <2>4. Cardinality(X) \in Nat /\ Cardinality(Y) \in Nat /\ Cardinality(X \cap Y) = 0
    BY <1>5, <1>7, <1>8, <2>1, <2>2
  <2> QED
    BY <1>6, <2>2, <2>3, <2>4
<1> QED
  BY <1>2, <1>5, <1>8, <1>9

\* What is counted are the minutes with their intervals.
LEMMA CountedAreParted ==
  ASSUME IsFiniteSet(intervals), \A i \in intervals : i[1] \in Int /\ i[2] \in Int /\ i[1] <= i[2],
         NEW a \in Int, NEW b \in Int, a <= b
  PROVE  do_pull_minutes_active(a, b) = Cardinality(Parted(intervals, a, b))
<1>1. PICK within : within = Within(a, b)
  OBVIOUS
<1>2. IsFiniteSet(within)
  <2>1. within \in SUBSET intervals
    BY <1>1 DEF Within
  <2> QED
    BY <2>1, FS_Subset
<1>3. PICK h : h = [s \in SUBSET within |-> Cardinality(Parted(s, a, b))]
  OBVIOUS
<1>4. h[{}] = 0
  <2>1. Parted({}, a, b) = {}
    BY DEF Parted
  <2> QED
    BY <1>3, <2>1, FS_EmptySet
<1>5. ASSUME NEW s \in SUBSET within, NEW x \in s
      PROVE  h[s] = Part(x, a, b) + h[s \ {x}]
  <2>1. IsFiniteSet(s)
    BY <1>2, FS_Subset
  <2>2. Cardinality(Parted(s, a, b)) = Cardinality(MinutesOf(x, a, b)) + Cardinality(Parted(s \ {x}, a, b))
    BY <2>1, PartedWithout
  <2>3. Cardinality(MinutesOf(x, a, b)) = Part(x, a, b)
    BY <1>1, MinutesOfOne DEF Within
  <2> QED
    BY <1>3, <2>2, <2>3
<1>6. DOMAIN h = SUBSET within /\ h = [s \in DOMAIN h |-> h[s]]
  BY <1>3
<1>7. do_pull_minutes_active(a, b) = h[within]
  <2>1. \A s \in SUBSET within : \A x \in s : h[s] = Part(x, a, b) + h[s \ {x}]
    BY <1>5
  <2>2. AddsUp(h, within, a, b)
    BY <1>4, <1>6, <2>1 DEF AddsUp
  <2> QED
    BY <1>1, <1>2, <2>2, SumIs
<1>8. Parted(within, a, b) = Parted(intervals, a, b)
  BY <1>1 DEF Parted, Within
<1> QED
  BY <1>3, <1>7, <1>8

\* Two intervals share less than a report may be late.
Apart == \A i, j \in intervals : i # j /\ i[1] <= j[1] => j[1] > i[2] - MaxLate

\* So no minute is left out, and few are counted twice.
LEMMA MinutesRight ==
  ASSUME IsFiniteSet(intervals), \A i \in intervals : i[1] \in Int /\ i[2] \in Int /\ i[1] <= i[2], Apart
  PROVE  MinutesAreCounted
<1> SUFFICES ASSUME NEW a \in 0..MaxNow, NEW b \in a..MaxNow
             PROVE  LET counted == do_pull_minutes_active(a, b)
                        active == Cardinality({t \in a..(b - 1) : \E i \in intervals : i[1] <= t /\ t < i[2]})
                    IN active <= counted /\ counted <= active + Overlap * Cardinality(intervals)
  BY DEF MinutesAreCounted
<1>0. a \in Int /\ b \in Int /\ a <= b /\ MaxLate \in Nat /\ Overlap \in Nat
  BY ActivityConstants DEF Overlap
<1>1. PICK P, A : /\ P = Parted(intervals, a, b)
                  /\ A = {t \in a..(b - 1) : \E i \in intervals : i[1] <= t /\ t < i[2]}
  OBVIOUS
<1>2. do_pull_minutes_active(a, b) = Cardinality(P)
  BY <1>0, <1>1, CountedAreParted
<1>3. /\ \A p \in P : p = <<p[1], p[2]>> /\ p[1] \in intervals /\ p[2] \in a..(b - 1) /\ p[1][1] <= p[2] /\ p[2] < p[1][2]
      /\ \A i \in intervals, t \in a..(b - 1) : i[1] <= t /\ t < i[2] => <<i, t>> \in P
  BY <1>1 DEF Parted
<1>4. IsFiniteSet(P) /\ IsFiniteSet(A)
  <2>1. IsFiniteSet(a..(b - 1)) /\ IsFiniteSet(intervals \X (a..(b - 1)))
    <3>1. IsFiniteSet(a..(b - 1))
      BY <1>0, MinutesUpTo
    <3> QED
      BY <3>1, FS_Product
  <2>2. P \in SUBSET (intervals \X (a..(b - 1))) /\ A \in SUBSET (a..(b - 1))
    BY <1>1 DEF Parted
  <2> QED
    BY <2>1, <2>2, FS_Subset
<1>5. Cardinality(A) <= Cardinality(P)
  <2>1. PICK f : f = [p \in P |-> p[2]]
    OBVIOUS
  <2>2. f \in Surjection(P, A)
    <3>1. f \in [P -> A]
      BY <1>1, <1>3, <2>1
    <3>2. \A t \in A : \E p \in P : f[p] = t
      <4> SUFFICES ASSUME NEW t \in A PROVE \E p \in P : f[p] = t
        OBVIOUS
      <4>1. PICK i \in intervals : i[1] <= t /\ t < i[2]
        BY <1>1
      <4>2. <<i, t>> \in P
        BY <1>1, <1>3, <4>1
      <4> QED
        BY <2>1, <4>2
    <3> QED
      BY <3>1, <3>2 DEF Surjection
  <2> QED
    BY <1>4, <2>2, FS_Surjection
<1>6. PICK D, F : /\ D = {p \in P : \E j \in intervals : j # p[1] /\ j[1] <= p[1][1] /\ p[2] < j[2]}
                  /\ F = P \ D
  OBVIOUS
<1>7. IsFiniteSet(F) /\ Cardinality(F) <= Cardinality(A)
  <2>1. PICK f : f = [p \in F |-> p[2]]
    OBVIOUS
  <2>2. f \in [F -> A]
    BY <1>1, <1>3, <1>6, <2>1
  <2>3. ASSUME NEW p \in F, NEW q \in F, p[2] = q[2] PROVE p = q
    <3>1. p \in P /\ q \in P /\ p \notin D /\ q \notin D
      BY <1>6
    <3>2. p[1][1] \in Int /\ q[1][1] \in Int
      BY <1>3, <3>1
    <3>3. CASE p[1][1] <= q[1][1]
      <4>1. p[1] = q[1]
        BY <1>3, <1>6, <2>3, <3>1, <3>3
      <4> QED
        BY <1>3, <2>3, <3>1, <4>1
    <3>4. CASE q[1][1] <= p[1][1]
      <4>1. p[1] = q[1]
        BY <1>3, <1>6, <2>3, <3>1, <3>4
      <4> QED
        BY <1>3, <2>3, <3>1, <4>1
    <3> QED
      BY <3>2, <3>3, <3>4
  <2>4. f \in Injection(F, A)
    <3>1. DOMAIN f = F /\ \A p \in F : f[p] = p[2]
      BY <2>1
    <3> QED
      BY <2>2, <2>3, <3>1 DEF Injection, IsInjective
  <2> QED
    BY <1>4, <2>4, FS_Injection
<1>8. IsFiniteSet(D) /\ Cardinality(D) <= Overlap * Cardinality(intervals)
  <2>1. PICK f : f = [p \in D |-> <<p[1], p[2] - p[1][1]>>]
    OBVIOUS
  <2>2. ASSUME NEW p \in D PROVE p[1] \in intervals /\ p[2] - p[1][1] \in 0..(Overlap - 1)
    <3>1. p \in P
      BY <1>6
    <3>2. PICK j \in intervals : j # p[1] /\ j[1] <= p[1][1] /\ p[2] < j[2]
      BY <1>6
    <3>3. p[1][1] > j[2] - MaxLate
      BY <1>3, <3>1, <3>2 DEF Apart
    <3>4. p[2] \in Int /\ p[1][1] \in Int /\ p[1][1] <= p[2] /\ j[2] \in Int
      BY <1>0, <1>3, <3>1, <3>2
    <3> QED
      BY <1>0, <1>3, <3>1, <3>2, <3>3, <3>4 DEF Overlap
  <2>3. f \in [D -> intervals \X (0..(Overlap - 1))]
    BY <2>1, <2>2
  <2>4. ASSUME NEW p \in D, NEW q \in D, f[p] = f[q] PROVE p = q
    <3>1. p \in P /\ q \in P
      BY <1>6
    <3>2. p[1] = q[1] /\ p[2] - p[1][1] = q[2] - q[1][1]
      BY <2>1, <2>4
    <3>3. p[2] \in Int /\ q[2] \in Int /\ p[1][1] \in Int
      BY <1>0, <1>3, <3>1
    <3>4. p[2] = q[2]
      BY <3>2, <3>3
    <3> QED
      BY <1>3, <3>1, <3>2, <3>4
  <2>5. f \in Injection(D, intervals \X (0..(Overlap - 1)))
    <3>1. DOMAIN f = D
      BY <2>1
    <3>2. IsInjective(f)
      BY <2>4, <3>1 DEF IsInjective
    <3> QED
      BY <2>3, <3>2 DEF Injection
  <2>6. IsFiniteSet(0..(Overlap - 1)) /\ Cardinality(0..(Overlap - 1)) = Overlap
    <3>1. Overlap \in Int /\ 0 \in Int /\ 0 <= Overlap /\ Overlap - 0 = Overlap
      BY <1>0
    <3>2. IsFiniteSet(0..(Overlap - 1)) /\ (0 <= Overlap => Cardinality(0..(Overlap - 1)) = Overlap - 0)
      BY <3>1, MinutesUpTo, Zenon
    <3> QED
      BY <3>1, <3>2
  <2>7. /\ IsFiniteSet(intervals \X (0..(Overlap - 1)))
        /\ Cardinality(intervals \X (0..(Overlap - 1))) = Cardinality(intervals) * Overlap
    BY <2>6, FS_Product
  <2>8. Cardinality(intervals) \in Nat
    BY FS_CardinalityType
  <2>9. Cardinality(intervals) * Overlap = Overlap * Cardinality(intervals)
    BY <1>0, <2>8
  <2> QED
    BY <2>5, <2>7, <2>9, FS_Injection
<1>9. Cardinality(P) = Cardinality(F) + Cardinality(D)
  <2>1. P = F \cup D /\ F \cap D = {}
    BY <1>6
  <2>2. Cardinality({}) = 0 /\ Cardinality(F) \in Nat /\ Cardinality(D) \in Nat
    BY <1>7, <1>8, FS_EmptySet, FS_CardinalityType
  <2>3. Cardinality(F \cup D) = Cardinality(F) + Cardinality(D) - Cardinality(F \cap D)
    BY <1>7, <1>8, FS_Union
  <2>4. Cardinality(P) = Cardinality(F \cup D) /\ Cardinality(F \cap D) = 0
    BY <2>1, <2>2
  <2> QED
    BY <2>2, <2>3, <2>4
<1>10. Cardinality(A) \in Nat /\ Cardinality(F) \in Nat /\ Cardinality(D) \in Nat /\ Cardinality(intervals) \in Nat
  BY <1>4, <1>7, <1>8, FS_CardinalityType
<1>11. Overlap * Cardinality(intervals) \in Nat
  BY <1>0, <1>10
<1>12. Cardinality(P) <= Cardinality(A) + Overlap * Cardinality(intervals)
  BY <1>7, <1>8, <1>9, <1>10, <1>11
<1> QED
  BY <1>1, <1>2, <1>5, <1>12

\* What the publishers put into queue q.
StatusesOf(q) == IF q = "user_presence" THEN {"active", "idle"} ELSE {"", "active", "idle"}
ReportsOf(q) == [client: Clients, status: StatusesOf(q), time: Nat]

\* A queue s and what of it has been handled: of two reports the later published is not much older.
QueueOK(q, s, h, t) ==
  /\ s \in Seq(ReportsOf(q)) /\ h \in SUBSET ReportsOf(q)
  /\ \A i \in DOMAIN s : s[i].time <= t
  /\ \A r \in h : r.time <= t
  /\ \A i, j \in DOMAIN s : i < j => s[i].time - MaxLate <= s[j].time
  /\ \A r \in h : \A i \in DOMAIN s : r.time - MaxLate <= s[i].time

LEMMA QueueLater ==
  ASSUME NEW q, NEW s, NEW h, NEW t \in Nat, QueueOK(q, s, h, t)
  PROVE  QueueOK(q, s, h, t + 1)
<1>1. \A i \in DOMAIN s : s[i] \in ReportsOf(q)
  BY DEF QueueOK
<1>2. \A r \in ReportsOf(q) : r.time \in Nat
  BY DEF ReportsOf
<1>3. (\A i \in DOMAIN s : s[i].time <= t + 1) /\ \A r \in h : r.time <= t + 1
  BY <1>1, <1>2 DEF QueueOK
<1> QED
  BY <1>3 DEF QueueOK

LEMMA QueueGrows ==
  ASSUME NEW q, NEW s, NEW h, NEW t \in Nat, QueueOK(q, s, h, t), NEW e \in ReportsOf(q), t - MaxLate <= e.time, e.time <= t
  PROVE  QueueOK(q, Append(s, e), h, t)
<1>0. MaxLate \in Nat
  BY ActivityConstants
<1>1. s \in Seq(ReportsOf(q)) /\ Len(s) \in Nat /\ DOMAIN s = 1..Len(s)
  BY DEF QueueOK
<1>2. PICK new : new = Append(s, e)
  OBVIOUS
<1>3. /\ new \in Seq(ReportsOf(q)) /\ DOMAIN new = 1..(Len(s) + 1) /\ new[Len(s) + 1] = e
      /\ \A i \in DOMAIN s : new[i] = s[i]
  BY <1>1, <1>2
<1>4. \A r \in ReportsOf(q) : r.time \in Nat
  BY DEF ReportsOf
<1>5. \A i \in DOMAIN new : i \in DOMAIN s \/ i = Len(s) + 1
  BY <1>1, <1>3
<1>6. (\A i \in DOMAIN s : s[i].time \in Nat /\ s[i].time <= t) /\ \A r \in h : r.time \in Nat /\ r.time <= t
  BY <1>1, <1>4 DEF QueueOK
<1>7. \A i \in DOMAIN new : new[i].time <= t
  BY <1>3, <1>5, <1>6
<1>8. ASSUME NEW i \in DOMAIN new, NEW j \in DOMAIN new, i < j PROVE new[i].time - MaxLate <= new[j].time
  <2>1. i \in DOMAIN s
    BY <1>1, <1>3, <1>5, <1>8
  <2>2. CASE j \in DOMAIN s
    BY <1>3, <1>8, <2>1, <2>2 DEF QueueOK
  <2>3. CASE j = Len(s) + 1
    <3>1. new[j].time = e.time /\ new[i].time = s[i].time /\ s[i].time \in Nat /\ s[i].time <= t
      BY <1>3, <1>6, <2>1, <2>3
    <3> QED
      BY <1>0, <1>4, <3>1
  <2> QED
    BY <1>5, <2>2, <2>3
<1>9. ASSUME NEW r \in h, NEW i \in DOMAIN new PROVE r.time - MaxLate <= new[i].time
  <2>1. CASE i \in DOMAIN s
    BY <1>3, <2>1 DEF QueueOK
  <2>2. CASE i = Len(s) + 1
    <3>1. new[i].time = e.time /\ r.time \in Nat /\ r.time <= t
      BY <1>3, <1>6, <2>2
    <3> QED
      BY <1>0, <1>4, <3>1
  <2> QED
    BY <1>5, <2>1, <2>2
<1>10. h \in SUBSET ReportsOf(q) /\ \A r \in h : r.time <= t
  BY DEF QueueOK
<1>11. QueueOK(q, new, h, t)
  BY <1>3, <1>7, <1>8, <1>9, <1>10 DEF QueueOK
<1> QED
  BY <1>2, <1>11

\* The first report is handled; it is gone or stays for a second time.
LEMMA QueueHandled ==
  ASSUME NEW q, NEW s, NEW h, NEW t \in Nat, QueueOK(q, s, h, t), s # <<>>
  PROVE  /\ Head(s) \in ReportsOf(q) /\ \A r \in h : r.time - MaxLate <= Head(s).time
         /\ QueueOK(q, s, h \cup {Head(s)}, t)
         /\ QueueOK(q, Tail(s), h \cup {Head(s)}, t)
<1>0. MaxLate \in Nat
  BY ActivityConstants
<1>1. s \in Seq(ReportsOf(q)) /\ Len(s) \in Nat \ {0} /\ DOMAIN s = 1..Len(s)
  BY DEF QueueOK
<1>2. PICK e, rest : e = Head(s) /\ rest = Tail(s)
  OBVIOUS
<1>3. /\ e = s[1] /\ e \in ReportsOf(q) /\ 1 \in DOMAIN s
      /\ rest \in Seq(ReportsOf(q)) /\ DOMAIN rest = 1..(Len(s) - 1)
      /\ \A i \in DOMAIN rest : rest[i] = s[i + 1]
  BY <1>1, <1>2
<1>4. \A i \in DOMAIN rest : i + 1 \in DOMAIN s /\ i \in Int
  BY <1>1, <1>3
<1>5. \A r \in ReportsOf(q) : r.time \in Nat
  BY DEF ReportsOf
<1>6. \A i \in DOMAIN s : e.time - MaxLate <= s[i].time
  <2> SUFFICES ASSUME NEW i \in DOMAIN s PROVE e.time - MaxLate <= s[i].time
    OBVIOUS
  <2>1. CASE i = 1
    BY <1>0, <1>3, <1>5, <2>1
  <2>2. CASE i > 1
    BY <1>3, <2>2 DEF QueueOK
  <2> QED
    BY <1>1, <2>1, <2>2
<1>7. PICK g : g = h \cup {e}
  OBVIOUS
<1>8. /\ g \in SUBSET ReportsOf(q) /\ (\A r \in g : r.time <= t)
      /\ \A r \in g : \A i \in DOMAIN s : r.time - MaxLate <= s[i].time
  BY <1>3, <1>6, <1>7 DEF QueueOK
<1>9. QueueOK(q, s, g, t)
  BY <1>8 DEF QueueOK
<1>10. QueueOK(q, rest, g, t)
  <2>1. (\A i \in DOMAIN rest : rest[i].time <= t) /\ \A r \in g : \A i \in DOMAIN rest : r.time - MaxLate <= rest[i].time
    BY <1>3, <1>4, <1>8, <1>9 DEF QueueOK
  <2>2. ASSUME NEW i \in DOMAIN rest, NEW j \in DOMAIN rest, i < j PROVE rest[i].time - MaxLate <= rest[j].time
    <3>1. i + 1 \in DOMAIN s /\ j + 1 \in DOMAIN s /\ i + 1 < j + 1
      BY <1>4, <2>2
    <3> QED
      BY <1>3, <3>1 DEF QueueOK
  <2> QED
    BY <1>3, <1>8, <2>1, <2>2 DEF QueueOK
<1>11. \A r \in h : r.time - MaxLate <= e.time
  BY <1>3 DEF QueueOK
<1> QED
  BY <1>2, <1>3, <1>7, <1>9, <1>10, <1>11

\* The row of one client and the last presence event about it, against the client's reports
\* handled so far.  Behind an idle row is a report that came well after every active one.
PresenceOK(row, told, own) ==
  /\ \A r \in own : r.time \in Nat /\ r.status \in {"active", "idle"}
  /\ row = NoPresence <=> own = {}
  /\ row # NoPresence =>
       /\ row.status \in {"active", "idle"} /\ row.timestamp \in Nat
       /\ \E r \in own : r.status = row.status /\ r.time = row.timestamp
       /\ row.status = "active" =>
            told = "active" /\ \A r \in own : r.status = "active" => r.time <= row.timestamp + MaxLate
       /\ row.status = "idle" =>
            \E l \in own : /\ l.time <= row.timestamp + MaxLate
                           /\ \A r \in own : r.status = "active" => r.time + MaxLate < l.time
       /\ \A r \in own : r.time <= row.timestamp + StaleAfter

\* do_update_user_presence keeps it.
LEMMA PresenceStep ==
  ASSUME NEW row, NEW told, NEW own, PresenceOK(row, told, own),
         NEW r, r.time \in Nat, r.status \in {"active", "idle"}, \A h \in own : h.time - MaxLate <= r.time,
         NEW row2, row2 = IF Writes(row, r) THEN [status |-> r.status, timestamp |-> r.time] ELSE row,
         NEW told2, told2 = IF Announces(row, r) THEN row2.status ELSE told
  PROVE  PresenceOK(row2, told2, own \cup {r})
<1>0. MaxLate \in Nat /\ StaleAfter \in Nat /\ StaleAfter >= 2 * MaxLate
  BY ActivityConstants
<1>1. \A h \in own \cup {r} : h.time \in Nat /\ h.status \in {"active", "idle"}
  BY DEF PresenceOK
<1>2. NoPresence.status = "none"
  BY DEF NoPresence
<1>3. CASE Writes(row, r)
  <2>1. row2.status = r.status /\ row2.timestamp = r.time /\ row2 # NoPresence
    BY <1>2, <1>3
  <2>2. \A h \in own \cup {r} : h.time <= row2.timestamp + StaleAfter /\ h.time <= row2.timestamp + MaxLate
    BY <1>0, <1>1, <2>1
  <2>3. \E h \in own \cup {r} : h.status = row2.status /\ h.time = row2.timestamp
    BY <2>1
  <2>4. r.status = "active" => told2 = "active"
    <3>1. CASE row = NoPresence
      BY <2>1, <3>1 DEF Announces
    <3>2. CASE row # NoPresence
      <4>1. row.status = "active" => told = "active"
        BY <3>2 DEF PresenceOK
      <4>2. row.status \in {"active", "idle"}
        BY <3>2 DEF PresenceOK
      <4> QED
        BY <2>1, <4>1, <4>2 DEF Announces
    <3> QED
      BY <3>1, <3>2
  <2>5. r.status = "idle" =>
          \E l \in own \cup {r} : /\ l.time <= row2.timestamp + MaxLate
                                  /\ \A h \in own \cup {r} : h.status = "active" => h.time + MaxLate < l.time
    <3> SUFFICES ASSUME r.status = "idle"
                 PROVE  \E l \in own \cup {r} : /\ l.time <= row2.timestamp + MaxLate
                                                /\ \A h \in own \cup {r} : h.status = "active" => h.time + MaxLate < l.time
      OBVIOUS
    <3>1. CASE row = NoPresence
      <4>1. own = {}
        BY <3>1 DEF PresenceOK
      <4> QED
        BY <1>0, <2>1, <4>1
    <3>2. CASE row # NoPresence /\ row.status = "idle"
      <4>1. PICK l \in own : \A h \in own : h.status = "active" => h.time + MaxLate < l.time
        BY <3>2 DEF PresenceOK
      <4>2. l.time <= row2.timestamp + MaxLate
        BY <2>2
      <4> QED
        BY <4>1, <4>2
    <3>3. CASE row # NoPresence /\ row.status = "active"
      <4>1. r.time - row.timestamp > StaleAfter
        BY <1>3, <3>3 DEF Writes
      <4>2. row.timestamp \in Nat /\ \A h \in own : h.status = "active" => h.time <= row.timestamp + MaxLate
        BY <3>3 DEF PresenceOK
      <4>3. \A h \in own \cup {r} : h.status = "active" => h.time + MaxLate < r.time
        BY <1>0, <1>1, <4>1, <4>2
      <4> QED
        BY <1>0, <2>1, <4>3
    <3> QED
      BY <3>1, <3>2, <3>3 DEF PresenceOK
  <2> QED
    BY <1>1, <2>1, <2>2, <2>3, <2>4, <2>5 DEF PresenceOK
<1>4. CASE ~Writes(row, r)
  <2>1. /\ row # NoPresence /\ row.status = "active" /\ r.status = "idle" /\ ~(r.time - row.timestamp > StaleAfter)
        /\ row2 = row /\ row.timestamp \in Nat
    BY <1>4 DEF Writes, PresenceOK
  <2>2. told2 = told /\ told = "active"
    BY <2>1 DEF Announces, PresenceOK
  <2>3. \A h \in own \cup {r} : h.time <= row.timestamp + StaleAfter
    BY <1>0, <2>1 DEF PresenceOK
  <2>4. \A h \in own \cup {r} : h.status = "active" => h.time <= row.timestamp + MaxLate
    BY <2>1 DEF PresenceOK
  <2>5. \E h \in own \cup {r} : h.status = row.status /\ h.time = row.timestamp
    BY <2>1 DEF PresenceOK
  <2> QED
    BY <1>1, <2>1, <2>2, <2>3, <2>4, <2>5 DEF PresenceOK
<1> QED
  BY <1>3, <1>4

\* The time a report of input covers.
CoveredBy(r) == Covered(r.time, r.time + MinInterval)

\* The intervals against the reports of input handled so far: each ends after one of them, and
\* one that is not the last was followed by a report after its end.
IntervalsOK(ivs, h) ==
  /\ IsFiniteSet(ivs)
  /\ \A i \in ivs : i = <<i[1], i[2]>> /\ i[1] \in Nat /\ i[2] \in Nat /\ i[1] + MinInterval <= i[2]
  /\ \A i, j \in ivs : i # j /\ i[1] <= j[1] => j[1] > i[2] - MaxLate
  /\ \A i \in ivs : \E r \in h : r.time + MinInterval = i[2]
  /\ \A i, j \in ivs : i[2] < j[2] => \E r \in h : r.time > i[2]
  /\ UNION {Covered(i[1], i[2]) : i \in ivs} = UNION {CoveredBy(r) : r \in h}

\* do_update_user_activity_interval of a report at time start.
Extended(i, start, end) == <<IF start < i[1] THEN start ELSE i[1], IF end > i[2] THEN end ELSE i[2]>>
Meets(i, start, end) == (i[1] <= start /\ start <= i[2]) \/ (i[1] <= end /\ end <= i[2])
Latest(ivs) == {i \in ivs : \A j \in ivs : j[2] <= i[2]}

\* What reports cover, member by member.
LEMMA CoverOf ==
  ASSUME NEW g, NEW V, NEW W, \A t : (\E x \in g : t \in CoveredBy(x)) <=> t \in V \/ t \in W
  PROVE  UNION {CoveredBy(x) : x \in g} = V \cup W
OBVIOUS

\* A set of intervals that is not empty has a last one.
LEMMA SomeLatest ==
  ASSUME NEW ivs, IsFiniteSet(ivs), \A i \in ivs : i[2] \in Nat, ivs # {}
  PROVE  Latest(ivs) # {}
<1>1. PICK D : D = {s \in SUBSET ivs : s # {} /\ Latest(s) = {}}
  OBVIOUS
<1>2. SUFFICES ASSUME D # {} PROVE FALSE
  BY <1>1
<1>3. PICK s \in D : \A t \in D : ~(t \subseteq s /\ t # s)
  <2>1. D \in SUBSET (SUBSET ivs)
    BY <1>1
  <2> QED
    BY <1>2, <2>1, LeastSubset
<1>4. PICK x \in s : TRUE
  BY <1>1, <1>3
<1>5. s \in SUBSET ivs /\ x[2] \in Nat /\ Latest(s) = {}
  BY <1>1, <1>3, <1>4
<1>6. PICK t : t = s \ {x}
  OBVIOUS
<1>7. t # {}
  <2> SUFFICES ASSUME t = {} PROVE FALSE
    OBVIOUS
  <2>1. s = {x}
    BY <1>4, <1>6
  <2> QED
    BY <1>5, <2>1 DEF Latest
<1>8. t \notin D
  BY <1>3, <1>4, <1>6
<1>9. PICK m \in t : \A j \in t : j[2] <= m[2]
  <2>1. t \in SUBSET ivs
    BY <1>5, <1>6
  <2> QED
    BY <1>1, <1>7, <1>8, <2>1 DEF Latest
<1>10. m[2] \in Nat /\ \A j \in s : j[2] \in Nat
  BY <1>5, <1>6, <1>9
<1>11. CASE x[2] <= m[2]
  <2>1. m \in s /\ \A j \in s : j[2] <= m[2]
    BY <1>6, <1>9, <1>11
  <2> QED
    BY <1>5, <2>1 DEF Latest
<1>12. CASE m[2] <= x[2]
  <2>1. \A j \in s : j[2] <= x[2]
    BY <1>5, <1>6, <1>9, <1>10, <1>12
  <2> QED
    BY <1>4, <1>5, <2>1 DEF Latest
<1> QED
  BY <1>5, <1>10, <1>11, <1>12

\* do_update_user_activity_interval keeps the invariant.
LEMMA IntervalStep ==
  ASSUME NEW ivs, NEW h, IntervalsOK(ivs, h), NEW r, r.time \in Nat,
         \A x \in h : x.time \in Nat /\ x.time - MaxLate <= r.time,
         NEW end, end = r.time + MinInterval, NEW ivs2,
         \/ (\A i \in Latest(ivs) : ~Meets(i, r.time, end)) /\ ivs2 = ivs \cup {<<r.time, end>>}
         \/ \E i \in Latest(ivs) : Meets(i, r.time, end) /\ ivs2 = (ivs \ {i}) \cup {Extended(i, r.time, end)}
  PROVE  IntervalsOK(ivs2, h \cup {r})
<1>0. MaxLate \in Nat /\ MinInterval \in Nat /\ MinInterval >= MaxLate
  BY ActivityConstants
<1>1. PICK start : start = r.time
  OBVIOUS
<1>2. start \in Nat /\ end \in Nat /\ end = start + MinInterval
  BY <1>0, <1>1
<1>3. \A i \in ivs : i = <<i[1], i[2]>> /\ i[1] \in Nat /\ i[2] \in Nat /\ i[1] + MinInterval <= i[2]
  BY DEF IntervalsOK
<1>4. PICK g : g = h \cup {r}
  OBVIOUS
<1>5. \A x \in h : x.time - MaxLate <= start /\ x.time \in Nat
  BY <1>1
\* The report ends no earlier than the last interval begins.
<1>6. \A i \in ivs : end >= i[1]
  <2> SUFFICES ASSUME NEW i \in ivs PROVE end >= i[1]
    OBVIOUS
  <2>1. PICK x \in h : x.time + MinInterval = i[2]
    BY DEF IntervalsOK
  <2>2. x.time - MaxLate <= start /\ x.time \in Nat /\ i[1] + MinInterval <= i[2] /\ i[1] \in Nat
    BY <1>3, <1>5, <2>1
  <2> QED
    BY <1>0, <1>2, <2>1, <2>2
\* Of two intervals the one that ends first begins first, and ends differ.
<1>7. ASSUME NEW i \in ivs, NEW j \in ivs, i # j, j[2] <= i[2]
      PROVE  j[1] < i[1] /\ j[2] < i[2] /\ i[1] > j[2] - MaxLate
  <2>1. /\ i[1] \in Nat /\ i[2] \in Nat /\ i[1] + MinInterval <= i[2]
        /\ j[1] \in Nat /\ j[2] \in Nat /\ j[1] + MinInterval <= j[2]
    BY <1>3
  <2>2. (i[1] <= j[1] => j[1] > i[2] - MaxLate) /\ (j[1] <= i[1] => i[1] > j[2] - MaxLate)
    BY <1>7 DEF IntervalsOK
  <2> QED
    BY <1>0, <1>7, <2>1, <2>2
<1>8. /\ IsFiniteSet(ivs) /\ (\A i \in ivs : \E x \in h : x.time + MinInterval = i[2])
      /\ \A i, j \in ivs : i[2] < j[2] => \E x \in h : x.time > i[2]
  BY DEF IntervalsOK
<1>9. PICK U, V : /\ U = UNION {CoveredBy(x) : x \in h}
                  /\ V = Covered(start, end)
  OBVIOUS
<1>10. UNION {CoveredBy(x) : x \in g} = U \cup V
  <2>1. \A t : (\E x \in h : t \in CoveredBy(x)) <=> t \in U
    BY <1>9
  <2>2. CoveredBy(r) = V
    BY <1>1, <1>2, <1>9 DEF CoveredBy
  <2>3. \A t : (\E x \in g : t \in CoveredBy(x)) <=> t \in U \/ t \in V
    BY <1>4, <2>1, <2>2
  <2> QED
    BY <2>3, CoverOf
<1>11. \A t : t \in U <=> \E i \in ivs : t \in Covered(i[1], i[2])
  <2>1. U = UNION {Covered(i[1], i[2]) : i \in ivs}
    BY <1>9 DEF IntervalsOK
  <2> QED
    BY <2>1
<1>12. ASSUME (\A i \in Latest(ivs) : ~Meets(i, start, end)), ivs2 = ivs \cup {<<start, end>>}
       PROVE  IntervalsOK(ivs2, g)
  <2>1. PICK n : n = <<start, end>>
    OBVIOUS
  <2>2. n[1] = start /\ n[2] = end /\ ivs2 = ivs \cup {n} /\ n = <<n[1], n[2]>>
    BY <1>12, <2>1
  <2>3. \A j \in ivs : start > j[2]
    <3>1. CASE ivs = {}
      BY <3>1
    <3>2. CASE ivs # {}
      <4>1. PICK i \in Latest(ivs) : TRUE
        BY <1>3, <1>8, <3>2, SomeLatest
      <4>2. i \in ivs /\ \A j \in ivs : j[2] <= i[2]
        BY <4>1 DEF Latest
      <4>3. end >= i[1] /\ i[1] \in Nat /\ i[2] \in Nat /\ i[1] + MinInterval <= i[2]
        BY <1>3, <1>6, <4>2
      <4>4. ~(i[1] <= start /\ start <= i[2]) /\ ~(i[1] <= end /\ end <= i[2])
        BY <1>12, <4>1 DEF Meets
      <4>5. start > i[2]
        BY <1>0, <1>2, <4>3, <4>4
      <4> QED
        BY <1>2, <1>3, <4>2, <4>5
    <3> QED
      BY <3>1, <3>2
  <2>4. IsFiniteSet(ivs2)
    BY <1>8, <2>2, FS_AddElement
  <2>5. \A i \in ivs2 : i = <<i[1], i[2]>> /\ i[1] \in Nat /\ i[2] \in Nat /\ i[1] + MinInterval <= i[2]
    BY <1>0, <1>2, <1>3, <2>2
  <2>6. ASSUME NEW i \in ivs2, NEW j \in ivs2, i # j, i[1] <= j[1] PROVE j[1] > i[2] - MaxLate
    <3>1. CASE i \in ivs /\ j \in ivs
      BY <2>6, <3>1 DEF IntervalsOK
    <3>2. CASE i \in ivs /\ j = n
      BY <1>0, <1>2, <1>3, <2>2, <2>3, <3>2
    <3>3. CASE i = n /\ j \in ivs
      <4>1. start > j[2] /\ j[1] + MinInterval <= j[2] /\ j[1] \in Nat /\ j[2] \in Nat
        BY <1>3, <2>3, <3>3
      <4> QED
        BY <1>0, <1>2, <2>2, <2>6, <3>3, <4>1
    <3> QED
      BY <2>2, <2>6, <3>1, <3>2, <3>3
  <2>7. \A i \in ivs2 : \E x \in g : x.time + MinInterval = i[2]
    BY <1>1, <1>2, <1>4, <1>8, <2>2
  <2>8. ASSUME NEW i \in ivs2, NEW j \in ivs2, i[2] < j[2] PROVE \E x \in g : x.time > i[2]
    <3>1. CASE i \in ivs
      BY <1>1, <1>4, <2>3, <3>1
    <3>2. CASE i = n
      <4>1. j \in ivs /\ j[2] \in Nat /\ start > j[2]
        BY <1>2, <1>3, <2>2, <2>3, <2>8, <3>2
      <4> QED
        BY <1>0, <1>2, <2>2, <2>8, <3>2, <4>1
    <3> QED
      BY <2>2, <3>1, <3>2
  <2>9. UNION {Covered(i[1], i[2]) : i \in ivs2} = U \cup V
    <3>1. \A t : (\E i \in ivs2 : t \in Covered(i[1], i[2])) <=> t \in U \/ t \in V
      BY <1>9, <1>11, <2>2
    <3> QED
      BY <3>1
  <2> QED
    BY <1>10, <2>4, <2>5, <2>6, <2>7, <2>8, <2>9 DEF IntervalsOK
<1>13. ASSUME NEW i \in Latest(ivs), Meets(i, start, end), ivs2 = (ivs \ {i}) \cup {Extended(i, start, end)}
       PROVE  IntervalsOK(ivs2, g)
  <2>1. i \in ivs /\ \A j \in ivs : j[2] <= i[2]
    BY <1>13 DEF Latest
  <2>2. PICK n : n = Extended(i, start, end)
    OBVIOUS
  <2>3. PICK a, b : a = i[1] /\ b = i[2]
    OBVIOUS
  <2>4. a \in Nat /\ b \in Nat /\ a + MinInterval <= b /\ end >= a
    BY <1>3, <1>6, <2>1, <2>3
  <2>5. /\ n[1] = (IF start < a THEN start ELSE a) /\ n[2] = (IF end > b THEN end ELSE b)
        /\ n = <<n[1], n[2]>> /\ ivs2 = (ivs \ {i}) \cup {n}
    BY <1>13, <2>2, <2>3 DEF Extended
  <2>6. n[1] \in Nat /\ n[2] \in Nat /\ n[1] + MinInterval <= n[2] /\ n[1] <= a /\ n[2] >= b
    BY <1>0, <1>2, <2>4, <2>5
  <2>7. (a <= start /\ start <= b) \/ (a <= end /\ end <= b)
    BY <1>13, <2>3 DEF Meets
  \* Every other interval ends before, up to what reports may be late.
  <2>8. ASSUME NEW j \in ivs, j # i PROVE j[1] < n[1] /\ j[2] < n[2] /\ n[1] > j[2] - MaxLate
    <3>1. j[1] < a /\ j[2] < b /\ a > j[2] - MaxLate
      BY <1>7, <2>1, <2>3, <2>8
    <3>2. j[1] \in Nat /\ j[2] \in Nat /\ j[1] + MinInterval <= j[2]
      BY <1>3
    <3>3. PICK x \in h : x.time > j[2]
      BY <1>8, <2>1, <2>3, <3>1
    <3>4. x.time - MaxLate <= start /\ x.time \in Nat
      BY <1>5
    <3>5. start > j[2] - MaxLate
      BY <1>0, <1>2, <3>2, <3>3, <3>4
    <3> QED
      BY <1>0, <1>2, <2>4, <2>5, <3>1, <3>2, <3>5
  <2>9. IsFiniteSet(ivs2)
    <3>1. IsFiniteSet(ivs \ {i})
      BY <1>8, FS_RemoveElement
    <3> QED
      BY <2>5, <3>1, FS_AddElement
  <2>10. \A j \in ivs2 : j = <<j[1], j[2]>> /\ j[1] \in Nat /\ j[2] \in Nat /\ j[1] + MinInterval <= j[2]
    BY <1>3, <2>5, <2>6
  <2>11. ASSUME NEW k \in ivs2, NEW j \in ivs2, k # j, k[1] <= j[1] PROVE j[1] > k[2] - MaxLate
    <3>1. CASE k \in ivs /\ j \in ivs
      BY <2>11, <3>1 DEF IntervalsOK
    <3>2. CASE k \in ivs \ {i} /\ j = n
      BY <2>8, <3>2
    <3>3. CASE k = n /\ j \in ivs \ {i}
      <4>1. j[1] < n[1] /\ j[1] \in Nat /\ n[1] \in Nat
        BY <1>3, <2>6, <2>8, <3>3
      <4> QED
        BY <2>11, <3>3, <4>1
    <3> QED
      BY <2>5, <2>11, <3>1, <3>2, <3>3
  <2>12. \A j \in ivs2 : \E x \in g : x.time + MinInterval = j[2]
    <3>1. \E x \in h : x.time + MinInterval = b
      BY <1>8, <2>1, <2>3
    <3>2. \E x \in g : x.time + MinInterval = n[2]
      BY <1>1, <1>2, <1>4, <2>5, <3>1
    <3> QED
      BY <1>4, <1>8, <2>5, <3>2
  <2>13. ASSUME NEW k \in ivs2, NEW j \in ivs2, k[2] < j[2] PROVE \E x \in g : x.time > k[2]
    <3>1. k # n
      <4> SUFFICES ASSUME k = n PROVE FALSE
        OBVIOUS
      <4>1. CASE j = n
        BY <2>6, <2>13, <4>1
      <4>2. CASE j \in ivs \ {i}
        BY <1>3, <2>6, <2>8, <2>13, <4>2
      <4> QED
        BY <2>5, <4>1, <4>2
    <3>2. k \in ivs \ {i}
      BY <2>5, <3>1
    <3>3. k[2] < i[2]
      BY <1>7, <2>1, <3>2
    <3> QED
      BY <1>4, <1>8, <2>1, <3>2, <3>3
  <2>14. UNION {Covered(j[1], j[2]) : j \in ivs2} = U \cup V
    <3>1. \A t \in Nat : (n[1] <= t /\ t <= n[2]) <=> ((a <= t /\ t <= b) \/ (start <= t /\ t <= end))
      BY <1>0, <1>2, <2>4, <2>5, <2>7
    <3>2. \A t : t \in Covered(n[1], n[2]) <=> t \in Covered(a, b) \/ t \in V
      BY <1>9, <3>1 DEF Covered
    <3>3. \A t : (\E j \in ivs2 : t \in Covered(j[1], j[2])) <=> t \in U \/ t \in V
      <4>1. \A t : (\E j \in ivs2 : t \in Covered(j[1], j[2])) <=>
                   (\E j \in ivs \ {i} : t \in Covered(j[1], j[2])) \/ t \in Covered(n[1], n[2])
        BY <2>5
      <4>2. \A t : (\E j \in ivs : t \in Covered(j[1], j[2])) <=>
                   (\E j \in ivs \ {i} : t \in Covered(j[1], j[2])) \/ t \in Covered(a, b)
        BY <2>1, <2>3
      <4> QED
        BY <1>11, <3>2, <4>1, <4>2
    <3> QED
      BY <3>3
  <2> QED
    BY <1>10, <2>9, <2>10, <2>11, <2>12, <2>13, <2>14 DEF IntervalsOK
<1> QED
  BY <1>1, <1>4, <1>12, <1>13

\* The visits of client c that wait in s.
Waiting(s, c) == Cardinality({i \in DOMAIN s : s[i].client = c})

LEMMA WaitingMore ==
  ASSUME NEW S, NEW s \in Seq(S), NEW e, NEW c
  PROVE  /\ Waiting(s, c) \in Nat
         /\ Waiting(Append(s, e), c) = Waiting(s, c) + (IF e.client = c THEN 1 ELSE 0)
<1>1. Len(s) \in Nat /\ DOMAIN s = 1..Len(s)
  OBVIOUS
<1>2. PICK n, new : n = Len(s) + 1 /\ new = Append(s, e)
  OBVIOUS
<1>3. DOMAIN new = 1..n /\ new[n] = e /\ \A i \in 1..Len(s) : new[i] = s[i]
  BY <1>1, <1>2
<1>4. PICK I, J : I = {i \in DOMAIN s : s[i].client = c} /\ J = {i \in DOMAIN new : new[i].client = c}
  OBVIOUS
<1>5. IsFiniteSet(I) /\ Cardinality(I) \in Nat
  <2>1. IsFiniteSet(1..Len(s)) /\ I \in SUBSET (1..Len(s))
    BY <1>1, <1>4, FS_Interval
  <2> QED
    BY <2>1, FS_Subset, FS_CardinalityType
<1>6. n \in Nat /\ n \notin I /\ (\A i \in 1..n : i \in 1..Len(s) \/ i = n) /\ n \in 1..n /\ 1..Len(s) \subseteq 1..n
  BY <1>1, <1>2, <1>4
<1>9. \A i : i \in J <=> i \in I \/ (i = n /\ e.client = c)
  <2>1. \A i : i \in J <=> i \in 1..n /\ new[i].client = c
    BY <1>3, <1>4
  <2>2. \A i : i \in I <=> i \in 1..Len(s) /\ s[i].client = c
    BY <1>1, <1>4
  <2>3. \A i \in 1..Len(s) : new[i].client = s[i].client
    BY <1>3
  <2> QED
    BY <1>3, <1>6, <2>1, <2>2, <2>3
<1>10. Waiting(s, c) = Cardinality(I) /\ Waiting(Append(s, e), c) = Cardinality(J) /\ Cardinality(I) \in Nat
  BY <1>2, <1>4, <1>5 DEF Waiting
<1>7. CASE e.client = c
  <2>1. J = I \cup {n}
    BY <1>6, <1>7, <1>9
  <2>2. Cardinality(J) = Cardinality(I) + 1
    BY <1>5, <1>6, <2>1, FS_AddElement
  <2> QED
    BY <1>7, <1>10, <2>2
<1>8. CASE e.client # c
  <2>0. \A i : i \in J <=> i \in I
    BY <1>8, <1>9
  <2>2. J = I
    BY <2>0, Zenon
  <2>3. Cardinality(J) = Cardinality(I) + 0
    BY <1>5, <2>2
  <2> QED
    BY <1>8, <1>10, <2>3
<1> QED
  BY <1>7, <1>8

LEMMA WaitingLess ==
  ASSUME NEW S, NEW s \in Seq(S), s # <<>>, NEW c
  PROVE  /\ Waiting(s, c) \in Nat /\ Waiting(Tail(s), c) \in Nat
         /\ Waiting(s, c) = Waiting(Tail(s), c) + (IF Head(s).client = c THEN 1 ELSE 0)
<1>1. Len(s) \in Nat \ {0} /\ DOMAIN s = 1..Len(s) /\ Head(s) = s[1]
  OBVIOUS
<1>2. PICK rest : rest = Tail(s)
  OBVIOUS
<1>3. DOMAIN rest = 1..(Len(s) - 1) /\ (\A i \in 1..(Len(s) - 1) : rest[i] = s[i + 1]) /\ rest \in Seq(S)
  BY <1>1, <1>2
<1>4. PICK I, J : I = {i \in DOMAIN s : s[i].client = c} /\ J = {i \in DOMAIN rest : rest[i].client = c}
  OBVIOUS
<1>5. IsFiniteSet(I) /\ Cardinality(I) \in Nat
  <2>1. IsFiniteSet(1..Len(s)) /\ I \in SUBSET (1..Len(s))
    BY <1>1, <1>4, FS_Interval
  <2> QED
    BY <2>1, FS_Subset, FS_CardinalityType
<1>6. IsFiniteSet(I \ {1}) /\ Cardinality(I \ {1}) = IF 1 \in I THEN Cardinality(I) - 1 ELSE Cardinality(I)
  BY <1>5, FS_RemoveElement
<1>7. PICK f : f = [i \in I \ {1} |-> i - 1]
  OBVIOUS
<1>8. f \in Bijection(I \ {1}, J)
  <2>1. f \in [I \ {1} -> J]
    <3>1. \A i \in I \ {1} : i - 1 \in 1..(Len(s) - 1) /\ rest[i - 1] = s[i]
      <4> SUFFICES ASSUME NEW i \in I \ {1} PROVE i - 1 \in 1..(Len(s) - 1) /\ rest[i - 1] = s[i]
        OBVIOUS
      <4>1. i \in 1..Len(s) /\ i # 1
        BY <1>1, <1>4
      <4>2. i - 1 \in 1..(Len(s) - 1) /\ (i - 1) + 1 = i
        BY <1>1, <4>1
      <4> QED
        BY <1>3, <4>2
    <3>2. \A i \in I : s[i].client = c
      BY <1>4
    <3> QED
      BY <1>3, <1>4, <1>7, <3>1, <3>2
  <2>2. \A i, j \in I \ {1} : f[i] = f[j] => i = j
    BY <1>1, <1>4, <1>7
  <2>3. ASSUME NEW j \in J PROVE \E i \in I \ {1} : f[i] = j
    <3>1. j \in 1..(Len(s) - 1) /\ rest[j] = s[j + 1] /\ rest[j].client = c
      BY <1>3, <1>4
    <3>2. j + 1 \in 1..Len(s) /\ j + 1 # 1 /\ (j + 1) - 1 = j
      BY <1>1, <3>1
    <3>3. j + 1 \in I \ {1}
      BY <1>1, <1>4, <3>1, <3>2
    <3>4. f[j + 1] = j
      BY <1>7, <3>2, <3>3
    <3> QED
      BY <3>3, <3>4
  <2>4. DOMAIN f = I \ {1}
    BY <1>7
  <2> QED
    BY <2>1, <2>2, <2>3, <2>4 DEF Bijection, Injection, Surjection, IsInjective
<1>9. IsFiniteSet(J) /\ Cardinality(J) = Cardinality(I \ {1})
  <2>1. ExistsBijection(I \ {1}, J)
    BY <1>8 DEF ExistsBijection
  <2> QED
    BY <1>6, <2>1, FS_Bijection
<1>10. Cardinality(J) \in Nat
  BY <1>9, FS_CardinalityType
<1>11. 1 \in I <=> Head(s).client = c
  BY <1>1, <1>4
<1>12. Cardinality(I) = Cardinality(J) + (IF Head(s).client = c THEN 1 ELSE 0)
  BY <1>5, <1>6, <1>9, <1>10, <1>11
<1> QED
  BY <1>2, <1>4, <1>5, <1>10, <1>12 DEF Waiting

\* The requests in hand: what they publish, and where.
PublishedTo(to, status) ==
  \/ to = <<"user_activity">> /\ status = ""
  \/ /\ to \in {<<"user_presence", "user_activity_interval">>, <<"user_presence">>, <<"user_activity_interval">>}
     /\ status \in {"active", "idle"}
InHand(r) ==
  /\ r.client \in Clients /\ r.time \in Nat /\ DOMAIN r = {"to", "client", "status", "time"}
  /\ PublishedTo(r.to, r.status)
InTime(r, t) == r.time <= t /\ t - MaxLate <= r.time

ReportedBy(c) == {r \in handled["user_presence"] : consolidate_client(r.client) = c}
VisitsOK(c, s) ==
  /\ visits[c].count \in Nat /\ published[c] \in Nat
  /\ published[c] <= visits[c].count + Waiting(s, c) /\ visits[c].count + Waiting(s, c) <= published[c] + used.deaths

ActivityInv ==
  /\ now \in Nat /\ used.deaths \in Nat /\ DOMAIN used = {"reports", "deaths"}
  /\ \A r \in served : InHand(r) /\ InTime(r, now)
  /\ DOMAIN events = Queues /\ DOMAIN handled = Queues
  /\ \A q \in Queues : QueueOK(q, events[q], handled[q], now)
  /\ DOMAIN presences = Clients /\ DOMAIN announced = Clients
  /\ \A c \in Clients : PresenceOK(presences[c], announced[c], ReportedBy(c))
  /\ DOMAIN visits = Clients /\ DOMAIN published = Clients
  /\ \A c \in Clients : DOMAIN visits[c] = {"count", "last_visit"} /\ VisitsOK(c, events["user_activity"])
  /\ IntervalsOK(intervals, handled["user_activity_interval"])

\* Nothing waits in an empty queue.
LEMMA ActivityStarts == ActivityInit => ActivityInv
<1> SUFFICES ASSUME ActivityInit PROVE ActivityInv
  OBVIOUS
<1>1. now = 0 /\ served = {} /\ used.deaths = 0 /\ DOMAIN used = {"reports", "deaths"} /\ intervals = {}
  BY DEF ActivityInit
<1>2. /\ DOMAIN events = Queues /\ DOMAIN handled = Queues
      /\ \A q \in Queues : events[q] = <<>> /\ handled[q] = {}
  BY DEF ActivityInit
<1>3. ASSUME NEW q \in Queues PROVE QueueOK(q, events[q], handled[q], now)
  <2>1. PICK s : s = events[q] /\ s = <<>>
    BY <1>2
  <2>2. s \in Seq(ReportsOf(q)) /\ DOMAIN s = {}
    BY <2>1
  <2> QED
    BY <1>2, <2>1, <2>2 DEF QueueOK
<1>4. /\ DOMAIN presences = Clients /\ DOMAIN announced = Clients /\ DOMAIN visits = Clients /\ DOMAIN published = Clients
      /\ \A c \in Clients : /\ presences[c] = NoPresence /\ published[c] = 0
                            /\ DOMAIN visits[c] = {"count", "last_visit"} /\ visits[c].count = 0
  BY DEF ActivityInit
<1>5. \A c : ReportedBy(c) = {}
  BY <1>2 DEF ReportedBy, Queues
<1>6. \A c \in Clients : PresenceOK(presences[c], announced[c], ReportedBy(c))
  BY <1>4, <1>5 DEF PresenceOK
<1>7. ASSUME NEW c \in Clients PROVE VisitsOK(c, events["user_activity"])
  <2>1. {i \in DOMAIN events["user_activity"] : events["user_activity"][i].client = c} = {}
    BY <1>2 DEF Queues
  <2>2. Waiting(events["user_activity"], c) = 0
    BY <2>1, FS_EmptySet DEF Waiting
  <2> QED
    BY <1>1, <1>4, <1>7, <2>2 DEF VisitsOK
<1>8. IntervalsOK(intervals, handled["user_activity_interval"])
  <2>1. handled["user_activity_interval"] = {}
    BY <1>2 DEF Queues
  <2>2. UNION {Covered(i[1], i[2]) : i \in {}} = UNION {CoveredBy(r) : r \in {}}
    OBVIOUS
  <2> QED
    BY <1>1, <2>1, <2>2, FS_EmptySet DEF IntervalsOK
<1> QED
  BY <1>1, <1>2, <1>3, <1>4, <1>6, <1>7, <1>8 DEF ActivityInv

LEMMA TimePasses ==
  ASSUME ActivityInv, Passes
  PROVE  ActivityInv'
<1>0. MaxLate \in Nat /\ now \in Nat
  BY ActivityConstants DEF ActivityInv
<1>1. now' = now + 1 /\ \A r \in served : now - r.time < MaxLate
  BY DEF Passes
<1>2. UNCHANGED <<served, events, presences, announced, intervals, visits, handled, published, used>>
  BY DEF Passes
<1>3. \A r \in served : InHand(r) /\ InTime(r, now)
  BY DEF ActivityInv
<1>4. \A r \in served : InTime(r, now + 1)
  <2>1. \A r \in served : r.time \in Nat
    BY <1>3 DEF InHand
  <2> QED
    BY <1>0, <1>1, <1>3, <2>1 DEF InTime
<1>5. \A q \in Queues : QueueOK(q, events[q], handled[q], now + 1)
  BY <1>0, QueueLater DEF ActivityInv
<1> QED
  BY <1>0, <1>1, <1>2, <1>3, <1>4, <1>5 DEF ActivityInv, ReportedBy, VisitsOK

LEMMA Serves ==
  ASSUME ActivityInv, NEW to, NEW from \in Clients, NEW status, Serve(to, from, status), PublishedTo(to, status)
  PROVE  ActivityInv'
<1>0. MaxLate \in Nat /\ now \in Nat
  BY ActivityConstants DEF ActivityInv
<1>1. PICK r : r = [to |-> to, client |-> from, status |-> status, time |-> now]
  OBVIOUS
<1>2. served' = served \cup {r} /\ used' = [used EXCEPT !.reports = @ + 1]
  BY <1>1 DEF Serve
<1>3. UNCHANGED <<now, events, presences, announced, intervals, visits, handled, published>>
  BY DEF Serve
<1>4. InHand(r) /\ InTime(r, now)
  <2>1. /\ r.to = to /\ r.client = from /\ r.status = status /\ r.time = now
        /\ DOMAIN r = {"to", "client", "status", "time"}
    BY <1>1
  <2>2. InHand(r)
    BY <1>0, <2>1 DEF InHand
  <2> QED
    BY <1>0, <2>1, <2>2 DEF InTime
<1>5. used'.deaths = used.deaths /\ DOMAIN used' = {"reports", "deaths"}
  BY <1>2 DEF ActivityInv
<1> QED
  BY <1>0, <1>2, <1>3, <1>4, <1>5 DEF ActivityInv, ReportedBy, VisitsOK

\* A request in hand is published to one of the queues, and what is left is in hand as well.
LEMMA PublishesOne ==
  ASSUME NEW r, InHand(r)
  PROVE  /\ Head(r.to) \in Queues
         /\ [client |-> r.client, status |-> r.status, time |-> r.time] \in ReportsOf(Head(r.to))
         /\ Len(r.to) # 1 => InHand([r EXCEPT !.to = Tail(@)]) /\ [r EXCEPT !.to = Tail(@)].time = r.time
<1>0. r.client \in Clients /\ r.time \in Nat /\ DOMAIN r = {"to", "client", "status", "time"} /\ PublishedTo(r.to, r.status)
  BY DEF InHand
<1>1. r.to = <<"user_activity">> \/ r.to = <<"user_presence", "user_activity_interval">>
        \/ r.to = <<"user_presence">> \/ r.to = <<"user_activity_interval">>
  BY <1>0 DEF PublishedTo
<1>2. Head(r.to) \in Queues
  BY <1>1 DEF Queues
<1>3. r.status \in StatusesOf(Head(r.to))
  <2>1. CASE r.to = <<"user_activity">>
    <3>1. Head(r.to) # "user_presence"
      BY <2>1
    <3>2. r.status \in {"", "active", "idle"}
      BY <1>0, Zenon DEF PublishedTo
    <3> QED
      BY <3>1, <3>2, Zenon DEF StatusesOf
  <2>2. CASE r.to # <<"user_activity">>
    <3>1. r.status \in {"active", "idle"}
      BY <1>0, <2>2, Zenon DEF PublishedTo
    <3> QED
      BY <3>1, Zenon DEF StatusesOf
  <2> QED
    BY <2>1, <2>2
<1>4. [client |-> r.client, status |-> r.status, time |-> r.time] \in ReportsOf(Head(r.to))
  BY <1>0, <1>3 DEF ReportsOf
<1>5. ASSUME Len(r.to) # 1 PROVE InHand([r EXCEPT !.to = Tail(@)]) /\ [r EXCEPT !.to = Tail(@)].time = r.time
  <2>0. r.to # <<"user_activity">> /\ r.to # <<"user_presence">> /\ r.to # <<"user_activity_interval">>
    BY <1>5
  <2>1. Tail(r.to) = <<"user_activity_interval">> /\ r.status \in {"active", "idle"}
    <3>1. r.to = <<"user_presence", "user_activity_interval">>
      BY <1>1, <2>0
    <3>2. r.status \in {"active", "idle"}
      BY <1>0, <2>0, Zenon DEF PublishedTo
    <3> QED
      BY <3>1, <3>2
  <2>2. PublishedTo(Tail(r.to), r.status)
    BY <2>1 DEF PublishedTo
  <2>3. PICK n : n = [r EXCEPT !.to = Tail(@)]
    OBVIOUS
  <2>4. n.client = r.client /\ n.status = r.status /\ n.time = r.time /\ DOMAIN n = DOMAIN r /\ n.to = Tail(r.to)
    BY <1>0, <2>3
  <2> QED
    BY <1>0, <2>2, <2>3, <2>4 DEF InHand
<1> QED
  BY <1>2, <1>4, <1>5

LEMMA Publishes ==
  ASSUME ActivityInv, NEW r \in served, update_user_presence(r)
  PROVE  ActivityInv'
<1>0. MaxLate \in Nat /\ now \in Nat /\ InHand(r) /\ InTime(r, now)
  BY ActivityConstants DEF ActivityInv
<1>1. PICK q, e : q = Head(r.to) /\ e = [client |-> r.client, status |-> r.status, time |-> r.time]
  OBVIOUS
<1>2. q \in Queues /\ e \in ReportsOf(q) /\ e.client = r.client /\ e.time = r.time /\ r.client \in Clients
  BY <1>0, <1>1, PublishesOne DEF InHand
<1>3. /\ events' = [events EXCEPT ![q] = Append(@, e)]
      /\ published' = IF q = "user_activity" THEN [published EXCEPT ![r.client] = @ + 1] ELSE published
      /\ served' = (served \ {r}) \cup (IF Len(r.to) = 1 THEN {} ELSE {[r EXCEPT !.to = Tail(@)]})
      /\ UNCHANGED <<now, presences, announced, intervals, visits, handled, used>>
  BY <1>1 DEF update_user_presence
<1>4. \A x \in served' : InHand(x) /\ InTime(x, now)
  <2>1. \A x \in served : InHand(x) /\ InTime(x, now)
    BY DEF ActivityInv
  <2>2. Len(r.to) # 1 => InHand([r EXCEPT !.to = Tail(@)]) /\ InTime([r EXCEPT !.to = Tail(@)], now)
    BY <1>0, PublishesOne DEF InTime
  <2> QED
    BY <1>3, <2>1, <2>2
<1>5. /\ DOMAIN events = Queues /\ DOMAIN events' = Queues /\ events'[q] = Append(events[q], e)
      /\ \A p \in Queues : p # q => events'[p] = events[p]
  BY <1>2, <1>3 DEF ActivityInv
<1>6. \A p \in Queues : QueueOK(p, events[p], handled[p], now)
  BY DEF ActivityInv
<1>7. QueueOK(q, Append(events[q], e), handled[q], now)
  <2>1. now - MaxLate <= e.time /\ e.time <= now
    BY <1>0, <1>2 DEF InTime
  <2> QED
    BY <1>0, <1>2, <1>6, <2>1, QueueGrows
<1>8. \A p \in Queues : QueueOK(p, events'[p], handled[p], now)
  BY <1>2, <1>5, <1>6, <1>7
<1>9. DOMAIN published' = Clients
  BY <1>3 DEF ActivityInv
<1>10. ASSUME NEW c \in Clients PROVE VisitsOK(c, events["user_activity"])'
  <2>0. /\ visits'[c] = visits[c] /\ used'.deaths = used.deaths /\ VisitsOK(c, events["user_activity"])
        /\ "user_activity" \in Queues /\ used.deaths \in Nat /\ DOMAIN published = Clients
    BY <1>3, <1>10 DEF ActivityInv, Queues
  <2>1. CASE q # "user_activity"
    <3>1. events'["user_activity"] = events["user_activity"] /\ published'[c] = published[c]
      BY <1>3, <1>5, <2>0, <2>1
    <3> QED
      BY <2>0, <3>1 DEF VisitsOK
  <2>2. CASE q = "user_activity"
    <3>1. events[q] \in Seq(ReportsOf(q))
      BY <1>2, <1>6 DEF QueueOK
    <3>2. PICK w, w2 : w = Waiting(events[q], c) /\ w2 = Waiting(events'[q], c)
      OBVIOUS
    <3>3. w \in Nat /\ w2 = w + (IF e.client = c THEN 1 ELSE 0)
      BY <1>5, <3>1, <3>2, WaitingMore
    <3>4. published'[c] = published[c] + (IF e.client = c THEN 1 ELSE 0) /\ published[c] \in Nat /\ visits[c].count \in Nat
      BY <1>2, <1>3, <1>10, <2>0, <2>2 DEF VisitsOK
    <3>5. published[c] <= visits[c].count + w /\ visits[c].count + w <= published[c] + used.deaths
      BY <2>0, <2>2, <3>2 DEF VisitsOK
    <3>6. /\ published'[c] \in Nat /\ published'[c] <= visits[c].count + w2
          /\ visits[c].count + w2 <= published'[c] + used.deaths
      BY <2>0, <3>3, <3>4, <3>5
    <3> QED
      BY <2>0, <2>2, <3>2, <3>4, <3>6 DEF VisitsOK
  <2> QED
    BY <2>1, <2>2
<1>11. /\ now' \in Nat /\ used'.deaths \in Nat /\ DOMAIN used' = {"reports", "deaths"} /\ DOMAIN handled' = Queues
       /\ DOMAIN presences' = Clients /\ DOMAIN announced' = Clients /\ DOMAIN visits' = Clients
       /\ \A c \in Clients : DOMAIN visits'[c] = {"count", "last_visit"}
  BY <1>3 DEF ActivityInv
<1>12. \A c \in Clients : PresenceOK(presences[c], announced[c], ReportedBy(c))'
  BY <1>3 DEF ActivityInv, ReportedBy
<1>13. IntervalsOK(intervals, handled["user_activity_interval"])'
  BY <1>3 DEF ActivityInv
<1>14. \A p \in Queues : QueueOK(p, events[p], handled[p], now)'
  BY <1>3, <1>8
<1>15. \A x \in served' : InHand(x) /\ InTime(x, now')
  BY <1>3, <1>4
<1> QED
  BY <1>5, <1>9, <1>10, <1>11, <1>12, <1>13, <1>14, <1>15 DEF ActivityInv

\* What a worker leaves of the queues when it has handled the head of queue q.
LEMMA Acknowledged ==
  ASSUME ActivityInv, NEW q \in Queues, events[q] # <<>>, Acknowledge(q), now' = now
  PROVE  /\ Head(events[q]) \in ReportsOf(q) /\ \A h \in handled[q] : h.time - MaxLate <= Head(events[q]).time
         /\ DOMAIN events' = Queues /\ DOMAIN handled' = Queues
         /\ handled'[q] = handled[q] \cup {Head(events[q])}
         /\ \A p \in Queues : p # q => handled'[p] = handled[p] /\ events'[p] = events[p]
         /\ \A p \in Queues : QueueOK(p, events[p], handled[p], now)'
         /\ used'.deaths \in Nat /\ DOMAIN used' = {"reports", "deaths"}
         /\ \/ events'[q] = Tail(events[q]) /\ used'.deaths = used.deaths
            \/ events'[q] = events[q] /\ used'.deaths = used.deaths + 1
<1>0. now \in Nat /\ DOMAIN events = Queues /\ DOMAIN handled = Queues /\ used.deaths \in Nat /\ DOMAIN used = {"reports", "deaths"}
  BY DEF ActivityInv
<1>1. \A p \in Queues : QueueOK(p, events[p], handled[p], now)
  BY DEF ActivityInv
<1>2. PICK e : e = Head(events[q])
  OBVIOUS
<1>3. /\ e \in ReportsOf(q) /\ \A h \in handled[q] : h.time - MaxLate <= e.time
      /\ QueueOK(q, events[q], handled[q] \cup {e}, now)
      /\ QueueOK(q, Tail(events[q]), handled[q] \cup {e}, now)
  BY <1>0, <1>1, <1>2, QueueHandled
<1>4. handled' = [handled EXCEPT ![q] = @ \cup {e}]
  BY <1>2 DEF Acknowledge
<1>5. DOMAIN handled' = Queues /\ handled'[q] = handled[q] \cup {e} /\ \A p \in Queues : p # q => handled'[p] = handled[p]
  BY <1>0, <1>4
<1>6. \/ events' = [events EXCEPT ![q] = Tail(@)] /\ used' = used
      \/ events' = events /\ used' = [used EXCEPT !.deaths = @ + 1]
  BY DEF Acknowledge
<1>7. DOMAIN events' = Queues /\ \A p \in Queues : p # q => events'[p] = events[p]
  BY <1>0, <1>6
<1>8. used'.deaths \in Nat /\ DOMAIN used' = {"reports", "deaths"}
  BY <1>0, <1>6
<1>9. \/ events'[q] = Tail(events[q]) /\ used'.deaths = used.deaths
      \/ events'[q] = events[q] /\ used'.deaths = used.deaths + 1
  BY <1>0, <1>6
<1>10. QueueOK(q, events'[q], handled'[q], now)
  BY <1>3, <1>5, <1>9
<1>11. \A p \in Queues : QueueOK(p, events[p], handled[p], now)'
  BY <1>1, <1>5, <1>7, <1>10
<1> QED
  BY <1>2, <1>3, <1>5, <1>7, <1>8, <1>9, <1>11

LEMMA VisitsStay ==
  ASSUME ActivityInv, UNCHANGED <<visits, published>>, events'["user_activity"] = events["user_activity"],
         used'.deaths = used.deaths \/ used'.deaths = used.deaths + 1
  PROVE  \A d \in Clients : VisitsOK(d, events["user_activity"])'
<1> SUFFICES ASSUME NEW d \in Clients PROVE VisitsOK(d, events["user_activity"])'
  OBVIOUS
<1>2. VisitsOK(d, events["user_activity"]) /\ used.deaths \in Nat
  BY DEF ActivityInv
<1>3. PICK w : w = Waiting(events["user_activity"], d)
  OBVIOUS
<1>4. w \in Nat
  <2>1. events["user_activity"] \in Seq(ReportsOf("user_activity"))
    BY DEF ActivityInv, QueueOK, Queues
  <2> QED
    BY <1>3, <2>1, WaitingMore
<1>5. /\ visits[d].count + w <= published[d] + used.deaths
      /\ visits[d].count \in Nat /\ published[d] \in Nat
  BY <1>2, <1>3 DEF VisitsOK
<1>6. visits[d].count + w <= published[d] + used'.deaths
  BY <1>2, <1>4, <1>5
<1> QED
  BY <1>2, <1>3, <1>6 DEF VisitsOK

LEMMA PresenceHandled ==
  ASSUME ActivityInv, UserPresenceWorker
  PROVE  ActivityInv'
<1>0. PICK q : q = "user_presence" /\ q \in Queues
  BY DEF Queues
<1>1. events[q] # <<>> /\ Acknowledge(q) /\ UNCHANGED <<now, served, intervals, visits, published>>
  BY <1>0 DEF UserPresenceWorker
<1>2. PICK r, c, row : r = Head(events[q]) /\ c = consolidate_client(r.client) /\ row = presences[c]
  OBVIOUS
<1>3. /\ presences' = IF Writes(row, r) THEN [presences EXCEPT ![c] = [status |-> r.status, timestamp |-> r.time]]
                      ELSE presences
      /\ announced' = IF Announces(row, r) THEN [announced EXCEPT ![c] = presences'[c].status] ELSE announced
  BY <1>0, <1>2 DEF UserPresenceWorker
<1>4. /\ r \in ReportsOf(q) /\ \A h \in handled[q] : h.time - MaxLate <= r.time
      /\ DOMAIN events' = Queues /\ DOMAIN handled' = Queues
      /\ handled'[q] = handled[q] \cup {r}
      /\ \A p \in Queues : p # q => handled'[p] = handled[p] /\ events'[p] = events[p]
      /\ \A p \in Queues : QueueOK(p, events[p], handled[p], now)'
      /\ used'.deaths \in Nat /\ DOMAIN used' = {"reports", "deaths"}
      /\ used.deaths \in Nat /\ (used'.deaths = used.deaths \/ used'.deaths = used.deaths + 1)
  BY <1>0, <1>1, <1>2, Acknowledged DEF ActivityInv
<1>5. r.time \in Nat /\ r.client \in Clients /\ r.status \in {"active", "idle"}
  BY <1>0, <1>4, Zenon DEF ReportsOf, StatusesOf
<1>6. c \in Clients
  BY <1>2, <1>5, ActivityConstants DEF consolidate_client
<1>7. /\ DOMAIN presences = Clients /\ DOMAIN announced = Clients
      /\ \A d \in Clients : PresenceOK(presences[d], announced[d], ReportedBy(d))
  BY DEF ActivityInv
<1>8. /\ DOMAIN presences' = Clients /\ DOMAIN announced' = Clients
      /\ \A d \in Clients : d # c => presences'[d] = presences[d] /\ announced'[d] = announced[d]
  BY <1>3, <1>7
<1>9. \A d : ReportedBy(d)' = ReportedBy(d) \cup (IF d = c THEN {r} ELSE {})
  BY <1>0, <1>2, <1>4 DEF ReportedBy
<1>10. PresenceOK(presences'[c], announced'[c], ReportedBy(c) \cup {r})
  <2>1. presences'[c] = IF Writes(row, r) THEN [status |-> r.status, timestamp |-> r.time] ELSE row
    BY <1>2, <1>3, <1>6, <1>7
  <2>2. announced'[c] = IF Announces(row, r) THEN presences'[c].status ELSE announced[c]
    BY <1>3, <1>6, <1>7
  <2>3. \A h \in ReportedBy(c) : h.time - MaxLate <= r.time
    BY <1>0, <1>4 DEF ReportedBy
  <2>4. PresenceOK(row, announced[c], ReportedBy(c))
    BY <1>2, <1>6, <1>7
  <2> QED
    BY <1>5, <2>1, <2>2, <2>3, <2>4, PresenceStep
<1>11. \A d \in Clients : PresenceOK(presences[d], announced[d], ReportedBy(d))'
  <2> SUFFICES ASSUME NEW d \in Clients PROVE PresenceOK(presences'[d], announced'[d], ReportedBy(d)')
    OBVIOUS
  <2>1. CASE d = c
    BY <1>9, <1>10, <2>1
  <2>2. CASE d # c
    <3>1. ReportedBy(d)' = ReportedBy(d)
      BY <1>9, <2>2
    <3> QED
      BY <1>7, <1>8, <2>2, <3>1
  <2> QED
    BY <2>1, <2>2
<1>12. \A d \in Clients : VisitsOK(d, events["user_activity"])'
  <2>1. events'["user_activity"] = events["user_activity"]
    BY <1>0, <1>4 DEF Queues
  <2> QED
    BY <1>1, <1>4, <2>1, VisitsStay
<1>13. IntervalsOK(intervals, handled["user_activity_interval"])'
  BY <1>0, <1>1, <1>4 DEF ActivityInv, Queues
<1> QED
  BY <1>1, <1>4, <1>8, <1>11, <1>12, <1>13 DEF ActivityInv

LEMMA IntervalHandled ==
  ASSUME ActivityInv, do_update_user_activity_interval
  PROVE  ActivityInv'
<1>0. PICK q : q = "user_activity_interval" /\ q \in Queues
  BY DEF Queues
<1>1. events[q] # <<>> /\ Acknowledge(q) /\ UNCHANGED <<now, served, presences, announced, visits, published>>
  BY <1>0 DEF do_update_user_activity_interval
<1>2. PICK r, end : r = Head(events[q]) /\ end = r.time + MinInterval
  OBVIOUS
<1>3. \/ (\A i \in Latest(intervals) : ~Meets(i, r.time, end)) /\ intervals' = intervals \cup {<<r.time, end>>}
      \/ \E i \in Latest(intervals) : /\ Meets(i, r.time, end)
                                      /\ intervals' = (intervals \ {i}) \cup {Extended(i, r.time, end)}
  BY <1>0, <1>2 DEF do_update_user_activity_interval, Latest, Meets, Extended
<1>4. /\ r \in ReportsOf(q) /\ \A h \in handled[q] : h.time - MaxLate <= r.time
      /\ DOMAIN events' = Queues /\ DOMAIN handled' = Queues
      /\ handled'[q] = handled[q] \cup {r}
      /\ \A p \in Queues : p # q => handled'[p] = handled[p] /\ events'[p] = events[p]
      /\ \A p \in Queues : QueueOK(p, events[p], handled[p], now)'
      /\ used'.deaths \in Nat /\ DOMAIN used' = {"reports", "deaths"}
      /\ used.deaths \in Nat /\ (used'.deaths = used.deaths \/ used'.deaths = used.deaths + 1)
  BY <1>0, <1>1, <1>2, Acknowledged DEF ActivityInv
<1>5. IntervalsOK(intervals', handled[q] \cup {r})
  <2>1. IntervalsOK(intervals, handled[q]) /\ \A h \in handled[q] : h \in ReportsOf(q)
    BY <1>0 DEF ActivityInv, QueueOK
  <2>2. r.time \in Nat /\ \A h \in handled[q] : h.time \in Nat /\ h.time - MaxLate <= r.time
    BY <1>4, <2>1 DEF ReportsOf
  <2> QED
    BY <1>2, <1>3, <2>1, <2>2, IntervalStep
<1>6. IntervalsOK(intervals, handled["user_activity_interval"])'
  BY <1>0, <1>4, <1>5 DEF IntervalsOK
<1>7. \A d \in Clients : VisitsOK(d, events["user_activity"])'
  <2>1. events'["user_activity"] = events["user_activity"]
    BY <1>0, <1>4 DEF Queues
  <2> QED
    BY <1>1, <1>4, <2>1, VisitsStay
<1>8. \A d : ReportedBy(d)' = ReportedBy(d)
  BY <1>0, <1>4 DEF ReportedBy, Queues
<1> QED
  BY <1>1, <1>4, <1>6, <1>7, <1>8 DEF ActivityInv

LEMMA VisitHandled ==
  ASSUME ActivityInv, do_update_user_activity
  PROVE  ActivityInv'
<1>0. PICK q : q = "user_activity" /\ q \in Queues
  BY DEF Queues
<1>1. events[q] # <<>> /\ Acknowledge(q) /\ UNCHANGED <<now, served, presences, announced, intervals, published>>
  BY <1>0 DEF do_update_user_activity
<1>2. PICK r : r = Head(events[q])
  OBVIOUS
<1>3. visits' = [visits EXCEPT ![r.client] = [count |-> @.count + 1, last_visit |-> r.time]]
  BY <1>0, <1>2 DEF do_update_user_activity
<1>4. /\ r \in ReportsOf(q)
      /\ DOMAIN events' = Queues /\ DOMAIN handled' = Queues
      /\ \A p \in Queues : p # q => handled'[p] = handled[p] /\ events'[p] = events[p]
      /\ \A p \in Queues : QueueOK(p, events[p], handled[p], now)'
      /\ used'.deaths \in Nat /\ DOMAIN used' = {"reports", "deaths"} /\ used.deaths \in Nat
      /\ \/ events'[q] = Tail(events[q]) /\ used'.deaths = used.deaths
         \/ events'[q] = events[q] /\ used'.deaths = used.deaths + 1
  BY <1>0, <1>1, <1>2, Acknowledged DEF ActivityInv
<1>5. r.client \in Clients /\ DOMAIN visits = Clients /\ \A d \in Clients : DOMAIN visits[d] = {"count", "last_visit"}
  BY <1>4 DEF ReportsOf, ActivityInv
<1>6. /\ DOMAIN visits' = Clients /\ \A d \in Clients : DOMAIN visits'[d] = {"count", "last_visit"}
      /\ visits'[r.client].count = visits[r.client].count + 1
      /\ \A d \in Clients : d # r.client => visits'[d] = visits[d]
  BY <1>3, <1>5
<1>7. ASSUME NEW d \in Clients PROVE VisitsOK(d, events["user_activity"])'
  <2>0. events[q] \in Seq(ReportsOf(q)) /\ VisitsOK(d, events[q])
    BY <1>0, <1>7 DEF ActivityInv, QueueOK
  <2>1. PICK n, w, w2, v : n = Waiting(events[q], d) /\ w = Waiting(Tail(events[q]), d) /\ w2 = Waiting(events'[q], d)
                           /\ v = IF r.client = d THEN 1 ELSE 0
    OBVIOUS
  <2>2. w \in Nat /\ n \in Nat /\ v \in {0, 1} /\ n = w + v
    <3>1. /\ Waiting(events[q], d) \in Nat /\ Waiting(Tail(events[q]), d) \in Nat
          /\ Waiting(events[q], d) = Waiting(Tail(events[q]), d) + (IF Head(events[q]).client = d THEN 1 ELSE 0)
      BY <1>1, <2>0, WaitingLess
    <3>2. n \in Nat /\ w \in Nat /\ n = w + (IF r.client = d THEN 1 ELSE 0)
      BY <1>2, <2>1, <3>1
    <3> QED
      BY <2>1, <3>2
  <2>3. (w2 = w /\ used'.deaths = used.deaths) \/ (w2 = n /\ used'.deaths = used.deaths + 1)
    <3>1. CASE events'[q] = Tail(events[q]) /\ used'.deaths = used.deaths
      BY <2>1, <3>1
    <3>2. CASE events'[q] = events[q] /\ used'.deaths = used.deaths + 1
      BY <2>1, <3>2
    <3> QED
      BY <1>4, <3>1, <3>2
  <2>4. /\ visits[d].count \in Nat /\ published[d] \in Nat
        /\ published[d] <= visits[d].count + n /\ visits[d].count + n <= published[d] + used.deaths
    BY <2>0, <2>1 DEF VisitsOK
  <2>5. visits'[d].count = visits[d].count + v
    <3>1. CASE d = r.client
      BY <1>6, <2>1, <3>1
    <3>2. CASE d # r.client
      BY <1>6, <2>1, <2>4, <3>2
    <3> QED
      BY <3>1, <3>2
  <2>6. /\ visits'[d].count \in Nat /\ published[d] <= visits'[d].count + w2
        /\ visits'[d].count + w2 <= published[d] + used'.deaths
    BY <1>4, <2>2, <2>3, <2>4, <2>5
  <2> QED
    BY <1>0, <1>1, <2>1, <2>4, <2>6 DEF VisitsOK
<1>8. \A d : ReportedBy(d)' = ReportedBy(d)
  BY <1>0, <1>4 DEF ReportedBy, Queues
<1>9. IntervalsOK(intervals, handled["user_activity_interval"])'
  BY <1>0, <1>1, <1>4 DEF ActivityInv, Queues
<1> QED
  BY <1>1, <1>4, <1>6, <1>7, <1>8, <1>9 DEF ActivityInv

LEMMA ActivityStep ==
  ASSUME ActivityInv, ActivityNext \/ UNCHANGED activityVars
  PROVE  ActivityInv'
<1>1. CASE UNCHANGED activityVars
  BY <1>1 DEF ActivityInv, activityVars, ReportedBy, VisitsOK
<1>2. CASE Passes
  BY <1>2, TimePasses
<1>3. ASSUME NEW r \in Reports,
             IF r.status = "" THEN update_user_activity(r.client)
             ELSE update_active_status_backend(r.client, r.status, r.new_user_input)
      PROVE  ActivityInv'
  <2>1. r.client \in Clients
    BY ReportsAreReports
  <2>2. CASE r.status = ""
    <3>1. Serve(<<"user_activity">>, r.client, "")
      BY <1>3, <2>2 DEF update_user_activity
    <3>2. PublishedTo(<<"user_activity">>, "")
      BY Zenon DEF PublishedTo
    <3> QED
      BY <2>1, <3>1, <3>2, Serves
  <2>3. CASE r.status # ""
    <3>1. PICK to : /\ to \in {<<"user_presence", "user_activity_interval">>, <<"user_presence">>}
                    /\ Serve(to, r.client, r.status)
      BY <1>3, <2>3 DEF update_active_status_backend
    <3>2. r.status \in {"active", "idle"}
      BY <2>3, ReportsAreReports, Zenon
    <3>3. PublishedTo(to, r.status)
      BY <3>1, <3>2, Zenon DEF PublishedTo
    <3> QED
      BY <2>1, <3>1, <3>3, Serves
  <2> QED
    BY <2>2, <2>3
<1>4. ASSUME NEW r \in served, update_user_presence(r) PROVE ActivityInv'
  BY <1>4, Publishes
<1>5. CASE UserPresenceWorker
  BY <1>5, PresenceHandled
<1>6. CASE do_update_user_activity_interval
  BY <1>6, IntervalHandled
<1>7. CASE do_update_user_activity
  BY <1>7, VisitHandled
<1> QED
  BY <1>1, <1>2, <1>3, <1>4, <1>5, <1>6, <1>7 DEF ActivityNext

LEMMA ActivityShows == ActivityInv => PresenceTrue
<1> SUFFICES ASSUME ActivityInv PROVE PresenceTrue
  OBVIOUS
<1>0. {StaleAfter, OfflineAfter, MinInterval, MaxLate} \subseteq Nat /\ OfflineAfter >= StaleAfter + MaxLate /\ now \in Nat
  BY ActivityConstants DEF ActivityInv
<1>1. \A c \in Clients : PresenceOK(presences[c], announced[c], ReportedBy(c))
  BY DEF ActivityInv
<1>2. NoPresence.status = "none"
  BY DEF NoPresence
<1>3. RowsAreReports
  <2> SUFFICES ASSUME NEW c \in Clients
               PROVE  /\ presences[c] # NoPresence =>
                           \E r \in ReportedBy(c) : r.status = presences[c].status /\ r.time = presences[c].timestamp
                      /\ presences[c].status = "idle" =>
                           \A r \in ReportedBy(c) : r.status = "active" => r.time < presences[c].timestamp
                      /\ presences[c].status = "active" => announced[c] = "active"
    BY DEF RowsAreReports, ReportedBy
  <2>1. PICK row, told, own : row = presences[c] /\ told = announced[c] /\ own = ReportedBy(c)
    OBVIOUS
  <2>2. PresenceOK(row, told, own)
    BY <1>1, <2>1
  <2>3. row # NoPresence => \E r \in own : r.status = row.status /\ r.time = row.timestamp
    BY <2>2 DEF PresenceOK
  <2>4. row.status = "active" => told = "active"
    BY <1>2, <2>2 DEF PresenceOK
  <2>5. ASSUME row.status = "idle", NEW r \in own, r.status = "active" PROVE r.time < row.timestamp
    <3>1. row # NoPresence
      BY <1>2, <2>5
    <3>2. PICK l \in own : l.time <= row.timestamp + MaxLate /\ r.time + MaxLate < l.time
      BY <2>2, <2>5, <3>1 DEF PresenceOK
    <3>3. row.timestamp \in Nat /\ r.time \in Nat /\ l.time \in Nat
      BY <2>2, <2>5, <3>1 DEF PresenceOK
    <3> QED
      BY <1>0, <3>2, <3>3
  <2> QED
    BY <2>1, <2>3, <2>4, <2>5
<1>4. VisitsAreCounted
  <2> SUFFICES ASSUME NEW c \in Clients
               PROVE  visits[c].count + Waiting(events["user_activity"], c) \in published[c]..(published[c] + used.deaths)
    BY DEF VisitsAreCounted, Waiting
  <2>1. VisitsOK(c, events["user_activity"]) /\ used.deaths \in Nat
    BY DEF ActivityInv
  <2>2. events["user_activity"] \in Seq(ReportsOf("user_activity"))
    BY DEF ActivityInv, QueueOK, Queues
  <2>3. Waiting(events["user_activity"], c) \in Nat
    BY <2>2, WaitingMore
  <2> QED
    BY <2>1, <2>3 DEF VisitsOK
<1>5. NobodyIsOfflineEarly
  <2> SUFFICES ASSUME NEW r \in handled["user_presence"], now - r.time <= OfflineAfter - StaleAfter - MaxLate,
                      NEW p \in aggregated
               PROVE  (IF now - p.timestamp > OfflineAfter THEN "offline" ELSE p.status) # "offline"
    BY DEF NobodyIsOfflineEarly, get_presence_backend
  <2>1. r \in ReportsOf("user_presence")
    BY DEF ActivityInv, QueueOK, Queues
  <2>2. PICK c : c = consolidate_client(r.client) /\ c \in Clients /\ r \in ReportedBy(c) /\ r.time \in Nat
    BY <2>1, ActivityConstants DEF ReportsOf, consolidate_client, ReportedBy
  <2>3. presences[c] # NoPresence /\ presences[c].timestamp \in Nat /\ r.time <= presences[c].timestamp + StaleAfter
    BY <1>1, <2>2 DEF PresenceOK
  <2>4. PICK d \in Clients : /\ presences[d] # NoPresence /\ p = presences[d]
                             /\ presences[c].timestamp <= p.timestamp
    BY <2>2, <2>3 DEF aggregated, get_status_dict_by_user
  <2>5. p.timestamp \in Nat /\ p.status \in {"active", "idle"}
    BY <1>1, <2>4 DEF PresenceOK
  <2>6. now - p.timestamp <= OfflineAfter
    BY <1>0, <2>2, <2>3, <2>4, <2>5
  <2>7. ~(now - p.timestamp > OfflineAfter)
    BY <1>0, <2>5, <2>6
  <2> QED
    BY <2>5, <2>7
<1>6. IntervalsOK(intervals, handled["user_activity_interval"])
  BY DEF ActivityInv
<1>7. IntervalsCover
  BY <1>6 DEF IntervalsOK, IntervalsCover, CoveredBy
<1>8. MinutesAreCounted
  <2>1. IsFiniteSet(intervals) /\ Apart
    BY <1>6 DEF IntervalsOK, Apart
  <2>2. \A i \in intervals : i[1] \in Int /\ i[2] \in Int /\ i[1] <= i[2]
    BY <1>0, <1>6 DEF IntervalsOK
  <2> QED
    BY <2>1, <2>2, MinutesRight
<1> QED
  BY <1>3, <1>4, <1>5, <1>7, <1>8 DEF PresenceTrue

\* Presence holds what was reported, nobody who reported in time is offline, and every minute and
\* every visit is counted, whatever is late, in disorder or delivered twice.
THEOREM PresenceStaysTrue == Spec => []PresenceTrue
<1>1. Init => ActivityInv
  BY ActivityStarts DEF Init
<1>2. [Next]_vars => ActivityNext \/ UNCHANGED activityVars
  BY DEF Next, vars
<1>3. ActivityInv /\ [Next]_vars => ActivityInv'
  BY <1>2, ActivityStep
<1> QED
  BY <1>1, <1>3, ActivityShows, PTL DEF Spec
=============================================================================
