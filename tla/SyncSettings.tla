---------------------------- MODULE SyncSettings ----------------------------
(***************************************************************************)
(* Settings of the organisation and of the user Me: the views and the do_  *)
(* functions that change them, what fetch_initial_state_data reads of them *)
(* and what apply_event does with their events.  A scalar setting is 0 or  *)
(* 1, a list is the set of its members.                                    *)
(***************************************************************************)
EXTENDS SyncState

CONSTANTS Words, Topics, Domains, Hotspots   \* Hotspots: the names in the order they are shown

\* Realm.property_types, and below them the properties with functions of their own.
RealmProperties == {"create_stream_by_admins_only", "restricted_to_domain"}
RealmKeys == RealmProperties \cup
  {"authentication_methods", "message_editing", "notifications_stream_id", "icon"}

\* Columns of UserProfile that the register request takes from its loaded user_profile.
OwnKeys == {"alert_words", "muted_topics", "display", "notifications", "pointer"} \cup
           {"enter_sends", "autoscroll_forever", "default_desktop_notifications"}

\* Columns changed without any event.
SilentKeys == {"enter_sends", "autoscroll_forever", "default_desktop_notifications"}

\* Tables of the organisation of which every change sends the whole new content.
ListTables == {"custom_profile_fields", "realm_emoji", "realm_filters", "realm_default_streams"}
Entries == {1, 2}   \* their rows, two of them

InitSettings ==
  [own |-> [k \in OwnKeys |-> IF k \in {"alert_words", "muted_topics"} THEN {} ELSE 0],
   realm |-> [k \in RealmKeys |-> 0],
   domains |-> {}, lists |-> [t \in ListTables |-> {}], hotspots |-> {}]

-----------------------------------------------------------------------------
(* zerver/views/realm.py and the functions it calls *)

RealmEvent(key, value) == [type |-> "realm", key |-> key, value |-> value]

\* Mutant: the value is added to the old one.
AddedProperty(d, name, value) ==
  [rows |-> [d EXCEPT !.realm[name] = @ + value], notices |-> <<ToRealm(d, RealmEvent(name, value))>>]

do_set_realm_property(d, name, value) ==
  [rows |-> [d EXCEPT !.realm[name] = value],
   notices |-> <<ToRealm(d, RealmEvent(name, value))>>]

do_set_realm_authentication_methods(d, value) == do_set_realm_property(d, "authentication_methods", value)
do_set_realm_message_editing(d, value) == do_set_realm_property(d, "message_editing", value)
do_set_realm_notifications_stream(d, value) == do_set_realm_property(d, "notifications_stream_id", value)
do_change_icon_source(d, value) == do_set_realm_property(d, "icon", value)

Done(change) == Commit(change.rows, change.notices)

\* The view skips what already has the value that was asked for.
update_realm(key, value) ==
  /\ require_realm_admin
  /\ db.realm[key] # value
  /\ CASE key \in RealmProperties -> Done(do_set_realm_property(db, key, value))
       [] key = "authentication_methods" -> Done(do_set_realm_authentication_methods(db, value))
       [] key = "message_editing" -> Done(do_set_realm_message_editing(db, value))
       [] key = "notifications_stream_id" -> Done(do_set_realm_notifications_stream(db, value))

\* Uploading and deleting the icon do not look at the present source.
upload_icon == require_realm_admin /\ Done(do_change_icon_source(db, 1))
delete_icon_backend == require_realm_admin /\ Done(do_change_icon_source(db, 0))

-----------------------------------------------------------------------------
(* Domains of the organisation *)

do_add_realm_domain(domain, allow) ==
  LET row == [domain |-> domain, allow_subdomains |-> allow] IN
  Commit([db EXCEPT !.domains = @ \cup {row}],
         <<ToRealm(db, [type |-> "realm_domains", op |-> "add", row |-> row])>>)

create_realm_domain(domain, allow) ==
  /\ require_realm_admin
  /\ ~ \E row \in db.domains : row.domain = domain
  /\ do_add_realm_domain(domain, allow)

do_change_realm_domain(old, allow) ==
  LET row == [old EXCEPT !.allow_subdomains = allow] IN
  Commit([db EXCEPT !.domains = (@ \ {old}) \cup {row}],
         <<ToRealm(db, [type |-> "realm_domains", op |-> "change", row |-> row])>>)

patch_realm_domain(row, allow) == require_realm_admin /\ do_change_realm_domain(row, allow)

\* Removing the last domain also lifts the restriction to domains, with an event
\* of its own that goes out before the removal.
do_remove_realm_domain(row) ==
  LET rest == [db EXCEPT !.domains = @ \ {row}]
      lifted == rest.domains = {} /\ db.realm["restricted_to_domain"] = 1
      change == IF lifted THEN do_set_realm_property(rest, "restricted_to_domain", 0)
                ELSE [rows |-> rest, notices |-> <<>>]
  IN Commit(change.rows, Append(change.notices,
            ToRealm(db, [type |-> "realm_domains", op |-> "remove", row |-> row])))

delete_realm_domain(row) == require_realm_admin /\ do_remove_realm_domain(row)

-----------------------------------------------------------------------------
(* Tables whose events carry the whole content *)

ListEvent(table, content) == [type |-> "list", key |-> table, value |-> content]

NotifyList(d, table) == ToRealm(d, ListEvent(table, d.lists[table]))
notify_realm_emoji(d) == NotifyList(d, "realm_emoji")
\* Mutant: the list is read before the row is saved.
StaleFilters(d) == NotifyList(db, "realm_filters")
notify_realm_filters(d) == NotifyList(d, "realm_filters")
notify_realm_custom_profile_fields(d) == NotifyList(d, "custom_profile_fields")
notify_default_streams(d) == NotifyList(d, "realm_default_streams")

WithEntry(table, entry) == [db EXCEPT !.lists[table] = @ \cup {entry}]
WithoutEntry(table, entry) == [db EXCEPT !.lists[table] = @ \ {entry}]

\* An emoji is <<name, deactivated>>.  The name is unique, also among the deactivated.
upload_emoji(name) ==
  /\ ~ \E row \in db.lists["realm_emoji"] : row[1] = name
  /\ LET rows == WithEntry("realm_emoji", <<name, FALSE>>) IN Commit(rows, <<notify_realm_emoji(rows)>>)

\* Deleting marks the row.
delete_emoji(name) ==
  /\ <<name, FALSE>> \in db.lists["realm_emoji"]
  /\ LET rows == [db EXCEPT !.lists["realm_emoji"] =
                   {IF row[1] = name THEN <<name, TRUE>> ELSE row : row \in @}]
     IN Commit(rows, <<notify_realm_emoji(rows)>>)

create_filter(pattern) ==
  /\ require_realm_admin /\ pattern \notin db.lists["realm_filters"]
  /\ LET rows == WithEntry("realm_filters", pattern) IN Commit(rows, <<notify_realm_filters(rows)>>)

delete_filter(pattern) ==
  /\ require_realm_admin /\ pattern \in db.lists["realm_filters"]
  /\ LET rows == WithoutEntry("realm_filters", pattern) IN Commit(rows, <<notify_realm_filters(rows)>>)

create_realm_custom_profile_field(name) ==
  /\ require_realm_admin /\ name \notin db.lists["custom_profile_fields"]
  /\ LET rows == WithEntry("custom_profile_fields", name)
     IN Commit(rows, <<notify_realm_custom_profile_fields(rows)>>)

delete_realm_custom_profile_field(name) ==
  /\ require_realm_admin /\ name \in db.lists["custom_profile_fields"]
  /\ LET rows == WithoutEntry("custom_profile_fields", name)
     IN Commit(rows, <<notify_realm_custom_profile_fields(rows)>>)

\* A field renamed to the name of another one is an IntegrityError.
update_realm_custom_profile_field(old, new) ==
  /\ require_realm_admin
  /\ old \in db.lists["custom_profile_fields"] /\ new \notin db.lists["custom_profile_fields"] \ {old}
  /\ LET rows == [db EXCEPT !.lists["custom_profile_fields"] = (@ \ {old}) \cup {new}]
     IN Commit(rows, <<notify_realm_custom_profile_fields(rows)>>)

\* Adding sends an event only if the stream was no default stream yet; removing always does.
do_add_default_stream(stream) ==
  LET rows == WithEntry("realm_default_streams", stream) IN
  Commit(rows, IF stream \in db.lists["realm_default_streams"] THEN <<>> ELSE <<notify_default_streams(rows)>>)

do_remove_default_stream(stream) ==
  LET rows == WithoutEntry("realm_default_streams", stream) IN Commit(rows, <<notify_default_streams(rows)>>)

add_default_stream(stream) == require_realm_admin /\ do_add_default_stream(stream)
remove_default_stream(stream) == require_realm_admin /\ do_remove_default_stream(stream)

-----------------------------------------------------------------------------
(* Settings of Me *)

OwnEvent(key, value) == [type |-> "own", key |-> key, value |-> value]
SetOwn(key, value, notices) == Commit([db EXCEPT !.own[key] = value], notices)

notify_alert_words(words) == <<ToMe(OwnEvent("alert_words", words))>>
SetWords(words) == SetOwn("alert_words", words, notify_alert_words(words))

add_user_alert_words(words) == db.own["alert_words"] \cup words
remove_user_alert_words(words) == db.own["alert_words"] \ words

do_add_alert_words(words) == SetWords(add_user_alert_words(words))
do_remove_alert_words(words) == SetWords(remove_user_alert_words(words))
do_set_alert_words(words) == SetWords(words)

do_set_muted_topics(topics) == SetOwn("muted_topics", topics, <<ToMe(OwnEvent("muted_topics", topics))>>)

\* The view refuses to add a topic twice and to remove one that is not muted.
update_muted_topic(topic, op) ==
  LET muted == db.own["muted_topics"] IN
  \/ op = "add" /\ topic \notin muted /\ do_set_muted_topics(muted \cup {topic})
  \/ op = "remove" /\ topic \in muted /\ do_set_muted_topics(muted \ {topic})

do_set_user_display_setting(value) == SetOwn("display", value, <<ToMe(OwnEvent("display", value))>>)
do_change_notification_settings(value) == SetOwn("notifications", value, <<ToMe(OwnEvent("notifications", value))>>)

\* The views change only what differs.
update_display_settings_backend(value) == db.own["display"] # value /\ do_set_user_display_setting(value)
json_change_notify_settings(value) == db.own["notifications"] # value /\ do_change_notification_settings(value)

\* Three columns change without an event.
json_change_ui_settings(key, value) ==
  /\ key \in {"autoscroll_forever", "default_desktop_notifications"}
  /\ db.own[key] # value
  /\ SilentCommit([db EXCEPT !.own[key] = value], key)
do_change_enter_sends(value) == SilentCommit([db EXCEPT !.own["enter_sends"] = value], "enter_sends")

\* The first hotspot that was not seen, if any.
get_next_hotspots(d) ==
  LET unseen == {i \in 1..Len(Hotspots) : Hotspots[i] \notin d.hotspots}
  IN IF unseen = {} THEN <<>> ELSE <<Hotspots[CHOOSE i \in unseen : \A j \in unseen : i <= j]>>

do_mark_hotspot_as_read(hotspot) ==
  LET rows == [db EXCEPT !.hotspots = @ \cup {hotspot}]
  IN Commit(rows, <<ToMe([type |-> "hotspots", value |-> get_next_hotspots(rows)])>>)

HotspotNames == {Hotspots[i] : i \in 1..Len(Hotspots)}

SettingsRequest ==
  /\ Request("settings")
  /\ \/ \E key \in RealmKeys \ {"icon"}, value \in 0..1 : update_realm(key, value)
     \/ upload_icon
     \/ delete_icon_backend
     \/ \E domain \in Domains, allow \in BOOLEAN : create_realm_domain(domain, allow)
     \/ \E row \in db.domains, allow \in BOOLEAN : patch_realm_domain(row, allow)
     \/ \E row \in db.domains : delete_realm_domain(row)
     \/ \E e \in Entries : upload_emoji(e)
     \/ \E e \in Entries : delete_emoji(e)
     \/ \E e \in Entries : create_filter(e)
     \/ \E e \in Entries : delete_filter(e)
     \/ \E e \in Entries : create_realm_custom_profile_field(e)
     \/ \E e \in Entries : delete_realm_custom_profile_field(e)
     \/ \E e, f \in Entries : update_realm_custom_profile_field(e, f)
     \/ \E e \in Entries : add_default_stream(e)
     \/ \E e \in Entries : remove_default_stream(e)
     \/ \E words \in SUBSET Words : do_add_alert_words(words)
     \/ \E words \in SUBSET Words : do_remove_alert_words(words)
     \/ \E words \in SUBSET Words : do_set_alert_words(words)
     \/ \E topics \in SUBSET Topics : do_set_muted_topics(topics)
     \/ \E topic \in Topics, op \in {"add", "remove"} : update_muted_topic(topic, op)
     \/ \E value \in 0..1 : update_display_settings_backend(value)
     \/ \E value \in 0..1 : json_change_notify_settings(value)
     \/ \E key \in SilentKeys, value \in 0..1 : json_change_ui_settings(key, value)
     \/ \E value \in 0..1 : do_change_enter_sends(value)
     \/ \E hotspot \in HotspotNames : do_mark_hotspot_as_read(hotspot)

-----------------------------------------------------------------------------
(* What registering reads and how events change it *)

\* Own columns and the realm come from the loaded profile p; the tables are read one after the other.
SettingsOfProfile(p) ==
  [own |-> p.own, realm |-> p.realm, can_create_streams |-> can_create_streams(p),
   lists |-> [t \in ListTables |-> {}], hotspots |-> <<>>, realm_domains |-> {}]

SettingsQueries ==
  <<"custom_profile_fields", "hotspots", "realm_domains", "realm_emoji", "realm_filters", "realm_default_streams">>

FetchSettings(s, query, d) ==
  CASE query \in ListTables -> [s EXCEPT !.lists[query] = d.lists[query]]
    [] query = "hotspots" -> [s EXCEPT !.hotspots = get_next_hotspots(d)]
    [] query = "realm_domains" -> [s EXCEPT !.realm_domains = d.domains]

\* apply_event for these types, in the registration that loaded profile p.
ApplySettings(s, e, p) ==
  CASE e.type = "own" -> [s EXCEPT !.own[e.key] = e.value]
    [] e.type = "list" -> [s EXCEPT !.lists[e.key] = e.value]
    [] e.type = "hotspots" -> [s EXCEPT !.hotspots = e.value]
    [] e.type = "realm" ->
         [s EXCEPT !.realm[e.key] = e.value,
                   !.can_create_streams = IF e.key = "create_stream_by_admins_only"
                                          THEN can_create_streams(p) ELSE @]
    [] e.type = "realm_domains" ->
         [s EXCEPT !.realm_domains =
            CASE e.op = "add" -> @ \cup {e.row}
              [] e.op = "change" -> {IF r.domain = e.row.domain THEN e.row ELSE r : r \in @}
              [] e.op = "remove" -> {r \in @ : r.domain # e.row.domain}]
=============================================================================
