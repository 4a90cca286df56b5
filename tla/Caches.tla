------------------------------- MODULE Caches -------------------------------
(***************************************************************************)
(* The user profiles in memcached: cache_with_key around their getters,    *)
(* which read the database on a miss and store what they read, and the     *)
(* post_save handlers that delete what a save makes stale.  A profile      *)
(* carries its realm.  One process saves, others read, a step at a time.   *)
(***************************************************************************)
EXTENDS Naturals, FiniteSets

CONSTANTS
  Users, Addresses,
  FirstAddress,       \* the address of each user at the start
  Readers,            \* processes that look a profile up
  MaxSaves            \* bound: saves

\* UserProfile.email is unique.
ASSUME CacheConstants ==
  /\ FirstAddress \in [Users -> Addresses] /\ MaxSaves \in Nat
  /\ \A u, v \in Users : FirstAddress[u] = FirstAddress[v] => u = v

VARIABLES
  row,       \* UserProfile rows
  realm_off, \* Realm.deactivated
  cached,    \* memcached
  look,      \* a lookup in progress in each reader
  writer,    \* a save in progress
  saves,
  raced      \* history: keys set by a reader with what a save had changed since it read

cacheVars == <<row, realm_off, cached, look, writer, saves, raced>>

Keys == ({"id"} \X Users) \cup ({"email"} \X Addresses) \cup {<<"active_user_dicts", "realm">>}
Missing == <<>>                 \* values are kept in one-tuples
NoLook == [step |-> "idle", key |-> <<>>, val |-> Missing]
NoSave == [step |-> "idle", users |-> {}, dicts |-> FALSE, drop |-> {}]

ActiveUsers == {u \in Users : row[u].active}

\* select_related: the row with its realm
Profile(u) == [id |-> u, email |-> row[u].email, active |-> row[u].active, admin |-> row[u].admin,
               api_key |-> row[u].api_key, off |-> realm_off]

Query(key) ==
  CASE key[1] = "id" -> <<Profile(key[2])>>
    [] key[1] = "email" -> IF \E u \in Users : row[u].email = key[2]
                           THEN <<Profile(CHOOSE u \in Users : row[u].email = key[2])>> ELSE Missing
    [] OTHER -> <<[active |-> ActiveUsers]>>

CachesInit ==
  /\ row = [u \in Users |-> [email |-> FirstAddress[u], active |-> TRUE, admin |-> FALSE, api_key |-> 0]]
  /\ realm_off = FALSE
  /\ cached = [k \in Keys |-> Missing]
  /\ look = [p \in Readers |-> NoLook]
  /\ writer = NoSave /\ saves = 0 /\ raced = {}

-----------------------------------------------------------------------------
(* cache_with_key.                                                           *)

\* A hit is the value.
cache_get(p, key) ==
  /\ look[p].step = "idle"
  /\ look' = [look EXCEPT ![p] = [step |-> IF cached[key] = Missing THEN "miss" ELSE "done", key |-> key, val |-> cached[key]]]
  /\ UNCHANGED <<row, realm_off, cached, writer, saves, raced>>

\* func(*args): a row that does not exist is not stored.
QueryOnMiss(p) ==
  /\ look[p].step = "miss"
  /\ look' = [look EXCEPT ![p].val = Query(look[p].key), ![p].step = IF Query(look[p].key) = Missing THEN "done" ELSE "read"]
  /\ UNCHANGED <<row, realm_off, cached, writer, saves, raced>>

cache_set(p) ==
  /\ look[p].step = "read"
  /\ cached' = [cached EXCEPT ![look[p].key] = look[p].val]
  /\ raced' = IF look[p].val = Query(look[p].key) THEN raced \ {look[p].key} ELSE raced \cup {look[p].key}
  /\ look' = [look EXCEPT ![p].step = "done"]
  /\ UNCHANGED <<row, realm_off, writer, saves>>

\* memcached drops what it has to, and what timed out.
Evict(key) ==
  /\ cached[key] # Missing
  /\ cached' = [cached EXCEPT ![key] = Missing]
  /\ raced' = raced \ {key}
  /\ UNCHANGED <<row, realm_off, look, writer, saves>>

-----------------------------------------------------------------------------
(* Saves, and the handlers after them.                                       *)

Saving(users, dicts, drop) ==
  /\ writer = NoSave /\ saves < MaxSaves
  /\ saves' = saves + 1
  /\ writer' = [step |-> "flush", users |-> users, dicts |-> dicts, drop |-> drop]
  /\ UNCHANGED <<cached, look, raced>>

\* is_active and email are among the fields that the list of active users depends on; api_key is not.
SaveUser(u, new) ==
  /\ row' = [row EXCEPT ![u] = new]
  /\ Saving({u}, new.active # row[u].active \/ new.email # row[u].email, IF new.active THEN {} ELSE {u})
  /\ UNCHANGED realm_off

do_deactivate_user(u) == row[u].active /\ SaveUser(u, [row[u] EXCEPT !.active = FALSE])
do_reactivate_user(u) == ~row[u].active /\ SaveUser(u, [row[u] EXCEPT !.active = TRUE])
do_regenerate_api_key(u) == SaveUser(u, [row[u] EXCEPT !.api_key = 1 - @])

change_is_admin(u) == SaveUser(u, [row[u] EXCEPT !.admin = ~@])

do_change_user_email(u, e) ==
  /\ \A v \in Users : row[v].email # e
  /\ SaveUser(u, [row[u] EXCEPT !.email = e])

\* flush_realm takes the active users.
SaveRealm(off) ==
  /\ realm_off # off
  /\ realm_off' = off
  /\ Saving(ActiveUsers, off, IF off THEN ActiveUsers ELSE {})
  /\ UNCHANGED row

\* Without the key that sessions use.
MutOnlyByEmail(users) == {<<"email", row[u].email>> : u \in users}

\* By the address the row has now.
delete_user_profile_caches(users) == {<<"email", row[u].email>> : u \in users} \cup ({"id"} \X users)

\* flush_user_profile or flush_realm
Flush ==
  LET gone == delete_user_profile_caches(writer.users) \cup IF writer.dicts THEN {<<"active_user_dicts", "realm">>} ELSE {}
  IN /\ writer.step = "flush"
     /\ cached' = [k \in Keys |-> IF k \in gone THEN Missing ELSE cached[k]]
     /\ raced' = raced \ gone
     /\ writer' = IF writer.drop = {} THEN NoSave ELSE [writer EXCEPT !.step = "sessions"]
     /\ UNCHANGED <<row, realm_off, look, saves>>

Save ==
  \/ \E u \in Users : do_deactivate_user(u) \/ do_reactivate_user(u) \/ do_regenerate_api_key(u) \/ change_is_admin(u)
  \/ \E u \in Users, e \in Addresses : do_change_user_email(u, e)
  \/ \E off \in BOOLEAN : SaveRealm(off)

-----------------------------------------------------------------------------

InUse(key) == key[1] = "email" => \E u \in Users : row[u].email = key[2]

\* What a cached value must agree with: an inactive user's realm may be old, its bar may not.
Agrees(val, fresh) ==
  /\ val.active = fresh.active
  /\ "id" \in DOMAIN val =>
       /\ val.id = fresh.id /\ val.email = fresh.email /\ val.api_key = fresh.api_key /\ val.admin = fresh.admin
       /\ fresh.active => val.off = fresh.off

\* No save forgets a key: between saves, what memcached has of a user or a list of users is what the
\* database has, except where a reader stored what it had read before the save.
CacheFresh ==
  \A key \in Keys :
    writer.step # "flush" /\ cached[key] # Missing /\ key \notin raced /\ InUse(key) => Agrees(cached[key][1], Query(key)[1])
=============================================================================
