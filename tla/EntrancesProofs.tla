-------------------------- MODULE EntrancesProofs --------------------------
(***************************************************************************)
(* What holds of the ways into the server for any sets of users, requests, *)
(* processes and rules: cached profiles and the decorators, log-in flows,  *)
(* registrations and the windows of the rate limiter.                      *)
(***************************************************************************)
EXTENDS Accounts, WebEntries, LogIn, RateLimiter, FiniteSetTheorems, WellFoundedInduction, TLAPS

-----------------------------------------------------------------------------
(* Caches and WebEntries.                                                    *)

\* The keys that the save in progress is about to delete.
DueKeys ==
  IF writer.step = "flush"
  THEN delete_user_profile_caches(writer.users) \cup (IF writer.dicts THEN {<<"active_user_dicts", "realm">>} ELSE {})
  ELSE {}

Rows == [email : Addresses, active : BOOLEAN, admin : BOOLEAN, api_key : {0, 1}]

Profiles == [id : Users, email : Addresses, active : BOOLEAN, admin : BOOLEAN, api_key : {0, 1}, off : BOOLEAN]
Lists == [active : SUBSET Users]
Values == {Missing} \cup {<<v>> : v \in Profiles \cup Lists}

RequestRecords ==
  [entry : {"none", "login", "json", "page", "rest", "api", "webhook"}, user : Users \cup {"none"}, shown : {0, 1, 2},
   away : BOOLEAN, admin : BOOLEAN, barred : BOOLEAN, inside : BOOLEAN]

WebTypeOK ==
  /\ row \in [Users -> Rows] /\ realm_off \in BOOLEAN
  /\ cached \in [Keys -> Values] /\ raced \subseteq Keys
  /\ look \in [Readers -> [step : {"idle", "miss", "read", "done"}, key : Keys \cup {<<>>}, val : Values]]
  /\ req \in [Readers -> RequestRecords]
  /\ writer \in [step : {"idle", "flush", "sessions"}, users : SUBSET Users, dicts : BOOLEAN, drop : SUBSET Users]

\* A lookup has a key; requests by session or password show no API key, and all but none have a user.
LooksWellFormed ==
  \A p \in Readers :
    /\ look[p].step # "idle" => look[p].key \in Keys
    /\ req[p].entry \in {"login", "json", "page"} => req[p].shown = 2
    /\ req[p] # NoReq => req[p].user \in Users

AddressesUnique == \A u, v \in Users : row[u].email = row[v].email => u = v

\* What is kept under a user's key is a profile.
IsProfile(key, val) == val # Missing /\ key[1] # "active_user_dicts" => val[1] \in Profiles

ProfilesKept ==
  /\ \A key \in Keys : IsProfile(key, cached[key])
  /\ \A p \in Readers : look[p].step # "idle" => IsProfile(look[p].key, look[p].val)

\* CacheFresh during a save too, but for the keys it will delete.
FreshButDue ==
  \A key \in Keys :
    key \notin DueKeys /\ cached[key] # Missing /\ key \notin raced /\ InUse(key) => Agrees(cached[key][1], Query(key)[1])

CacheInv == WebTypeOK /\ LooksWellFormed /\ AddressesUnique /\ ProfilesKept /\ FreshButDue

\* The query of a user's row by address.
LEMMA QueryOfUser ==
  ASSUME row \in [Users -> Rows], AddressesUnique, NEW u \in Users
  PROVE  Query(<<"id", u>>) = <<Profile(u)>> /\ Query(<<"email", row[u].email>>) = <<Profile(u)>>
<1>1. Query(<<"id", u>>) = <<Profile(u)>>
  BY DEF Query
<1>2. (CHOOSE v \in Users : row[v].email = row[u].email) = u
  BY DEF AddressesUnique
<1>3. Query(<<"email", row[u].email>>) = <<Profile(u)>>
  BY <1>2 DEF Query
<1> QED BY <1>1, <1>3

\* What a query finds is a cached row or nothing.
LEMMA QueryTyped ==
  ASSUME row \in [Users -> Rows], realm_off \in BOOLEAN, NEW key \in Keys
  PROVE  Query(key) \in Values /\ IsProfile(key, Query(key))
<1>1. \A u \in Users : Profile(u) \in Profiles
  BY DEF Profile, Profiles, Rows
<1>2. CASE \E u \in Users : key = <<"id", u>>
  BY <1>1, <1>2 DEF Query, IsProfile, Values
<1>3. CASE \E a \in Addresses : key = <<"email", a>>
  <2>1. Query(key) = Missing \/ \E u \in Users : Query(key) = <<Profile(u)>>
    <3> PICK a \in Addresses : key = <<"email", a>>
      BY <1>3
    <3>1. CASE \E u \in Users : row[u].email = a
      <4>1. (CHOOSE u \in Users : row[u].email = a) \in Users
        BY <3>1
      <4> QED BY <3>1, <4>1 DEF Query
    <3> QED BY <3>1 DEF Query
  <2> QED BY <1>1, <2>1 DEF IsProfile, Values
<1>4. CASE key = <<"active_user_dicts", "realm">>
  <2>1. Query(key) = <<[active |-> ActiveUsers]>>
    BY <1>4 DEF Query
  <2>2. [active |-> ActiveUsers] \in Lists
    BY DEF Lists, ActiveUsers
  <2> QED BY <1>4, <2>1, <2>2 DEF IsProfile, Values
<1> QED BY <1>2, <1>3, <1>4 DEF Keys

\* An entry is no older than itself.
LEMMA AgreesWithItself == \A val : Agrees(val, val)
BY DEF Agrees

\* At first nothing is cached.
LEMMA CacheInvInit == WebInit => CacheInv
<1> SUFFICES ASSUME WebInit PROVE CacheInv
  OBVIOUS
<1> USE DEF WebInit, CachesInit
<1>1. WebTypeOK
  BY CacheConstants DEF WebTypeOK, RequestRecords, Rows, Values, NoLook, NoReq, NoSave
<1>5. LooksWellFormed
  BY DEF LooksWellFormed, NoLook, NoReq
<1>2. AddressesUnique
  BY CacheConstants DEF AddressesUnique
<1>3. ProfilesKept
  BY DEF ProfilesKept, IsProfile, NoLook
<1>4. FreshButDue
  BY DEF FreshButDue
<1> QED BY <1>1, <1>2, <1>3, <1>4, <1>5 DEF CacheInv

\* Most steps leave the rows and memcached alone.
LEMMA CacheUntouched ==
  ASSUME CacheInv, UNCHANGED <<row, realm_off, cached, raced, writer>>
  PROVE  /\ AddressesUnique' /\ FreshButDue'
         /\ \A key \in Keys : IsProfile(key, cached'[key])
<1>1. AddressesUnique' /\ \A key \in Keys : IsProfile(key, cached'[key])
  BY DEF CacheInv, AddressesUnique, ProfilesKept, IsProfile
<1>2. \A key : InUse(key)' = InUse(key)
  BY DEF InUse
<1>3. \A key : Query(key)' = Query(key)
  BY DEF Query, Profile, ActiveUsers
<1>4. DueKeys' = DueKeys
  BY DEF DueKeys, delete_user_profile_caches
<1>5. FreshButDue'
  BY <1>2, <1>3, <1>4 DEF CacheInv, FreshButDue
<1> QED BY <1>1, <1>5

\* A request looks into the cache.
LEMMA CacheGetStep ==
  ASSUME CacheInv, NEW p \in Readers, NEW key \in Keys, cache_get(p, key)
  PROVE  ProfilesKept' /\ AddressesUnique' /\ FreshButDue'
<1>2. AddressesUnique' /\ FreshButDue' /\ \A k \in Keys : IsProfile(k, cached'[k])
  BY CacheUntouched DEF cache_get
<1>3. \A q \in Readers : look'[q].step # "idle" => IsProfile(look'[q].key, look'[q].val)
  BY DEF CacheInv, WebTypeOK, cache_get, ProfilesKept
<1> QED BY <1>2, <1>3 DEF ProfilesKept

\* A request begins.
LEMMA StartStep ==
  ASSUME CacheInv, NEW p \in Readers, NEW key \in Keys, NEW entry \in {"login", "json", "page", "rest", "api"},
         NEW u \in Users, NEW shown \in {0, 1, 2}, NEW away \in BOOLEAN, NEW admin \in BOOLEAN,
         Start(p, Request(entry, u, shown, away, admin), key), entry \in {"login", "json", "page"} => shown = 2
  PROVE  CacheInv'
<1> DEFINE r == Request(entry, u, shown, away, admin)
<1>1. cache_get(p, key) /\ req' = [req EXCEPT ![p] = [r EXCEPT !.barred = Barred(r, key)]]
  BY DEF Start
<1>2. ProfilesKept' /\ AddressesUnique' /\ FreshButDue'
  BY <1>1, CacheGetStep
<1>3. Barred(r, key) \in BOOLEAN
  BY DEF Barred
<1>4. WebTypeOK' /\ LooksWellFormed'
  BY <1>1, <1>3 DEF CacheInv, WebTypeOK, RequestRecords, LooksWellFormed, cache_get, Request, NoReq
<1> QED BY <1>2, <1>4 DEF CacheInv

\* It queries the database if the cache has nothing.
LEMMA LookupStep ==
  ASSUME CacheInv, NEW p \in Readers, QueryOnMiss(p), UNCHANGED req
  PROVE  CacheInv'
<1>1. AddressesUnique' /\ FreshButDue' /\ \A k \in Keys : IsProfile(k, cached'[k])
  BY CacheUntouched DEF QueryOnMiss
<1>2. look[p].key \in Keys /\ Query(look[p].key) \in Values /\ IsProfile(look[p].key, Query(look[p].key))
  BY QueryTyped DEF CacheInv, WebTypeOK, LooksWellFormed, QueryOnMiss
<1> HIDE DEF Query
<1>3. WebTypeOK' /\ LooksWellFormed'
  BY <1>2 DEF CacheInv, WebTypeOK, LooksWellFormed, QueryOnMiss
<1>4. \A q \in Readers : look'[q].step # "idle" => IsProfile(look'[q].key, look'[q].val)
  BY <1>2 DEF CacheInv, WebTypeOK, QueryOnMiss, ProfilesKept
<1> QED BY <1>1, <1>3, <1>4 DEF CacheInv, ProfilesKept

\* It caches what it found.
LEMMA CacheSetStep ==
  ASSUME CacheInv, NEW p \in Readers, cache_set(p), UNCHANGED req
  PROVE  CacheInv'
<1> DEFINE key == look[p].key
           val == look[p].val
<1>1. key \in Keys /\ val \in Values /\ IsProfile(key, val)
  BY DEF CacheInv, WebTypeOK, LooksWellFormed, ProfilesKept, cache_set
<1>2. WebTypeOK' /\ LooksWellFormed' /\ AddressesUnique'
  BY <1>1 DEF CacheInv, WebTypeOK, LooksWellFormed, AddressesUnique, cache_set
<1>3. ProfilesKept'
  BY <1>1 DEF CacheInv, WebTypeOK, ProfilesKept, cache_set, IsProfile
<1>4. /\ \A k : InUse(k)' = InUse(k)
      /\ \A k : Query(k)' = Query(k)
      /\ DueKeys' = DueKeys
  BY DEF cache_set, InUse, Query, Profile, ActiveUsers, DueKeys, delete_user_profile_caches
<1>5. ASSUME NEW k \in Keys, k \notin DueKeys', cached'[k] # Missing, k \notin raced', InUse(k)'
      PROVE  Agrees(cached'[k][1], Query(k)[1])
  <2>1. CASE k = key
    <3>1. cached'[k] = val /\ val = Query(k)
      BY <1>5, <2>1 DEF cache_set, CacheInv, WebTypeOK
    <3> QED BY <3>1, AgreesWithItself
  <2>2. CASE k # key
    BY <1>4, <1>5, <2>2 DEF cache_set, CacheInv, WebTypeOK, FreshButDue
  <2> QED BY <2>1, <2>2
<1>6. FreshButDue'
  BY <1>4, <1>5 DEF FreshButDue
<1> QED BY <1>2, <1>3, <1>6 DEF CacheInv

\* memcached drops an entry.
LEMMA EvictStep ==
  ASSUME CacheInv, NEW key \in Keys, Evict(key), UNCHANGED req
  PROVE  CacheInv'
<1>2. WebTypeOK' /\ LooksWellFormed' /\ AddressesUnique'
  BY DEF CacheInv, WebTypeOK, LooksWellFormed, AddressesUnique, Evict, Values
<1>3. ProfilesKept'
  BY DEF CacheInv, WebTypeOK, ProfilesKept, Evict, IsProfile
<1>4. /\ \A k : InUse(k)' = InUse(k)
      /\ \A k : Query(k)' = Query(k)
      /\ DueKeys' = DueKeys
  BY DEF Evict, InUse, Query, Profile, ActiveUsers, DueKeys, delete_user_profile_caches
<1>6. FreshButDue'
  BY <1>4 DEF FreshButDue, CacheInv, WebTypeOK, Evict
<1> QED BY <1>2, <1>3, <1>6 DEF CacheInv

\* All of memcached is flushed.
LEMMA FlushStep ==
  ASSUME CacheInv, Flush, UNCHANGED req
  PROVE  CacheInv'
<1>1. /\ writer.step = "flush"
      /\ cached' = [k \in Keys |-> IF k \in DueKeys THEN Missing ELSE cached[k]]
      /\ raced' = raced \ DueKeys
      /\ writer' = IF writer.drop = {} THEN NoSave ELSE [writer EXCEPT !.step = "sessions"]
      /\ UNCHANGED <<row, realm_off, look, saves>>
  BY DEF Flush, DueKeys
<1>2. WebTypeOK'
  BY <1>1 DEF CacheInv, WebTypeOK, Values, NoSave
<1>3. LooksWellFormed' /\ AddressesUnique'
  BY <1>1 DEF CacheInv, LooksWellFormed, AddressesUnique
<1>4. ProfilesKept'
  BY <1>1 DEF CacheInv, WebTypeOK, ProfilesKept, IsProfile
<1>5. /\ \A k : InUse(k)' = InUse(k)
      /\ \A k : Query(k)' = Query(k)
  BY <1>1 DEF InUse, Query, Profile, ActiveUsers
<1>6. FreshButDue'
  BY <1>1, <1>5 DEF FreshButDue, CacheInv, WebTypeOK
<1> QED BY <1>2, <1>3, <1>4, <1>6 DEF CacheInv

\* The same after a step.
LEMMA QueryOfUserNext ==
  ASSUME row' \in [Users -> Rows], AddressesUnique', NEW u \in Users
  PROVE  Query(<<"id", u>>)' = <<Profile(u)>>' /\ Query(<<"email", row[u].email>>)' = <<Profile(u)>>'
<1>1. Query(<<"id", u>>)' = <<Profile(u)>>'
  BY DEF Query
<1>2. (CHOOSE v \in Users : row'[v].email = row'[u].email) = u
  BY DEF AddressesUnique
<1>3. Query(<<"email", row[u].email>>)' = <<Profile(u)>>'
  BY <1>2 DEF Query
<1> QED BY <1>1, <1>3

\* A request's history changes with a save, nothing else of it.
ReqAfterSave ==
  req' = [p \in Readers |-> [req[p] EXCEPT !.barred = @ /\ Shut(row', realm_off', req[p]) /\ StillNamed(req[p])]]

\* A row that is saved is a row.
LEMMA SaveTyped ==
  ASSUME CacheInv, NEW users \in SUBSET Users, NEW dicts \in BOOLEAN, NEW drop \in SUBSET Users,
         Saving(users, dicts, drop), ReqAfterSave, row' \in [Users -> Rows], realm_off' \in BOOLEAN
  PROVE  WebTypeOK' /\ LooksWellFormed' /\ ProfilesKept'
<1>1. ASSUME NEW p \in Readers
      PROVE  /\ req'[p] \in RequestRecords
             /\ req'[p].entry = req[p].entry /\ req'[p].shown = req[p].shown /\ req'[p].user = req[p].user
             /\ req[p] = NoReq => req'[p] = NoReq
  <2> DEFINE b == req[p].barred /\ Shut(row', realm_off', req[p]) /\ StillNamed(req[p])
  <2>1. b \in BOOLEAN /\ (req[p] = NoReq => ~b)
    BY DEF NoReq
  <2>2. req'[p] = [req[p] EXCEPT !.barred = b]
    BY DEF ReqAfterSave
  <2>3. req[p] \in RequestRecords
    BY DEF CacheInv, WebTypeOK
  <2> HIDE DEF b
  <2> QED BY <2>1, <2>2, <2>3 DEF RequestRecords, NoReq
<1>2. req' \in [Readers -> RequestRecords]
  BY <1>1 DEF ReqAfterSave
<1>4. WebTypeOK'
  BY <1>2 DEF CacheInv, WebTypeOK, Saving
<1>5. LooksWellFormed'
  BY <1>1 DEF CacheInv, LooksWellFormed, Saving
<1>6. ProfilesKept'
  BY DEF CacheInv, ProfilesKept, Saving
<1> QED BY <1>4, <1>5, <1>6

\* A user's row is saved and its entries are put right or due.
LEMMA SaveUserStep ==
  ASSUME CacheInv, NEW u \in Users, NEW new \in Rows, SaveUser(u, new), ReqAfterSave,
         \A v \in Users \ {u} : row[v].email # new.email
  PROVE  CacheInv'
<1> DEFINE dicts == new.active # row[u].active \/ new.email # row[u].email
           drop == IF new.active THEN {} ELSE {u}
<1>1. /\ row' = [row EXCEPT ![u] = new] /\ realm_off' = realm_off
      /\ Saving({u}, dicts, drop)
  BY DEF SaveUser
<1>2. row' \in [Users -> Rows] /\ row'[u] = new /\ \A v \in Users \ {u} : row'[v] = row[v]
  BY <1>1 DEF CacheInv, WebTypeOK
<1>3. WebTypeOK' /\ LooksWellFormed' /\ ProfilesKept'
  <2>1. dicts \in BOOLEAN /\ drop \in SUBSET Users /\ {u} \in SUBSET Users /\ realm_off' \in BOOLEAN
    BY <1>1 DEF CacheInv, WebTypeOK
  <2> HIDE DEF dicts, drop
  <2> QED BY <1>1, <1>2, <2>1, SaveTyped
<1>4. AddressesUnique'
  BY <1>2 DEF CacheInv, AddressesUnique
<1>5. \A v \in Users \ {u} : Profile(v)' = Profile(v)
  BY <1>1, <1>2 DEF Profile
<1>6. /\ <<"id", u>> \in DueKeys' /\ <<"email", new.email>> \in DueKeys'
      /\ dicts => <<"active_user_dicts", "realm">> \in DueKeys'
  <2>1. writer' = [step |-> "flush", users |-> {u}, dicts |-> dicts, drop |-> drop]
    BY <1>1 DEF Saving
  <2> HIDE DEF dicts, drop
  <2> QED BY <1>2, <2>1 DEF DueKeys, delete_user_profile_caches
<1>7. ASSUME NEW k \in Keys, k \notin DueKeys', cached'[k] # Missing, k \notin raced', InUse(k)'
      PROVE  Agrees(cached'[k][1], Query(k)'[1])
  <2>1. cached' = cached /\ raced' = raced
    BY <1>1 DEF Saving
  <2>2. DueKeys = {}
    BY <1>1 DEF Saving, NoSave, DueKeys
  <2>3. InUse(k) => Agrees(cached[k][1], Query(k)[1])
    BY <1>7, <2>1, <2>2 DEF CacheInv, FreshButDue
  <2>4. CASE \E v \in Users : k = <<"id", v>>
    <3> PICK v \in Users : k = <<"id", v>>
      BY <2>4
    <3>1. v # u
      BY <1>6, <1>7
    <3>2. Query(k) = <<Profile(v)>> /\ Query(k)' = <<Profile(v)>>'
      BY <1>2, <1>4, QueryOfUser, QueryOfUserNext DEF CacheInv, WebTypeOK
    <3>3. InUse(k)
      BY DEF InUse
    <3> QED BY <1>5, <2>1, <2>3, <3>1, <3>2, <3>3
  <2>5. CASE \E a \in Addresses : k = <<"email", a>>
    <3> PICK a \in Addresses : k = <<"email", a>>
      BY <2>5
    <3> PICK v \in Users : row'[v].email = a
      BY <1>7 DEF InUse
    <3>1. v # u /\ row[v].email = a
      BY <1>2, <1>6, <1>7
    <3>2. Query(k) = <<Profile(v)>> /\ Query(k)' = <<Profile(v)>>'
      BY <1>2, <1>4, <3>1, QueryOfUser, QueryOfUserNext DEF CacheInv, WebTypeOK
    <3>3. InUse(k)
      BY <3>1 DEF InUse
    <3> QED BY <1>5, <2>1, <2>3, <3>1, <3>2, <3>3
  <2>6. CASE k = <<"active_user_dicts", "realm">>
    <3>1. new.active = row[u].active
      BY <1>6, <1>7, <2>6
    <3>2. ActiveUsers' = ActiveUsers
      BY <1>2, <3>1 DEF ActiveUsers
    <3>3. Query(k)' = Query(k)
      BY <2>6, <3>2 DEF Query
    <3>4. InUse(k)
      BY <2>6 DEF InUse
    <3> QED BY <2>1, <2>3, <3>3, <3>4
  <2> QED BY <2>4, <2>5, <2>6 DEF Keys
<1>8. FreshButDue'
  BY <1>7 DEF FreshButDue
<1> QED BY <1>3, <1>4, <1>8 DEF CacheInv

\* A realm's row is saved and the entries of its users are flushed.
LEMMA SaveRealmStep ==
  ASSUME CacheInv, NEW off \in BOOLEAN, SaveRealm(off), ReqAfterSave
  PROVE  CacheInv'
<1> DEFINE drop == IF off THEN ActiveUsers ELSE {}
<1>1. row' = row /\ realm_off' = off /\ Saving(ActiveUsers, off, drop)
  BY DEF SaveRealm
<1>2. ActiveUsers \in SUBSET Users
  BY DEF ActiveUsers
<1>3. WebTypeOK' /\ LooksWellFormed' /\ ProfilesKept'
  <2>1. drop \in SUBSET Users /\ row' \in [Users -> Rows]
    BY <1>1, <1>2 DEF CacheInv, WebTypeOK
  <2> HIDE DEF drop
  <2> QED BY <1>1, <1>2, <2>1, SaveTyped
<1>4. AddressesUnique'
  BY <1>1 DEF CacheInv, AddressesUnique
<1>5. \A u \in ActiveUsers : <<"id", u>> \in DueKeys' /\ <<"email", row[u].email>> \in DueKeys'
  <2>1. writer' = [step |-> "flush", users |-> ActiveUsers, dicts |-> off, drop |-> drop]
    BY <1>1 DEF Saving
  <2> HIDE DEF drop
  <2> QED BY <1>1, <2>1 DEF DueKeys, delete_user_profile_caches
<1>6. ASSUME NEW u \in Users, u \notin ActiveUsers, NEW val, Agrees(val, Profile(u))
      PROVE  Agrees(val, Profile(u)')
  BY <1>1, <1>6 DEF Agrees, Profile, ActiveUsers, CacheInv, WebTypeOK, Rows
<1>7. ASSUME NEW k \in Keys, k \notin DueKeys', cached'[k] # Missing, k \notin raced', InUse(k)'
      PROVE  Agrees(cached'[k][1], Query(k)'[1])
  <2>1. cached' = cached /\ raced' = raced
    BY <1>1 DEF Saving
  <2>2. DueKeys = {}
    BY <1>1 DEF Saving, NoSave, DueKeys
  <2>3. Agrees(cached[k][1], Query(k)[1])
    BY <1>1, <1>7, <2>1, <2>2 DEF CacheInv, FreshButDue, InUse
  <2>4. CASE \E u \in Users : k = <<"id", u>>
    <3> PICK u \in Users : k = <<"id", u>>
      BY <2>4
    <3>1. u \notin ActiveUsers
      BY <1>5, <1>7
    <3>2. Query(k) = <<Profile(u)>> /\ Query(k)' = <<Profile(u)>>'
      BY <1>3, <1>4, QueryOfUser, QueryOfUserNext DEF CacheInv, WebTypeOK
    <3> QED BY <1>6, <2>1, <2>3, <3>1, <3>2
  <2>5. CASE \E a \in Addresses : k = <<"email", a>>
    <3> PICK a \in Addresses : k = <<"email", a>>
      BY <2>5
    <3> PICK u \in Users : row'[u].email = a
      BY <1>7 DEF InUse
    <3>1. u \notin ActiveUsers /\ row[u].email = a
      BY <1>1, <1>5, <1>7
    <3>2. Query(k) = <<Profile(u)>> /\ Query(k)' = <<Profile(u)>>'
      BY <1>3, <1>4, <3>1, QueryOfUser, QueryOfUserNext DEF CacheInv, WebTypeOK
    <3> QED BY <1>6, <2>1, <2>3, <3>1, <3>2
  <2>6. CASE k = <<"active_user_dicts", "realm">>
    BY <1>1, <2>1, <2>3, <2>6 DEF Query, ActiveUsers
  <2> QED BY <2>4, <2>5, <2>6 DEF Keys
<1>8. FreshButDue'
  BY <1>7 DEF FreshButDue
<1> QED BY <1>3, <1>4, <1>8 DEF CacheInv

\* The two together.
LEMMA SaveStep ==
  ASSUME CacheInv, Save, ReqAfterSave
  PROVE  CacheInv'
<1>1. ASSUME NEW u \in Users, NEW new, SaveUser(u, new), new \in Rows, new.email = row[u].email
      PROVE  CacheInv'
  BY <1>1, SaveUserStep DEF CacheInv, AddressesUnique
<1>2. ASSUME NEW u \in Users
      PROVE  /\ [row[u] EXCEPT !.active = FALSE] \in Rows /\ [row[u] EXCEPT !.active = TRUE] \in Rows
             /\ [row[u] EXCEPT !.api_key = 1 - @] \in Rows /\ [row[u] EXCEPT !.admin = ~@] \in Rows
             /\ \A e \in Addresses : [row[u] EXCEPT !.email = e] \in Rows /\ [row[u] EXCEPT !.email = e].email = e
             /\ [row[u] EXCEPT !.active = FALSE].email = row[u].email /\ [row[u] EXCEPT !.active = TRUE].email = row[u].email
             /\ [row[u] EXCEPT !.api_key = 1 - @].email = row[u].email /\ [row[u] EXCEPT !.admin = ~@].email = row[u].email
  <2>1. row[u] \in Rows
    BY DEF CacheInv, WebTypeOK
  <2>2. 1 - row[u].api_key \in {0, 1}
    BY <2>1 DEF Rows
  <2>3. (~row[u].admin) \in BOOLEAN
    OBVIOUS
  <2>4. ASSUME NEW a \in BOOLEAN, NEW b \in BOOLEAN, NEW n \in {0, 1}, NEW e \in Addresses
        PROVE  /\ [row[u] EXCEPT !.active = a] \in Rows /\ [row[u] EXCEPT !.admin = b] \in Rows
               /\ [row[u] EXCEPT !.api_key = n] \in Rows
               /\ [row[u] EXCEPT !.email = e] \in Rows /\ [row[u] EXCEPT !.email = e].email = e
               /\ [row[u] EXCEPT !.active = a].email = row[u].email /\ [row[u] EXCEPT !.admin = b].email = row[u].email
               /\ [row[u] EXCEPT !.api_key = n].email = row[u].email
    BY <2>1 DEF Rows
  <2> QED BY <2>1, <2>2, <2>3, <2>4 DEF Rows
<1>3. ASSUME NEW u \in Users, do_deactivate_user(u) \/ do_reactivate_user(u) \/ do_regenerate_api_key(u) \/ change_is_admin(u)
      PROVE  CacheInv'
  BY <1>1, <1>2, <1>3 DEF do_deactivate_user, do_reactivate_user, do_regenerate_api_key, change_is_admin
<1>4. ASSUME NEW u \in Users, NEW e \in Addresses, do_change_user_email(u, e)
      PROVE  CacheInv'
  <2>1. \A v \in Users : row[v].email # e
    BY <1>4 DEF do_change_user_email
  <2> DEFINE new == [row[u] EXCEPT !.email = e]
  <2>2. SaveUser(u, new) /\ new \in Rows /\ new.email = e
    BY <1>2, <1>4 DEF do_change_user_email
  <2> HIDE DEF new
  <2> QED BY <2>1, <2>2, SaveUserStep
<1> QED BY <1>3, <1>4, SaveRealmStep DEF Save

\* The steps of a request that end its lookup or its view.
LEMMA RequestStep ==
  ASSUME CacheInv, NEW p \in Readers,
         \/ Decide(p) \/ ViewEnds(p) \/ get_active_user_dicts_in_realm(p)
         \/ \E u \in Users, k \in 0..1 : api_key_only_webhook_view(p, u, k)
  PROVE  CacheInv'
<1>1. CASE Decide(p)
  <2>1. AddressesUnique' /\ FreshButDue' /\ \A k \in Keys : IsProfile(k, cached'[k])
    BY <1>1, CacheUntouched DEF Decide
  <2>2. /\ \/ req' = [req EXCEPT ![p] = [req[p] EXCEPT !.inside = TRUE]] /\ req[p] # NoReq
           \/ req' = [req EXCEPT ![p] = NoReq]
        /\ look' = [look EXCEPT ![p] = NoLook] /\ UNCHANGED <<row, realm_off, cached, writer, saves, raced>>
    BY <1>1 DEF Decide
  <2>3. PICK r : /\ req' = [req EXCEPT ![p] = r] /\ r \in RequestRecords
                 /\ r = NoReq \/ (r.entry = req[p].entry /\ r.shown = req[p].shown /\ r.user = req[p].user /\ req[p] # NoReq)
    <3>1. NoReq \in RequestRecords
      BY DEF NoReq, RequestRecords
    <3>2. req[p] \in RequestRecords
      BY DEF CacheInv, WebTypeOK
    <3> DEFINE r == [req[p] EXCEPT !.inside = TRUE]
    <3>3. r \in RequestRecords /\ r.entry = req[p].entry /\ r.shown = req[p].shown /\ r.user = req[p].user
      BY <3>2 DEF RequestRecords
    <3>4. (req' = [req EXCEPT ![p] = r] /\ req[p] # NoReq) \/ req' = [req EXCEPT ![p] = NoReq]
      BY <2>2
    <3> HIDE DEF r
    <3> QED BY <3>1, <3>3, <3>4
  <2>4. WebTypeOK' /\ ProfilesKept'
    BY <2>1, <2>2, <2>3 DEF CacheInv, WebTypeOK, Values, ProfilesKept, NoLook
  <2>5. LooksWellFormed'
    <3> SUFFICES ASSUME NEW q \in Readers
                 PROVE  /\ look'[q].step # "idle" => look'[q].key \in Keys
                        /\ req'[q].entry \in {"login", "json", "page"} => req'[q].shown = 2
                        /\ req'[q] # NoReq => req'[q].user \in Users
      BY DEF LooksWellFormed
    <3>1. look'[q].step # "idle" => look'[q].key \in Keys
      BY <2>2 DEF CacheInv, WebTypeOK, LooksWellFormed, NoLook
    <3>2. CASE q = p
      <4>1. req'[q] = r
        BY <2>3, <3>2 DEF CacheInv, WebTypeOK
      <4>2. CASE r = NoReq
        <5>1. NoReq.entry = "none"
          BY DEF NoReq
        <5> QED BY <3>1, <4>1, <4>2, <5>1
      <4>3. CASE r # NoReq
        BY <2>3, <3>1, <4>1, <4>3 DEF CacheInv, LooksWellFormed
      <4> QED BY <4>2, <4>3
    <3>3. CASE q # p
      <4>1. req'[q] = req[q]
        BY <2>3, <3>3 DEF CacheInv, WebTypeOK
      <4> QED BY <3>1, <4>1 DEF CacheInv, LooksWellFormed
    <3> QED BY <3>2, <3>3
  <2> QED BY <2>1, <2>4, <2>5 DEF CacheInv
<1>2. CASE ViewEnds(p)
  <2>1. AddressesUnique' /\ FreshButDue' /\ \A k \in Keys : IsProfile(k, cached'[k])
    BY <1>2, CacheUntouched DEF ViewEnds, cacheVars
  <2>2. WebTypeOK' /\ LooksWellFormed' /\ ProfilesKept'
    BY <1>2, <2>1 DEF CacheInv, WebTypeOK, RequestRecords, LooksWellFormed, ProfilesKept, NoReq, ViewEnds, cacheVars
  <2> QED BY <2>1, <2>2 DEF CacheInv
<1>3. CASE get_active_user_dicts_in_realm(p)
  <2>1. CASE cache_get(p, <<"active_user_dicts", "realm">>) /\ UNCHANGED req
    <3>1. <<"active_user_dicts", "realm">> \in Keys
      BY DEF Keys
    <3>2. ProfilesKept' /\ AddressesUnique' /\ FreshButDue'
      BY <2>1, <3>1, CacheGetStep
    <3>3. WebTypeOK' /\ LooksWellFormed'
      BY <2>1, <3>1 DEF CacheInv, WebTypeOK, LooksWellFormed, cache_get
    <3> QED BY <3>2, <3>3 DEF CacheInv
  <2>2. CASE look' = [look EXCEPT ![p] = NoLook] /\ UNCHANGED <<row, realm_off, cached, writer, saves, raced, req>>
    <3>1. AddressesUnique' /\ FreshButDue' /\ \A k \in Keys : IsProfile(k, cached'[k])
      BY <2>2, CacheUntouched
    <3>2. WebTypeOK' /\ LooksWellFormed' /\ ProfilesKept'
      BY <2>2, <3>1 DEF CacheInv, WebTypeOK, Values, LooksWellFormed, ProfilesKept, NoLook
    <3> QED BY <3>1, <3>2 DEF CacheInv
  <2> QED BY <1>3, <2>1, <2>2 DEF get_active_user_dicts_in_realm
<1>4. ASSUME NEW u \in Users, NEW k \in 0..1, api_key_only_webhook_view(p, u, k)
      PROVE  CacheInv'
  <2>1. AddressesUnique' /\ FreshButDue' /\ \A key \in Keys : IsProfile(key, cached'[key])
    BY <1>4, CacheUntouched DEF api_key_only_webhook_view, cacheVars
  <2> DEFINE b == Barred(Request("webhook", u, k, FALSE, FALSE), <<"webhook", u>>)
  <2>2. b \in BOOLEAN
    BY DEF Barred
  <2>3. /\ req' = [req EXCEPT ![p] = [Request("webhook", u, k, FALSE, FALSE) EXCEPT !.inside = TRUE, !.barred = b]]
        /\ UNCHANGED cacheVars
    BY <1>4 DEF api_key_only_webhook_view
  <2>4. k \in {0, 1, 2}
    OBVIOUS
  <2> HIDE DEF b
  <2>5. WebTypeOK' /\ ProfilesKept'
    BY <2>1, <2>2, <2>3, <2>4 DEF CacheInv, WebTypeOK, RequestRecords, ProfilesKept, Request, cacheVars
  <2>6. LooksWellFormed'
    BY <2>2, <2>3 DEF CacheInv, WebTypeOK, LooksWellFormed, Request, NoReq, cacheVars
  <2> QED BY <2>1, <2>5, <2>6 DEF CacheInv
<1> QED BY <1>1, <1>2, <1>3, <1>4

\* Logging in and out changes sessions alone.
LEMMA SessionsStep ==
  ASSUME CacheInv, delete_user_sessions
  PROVE  CacheInv'
<1> USE DEF delete_user_sessions
<1>1. WebTypeOK' /\ LooksWellFormed' /\ AddressesUnique' /\ ProfilesKept'
  BY DEF CacheInv, WebTypeOK, LooksWellFormed, AddressesUnique, ProfilesKept, NoSave
<1>2. DueKeys = {} /\ DueKeys' = {}
  BY DEF DueKeys, NoSave
<1>3. /\ \A k : InUse(k)' = InUse(k)
      /\ \A k : Query(k)' = Query(k)
  BY DEF InUse, Query, Profile, ActiveUsers
<1>4. FreshButDue'
  BY <1>2, <1>3 DEF CacheInv, FreshButDue
<1> QED BY <1>1, <1>4 DEF CacheInv

\* Every request that looks its user up, by session, address or password, and its lookup's key.
BeginsAt(p, r, key) ==
  \E entry \in {"login", "json", "page", "rest", "api"}, u \in Users, shown \in {0, 1, 2}, away, admin \in BOOLEAN :
    /\ r = Request(entry, u, shown, away, admin) /\ Start(p, r, key)
    /\ entry \in {"login", "json", "page"} => shown = 2
    /\ key = IF entry \in {"json", "page"} THEN <<"id", u>> ELSE <<"email", row[u].email>>

\* What a request is when it begins.
LEMMA StartsOfRequests ==
  ASSUME NEW p \in Readers, NEW u \in Users,
         \/ StartLogin(p, u) \/ rest_dispatch(p, u) \/ \E k \in 0..1 : authenticated_api_view(p, u, k)
  PROVE  \E r, key : BeginsAt(p, r, key)
<1>1. CASE StartLogin(p, u)
  <2> PICK away \in BOOLEAN : Start(p, Request("login", u, 2, away, FALSE), <<"email", row[u].email>>)
    BY <1>1 DEF StartLogin
  <2> QED BY DEF BeginsAt
<1>2. CASE get_user(p, u)
  <2> PICK entry \in {"json", "page"}, away, admin \in BOOLEAN :
            Start(p, Request(entry, u, 2, away, entry = "json" /\ admin), <<"id", u>>)
    BY <1>2 DEF get_user
  <2> DEFINE adm == entry = "json" /\ admin
  <2>1. adm \in BOOLEAN
    OBVIOUS
  <2>2. Start(p, Request(entry, u, 2, away, adm), <<"id", u>>)
    OBVIOUS
  <2> HIDE DEF adm
  <2> QED BY <2>1, <2>2 DEF BeginsAt
<1>3. ASSUME NEW k \in 0..1, authenticated_rest_api_view(p, u, k)
      PROVE  \E r, key : BeginsAt(p, r, key)
  <2> PICK away, admin \in BOOLEAN : Start(p, Request("rest", u, k, away, admin), <<"email", row[u].email>>)
    BY <1>3 DEF authenticated_rest_api_view
  <2>1. k \in {0, 1, 2}
    OBVIOUS
  <2> QED BY <2>1 DEF BeginsAt
<1>4. ASSUME NEW k \in 0..1, authenticated_api_view(p, u, k)
      PROVE  \E r, key : BeginsAt(p, r, key)
  <2>1. k \in {0, 1, 2}
    OBVIOUS
  <2> QED BY <1>4, <2>1 DEF BeginsAt, authenticated_api_view
<1> QED BY <1>1, <1>2, <1>3, <1>4 DEF rest_dispatch

\* Each entrance begins a request in one of those ways.
LEMMA BeginStep ==
  ASSUME CacheInv, NEW p \in Readers, NEW r, NEW key, BeginsAt(p, r, key)
  PROVE  CacheInv' /\ key \in Keys
<1> PICK entry \in {"login", "json", "page", "rest", "api"}, u \in Users, shown \in {0, 1, 2}, away, admin \in BOOLEAN :
          /\ r = Request(entry, u, shown, away, admin) /\ Start(p, r, key)
          /\ entry \in {"login", "json", "page"} => shown = 2
          /\ key = IF entry \in {"json", "page"} THEN <<"id", u>> ELSE <<"email", row[u].email>>
  BY DEF BeginsAt
<1>1. key \in Keys
  BY DEF CacheInv, WebTypeOK, Rows, Keys
<1> QED BY <1>1, StartStep

\* Every step keeps the entries right.
LEMMA CacheInvNext == CacheInv /\ [WebNext]_webVars => CacheInv'
<1> SUFFICES ASSUME CacheInv, [WebNext]_webVars PROVE CacheInv'
  OBVIOUS
<1>1. ASSUME NEW p \in Readers, NEW u \in Users,
             \/ StartLogin(p, u) \/ rest_dispatch(p, u) \/ \E k \in 0..1 : authenticated_api_view(p, u, k)
      PROVE  CacheInv'
  BY <1>1, StartsOfRequests, BeginStep
<1>2. ASSUME UNCHANGED req, \/ \E p \in Readers : QueryOnMiss(p) \/ cache_set(p)
                            \/ \E k \in Keys : Evict(k)
                            \/ Flush
      PROVE  CacheInv'
  BY <1>2, LookupStep, CacheSetStep, EvictStep, FlushStep
<1>3. CASE UNCHANGED webVars
  <2>1. AddressesUnique' /\ FreshButDue' /\ \A k \in Keys : IsProfile(k, cached'[k])
    BY <1>3, CacheUntouched DEF webVars, cacheVars
  <2> QED BY <1>3, <2>1 DEF CacheInv, WebTypeOK, LooksWellFormed, ProfilesKept, webVars, cacheVars
<1> QED BY <1>1, <1>2, <1>3, RequestStep, SessionsStep, SaveStep DEF WebNext, ReqAfterSave

\* No save forgets a key, and what a lookup or a reader's store leaves in memcached is what the database
\* has: for any users, addresses and readers, through evictions and any number of saves.
THEOREM CacheStaysFresh == WebSpec => []CacheFresh
<1>1. CacheInv => CacheFresh
  BY DEF CacheInv, FreshButDue, CacheFresh, DueKeys
<1> QED BY <1>1, CacheInvInit, CacheInvNext, PTL DEF WebSpec

\* A request whose user is shut out, and was when it began, has not got in: its lookup is under a key of
\* the user, and what it found does not admit it.
BarInv ==
  \A p \in Readers : req[p].barred =>
    /\ ~req[p].inside
    /\ Shut(row, realm_off, req[p])
    /\ look[p].step \in {"miss", "read", "done"}
    /\ look[p].step = "miss" =>
         look[p].key = IF req[p].entry \in {"json", "page"} THEN <<"id", req[p].user>> ELSE <<"email", row[req[p].user].email>>
    /\ look[p].step # "miss" /\ look[p].val # Missing => ~Admits(req[p], look[p].val[1])

\* Whom the row does not let in is turned away.
LEMMA ShutIsDenied ==
  ASSUME row \in [Users -> Rows], realm_off \in BOOLEAN, NEW r \in RequestRecords, r.user \in Users,
         r.entry \in {"login", "json", "page"} => r.shown = 2,
         Shut(row, realm_off, r), NEW val \in Profiles, Agrees(val, Profile(r.user))
  PROVE  ~Admits(r, val)
<1>1. "id" \in DOMAIN val
  BY DEF Profiles
<1>2. /\ val.active = row[r.user].active /\ val.api_key = row[r.user].api_key /\ val.admin = row[r.user].admin
      /\ row[r.user].active => val.off = realm_off
  BY <1>1 DEF Agrees, Profile
<1>3. CASE r.away
  BY <1>3 DEF Admits, authenticate, logged_in_and_active, authenticate_log_and_execute_json, validate_api_key, check_subdomain
<1>4. CASE ~row[r.user].active \/ realm_off
  BY <1>2, <1>4 DEF Admits, authenticate, common_get_active_user_by_email, logged_in_and_active,
                    authenticate_log_and_execute_json, validate_api_key
<1>5. CASE r.admin /\ ~row[r.user].admin
  BY <1>2, <1>5 DEF Admits, require_realm_admin
<1>6. CASE r.shown # 2 /\ r.shown # row[r.user].api_key
  BY <1>2, <1>6 DEF Admits, validate_api_key
<1> QED BY <1>3, <1>4, <1>5, <1>6 DEF Shut

\* At first nobody is barred.
LEMMA BarInvInit == WebInit => BarInv
BY DEF WebInit, BarInv, NoReq

\* A request that begins while its user is shut out.
LEMMA BarredAtBegin ==
  ASSUME CacheInv, BarInv, NEW p \in Readers, NEW r, NEW key, BeginsAt(p, r, key)
  PROVE  BarInv'
<1> PICK entry \in {"login", "json", "page", "rest", "api"}, u \in Users, shown \in {0, 1, 2}, away, admin \in BOOLEAN :
          /\ r = Request(entry, u, shown, away, admin) /\ Start(p, r, key)
          /\ entry \in {"login", "json", "page"} => shown = 2
          /\ key = IF entry \in {"json", "page"} THEN <<"id", u>> ELSE <<"email", row[u].email>>
  BY DEF BeginsAt
<1> DEFINE b == Barred(r, key)
<1>1. /\ req' = [req EXCEPT ![p] = [r EXCEPT !.barred = b]]
      /\ look' = [look EXCEPT ![p] = [step |-> IF cached[key] = Missing THEN "miss" ELSE "done", key |-> key, val |-> cached[key]]]
      /\ row' = row /\ realm_off' = realm_off
  BY DEF Start, cache_get
<1>2. r \in RequestRecords /\ r.entry = entry /\ r.user = u /\ r.shown = shown /\ r.inside = FALSE
  BY DEF Request, RequestRecords
<1>3. b => writer.step # "flush" /\ key \notin raced /\ Shut(row, realm_off, r)
  BY DEF Barred
<1>4. key \in Keys /\ InUse(key) /\ key[1] # "active_user_dicts" /\ Query(key) = <<Profile(u)>>
  BY QueryOfUser, BeginStep DEF InUse, CacheInv, WebTypeOK
<1>5. b /\ cached[key] # Missing => ~Admits(r, cached[key][1])
  <2> SUFFICES ASSUME b, cached[key] # Missing PROVE ~Admits(r, cached[key][1])
    OBVIOUS
  <2>1. Agrees(cached[key][1], Profile(u)) /\ cached[key][1] \in Profiles
    BY <1>3, <1>4 DEF CacheInv, FreshButDue, DueKeys, ProfilesKept, IsProfile
  <2> QED BY <1>2, <1>3, <2>1, ShutIsDenied DEF CacheInv, WebTypeOK
<1>6. b \in BOOLEAN
  BY DEF Barred
<1> DEFINE s == [r EXCEPT !.barred = b]
<1>7. /\ s.barred = b /\ s.inside = FALSE /\ s.entry = entry /\ s.user = u
      /\ Shut(row, realm_off, s) = Shut(row, realm_off, r)
      /\ \A val : Admits(s, val) = Admits(r, val)
  BY <1>2, <1>6 DEF Shut, Admits, authenticate, logged_in_and_active, authenticate_log_and_execute_json,
     validate_api_key, check_subdomain, require_realm_admin, RequestRecords
<1>8. ASSUME NEW q \in Readers, q # p
      PROVE  req'[q] = req[q] /\ look'[q] = look[q]
  BY <1>1, <1>8 DEF CacheInv, WebTypeOK
<1>9. req'[p] = s
  BY <1>1 DEF CacheInv, WebTypeOK
<1>10. look'[p] = [step |-> IF cached[key] = Missing THEN "miss" ELSE "done", key |-> key, val |-> cached[key]]
  BY <1>1 DEF CacheInv, WebTypeOK
<1> HIDE DEF s, b
<1>11. ASSUME NEW q \in Readers, req'[q].barred
       PROVE  /\ ~req'[q].inside
              /\ Shut(row, realm_off, req'[q])
              /\ look'[q].step \in {"miss", "read", "done"}
              /\ look'[q].step = "miss" =>
                   look'[q].key = IF req'[q].entry \in {"json", "page"} THEN <<"id", req'[q].user>> ELSE <<"email", row[req'[q].user].email>>
              /\ look'[q].step # "miss" /\ look'[q].val # Missing => ~Admits(req'[q], look'[q].val[1])
  <2>1. CASE q = p
    BY <1>3, <1>5, <1>7, <1>9, <1>10, <1>11, <2>1
  <2>2. CASE q # p
    BY <1>8, <1>11, <2>2 DEF BarInv
  <2> QED BY <2>1, <2>2
<1> QED BY <1>1, <1>11 DEF BarInv

\* A request that looks a barred user up finds none who may come in.
LEMMA BarredLookup ==
  ASSUME CacheInv, BarInv, NEW p \in Readers, QueryOnMiss(p), UNCHANGED req
  PROVE  BarInv'
<1> USE DEF QueryOnMiss
<1>1. ASSUME req[p].barred, Query(look[p].key) # Missing
      PROVE  ~Admits(req[p], Query(look[p].key)[1])
  <2> DEFINE u == req[p].user
  <2>1. u \in Users /\ req[p] \in RequestRecords /\ (req[p].entry \in {"login", "json", "page"} => req[p].shown = 2)
    BY <1>1 DEF CacheInv, WebTypeOK, LooksWellFormed, NoReq
  <2>2. look[p].key = <<"id", u>> \/ look[p].key = <<"email", row[u].email>>
    BY <1>1 DEF BarInv
  <2>3. Query(look[p].key) = <<Profile(u)>>
    BY <2>1, <2>2, QueryOfUser DEF CacheInv, WebTypeOK
  <2>4. Profile(u) \in Profiles
    BY <2>1 DEF Profile, Profiles, Rows, CacheInv, WebTypeOK
  <2>5. Agrees(Profile(u), Profile(u))
    BY AgreesWithItself
  <2>6. Shut(row, realm_off, req[p])
    BY <1>1 DEF BarInv
  <2> QED BY <2>1, <2>3, <2>4, <2>5, <2>6, ShutIsDenied DEF CacheInv, WebTypeOK
<1>2. /\ look'[p].val = Query(look[p].key) /\ look'[p].step \in {"read", "done"}
      /\ \A q \in Readers \ {p} : look'[q] = look[q]
  BY DEF CacheInv, WebTypeOK
<1>3. ASSUME NEW q \in Readers, req[q].barred
      PROVE  /\ look'[q].step \in {"miss", "read", "done"}
             /\ look'[q].step = "miss" =>
                  look'[q].key = IF req[q].entry \in {"json", "page"} THEN <<"id", req[q].user>> ELSE <<"email", row[req[q].user].email>>
             /\ look'[q].step # "miss" /\ look'[q].val # Missing => ~Admits(req[q], look'[q].val[1])
  <2>1. CASE q = p
    BY <1>1, <1>2, <1>3, <2>1
  <2>2. CASE q # p
    BY <1>2, <1>3, <2>2 DEF BarInv
  <2> QED BY <2>1, <2>2
<1> QED BY <1>3 DEF BarInv

\* Saving a row bars the user or changes nothing about it.
LEMMA BarredSave ==
  ASSUME CacheInv, BarInv, Save, ReqAfterSave
  PROVE  BarInv'
<1>1. look' = look
  BY DEF Save, do_deactivate_user, do_reactivate_user, do_regenerate_api_key, change_is_admin, do_change_user_email,
         SaveUser, SaveRealm, Saving
<1>2. ASSUME NEW p \in Readers, req'[p].barred
      PROVE  /\ req[p].barred /\ Shut(row', realm_off', req[p]) /\ StillNamed(req[p])
             /\ req'[p] = [req[p] EXCEPT !.barred = TRUE]
  <2> DEFINE b == req[p].barred /\ Shut(row', realm_off', req[p]) /\ StillNamed(req[p])
  <2>1. req'[p] = [req[p] EXCEPT !.barred = b]
    BY DEF ReqAfterSave
  <2>2. b \in BOOLEAN
    OBVIOUS
  <2> HIDE DEF b
  <2>3. req'[p].barred = b
    BY <2>1, <2>2 DEF CacheInv, WebTypeOK, RequestRecords
  <2>4. b
    BY <1>2, <2>3
  <2>5. b = TRUE
    BY <2>2, <2>4
  <2> QED BY <2>1, <2>4, <2>5 DEF b
<1>3. ASSUME NEW p \in Readers, req'[p].barred
      PROVE  /\ req'[p].inside = req[p].inside /\ req'[p].entry = req[p].entry /\ req'[p].user = req[p].user
             /\ req'[p].away = req[p].away /\ req'[p].admin = req[p].admin /\ req'[p].shown = req[p].shown
  <2>1. req'[p] = [req[p] EXCEPT !.barred = TRUE] /\ req[p] \in RequestRecords
    BY <1>2, <1>3 DEF CacheInv, WebTypeOK
  <2> QED BY <2>1 DEF RequestRecords
<1>4. ASSUME NEW p \in Readers, req'[p].barred
      PROVE  Shut(row', realm_off', req'[p]) /\ \A val : Admits(req'[p], val) = Admits(req[p], val)
  BY <1>2, <1>3, <1>4 DEF Shut, Admits, authenticate, logged_in_and_active, authenticate_log_and_execute_json,
     validate_api_key, check_subdomain, require_realm_admin
<1>5. ASSUME NEW p \in Readers, req'[p].barred, req[p].entry \notin {"json", "page"}
      PROVE  row'[req[p].user].email = row[req[p].user].email
  BY <1>2, <1>5 DEF StillNamed
<1>6. ASSUME NEW p \in Readers, req'[p].barred
      PROVE  /\ ~req'[p].inside
             /\ Shut(row', realm_off', req'[p])
             /\ look'[p].step \in {"miss", "read", "done"}
             /\ look'[p].step = "miss" =>
                  look'[p].key = IF req'[p].entry \in {"json", "page"} THEN <<"id", req'[p].user>>
                                 ELSE <<"email", row'[req'[p].user].email>>
             /\ look'[p].step # "miss" /\ look'[p].val # Missing => ~Admits(req'[p], look'[p].val[1])
  <2>1. req[p].barred
    BY <1>2, <1>6
  <2>2. /\ ~req[p].inside /\ look[p].step \in {"miss", "read", "done"}
        /\ look[p].step = "miss" =>
             look[p].key = IF req[p].entry \in {"json", "page"} THEN <<"id", req[p].user>> ELSE <<"email", row[req[p].user].email>>
        /\ look[p].step # "miss" /\ look[p].val # Missing => ~Admits(req[p], look[p].val[1])
    BY <2>1 DEF BarInv
  <2>3. ~req'[p].inside /\ Shut(row', realm_off', req'[p]) /\ look'[p].step \in {"miss", "read", "done"}
    BY <1>1, <1>3, <1>4, <1>6, <2>2
  <2>4. look'[p].step # "miss" /\ look'[p].val # Missing => ~Admits(req'[p], look'[p].val[1])
    BY <1>1, <1>4, <1>6, <2>2
  <2>5. req'[p].entry = req[p].entry /\ req'[p].user = req[p].user
    BY <1>3, <1>6
  <2> QED BY <1>1, <1>5, <1>6, <2>2, <2>3, <2>4, <2>5
<1> QED BY <1>6 DEF BarInv

\* The steps of a request of a barred user.
LEMMA BarredRequest ==
  ASSUME CacheInv, BarInv, NEW p \in Readers,
         \/ Decide(p) \/ ViewEnds(p) \/ get_active_user_dicts_in_realm(p)
         \/ \E u \in Users, k \in 0..1 : api_key_only_webhook_view(p, u, k)
  PROVE  BarInv'
<1>1. row' = row /\ realm_off' = realm_off
  BY DEF Decide, ViewEnds, get_active_user_dicts_in_realm, api_key_only_webhook_view, cacheVars, cache_get
<1>2. \A q \in Readers \ {p} : req'[q] = req[q] /\ look'[q] = look[q]
  BY DEF Decide, ViewEnds, get_active_user_dicts_in_realm, api_key_only_webhook_view, cacheVars, cache_get, CacheInv, WebTypeOK
<1>3. ~req'[p].barred
  <2>1. CASE Decide(p)
    <3>1. req[p].barred => ~(look[p].val # Missing /\ Admits(req[p], look[p].val[1]))
      BY <2>1 DEF Decide, BarInv
    <3>2. req'[p] = NoReq \/ (req'[p] = [req[p] EXCEPT !.inside = TRUE] /\ ~req[p].barred)
      BY <2>1, <3>1 DEF Decide, CacheInv, WebTypeOK
    <3>3. ~NoReq.barred /\ [req[p] EXCEPT !.inside = TRUE].barred = req[p].barred
      BY DEF NoReq, CacheInv, WebTypeOK, RequestRecords
    <3> QED BY <3>2, <3>3
  <2>2. CASE ViewEnds(p)
    BY <2>2 DEF ViewEnds, NoReq, CacheInv, WebTypeOK
  <2>3. CASE get_active_user_dicts_in_realm(p)
    BY <2>3 DEF get_active_user_dicts_in_realm, NoReq
  <2>4. ASSUME NEW u \in Users, NEW k \in 0..1, api_key_only_webhook_view(p, u, k)
        PROVE  ~req'[p].barred
    <3> DEFINE r == Request("webhook", u, k, FALSE, FALSE)
               b == Barred(r, <<"webhook", u>>)
    <3>1. r.user = u /\ ~r.away /\ ~r.admin /\ r.shown = k /\ row[u].active /\ ~realm_off /\ row[u].api_key = k
      BY <2>4 DEF Request, api_key_only_webhook_view
    <3>2. ~b
      BY <3>1 DEF Barred, Shut
    <3>3. req'[p] = [r EXCEPT !.inside = TRUE, !.barred = b]
      BY <2>4 DEF api_key_only_webhook_view, CacheInv, WebTypeOK
    <3>4. b = FALSE
      BY <3>2 DEF Barred
    <3>5. req'[p].barred = FALSE
      BY <3>3, <3>4 DEF Request
    <3> QED BY <3>5
  <2> QED BY <2>1, <2>2, <2>3, <2>4
<1>4. ASSUME NEW q \in Readers, req'[q].barred
      PROVE  q # p
  BY <1>3, <1>4
<1> QED BY <1>1, <1>2, <1>4 DEF BarInv

\* Every step keeps those who are barred out.
LEMMA BarInvNext == CacheInv /\ BarInv /\ [WebNext]_webVars => BarInv'
<1> SUFFICES ASSUME CacheInv, BarInv, [WebNext]_webVars PROVE BarInv'
  OBVIOUS
<1>1. ASSUME NEW p \in Readers, NEW u \in Users,
             \/ StartLogin(p, u) \/ rest_dispatch(p, u) \/ \E k \in 0..1 : authenticated_api_view(p, u, k)
      PROVE  BarInv'
  BY <1>1, StartsOfRequests, BarredAtBegin
<1>2. ASSUME NEW p \in Readers, cache_set(p), UNCHANGED req
      PROVE  BarInv'
  BY <1>2 DEF cache_set, BarInv, CacheInv, WebTypeOK
<1>3. ASSUME UNCHANGED <<req, row, realm_off, look>>
      PROVE  BarInv'
  BY <1>3 DEF BarInv
<1>4. CASE UNCHANGED webVars
  BY <1>3, <1>4 DEF webVars, cacheVars
<1>5. CASE delete_user_sessions
  BY <1>3, <1>5 DEF delete_user_sessions
<1>6. CASE Flush /\ UNCHANGED req
  BY <1>3, <1>6 DEF Flush
<1>7. ASSUME NEW k \in Keys, Evict(k), UNCHANGED req
      PROVE  BarInv'
  BY <1>3, <1>7 DEF Evict
<1>8. CASE Save /\ ReqAfterSave
  BY <1>8, BarredSave
<1>9. ASSUME NEW p \in Readers, QueryOnMiss(p), UNCHANGED req
      PROVE  BarInv'
  BY <1>9, BarredLookup
<1>10. ASSUME NEW p \in Readers,
              \/ Decide(p) \/ ViewEnds(p) \/ get_active_user_dicts_in_realm(p)
              \/ \E u \in Users, k \in 0..1 : api_key_only_webhook_view(p, u, k)
       PROVE  BarInv'
  BY <1>10, BarredRequest
<1> QED BY <1>1, <1>2, <1>4, <1>5, <1>6, <1>7, <1>8, <1>9, <1>10 DEF WebNext, ReqAfterSave

\* Nobody who is shut out gets in: a request of a user that a save and its flush shut out before it began
\* reaches no view, whichever decorator it meets and whatever caches, sessions and log-ins were about.
THEOREM BarredStayOutside == WebSpec => []BarredStayOut
<1>1. CacheInv /\ BarInv => BarredStayOut
  BY DEF BarInv, BarredStayOut
<1> QED BY <1>1, CacheInvInit, CacheInvNext, BarInvInit, BarInvNext, PTL DEF WebSpec

-----------------------------------------------------------------------------
(* LogIn.                                                                    *)

HomesOK == home \in [Logins -> RealmHosts \cup {""}]

TimesOK == time \in Nat /\ proved \in Nat /\ proved <= time

\* Only accounts are deactivated.
InactiveHaveAccounts == \A e \in Logins : e \in inactive => home[e] # ""

\* A cookie is of a proved address, and no older than the last proof.
CookieProved == cookie # NoCookie => cookie.email \in Mine /\ cookie.made \in Nat /\ cookie.made <= proved

\* A session was rightly given, and stays at its realm.
SessionRight ==
  grant.what = "session" /\ grant.way # "Dev" => grant.user \in Mine /\ home[grant.user] = grant.host

LogInInv == HomesOK /\ TimesOK /\ InactiveHaveAccounts /\ CookieProved /\ SessionRight

\* At first nobody has logged in.
LEMMA LogInInvInit == LogInInit => LogInInv
<1> SUFFICES ASSUME LogInInit PROVE LogInInv
  OBVIOUS
<1> USE DEF LogInInit
<1>1. HomesOK
  BY LogInConstants DEF HomesOK
<1>5. TimesOK
  BY DEF TimesOK
<1>2. InactiveHaveAccounts
  BY LogInConstants DEF InactiveHaveAccounts
<1>3. CookieProved
  BY DEF CookieProved
<1>4. SessionRight
  BY DEF SessionRight, NoGrant
<1> QED BY <1>1, <1>2, <1>3, <1>4, <1>5 DEF LogInInv

\* What a backend says of an address.
LEMMA BackendsRight ==
  ASSUME NEW e \in Logins, NEW host
  PROVE  /\ Bar(e) = "ok" => home[e] # "" /\ e \notin inactive /\ home[e] \notin shut
         /\ common_get_active_user(e) # Nobody => Bar(e) = "ok"
         /\ EmailAuthBackend(e, host) # Nobody => Bar(e) = "ok" /\ e \in Mine /\ host = home[e]
         /\ GoogleMobileOauth2Backend(e, host) # Nobody => Bar(e) = "ok" /\ host = home[e]
         /\ ZulipRemoteUserBackend(e, host) # Nobody => ZulipRemoteUserBackend(e, host) = e /\ Bar(e) = "ok" /\ host = home[e]
         /\ ZulipDummyBackend(e, host).user # Nobody =>
              ZulipDummyBackend(e, host).user = e /\ Bar(e) = "ok" /\ host = home[e]
         /\ DevAuthBackend(e) # Nobody => Bar(e) = "ok"
<1>1. Bar(e) = "ok" => home[e] # "" /\ e \notin inactive /\ home[e] \notin shut
  BY DEF Bar
<1>2. common_get_active_user(e) # Nobody => Bar(e) = "ok"
  BY DEF common_get_active_user
<1>3. common_get_active_user(e) # Nobody => common_get_active_user(e) = e
  BY DEF common_get_active_user
<1>4. EmailAuthBackend(e, host) # Nobody => Bar(e) = "ok" /\ e \in Mine /\ host = home[e]
  BY <1>2 DEF EmailAuthBackend, check_subdomain_of
<1>5. GoogleMobileOauth2Backend(e, host) # Nobody => Bar(e) = "ok" /\ host = home[e]
  BY DEF GoogleMobileOauth2Backend, check_subdomain_of
<1>6. ZulipRemoteUserBackend(e, host) # Nobody => ZulipRemoteUserBackend(e, host) = e /\ Bar(e) = "ok" /\ host = home[e]
  BY <1>2 DEF ZulipRemoteUserBackend, check_subdomain_of
<1>7. ZulipDummyBackend(e, host).user # Nobody =>
        ZulipDummyBackend(e, host).user = e /\ Bar(e) = "ok" /\ host = home[e]
  BY <1>2, <1>3 DEF ZulipDummyBackend, check_subdomain_of
<1>8. DevAuthBackend(e) # Nobody => Bar(e) = "ok"
  BY <1>2 DEF DevAuthBackend
<1> QED BY <1>1, <1>2, <1>4, <1>5, <1>6, <1>7, <1>8

\* What is handed out at once.
LEMMA HandedOut ==
  ASSUME LogInInv, NEW e \in Logins, NEW host, NEW what \in {"session", "key"}, NEW way,
         Give(what, e, host, way), home'[e] = host, e \notin inactive, host \notin shut, e \in Mine,
         way = "web" => time - proved' <= MaxAge
  PROVE  GrantRight /\ SessionRight'
BY DEF Give, GrantRight, SessionRight

\* Going on to log in or to register grants what may be granted.
LEMMA Registered ==
  ASSUME LogInInv, NEW e \in Mine, NEW user \in {Nobody, e}, NEW host, NEW way, NEW bad \in BOOLEAN,
         NEW mobile \in BOOLEAN, NEW signup \in BOOLEAN,
         login_or_register_remote_user(e, user, host, way, bad, mobile, signup), UNCHANGED home,
         user # Nobody => Bar(e) = "ok" /\ host = home[e],
         way = "web" => time - proved' <= MaxAge
  PROVE  GrantRight /\ SessionRight'
<1>1. CASE grant' = NoGrant
  BY <1>1 DEF GrantRight, SessionRight, NoGrant
<1>2. CASE Give("register", e, host, way)
  BY <1>2 DEF GrantRight, SessionRight, Give
<1>3. ASSUME NEW what \in {"session", "key"}, user # Nobody, Give(what, user, host, way)
      PROVE  GrantRight /\ SessionRight'
  <2>1. user = e /\ e \in Logins /\ home'[e] = host /\ e \notin inactive /\ host \notin shut
    BY <1>3, BackendsRight, LogInConstants
  <2> QED BY <1>3, <2>1, HandedOut
<1> QED BY <1>1, <1>2, <1>3 DEF login_or_register_remote_user

\* The entrances by a log-in page grant what the backends answer.
LEMMA LogInPage ==
  ASSUME LogInInv, NEW host \in AllHosts, NEW e \in Logins,
         \/ login_page(host, e) \/ api_fetch_api_key(host, e) \/ remote_user_sso(host, e) \/ remote_user_jwt(host, e)
         \/ dev_direct_login(host, e)
  PROVE  LogInInv' /\ GrantRight
<1>1. CASE login_page(host, e)
  <2>1. home[e] # "" /\ Bar(e) = "ok" /\ e \in Mine
    <3>1. CASE EmailAuthBackend(e, home[e]) # Nobody
      BY <3>1, BackendsRight
    <3>2. CASE ZulipLDAPAuthBackend(e, home[e])
      BY <3>2, LogInConstants DEF ZulipLDAPAuthBackend, get_or_create_user
    <3> QED BY <1>1, <3>1, <3>2 DEF login_page
  <2>2. home'[e] = host /\ e \notin inactive /\ host \notin shut
    BY <1>1, <2>1, BackendsRight DEF login_page, check_subdomain_of
  <2>3. GrantRight /\ SessionRight'
    BY <1>1, <2>1, <2>2, HandedOut DEF login_page
  <2> QED BY <1>1, <2>3 DEF login_page, LogInInv, HomesOK, TimesOK, InactiveHaveAccounts, CookieProved
<1>2. CASE api_fetch_api_key(host, e)
  <2>1. CASE \/ e \in Mine /\ GoogleMobileOauth2Backend(e, host) # Nobody /\ Give("key", e, host, "Google") /\ UNCHANGED home
             \/ EmailAuthBackend(e, host) # Nobody /\ Give("key", e, host, "Email") /\ UNCHANGED home
    <3>1. Bar(e) = "ok" /\ host = home[e] /\ e \in Mine
      BY <2>1, BackendsRight
    <3>2. e \notin inactive /\ host \notin shut
      BY <3>1, BackendsRight
    <3>3. GrantRight /\ SessionRight'
      BY <2>1, <3>1, <3>2, HandedOut
    <3> QED BY <1>2, <2>1, <3>3 DEF api_fetch_api_key, LogInInv, HomesOK, TimesOK, InactiveHaveAccounts, CookieProved
  <2>2. CASE /\ ZulipLDAPAuthBackend(e, host)
             /\ home' = [home EXCEPT ![e] = IF @ = "" THEN host ELSE @]
             /\ Give("key", e, host, "LDAP")
    <3>1. e \in Mine
      BY <2>2 DEF ZulipLDAPAuthBackend
    <3>2. home'[e] = host /\ e \notin inactive /\ host \notin shut /\ host \in RealmHosts
      <4>1. CASE home[e] = ""
        BY <2>2, <4>1 DEF ZulipLDAPAuthBackend, get_or_create_user, LogInInv, HomesOK, TimesOK, InactiveHaveAccounts
      <4>2. CASE home[e] # ""
        <5>1. Bar(e) = "ok" /\ host = home[e]
          BY <2>2, <4>2 DEF ZulipLDAPAuthBackend, get_or_create_user, check_subdomain_of
        <5> QED BY <2>2, <4>2, <5>1, BackendsRight DEF LogInInv, HomesOK, TimesOK
      <4> QED BY <4>1, <4>2
    <3>3. GrantRight /\ SessionRight'
      BY <2>2, <3>1, <3>2, HandedOut
    <3>4. HomesOK' /\ TimesOK' /\ InactiveHaveAccounts' /\ CookieProved'
      BY <1>2, <2>2, <3>2, LogInConstants DEF api_fetch_api_key, LogInInv, HomesOK, TimesOK, InactiveHaveAccounts, CookieProved
    <3> QED BY <3>3, <3>4 DEF LogInInv
  <2> QED BY <1>2, <2>1, <2>2 DEF api_fetch_api_key
<1>3. CASE remote_user_sso(host, e)
  <2>1. ZulipRemoteUserBackend(e, host) \in {Nobody, e}
    BY BackendsRight
  <2>2. ZulipRemoteUserBackend(e, host) # Nobody => Bar(e) = "ok" /\ host = home[e]
    BY BackendsRight
  <2>3. GrantRight /\ SessionRight'
    BY <1>3, <2>1, <2>2, Registered DEF remote_user_sso
  <2> QED BY <1>3, <2>3 DEF remote_user_sso, LogInInv, HomesOK, TimesOK, InactiveHaveAccounts, CookieProved
<1>4. CASE remote_user_jwt(host, e)
  <2>1. ZulipDummyBackend(e, host).user \in {Nobody, e}
    BY BackendsRight
  <2>2. ZulipDummyBackend(e, host).user # Nobody => Bar(e) = "ok" /\ host = home[e]
    BY BackendsRight
  <2>3. GrantRight /\ SessionRight'
    BY <1>4, <2>1, <2>2, Registered DEF remote_user_jwt
  <2> QED BY <1>4, <2>3 DEF remote_user_jwt, LogInInv, HomesOK, TimesOK, InactiveHaveAccounts, CookieProved
<1>5. CASE dev_direct_login(host, e)
  <2>1. e \notin inactive /\ home[e] \notin shut
    BY <1>5, BackendsRight DEF dev_direct_login
  <2>2. GrantRight /\ SessionRight'
    BY <1>5, <2>1 DEF dev_direct_login, Give, GrantRight, SessionRight
  <2> QED BY <1>5, <2>2 DEF dev_direct_login, LogInInv, HomesOK, TimesOK, InactiveHaveAccounts, CookieProved
<1> QED BY <1>1, <1>2, <1>3, <1>4, <1>5

\* The other steps of a person.
LEMMA LogInSession ==
  ASSUME LogInInv, logout_then_login \/ \E e \in Logins : json_fetch_api_key(e)
  PROVE  LogInInv' /\ GrantRight
<1>1. CASE logout_then_login
  BY <1>1 DEF logout_then_login, LogInInv, HomesOK, TimesOK, InactiveHaveAccounts, CookieProved, SessionRight, GrantRight, NoGrant
<1>2. ASSUME NEW e \in Logins, json_fetch_api_key(e)
      PROVE  LogInInv' /\ GrantRight
  <2>1. grant.what = "session" /\ grant.user = e /\ grant' = [what |-> "key", user |-> e, host |-> grant.host, way |-> grant.way]
    BY <1>2 DEF json_fetch_api_key, Give
  <2>2. GrantRight
    <3>1. home' = home /\ e \notin inactive /\ home[e] \notin shut
      BY <1>2 DEF json_fetch_api_key
    <3>2. grant # NoGrant
      <4>1. NoGrant.what = "none"
        BY DEF NoGrant
      <4> QED BY <2>1, <4>1
    <3>3. grant.way # "Dev" => e \in Mine /\ home[e] = grant.host
      BY <2>1 DEF LogInInv, SessionRight
    <3> QED BY <2>1, <3>1, <3>2, <3>3 DEF GrantRight
  <2> QED BY <1>2, <2>1, <2>2 DEF json_fetch_api_key, LogInInv, HomesOK, TimesOK, InactiveHaveAccounts, CookieProved, SessionRight
<1> QED BY <1>1, <1>2

\* Through the main site: the cookie, and what it is exchanged for.
LEMMA MainSite ==
  ASSUME LogInInv,
         \/ send_oauth_request_to_google \/ finish_google_oauth2 \/ do_auth
         \/ \E host \in AllHosts : redirect_to_main_site(host) \/ log_into_subdomain(host)
  PROVE  LogInInv' /\ GrantRight
<1>1. ASSUME UNCHANGED <<home, inactive, cookie, time, proved, grant>>
      PROVE  LogInInv' /\ GrantRight
  BY <1>1 DEF LogInInv, HomesOK, TimesOK, InactiveHaveAccounts, CookieProved, SessionRight, GrantRight
<1>2. CASE send_oauth_request_to_google \/ \E host \in AllHosts : redirect_to_main_site(host)
  BY <1>1, <1>2 DEF send_oauth_request_to_google, redirect_to_main_site
<1>3. ASSUME NEW e \in Mine, proved' = time, UNCHANGED <<home, inactive, time>>,
             cookie' = cookie \/ \E subdomain, signup : redirect_and_log_into_subdomain(e, subdomain, signup)
      PROVE  HomesOK' /\ TimesOK' /\ InactiveHaveAccounts' /\ CookieProved'
  <2>1. HomesOK' /\ InactiveHaveAccounts'
    BY <1>3 DEF LogInInv, HomesOK, InactiveHaveAccounts
  <2>4. TimesOK'
    BY <1>3 DEF LogInInv, TimesOK
  <2>2. ASSUME cookie' = cookie PROVE CookieProved'
    <3>1. proved' = time
      BY <1>3
    <3> QED BY <2>2, <3>1 DEF LogInInv, TimesOK, CookieProved
  <2>3. ASSUME NEW subdomain, NEW signup, redirect_and_log_into_subdomain(e, subdomain, signup)
        PROVE  CookieProved'
    <3>1. cookie'.email = e /\ cookie'.made = time
      BY <2>3 DEF redirect_and_log_into_subdomain
    <3> QED BY <1>3, <3>1 DEF LogInInv, TimesOK, CookieProved
  <2> QED BY <1>3, <2>1, <2>2, <2>3, <2>4
<1>4. CASE finish_google_oauth2
  <2>1. CASE UNCHANGED <<cookie, proved, grant>>
    BY <1>1, <1>4, <2>1 DEF finish_google_oauth2
  <2>2. ASSUME NEW e \in Mine, proved' = time, hop.mobile,
               LET answer == ZulipDummyBackend(e, hop.subdomain)
               IN /\ login_or_register_remote_user(e, answer.user, hop.subdomain, "web", answer.invalid_subdomain, TRUE, FALSE)
                  /\ UNCHANGED cookie
        PROVE  LogInInv' /\ GrantRight
    <3> DEFINE host == hop.subdomain
               user == ZulipDummyBackend(e, host).user
               bad == ZulipDummyBackend(e, host).invalid_subdomain
    <3>1. bad \in BOOLEAN
      BY DEF ZulipDummyBackend
    <3>2. e \in Logins /\ user \in {Nobody, e} /\ (user # Nobody => Bar(e) = "ok" /\ host = home[e])
      <4>1. e \in Logins
        BY LogInConstants
      <4> QED BY <4>1, BackendsRight
    <3>3. time - proved' <= MaxAge
      BY <2>2, LogInTimes DEF LogInInv, TimesOK
    <3>4. UNCHANGED <<home, inactive, time>>
      BY <1>4 DEF finish_google_oauth2
    <3>5. login_or_register_remote_user(e, user, host, "web", bad, TRUE, FALSE)
      BY <2>2
    <3> HIDE DEF user, bad, host
    <3>6. GrantRight /\ SessionRight'
      BY <3>1, <3>2, <3>3, <3>4, <3>5, Registered
    <3> QED BY <1>3, <2>2, <3>4, <3>6 DEF LogInInv
  <2>3. ASSUME NEW e \in Mine, proved' = time, redirect_and_log_into_subdomain(e, hop.subdomain, FALSE), UNCHANGED grant
        PROVE  LogInInv' /\ GrantRight
    <3>1. UNCHANGED <<home, inactive, time>>
      BY <1>4 DEF finish_google_oauth2
    <3> QED BY <1>3, <2>3, <3>1 DEF LogInInv, SessionRight, GrantRight
  <2> QED BY <1>4, <2>1, <2>2, <2>3 DEF finish_google_oauth2
<1>5. CASE do_auth
  <2>1. UNCHANGED <<home, inactive, time, grant>>
    BY <1>5 DEF do_auth
  <2>2. CASE UNCHANGED <<cookie, proved>>
    BY <1>1, <2>1, <2>2
  <2>3. ASSUME NEW e \in Mine, process_do_auth(e), proved' = time
        PROVE  LogInInv' /\ GrantRight
    <3>1. cookie' = cookie \/ redirect_and_log_into_subdomain(e, hop.subdomain, hop.signup)
      BY <2>3 DEF process_do_auth
    <3> QED BY <1>3, <2>1, <2>3, <3>1 DEF LogInInv, SessionRight, GrantRight
  <2> QED BY <1>5, <2>2, <2>3 DEF do_auth
<1>6. ASSUME NEW host \in AllHosts, log_into_subdomain(host)
      PROVE  LogInInv' /\ GrantRight
  <2> DEFINE e == cookie.email
  <2>1. e \in Mine /\ time - proved' <= MaxAge /\ UNCHANGED <<home, inactive, cookie, time, proved>>
    <3>1. cookie # NoCookie /\ time - cookie.made <= MaxAge /\ UNCHANGED <<home, inactive, cookie, time, proved>>
      BY <1>6 DEF log_into_subdomain, get_signed_cookie
    <3> QED BY <3>1, LogInTimes DEF LogInInv, TimesOK, CookieProved
  <2>2. CASE login_or_register_remote_user(e, Nobody, host, "web", FALSE, FALSE, TRUE)
    <3>1. GrantRight /\ SessionRight'
      BY <2>1, <2>2, Registered
    <3> QED BY <2>1, <3>1 DEF LogInInv, HomesOK, TimesOK, InactiveHaveAccounts, CookieProved
  <2>3. CASE LET answer == authenticate_remote_user(e, host)
             IN login_or_register_remote_user(e, answer.user, host, "web", answer.invalid_subdomain, FALSE, FALSE)
    <3> DEFINE user == ZulipDummyBackend(e, host).user
               bad == ZulipDummyBackend(e, host).invalid_subdomain
    <3>1. bad \in BOOLEAN
      BY DEF ZulipDummyBackend
    <3>2. e \in Logins /\ user \in {Nobody, e} /\ (user # Nobody => Bar(e) = "ok" /\ host = home[e])
      <4>1. e \in Logins
        BY <2>1, LogInConstants
      <4> HIDE DEF e
      <4>2. user # Nobody => user = e /\ Bar(e) = "ok" /\ host = home[e]
        BY <4>1, BackendsRight
      <4> QED BY <4>1, <4>2
    <3>3. login_or_register_remote_user(e, user, host, "web", bad, FALSE, FALSE)
      BY <2>3 DEF authenticate_remote_user
    <3> HIDE DEF user, bad
    <3>4. GrantRight /\ SessionRight'
      BY <2>1, <3>1, <3>2, <3>3, Registered
    <3> QED BY <2>1, <3>4 DEF LogInInv, HomesOK, TimesOK, InactiveHaveAccounts, CookieProved
  <2> QED BY <1>6, <2>2, <2>3 DEF log_into_subdomain
<1> QED BY <1>2, <1>4, <1>5, <1>6

\* Every step keeps the grants right.
LEMMA LogInInvNext == LogInInv /\ [LogInNext]_loginVars => LogInInv' /\ [GrantRight]_loginVars
<1> SUFFICES ASSUME LogInInv, [LogInNext]_loginVars PROVE LogInInv' /\ [GrantRight]_loginVars
  OBVIOUS
<1>1. CASE Elsewhere
  <2>1. /\ \A e \in Logins : e \in inactive' => e \in inactive \/ home[e] # ""
        /\ time' = time \/ time' = time + 1
        /\ UNCHANGED <<home, cookie, proved, grant>>
    BY <1>1 DEF Elsewhere
  <2>2. GrantRight /\ SessionRight' /\ CookieProved'
    BY <2>1 DEF LogInInv, SessionRight, CookieProved, GrantRight
  <2>3. HomesOK' /\ InactiveHaveAccounts'
    BY <2>1 DEF LogInInv, HomesOK, InactiveHaveAccounts
  <2>4. TimesOK'
    <3>1. (time' = time \/ time' = time + 1) /\ proved' = proved
      BY <2>1
    <3> QED BY <3>1 DEF LogInInv, TimesOK
  <2> QED BY <2>2, <2>3, <2>4 DEF LogInInv
<1>2. CASE UNCHANGED loginVars
  BY <1>2 DEF loginVars, LogInInv, HomesOK, TimesOK, InactiveHaveAccounts, CookieProved, SessionRight
<1> QED BY <1>1, <1>2, LogInPage, LogInSession, MainSite DEF LogInNext

\* A session, an API key or a registration is handed out only to the owner of an address, and but for the
\* development log-in at the host of the account's realm, for any hosts, accounts and methods.
THEOREM GrantsAreRight == LogInSpec => GrantsRight
BY LogInInvInit, LogInInvNext, PTL DEF LogInSpec, GrantsRight

-----------------------------------------------------------------------------
(* RateLimiter.                                                              *)

\* A request that has been let in and is not counted yet.
Uncounted(p) == serving[p].step \in {"watch", "exec"}

CallLists == Seq(Nat)
CallRecords == [step : {"idle", "watch", "exec", "counted", "answer", "refused"}, now : Nat, seen : CallLists, conflicts : Nat, left : Int]

LimitTypeOK == clock \in Nat /\ calls \in CallLists /\ serving \in [Servers -> CallRecords]

\* The times of calls are past and differ, in the list and in the requests.
TimesDiffer ==
  /\ \A i \in 1..Len(calls) : calls[i] < clock
  /\ \A i, j \in 1..Len(calls) : calls[i] = calls[j] => i = j
  /\ \A p \in Servers : Uncounted(p) => serving[p].now < clock /\ \A i \in 1..Len(calls) : calls[i] # serving[p].now
  /\ \A p, q \in Servers : Uncounted(p) /\ Uncounted(q) /\ serving[p].now = serving[q].now => p = q

LimitInv == LimitTypeOK /\ TimesDiffer /\ SetMatchesList

\* The largest rule's number of calls.
LEMMA MaxCalls == max_api_calls \in Nat /\ max_api_calls > 0 /\ max_api_window \in Nat
<1>1. Rules[Len(Rules)] \in Nat \X (Nat \ {0})
  BY RateConstants
<1> QED BY <1>1 DEF max_api_calls, max_api_window

\* The call that nobody makes is a call.
LEMMA IdleTyped == NoCall \in CallRecords /\ NoCall.step = "idle" /\ <<>> \in CallLists
<1>1. <<>> \in CallLists
  BY DEF CallLists
<1> QED BY <1>1 DEF NoCall, CallRecords

\* At first no call was admitted.
LEMMA LimitInvInit == LimitsInit => LimitInv
<1> SUFFICES ASSUME LimitsInit PROVE LimitInv
  OBVIOUS
<1>2. LimitTypeOK
  BY IdleTyped DEF LimitsInit, LimitTypeOK
<1>3. TimesDiffer
  BY DEF LimitsInit, TimesDiffer, Uncounted, NoCall
<1>4. SetMatchesList
  BY MaxCalls DEF LimitsInit, SetMatchesList
<1> QED BY <1>2, <1>3, <1>4 DEF LimitInv

\* Steps of a request that write nothing of the list.
LEMMA CallMoves ==
  ASSUME LimitInv, NEW p \in Servers, NEW call \in CallRecords,
         serving' = [serving EXCEPT ![p] = call], UNCHANGED <<clock, calls, callset>>,
         call.step \in {"watch", "exec"} => Uncounted(p) /\ call.now = serving[p].now
  PROVE  LimitInv'
<1>1. \A q \in Servers : q # p => serving'[q] = serving[q]
  BY DEF LimitInv, LimitTypeOK
<1>2. serving'[p] = call
  BY DEF LimitInv, LimitTypeOK
<1>3. \A q \in Servers : Uncounted(q)' => Uncounted(q) /\ serving'[q].now = serving[q].now
  BY <1>1, <1>2 DEF Uncounted
<1>4. LimitTypeOK'
  BY DEF LimitInv, LimitTypeOK
<1>5. TimesDiffer'
  <2>1. \A i \in 1..Len(calls') : calls'[i] < clock'
    BY DEF LimitInv, TimesDiffer
  <2>2. \A i, j \in 1..Len(calls') : calls'[i] = calls'[j] => i = j
    BY DEF LimitInv, TimesDiffer
  <2>3. \A q \in Servers : Uncounted(q)' => serving'[q].now < clock' /\ \A i \in 1..Len(calls') : calls'[i] # serving'[q].now
    BY <1>3 DEF LimitInv, TimesDiffer
  <2>4. \A q, r \in Servers : Uncounted(q)' /\ Uncounted(r)' /\ serving'[q].now = serving'[r].now => q = r
    BY <1>3 DEF LimitInv, TimesDiffer
  <2> QED BY <2>1, <2>2, <2>3, <2>4 DEF TimesDiffer
<1> QED BY <1>4, <1>5 DEF LimitInv, SetMatchesList, max_api_calls

\* When time goes on, the list and the set stay or go together.
LEMMA ClockStep ==
  ASSUME LimitInv, ClockMoves
  PROVE  /\ clock' = clock + 1 /\ calls' \in CallLists /\ SetMatchesList'
         /\ \A i \in 1..Len(calls') : i \in 1..Len(calls) /\ calls'[i] = calls[i]
<1>1. clock' = clock + 1 /\ ((calls' = calls /\ callset' = callset) \/ (calls' = <<>> /\ callset' = {}))
  BY DEF ClockMoves
<1>2. CASE calls' = calls /\ callset' = callset
  BY <1>1, <1>2 DEF LimitInv, LimitTypeOK, SetMatchesList, max_api_calls
<1>3. CASE calls' = <<>> /\ callset' = {}
  BY <1>1, <1>3, IdleTyped, MaxCalls DEF SetMatchesList, max_api_calls
<1> QED BY <1>1, <1>2, <1>3

\* A call of the view enters the limiter.
LEMMA AdmitStep ==
  ASSUME LimitInv, NEW p \in Servers, rate_limit_user(p)
  PROVE  LimitInv'
<1> DEFINE call == [NoCall EXCEPT !.step = "watch", !.now = clock]
<1>1. call \in CallRecords /\ call.now = clock
  <2>1. clock \in Nat /\ NoCall \in CallRecords
    BY IdleTyped DEF LimitInv, LimitTypeOK
  <2> QED BY <2>1 DEF CallRecords
<1>2. /\ serving' = [serving EXCEPT ![p] = call] /\ clock' = clock + 1 /\ ~Uncounted(p)
      /\ calls' \in CallLists /\ SetMatchesList'
      /\ \A i \in 1..Len(calls') : i \in 1..Len(calls) /\ calls'[i] = calls[i]
  BY ClockStep DEF rate_limit_user, Uncounted
<1> HIDE DEF call
<1>3. \A q \in Servers : q # p => serving'[q] = serving[q] /\ (Uncounted(q)' <=> Uncounted(q))
  BY <1>2 DEF LimitInv, LimitTypeOK, Uncounted
<1>4. serving'[p].now = clock
  BY <1>1, <1>2 DEF LimitInv, LimitTypeOK
<1>5. LimitTypeOK'
  BY <1>1, <1>2 DEF LimitInv, LimitTypeOK
<1>6. TimesDiffer'
  <2>1. \A i \in 1..Len(calls') : calls'[i] < clock' /\ calls'[i] < clock
    <3>1. ASSUME NEW i \in 1..Len(calls) PROVE calls[i] \in Nat /\ calls[i] < clock /\ clock \in Nat
      BY DEF LimitInv, LimitTypeOK, TimesDiffer, CallLists
    <3> QED BY <1>2, <3>1
  <2>2. \A i, j \in 1..Len(calls') : calls'[i] = calls'[j] => i = j
    BY <1>2 DEF LimitInv, TimesDiffer
  <2>3. ASSUME NEW q \in Servers, Uncounted(q)'
        PROVE  serving'[q].now < clock' /\ \A i \in 1..Len(calls') : calls'[i] # serving'[q].now
    <3>1. CASE q = p
      BY <1>2, <1>4, <2>1, <3>1 DEF LimitInv, LimitTypeOK
    <3>2. CASE q # p
      <4>1. serving'[q].now = serving[q].now /\ serving[q].now \in Nat /\ serving[q].now < clock
        BY <1>3, <2>3, <3>2 DEF LimitInv, LimitTypeOK, TimesDiffer, CallRecords
      <4> QED BY <1>2, <1>3, <2>3, <3>2, <4>1 DEF LimitInv, LimitTypeOK, TimesDiffer
    <3> QED BY <3>1, <3>2
  <2>4. ASSUME NEW q \in Servers, NEW r \in Servers, Uncounted(q)', Uncounted(r)', serving'[q].now = serving'[r].now, q # r
        PROVE  FALSE
    <3>1. ASSUME NEW s \in Servers, s # p, Uncounted(s)' PROVE serving'[s].now # clock
      <4>1. serving'[s].now = serving[s].now /\ serving[s].now \in Nat /\ serving[s].now < clock
        BY <1>3, <3>1 DEF LimitInv, LimitTypeOK, TimesDiffer, CallRecords
      <4> QED BY <4>1 DEF LimitInv, LimitTypeOK
    <3>2. CASE q = p \/ r = p
      BY <1>4, <2>4, <3>1, <3>2
    <3>3. CASE q # p /\ r # p
      BY <1>3, <2>4, <3>3 DEF LimitInv, TimesDiffer
    <3> QED BY <3>2, <3>3
  <2> QED BY <2>1, <2>2, <2>3, <2>4 DEF TimesDiffer
<1> QED BY <1>2, <1>5, <1>6 DEF LimitInv

\* The first entries of a list.
LEMMA FrontOfList ==
  ASSUME NEW s \in Seq(Nat), NEW n \in 1..Len(s)
  PROVE  Len(SubSeq(s, 1, n)) = n /\ SubSeq(s, 1, n) \in Seq(Nat) /\ \A i \in 1..n : SubSeq(s, 1, n)[i] = s[i]
<1>1. \A i \in 1..n : SubSeq(s, 1, n)[i] = s[i]
  OBVIOUS
<1>2. SubSeq(s, 1, n) \in Seq(Nat)
  OBVIOUS
<1> QED BY <1>1, <1>2

\* What the transaction leaves in the list.
LEMMA PushedList ==
  ASSUME LimitInv, NEW p \in Servers, Pushed(p)
  PROVE  /\ calls' \in Seq(Nat) /\ Len(calls') > 0 /\ calls'[1] = serving[p].now
         /\ Len(calls') = IF Len(calls) < max_api_calls THEN Len(calls) + 1 ELSE max_api_calls
         /\ \A i \in 2..Len(calls') : i - 1 \in 1..Len(calls) /\ calls'[i] = calls[i - 1]
<1> DEFINE list == <<serving[p].now>> \o calls
           n == IF Len(list) < max_api_calls THEN Len(list) ELSE max_api_calls
<1>1. serving[p].now \in Nat /\ calls \in Seq(Nat) /\ Len(calls) \in Nat /\ Len(calls) <= max_api_calls
  BY DEF LimitInv, LimitTypeOK, CallRecords, CallLists, SetMatchesList
<1>2. list \in Seq(Nat) /\ Len(list) = Len(calls) + 1 /\ list[1] = serving[p].now /\ \A i \in 2..Len(list) : list[i] = calls[i - 1]
  BY <1>1
<1>3. calls' = SubSeq(list, 1, n)
  BY DEF Pushed
<1>4. n \in 1..Len(list) /\ n = IF Len(calls) < max_api_calls THEN Len(calls) + 1 ELSE max_api_calls
  BY <1>1, <1>2, MaxCalls
<1> HIDE DEF list, n
<1>5. Len(calls') = n /\ calls' \in Seq(Nat) /\ \A i \in 1..n : calls'[i] = list[i]
  BY <1>2, <1>3, <1>4, FrontOfList
<1> QED BY <1>1, <1>2, <1>4, <1>5

\* An admitted call is pushed on the list, which is trimmed.
LEMMA PushStep ==
  ASSUME LimitInv, NEW p \in Servers, serving[p].step = "exec", calls = serving[p].seen, Pushed(p)
  PROVE  LimitInv'
<1> DEFINE now == serving[p].now
           n == Len(calls)
<1>1. now \in Nat /\ n \in Nat /\ n <= max_api_calls /\ Uncounted(p)
  BY DEF LimitInv, LimitTypeOK, CallRecords, CallLists, SetMatchesList, Uncounted
<1>2. \A i \in 1..n : calls[i] # now /\ calls[i] \in Nat
  BY <1>1 DEF LimitInv, TimesDiffer, LimitTypeOK, CallLists
<1>3. /\ calls' \in Seq(Nat) /\ Len(calls') > 0 /\ calls'[1] = now
      /\ Len(calls') = IF n < max_api_calls THEN n + 1 ELSE max_api_calls
      /\ \A i \in 2..Len(calls') : i - 1 \in 1..n /\ calls'[i] = calls[i - 1]
  BY PushedList
<1>4. clock' = clock /\ serving' = [serving EXCEPT ![p].step = "counted"]
  BY DEF Pushed
<1>5. \A q \in Servers : Uncounted(q)' => q # p /\ Uncounted(q) /\ serving'[q].now = serving[q].now
  BY <1>4 DEF LimitInv, LimitTypeOK, Uncounted, CallRecords
<1>6. ASSUME NEW i \in 1..Len(calls') PROVE i = 1 \/ i \in 2..Len(calls')
  BY <1>3
<1> HIDE DEF now, n
<1>7. LimitTypeOK'
  <2>1. calls' \in CallLists
    BY <1>3 DEF CallLists
  <2> QED BY <1>4, <2>1 DEF LimitInv, LimitTypeOK, CallRecords
<1>8. TimesDiffer'
  <2>1. ASSUME NEW i \in 1..Len(calls') PROVE calls'[i] < clock'
    BY <1>1, <1>3, <1>4, <1>6 DEF LimitInv, TimesDiffer, now, n
  <2>2. ASSUME NEW i \in 1..Len(calls'), NEW j \in 1..Len(calls'), calls'[i] = calls'[j]
        PROVE  i = j
    <3>1. CASE i = 1 /\ j = 1
      BY <3>1
    <3>2. CASE i \in 2..Len(calls') /\ j \in 2..Len(calls')
      <4>1. i - 1 \in 1..n /\ j - 1 \in 1..n /\ calls[i - 1] = calls[j - 1]
        BY <1>3, <2>2, <3>2
      <4>2. i - 1 = j - 1
        BY <4>1 DEF LimitInv, TimesDiffer, n
      <4> QED BY <4>2
    <3>3. CASE (i = 1 /\ j \in 2..Len(calls')) \/ (j = 1 /\ i \in 2..Len(calls'))
      BY <1>2, <1>3, <2>2, <3>3
    <3> QED BY <1>6, <3>1, <3>2, <3>3
  <2>3. ASSUME NEW q \in Servers, Uncounted(q)'
        PROVE  serving'[q].now < clock' /\ \A i \in 1..Len(calls') : calls'[i] # serving'[q].now
    <3>1. q # p /\ Uncounted(q) /\ serving'[q].now = serving[q].now
      BY <1>5, <2>3
    <3>2. serving[q].now < clock /\ serving[q].now # now /\ \A i \in 1..n : calls[i] # serving[q].now
      BY <1>1, <3>1 DEF LimitInv, TimesDiffer, now, n
    <3>3. ASSUME NEW i \in 1..Len(calls') PROVE calls'[i] # serving[q].now
      BY <1>3, <1>6, <3>2
    <3> QED BY <1>4, <3>1, <3>2, <3>3
  <2>4. \A q, r \in Servers : Uncounted(q)' /\ Uncounted(r)' /\ serving'[q].now = serving'[r].now => q = r
    BY <1>5 DEF LimitInv, TimesDiffer
  <2> QED BY <2>1, <2>2, <2>3, <2>4 DEF TimesDiffer
<1>9. SetMatchesList'
  <2> DEFINE cut == Stamped(serving[p].seen, max_api_calls - 1)
  <2>1. callset = {calls[i] : i \in 1..n}
    BY DEF LimitInv, SetMatchesList, n
  <2>2. callset' = (callset \cup {now}) \ cut
    BY DEF Pushed, now
  <2>3. Len(calls') <= max_api_calls
    BY <1>1, <1>3, MaxCalls
  <2>4. CASE n < max_api_calls
    <3>1. cut = {}
      BY <1>1, <2>4, MaxCalls DEF Stamped, n
    <3>2. ASSUME NEW c \in callset' PROVE \E i \in 1..Len(calls') : calls'[i] = c
      <4>1. CASE c = now
        BY <1>3, <4>1
      <4>2. ASSUME NEW i \in 1..n, c = calls[i] PROVE \E k \in 1..Len(calls') : calls'[k] = c
        <5>1. i + 1 \in 2..Len(calls') /\ (i + 1) - 1 = i /\ i + 1 \in 1..Len(calls')
          BY <1>1, <1>3, <2>4
        <5>2. calls'[i + 1] = calls[i]
          BY <1>3, <5>1
        <5> QED BY <4>2, <5>1, <5>2
      <4> QED BY <2>1, <2>2, <4>1, <4>2
    <3>3. ASSUME NEW i \in 1..Len(calls') PROVE calls'[i] \in callset'
      BY <1>3, <1>6, <2>1, <2>2, <3>1
    <3> QED BY <2>3, <3>2, <3>3 DEF SetMatchesList, max_api_calls
  <2>5. CASE n = max_api_calls
    <3>1. n > 0 /\ n \in 1..n /\ cut = {calls[n]} /\ Len(calls') = n
      <4>1. max_api_calls - 1 < n /\ (max_api_calls - 1) + 1 = n
        BY <2>5, MaxCalls
      <4>2. cut = {serving[p].seen[n]}
        BY <4>1 DEF Stamped, n
      <4> QED BY <1>1, <1>3, <2>5, <4>2, MaxCalls
    <3>2. ASSUME NEW c \in callset' PROVE \E i \in 1..Len(calls') : calls'[i] = c
      <4>1. CASE c = now
        BY <1>3, <4>1
      <4>2. ASSUME NEW i \in 1..n, c = calls[i] PROVE \E k \in 1..Len(calls') : calls'[k] = c
        <5>1. i # n
          BY <2>2, <3>1, <4>2
        <5>2. i + 1 \in 2..Len(calls') /\ (i + 1) - 1 = i /\ i + 1 \in 1..Len(calls')
          BY <1>1, <3>1, <5>1
        <5>3. calls'[i + 1] = calls[i]
          BY <1>3, <5>2
        <5> QED BY <4>2, <5>2, <5>3
      <4> QED BY <2>1, <2>2, <4>1, <4>2
    <3>3. ASSUME NEW i \in 1..Len(calls') PROVE calls'[i] \in callset'
      <4>1. CASE i = 1
        BY <1>2, <1>3, <2>2, <3>1, <4>1
      <4>2. CASE i \in 2..Len(calls')
        <5>1. i - 1 \in 1..n /\ i - 1 # n /\ calls'[i] = calls[i - 1]
          BY <1>1, <1>3, <3>1, <4>2
        <5>2. calls[i - 1] # calls[n]
          BY <3>1, <5>1 DEF LimitInv, TimesDiffer, n
        <5> QED BY <2>1, <2>2, <3>1, <5>1, <5>2
      <4> QED BY <1>6, <4>1, <4>2
    <3> QED BY <2>3, <3>2, <3>3 DEF SetMatchesList, max_api_calls
  <2> QED BY <1>1, <2>4, <2>5, MaxCalls
<1> QED BY <1>7, <1>8, <1>9 DEF LimitInv

\* Time passes.
LEMMA TickStep ==
  ASSUME LimitInv, Tick
  PROVE  LimitInv'
<1>1. clock' = clock + 1 /\ clock \in Nat /\ UNCHANGED serving
  BY ClockStep DEF Tick, LimitInv, LimitTypeOK
<1>2. /\ calls' \in CallLists /\ SetMatchesList'
      /\ \A i \in 1..Len(calls') : i \in 1..Len(calls) /\ calls'[i] = calls[i]
  BY ClockStep DEF Tick
<1>3. LimitTypeOK'
  BY <1>1, <1>2 DEF LimitInv, LimitTypeOK
<1>4. TimesDiffer'
  <2>1. \A i \in 1..Len(calls') : i \in 1..Len(calls) /\ calls'[i] = calls[i] /\ calls[i] \in Nat
    BY <1>2 DEF LimitInv, LimitTypeOK, CallLists
  <2>2. \A i \in 1..Len(calls') : calls'[i] < clock'
    BY <1>1, <2>1 DEF LimitInv, TimesDiffer
  <2>3. \A i, j \in 1..Len(calls') : calls'[i] = calls'[j] => i = j
    BY <2>1 DEF LimitInv, TimesDiffer
  <2>4. ASSUME NEW q \in Servers, Uncounted(q)'
        PROVE  serving'[q].now < clock' /\ \A i \in 1..Len(calls') : calls'[i] # serving'[q].now
    <3>1. Uncounted(q) /\ serving'[q].now = serving[q].now /\ serving[q].now \in Nat
      BY <1>1, <2>4 DEF Uncounted, LimitInv, LimitTypeOK, CallRecords
    <3> QED BY <1>1, <2>1, <3>1 DEF LimitInv, TimesDiffer
  <2>5. \A q, r \in Servers : Uncounted(q)' /\ Uncounted(r)' /\ serving'[q].now = serving'[r].now => q = r
    BY <1>1 DEF LimitInv, TimesDiffer, Uncounted
  <2> QED BY <2>2, <2>3, <2>4, <2>5 DEF TimesDiffer
<1> QED BY <1>2, <1>3, <1>4 DEF LimitInv

\* Every step keeps the counts.
LEMMA LimitInvNext == LimitInv /\ [LimitsNext]_limitVars => LimitInv'
<1> SUFFICES ASSUME LimitInv, [LimitsNext]_limitVars PROVE LimitInv'
  OBVIOUS
<1>1. ASSUME NEW p \in Servers, RateLimited(p) \/ WatchList(p) \/ api_calls_left(p) \/ AnswerCall(p)
      PROVE  LimitInv'
  <2>0. serving[p] \in CallRecords /\ serving \in [Servers -> CallRecords] /\ calls \in CallLists
    BY DEF LimitInv, LimitTypeOK, CallLists
  <2>1. CASE RateLimited(p)
    <3> DEFINE call == [serving[p] EXCEPT !.step = "refused"]
    <3>1. call \in CallRecords /\ call.step = "refused"
      BY <2>0 DEF CallRecords
    <3>2. serving' = [serving EXCEPT ![p] = call]
      BY <2>0, <2>1 DEF RateLimited
    <3> HIDE DEF call
    <3> QED BY <2>1, <3>1, <3>2, CallMoves DEF RateLimited
  <2>2. CASE WatchList(p)
    <3> DEFINE call == [serving[p] EXCEPT !.step = "exec", !.seen = calls]
    <3>1. call \in CallRecords /\ call.now = serving[p].now
      BY <2>0 DEF CallRecords
    <3>2. serving' = [serving EXCEPT ![p] = call]
      BY <2>0, <2>2 DEF WatchList
    <3>3. Uncounted(p)
      BY <2>2 DEF WatchList, Uncounted
    <3> HIDE DEF call
    <3> QED BY <2>2, <3>1, <3>2, <3>3, CallMoves DEF WatchList
  <2>3. CASE api_calls_left(p)
    <3> DEFINE left == max_api_calls - Cardinality({c \in callset : c >= clock - max_api_window /\ c <= clock})
               call == [serving[p] EXCEPT !.step = "answer", !.left = left]
    <3>1. left \in Int
      <4> DEFINE recent == {c \in callset : c >= clock - max_api_window /\ c <= clock}
      <4>1. recent \in SUBSET Nat /\ clock \in Nat /\ \A c \in recent : c <= clock
        BY DEF LimitInv, LimitTypeOK, SetMatchesList, CallLists
      <4> HIDE DEF recent
      <4>2. Cardinality(recent) \in Nat
        BY <4>1, FS_BoundedSetOfNaturals, FS_CardinalityType
      <4> QED BY <4>2, MaxCalls DEF recent
    <3>2. serving' = [serving EXCEPT ![p] = call]
      BY <2>0, <2>3 DEF api_calls_left
    <3> HIDE DEF left
    <3>3. call \in CallRecords /\ call.step = "answer"
      BY <2>0, <3>1 DEF CallRecords
    <3> HIDE DEF call
    <3> QED BY <2>3, <3>2, <3>3, CallMoves DEF api_calls_left
  <2>4. CASE AnswerCall(p)
    <3> QED BY <2>4, IdleTyped, CallMoves DEF AnswerCall
  <2> QED BY <1>1, <2>1, <2>2, <2>3, <2>4
<1>2. ASSUME NEW p \in Servers, incr_ratelimit(p) PROVE LimitInv'
  <2>1. CASE calls = serving[p].seen /\ Pushed(p)
    BY <1>2, <2>1, PushStep DEF incr_ratelimit
  <2>2. CASE calls # serving[p].seen
    <3>0. serving[p] \in CallRecords /\ serving \in [Servers -> CallRecords]
      BY DEF LimitInv, LimitTypeOK
    <3>1. CASE serving' = [serving EXCEPT ![p].step = "counted"]
      <4> DEFINE call == [serving[p] EXCEPT !.step = "counted"]
      <4>1. call \in CallRecords /\ call.step = "counted"
        BY <3>0 DEF CallRecords
      <4>2. serving' = [serving EXCEPT ![p] = call]
        BY <3>0, <3>1
      <4> HIDE DEF call
      <4> QED BY <1>2, <2>2, <4>1, <4>2, CallMoves DEF incr_ratelimit
    <3>2. CASE serving' = [serving EXCEPT ![p].step = "watch", ![p].conflicts = @ + 1]
      <4> DEFINE call == [serving[p] EXCEPT !.step = "watch", !.conflicts = @ + 1]
      <4>1. call \in CallRecords /\ call.now = serving[p].now
        <5>1. serving[p].conflicts \in Nat /\ serving[p].conflicts + 1 \in Nat
          BY <3>0 DEF CallRecords
        <5> DEFINE more == serving[p].conflicts + 1
        <5>2. call = [serving[p] EXCEPT !.step = "watch", !.conflicts = more]
          OBVIOUS
        <5> HIDE DEF more, call
        <5>3. more \in Nat
          BY <5>1 DEF more
        <5> QED BY <3>0, <5>2, <5>3 DEF CallRecords
      <4>2. serving' = [serving EXCEPT ![p] = call]
        BY <3>0, <3>2
      <4>3. Uncounted(p)
        BY <1>2 DEF incr_ratelimit, Uncounted
      <4> HIDE DEF call
      <4> QED BY <1>2, <2>2, <4>1, <4>2, <4>3, CallMoves DEF incr_ratelimit
    <3> QED BY <1>2, <2>2, <3>1, <3>2 DEF incr_ratelimit
  <2> QED BY <1>2, <2>1, <2>2 DEF incr_ratelimit
<1>3. ASSUME UNCHANGED <<clock, calls, callset, serving>> PROVE LimitInv'
  BY <1>3 DEF LimitInv, LimitTypeOK, TimesDiffer, SetMatchesList, Uncounted, max_api_calls
<1>4. CASE block_user \/ unblock_user \/ UNCHANGED limitVars
  BY <1>3, <1>4 DEF block_user, unblock_user, limitVars
<1> QED BY <1>1, <1>2, <1>4, AdmitStep, TickStep DEF LimitsNext

\* The list and the set of a user's calls in redis name the same calls, however the optimistic
\* transactions of any number of processes interleave and whenever the keys expire.
THEOREM ListAndSetAgree == LimitsSpec => []SetMatchesList
<1>1. LimitInv => SetMatchesList
  BY DEF LimitInv
<1> QED BY <1>1, LimitInvInit, LimitInvNext, PTL DEF LimitsSpec

-----------------------------------------------------------------------------
(* RateLimiter: how many calls a window of a rule lets in.  Look at the calls *)
(* after a time T.  They are let in only while the list shows a gap at the   *)
(* rule's place: no call, or one that is not after T.  The gaps are used up  *)
(* by the pushes of calls after T; a call from before T that is pushed late  *)
(* makes another one.  When a run of gaps ends, every process may have let   *)
(* one call more in.  The potential counts what has come and what may come.  *)

\* The processes with a call that is not counted yet; those whose call is from before T.
UnderWay == {p \in Servers : Uncounted(p)}
Old(T) == {p \in UnderWay : serving[p].now <= T}

\* The calls that were pushed; those of them after T.
Counted == (admitted \ uncounted) \ {serving[p].now : p \in UnderWay}
Seen(T) == {c \in Counted : c > T}

\* The places of the list, up to the r-th, that show no call after T; where they begin after one that does.
Gaps(r, T) == {k \in 1..r : k > Len(calls) \/ calls[k] <= T}
Runs(r, T) == {k \in Gaps(r, T) : k = 1 \/ k - 1 \notin Gaps(r, T)}

Processes == Cardinality(Servers)

Potential(r, T) ==
  Cardinality(Seen(T)) + Cardinality(Gaps(r, T)) + (Processes - 1) * (Cardinality(Runs(r, T)) + Cardinality(Old(T)))
  + (IF r \in Gaps(r, T) THEN 0 ELSE Cardinality(UnderWay))

Limit(r) == r + Processes * (Processes - 1)

\* While calls of the window may still come.
Bounded(r, w, T) == clock <= T + w + 1 => Seen(T) = {} \/ Potential(r, T) <= Limit(r)

\* Every call is past; one that is neither under way nor given up was pushed, and the keys outlive its window.
HistoryInv ==
  /\ admitted \in SUBSET Nat /\ uncounted \subseteq admitted /\ \A c \in admitted : c < clock
  /\ \A p \in Servers : Uncounted(p) => serving[p].now \in admitted \ uncounted
  /\ \A i \in 1..Len(calls) : calls[i] \in Counted
  /\ expires \in Nat /\ \A c \in Counted : expires > c + max_api_window

\* The rules whose place is on the list.
Shown == {i \in 1..Len(Rules) : Rules[i][2] <= max_api_calls}

\* A window that ends lets nothing more in.
WindowInv ==
  \A i \in Shown : \A T \in Int :
    /\ Bounded(Rules[i][2], Rules[i][1], T)
    /\ Cardinality({c \in admitted \ uncounted : T < c /\ c <= T + Rules[i][1]}) <= Limit(Rules[i][2])

CallsInv == LimitInv /\ HistoryInv /\ WindowInv

\* A rule that is on the list.
LEMMA ShownRule ==
  ASSUME NEW i \in Shown
  PROVE  Rules[i][1] \in Nat /\ Rules[i][2] \in Nat \ {0} /\ Rules[i][1] <= max_api_window /\ Rules[i][2] <= max_api_calls
<1>1. i \in 1..Len(Rules) /\ Rules[i] \in Nat \X (Nat \ {0})
  BY RateConstants DEF Shown
<1>2. Rules[Len(Rules)] \in Nat \X (Nat \ {0}) /\ Len(Rules) \in Nat
  BY RateConstants
<1>3. i = Len(Rules) \/ (i < Len(Rules) /\ Len(Rules) \in 1..Len(Rules))
  BY <1>1, <1>2
<1>4. Rules[i][1] <= Rules[Len(Rules)][1]
  BY <1>1, <1>2, <1>3, RateConstants
<1> QED BY <1>1, <1>4 DEF Shown, max_api_calls, max_api_window

\* The sets of the potential are finite.
LEMMA Counts ==
  ASSUME LimitInv, HistoryInv, NEW r \in Nat \ {0}, NEW T \in Int
  PROVE  /\ IsFiniteSet(Seen(T)) /\ Cardinality(Seen(T)) \in Nat
         /\ IsFiniteSet(UnderWay) /\ Cardinality(UnderWay) \in Nat
         /\ IsFiniteSet(Old(T)) /\ Cardinality(Old(T)) \in Nat
         /\ IsFiniteSet(Gaps(r, T)) /\ Cardinality(Gaps(r, T)) \in Nat
         /\ IsFiniteSet(Runs(r, T)) /\ Cardinality(Runs(r, T)) \in Nat
         /\ Processes \in Nat /\ Cardinality(UnderWay) <= Processes
<1>1. IsFiniteSet(Servers) /\ UnderWay \in SUBSET Servers /\ Old(T) \in SUBSET Servers
  BY RateConstants DEF UnderWay, Old
<1>2. IsFiniteSet(UnderWay) /\ IsFiniteSet(Old(T)) /\ Cardinality(UnderWay) <= Processes
  BY <1>1, FS_Subset DEF Processes
<1>3. Cardinality(UnderWay) \in Nat /\ Cardinality(Old(T)) \in Nat /\ Processes \in Nat
  BY <1>1, <1>2, FS_CardinalityType DEF Processes
<1>6. IsFiniteSet(Seen(T)) /\ Cardinality(Seen(T)) \in Nat
  <2>0. Seen(T) \subseteq admitted
    BY DEF Seen, Counted
  <2>1. Seen(T) \in SUBSET Nat /\ clock \in Nat /\ \A c \in Seen(T) : c < clock /\ c \in Nat
    BY <2>0 DEF HistoryInv, LimitInv, LimitTypeOK
  <2>2. \A c \in Seen(T) : c <= clock
    BY <2>1
  <2> QED BY <2>1, <2>2, FS_BoundedSetOfNaturals, FS_CardinalityType
<1>7. IsFiniteSet(1..r)
  BY FS_Interval
<1>8. Gaps(r, T) \in SUBSET (1..r) /\ Runs(r, T) \in SUBSET (1..r)
  BY DEF Gaps, Runs
<1>9. IsFiniteSet(Gaps(r, T)) /\ IsFiniteSet(Runs(r, T))
  BY <1>7, <1>8, FS_Subset
<1> QED BY <1>2, <1>3, <1>6, <1>9, FS_CardinalityType

\* A nonempty set of naturals has a least one.
LEMMA LeastOf ==
  ASSUME NEW T \in SUBSET Nat, T # {}
  PROVE  \E n \in T : \A m \in T : n <= m
<1>1. \E n \in T : \A m \in T : ~(<<m, n>> \in OpToRel(<, Nat))
  BY NatLessThanWellFounded, WFMin, Zenon
<1>2. \A m, n \in Nat : <<m, n>> \in OpToRel(<, Nat) <=> m < n
  BY DEF OpToRel
<1>3. \A m, n \in T : ~(m < n) => n <= m
  OBVIOUS
<1> QED BY <1>1, <1>2, <1>3, Zenon

\* Products of natural numbers.
LEMMA Products ==
  ASSUME NEW a \in Nat, NEW b \in Nat
  PROVE  a * b \in Nat /\ (b >= 1 => a * b >= a) /\ a * (b + 1) = a * b + a
<1>1. a * b \in Nat /\ a * (b + 1) = a * b + a
  OBVIOUS
<1>2. ASSUME b >= 1 PROVE a * b >= a
  <2> DEFINE c == b - 1
  <2>1. c \in Nat /\ b = c + 1
    BY <1>2
  <2>2. a * c \in Nat
    BY <2>1
  <2>3. a * b = a * c + a
    BY <2>1
  <2> QED BY <2>2, <2>3
<1> QED BY <1>1, <1>2

\* There is a process; with the calls under way alone no window is full.
LEMMA OneEach == Processes \in Nat /\ Processes >= 1 /\ \A r \in Nat \ {0} : Limit(r) \in Nat /\ Processes <= Limit(r)
<1>1. Processes \in Nat /\ Processes # 0
  BY RateConstants, FS_CardinalityType, FS_EmptySet DEF Processes
<1> DEFINE m == Processes - 1
<1>2. m \in Nat /\ Processes = m + 1
  BY <1>1
<1>3. m * m \in Nat
  BY <1>2, Products
<1>4. Processes * (Processes - 1) = m * m + m
  BY <1>2
<1> QED BY <1>1, <1>2, <1>3, <1>4 DEF Limit

\* A list that shows a gap has a first gap of a run.
LEMMA RunExists ==
  ASSUME NEW r \in Nat \ {0}, NEW T \in Int, Gaps(r, T) # {}
  PROVE  Runs(r, T) # {}
<1>1. Gaps(r, T) \in SUBSET Nat
  BY DEF Gaps
<1>2. PICK k \in Gaps(r, T) : \A m \in Gaps(r, T) : k <= m
  BY <1>1, LeastOf
<1>3. k \in Nat /\ k - 1 \notin Gaps(r, T)
  BY <1>1, <1>2
<1> QED BY <1>2, <1>3 DEF Runs

\* While calls of a window may still come, the potential bounds it.
WindowIsBounded ==
  \A r \in Nat \ {0} : \A w \in Nat : \A T \in Int :
    clock <= T + w + 1 /\ Bounded(r, w, T) =>
      Cardinality({c \in admitted \ uncounted : T < c /\ c <= T + w}) <= Limit(r)

\* The calls of a window are those that were pushed and those under way.
LEMMA WindowBounded == LimitInv /\ HistoryInv => WindowIsBounded
<1> SUFFICES ASSUME LimitInv, HistoryInv, NEW r \in Nat \ {0}, NEW w \in Nat, NEW T \in Int,
                    clock <= T + w + 1, Bounded(r, w, T)
             PROVE  Cardinality({c \in admitted \ uncounted : T < c /\ c <= T + w}) <= Limit(r)
  BY DEF WindowIsBounded
<1> DEFINE within == {c \in admitted \ uncounted : T < c /\ c <= T + w}
           f == [p \in UnderWay |-> serving[p].now]
           U == {serving[p].now : p \in UnderWay}
           s == Cardinality(Seen(T))
           y == Cardinality(UnderWay)
           old == Cardinality(Old(T))
           g == Cardinality(Gaps(r, T))
           u == Cardinality(Runs(r, T))
<1>1. s \in Nat /\ y \in Nat /\ old \in Nat /\ g \in Nat /\ u \in Nat /\ Processes \in Nat /\ y <= Processes
  BY Counts
<1>2. Processes >= 1 /\ Limit(r) \in Nat /\ Processes <= Limit(r)
  BY OneEach
<1>3. within \subseteq Seen(T) \cup U
  <2>1. ASSUME NEW c \in within, c \notin Counted PROVE c \in U
    BY <2>1 DEF Counted
  <2> QED BY <2>1 DEF Seen
<1>4. IsFiniteSet(U) /\ Cardinality(U) <= y
  <2>1. f \in Surjection(UnderWay, U)
    BY DEF Surjection
  <2> QED BY <2>1, Counts, FS_Surjection
<1>5. Cardinality(within) <= s + y
  <2>1. IsFiniteSet(Seen(T))
    BY Counts
  <2>2. IsFiniteSet(Seen(T) \cup U) /\ Cardinality(Seen(T) \cup U) = s + Cardinality(U) - Cardinality(Seen(T) \cap U)
    BY <1>4, <2>1, FS_Union
  <2>3. Cardinality(within) <= Cardinality(Seen(T) \cup U) /\ IsFiniteSet(within)
    BY <1>3, <2>2, FS_Subset
  <2>4. IsFiniteSet(Seen(T) \cap U)
    BY <2>1, FS_Intersection
  <2> HIDE DEF within, f, U, s, y
  <2>5. Cardinality(U) \in Nat /\ Cardinality(Seen(T) \cap U) \in Nat /\ Cardinality(within) \in Nat /\ Cardinality(Seen(T) \cup U) \in Nat
    BY <1>4, <2>2, <2>3, <2>4, FS_CardinalityType
  <2> QED BY <1>1, <1>4, <2>2, <2>3, <2>5
<1>6. Cardinality(within) \in Nat
  <2>1. IsFiniteSet(Seen(T) \cup U)
    BY <1>4, Counts, FS_Union
  <2> QED BY <1>3, <2>1, FS_Subset, FS_CardinalityType
<1>7. s + y <= Limit(r)
  <2> DEFINE m == Processes - 1
             x == u + old
  <2>1. m \in Nat /\ Processes = m + 1 /\ x \in Nat /\ m * x \in Nat
    <3> HIDE DEF u, old
    <3>1. m \in Nat /\ Processes = m + 1 /\ x \in Nat
      BY <1>1, <1>2
    <3> QED BY <3>1, Products
  <2>2. CASE Seen(T) = {}
    BY <1>1, <1>2, <2>2, FS_EmptySet
  <2>3. CASE Potential(r, T) <= Limit(r) /\ r \notin Gaps(r, T)
    <3>1. Potential(r, T) = s + g + m * x + y
      BY <2>3 DEF Potential
    <3> HIDE DEF s, y, g, m, x
    <3> QED BY <1>1, <1>2, <2>1, <2>3, <3>1
  <2>4. CASE Potential(r, T) <= Limit(r) /\ r \in Gaps(r, T)
    <3>1. Potential(r, T) = s + g + m * x + 0
      BY <2>4 DEF Potential
    <3>2. g # 0 /\ u # 0
      BY <2>4, RunExists, Counts, FS_EmptySet
    <3> HIDE DEF s, y, g, u, old
    <3>3. x >= 1
      BY <1>1, <3>2
    <3> HIDE DEF m, x
    <3>4. m * x >= m
      BY <2>1, <3>3, Products
    <3> QED BY <1>1, <1>2, <2>1, <2>4, <3>1, <3>2, <3>4
  <2> QED BY <2>2, <2>3, <2>4 DEF Bounded
<1> HIDE DEF within, s, y
<1> QED BY <1>1, <1>2, <1>5, <1>6, <1>7 DEF within

\* What nothing of the window changes for.
LEMMA WindowRests ==
  ASSUME LimitInv, HistoryInv, WindowInv, clock' \in {clock, clock + 1}, UNCHANGED <<admitted, uncounted, expires>>,
         \A p \in Servers : (Uncounted(p)' <=> Uncounted(p)) /\ (Uncounted(p) => serving'[p].now = serving[p].now),
         calls' = calls \/ (calls' = <<>> /\ clock' >= expires)
  PROVE  HistoryInv' /\ WindowInv'
<1>0. UnderWay' = UnderWay
  BY DEF UnderWay
<1>1. Counted' = Counted /\ clock \in Nat /\ clock' \in Nat /\ clock <= clock'
  <2>1. \A p \in UnderWay : serving'[p].now = serving[p].now
    BY DEF UnderWay
  <2>2. {serving'[p].now : p \in UnderWay} = {serving[p].now : p \in UnderWay}
    BY <2>1
  <2>3. Counted' = Counted
    BY <1>0, <2>2 DEF Counted
  <2> QED BY <2>3 DEF LimitInv, LimitTypeOK
<1>2. HistoryInv'
  <2>1. \A c \in admitted : c \in Nat /\ c < clock'
    BY <1>1 DEF HistoryInv
  <2>2. \A i \in 1..Len(calls') : calls'[i] \in Counted'
    BY <1>1 DEF HistoryInv
  <2>3. \A q \in Servers : Uncounted(q)' => serving'[q].now \in admitted' \ uncounted'
    BY DEF HistoryInv
  <2> QED BY <1>1, <2>1, <2>2, <2>3 DEF HistoryInv
<1>3. ASSUME NEW i \in Shown, NEW T \in Int PROVE Bounded(Rules[i][2], Rules[i][1], T)'
  <2> DEFINE r == Rules[i][2]
             w == Rules[i][1]
  <2>0. r \in Nat \ {0} /\ w \in Nat /\ w <= max_api_window /\ max_api_window \in Nat
    BY ShownRule, MaxCalls
  <2>1. Seen(T)' = Seen(T) /\ Old(T)' = Old(T)
    <3>1. \A p \in UnderWay : serving'[p].now = serving[p].now
      BY DEF UnderWay
    <3> QED BY <1>0, <1>1, <3>1 DEF Seen, Old
  <2>2. CASE calls' = calls
    <3>1. Gaps(r, T)' = Gaps(r, T)
      BY <2>2 DEF Gaps
    <3>2. Runs(r, T)' = Runs(r, T)
      BY <3>1 DEF Runs
    <3>3. Potential(r, T)' = Potential(r, T)
      BY <1>0, <2>1, <3>1, <3>2 DEF Potential
    <3>4. Bounded(r, w, T)
      BY DEF WindowInv
    <3> QED BY <1>1, <2>0, <2>1, <3>3, <3>4 DEF Bounded
  <2>3. CASE clock' >= expires
    <3>1. ASSUME NEW c \in Seen(T), clock' <= T + w + 1 PROVE FALSE
      <4>1. c \in Nat /\ c > T /\ expires > c + max_api_window /\ expires \in Nat
        BY DEF Seen, Counted, HistoryInv
      <4> QED BY <1>1, <2>0, <2>3, <3>1, <4>1
    <3> QED BY <2>1, <3>1 DEF Bounded
  <2> QED BY <2>2, <2>3
<1>4. ASSUME NEW i \in Shown, NEW T \in Int
      PROVE  Cardinality({c \in admitted' \ uncounted' : T < c /\ c <= T + Rules[i][1]}) <= Limit(Rules[i][2])
  BY DEF WindowInv
<1> QED BY <1>2, <1>3, <1>4 DEF WindowInv

\* A call is let in: the list shows a gap where the rule looks.
LEMMA WindowAdmits ==
  ASSUME LimitInv, LimitInv', HistoryInv, WindowInv, NEW p \in Servers, rate_limit_user(p)
  PROVE  HistoryInv' /\ WindowInv'
<1>1. /\ clock \in Nat /\ clock' = clock + 1 /\ admitted' = admitted \cup {clock} /\ UNCHANGED <<uncounted, expires>>
      /\ ~Uncounted(p) /\ Uncounted(p)' /\ serving'[p].now = clock
      /\ \A q \in Servers : q # p => serving'[q] = serving[q]
  BY IdleTyped DEF rate_limit_user, ClockMoves, LimitInv, LimitTypeOK, Uncounted, NoCall
<1>2. \A q \in Servers : q # p => (Uncounted(q)' <=> Uncounted(q))
  BY <1>1 DEF Uncounted
<1>3. clock \notin admitted /\ clock \notin uncounted
  BY <1>1 DEF HistoryInv
<1>4. Counted' = Counted
  <2>1. ASSUME NEW c \in Counted' PROVE c \in Counted
    BY <1>1, <1>2, <2>1 DEF Counted, UnderWay
  <2>2. ASSUME NEW c \in Counted PROVE c \in Counted'
    <3>1. c # clock
      BY <1>3 DEF Counted
    <3> QED BY <1>1, <1>2, <2>2, <3>1 DEF Counted, UnderWay
  <2> QED BY <2>1, <2>2
<1>5. calls' = calls \/ (calls' = <<>> /\ clock' >= expires)
  BY DEF rate_limit_user, ClockMoves
<1>6. HistoryInv'
  <2>1. \A c \in admitted' : c \in Nat /\ c < clock'
    BY <1>1 DEF HistoryInv
  <2>2. \A i \in 1..Len(calls') : calls'[i] \in Counted'
    BY <1>4, <1>5 DEF HistoryInv
  <2>3. ASSUME NEW q \in Servers, Uncounted(q)' PROVE serving'[q].now \in admitted' \ uncounted'
    <3>1. CASE q = p
      BY <1>1, <1>3, <3>1
    <3>2. CASE q # p
      BY <1>1, <1>2, <2>3, <3>2 DEF HistoryInv
    <3> QED BY <3>1, <3>2
  <2> QED BY <1>1, <1>4, <2>1, <2>2, <2>3 DEF HistoryInv
<1>7. ASSUME NEW i \in Shown, NEW T \in Int PROVE Bounded(Rules[i][2], Rules[i][1], T)'
  <2> DEFINE r == Rules[i][2]
             w == Rules[i][1]
  <2>0. r \in Nat \ {0} /\ w \in Nat /\ w <= max_api_window /\ max_api_window \in Nat /\ i \in 1..Len(Rules)
    BY ShownRule, MaxCalls DEF Shown
  <2>1. Seen(T)' = Seen(T)
    BY <1>4 DEF Seen
  <2>2. CASE clock <= T
    <3>1. ASSUME NEW c \in Seen(T) PROVE FALSE
      <4>1. c \in Nat /\ c < clock /\ c > T
        BY DEF Seen, Counted, HistoryInv
      <4> QED BY <1>1, <2>2, <4>1
    <3> QED BY <2>1, <3>1 DEF Bounded
  <2>3. CASE clock > T /\ clock' <= T + w + 1 /\ Seen(T) # {}
    <3>1. calls' = calls
      <4>1. PICK c \in Seen(T) : TRUE
        BY <2>3
      <4>2. c \in Nat /\ c > T /\ expires > c + max_api_window /\ expires \in Nat
        BY DEF Seen, Counted, HistoryInv
      <4> QED BY <1>1, <1>5, <2>0, <2>3, <4>2
    <3>2. r \in Gaps(r, T)
      <4>1. CASE r > Len(calls)
        BY <2>0, <4>1 DEF Gaps
      <4>2. CASE r <= Len(calls)
        <5>1. r \in 1..Len(calls) /\ calls[r] \in Nat /\ (r - 1) + 1 = r /\ r - 1 < Len(calls)
          <6> HIDE DEF r
          <6>1. Len(calls) \in Nat /\ \A k \in 1..Len(calls) : calls[k] \in Nat
            BY DEF LimitInv, LimitTypeOK, CallLists
          <6> QED BY <2>0, <4>2, <6>1
        <5>2. ~(calls[r] + w > clock)
          <6>1. \A stamp \in Stamped(calls, Rules[i][2] - 1) : ~(stamp + Rules[i][1] > clock)
            BY <2>0 DEF rate_limit_user, is_ratelimited
          <6>2. calls[r] \in Stamped(calls, r - 1)
            BY <5>1 DEF Stamped
          <6> QED BY <6>1, <6>2
        <5> HIDE DEF r, w
        <5> QED BY <1>1, <2>0, <2>3, <5>1, <5>2 DEF Gaps
      <4> QED BY <2>0, <4>1, <4>2 DEF LimitInv, LimitTypeOK, CallLists
    <3>3. Gaps(r, T)' = Gaps(r, T)
      BY <3>1 DEF Gaps
    <3>4. Runs(r, T)' = Runs(r, T)
      BY <3>3 DEF Runs
    <3>5. Old(T)' = Old(T)
      <4>1. p \notin Old(T) /\ p \notin Old(T)'
        BY <1>1, <2>3 DEF Old, UnderWay
      <4>2. \A q \in Servers : q # p => (q \in Old(T)' <=> q \in Old(T))
        BY <1>1, <1>2 DEF Old, UnderWay
      <4>3. Old(T)' \subseteq Servers /\ Old(T) \subseteq Servers
        BY DEF Old, UnderWay
      <4> QED BY <4>1, <4>2, <4>3
    <3>6. Potential(r, T)' = Potential(r, T)
      BY <2>1, <3>2, <3>3, <3>4, <3>5 DEF Potential
    <3>7. Bounded(r, w, T)
      BY DEF WindowInv
    <3>8. clock <= T + w + 1
      BY <1>1, <2>0, <2>3
    <3> QED BY <2>3, <3>6, <3>7, <3>8 DEF Bounded
  <2>4. CASE ~(clock' <= T + w + 1) \/ Seen(T) = {}
    BY <2>1, <2>4 DEF Bounded
  <2> QED BY <1>1, <2>2, <2>3, <2>4
<1>8. ASSUME NEW i \in Shown, NEW T \in Int
      PROVE  Cardinality({c \in admitted' \ uncounted' : T < c /\ c <= T + Rules[i][1]}) <= Limit(Rules[i][2])
  <2> DEFINE r == Rules[i][2]
             w == Rules[i][1]
             within == {c \in admitted \ uncounted : T < c /\ c <= T + w}
  <2>0. r \in Nat \ {0} /\ w \in Nat
    BY ShownRule
  <2>1. CASE T < clock /\ clock <= T + w
    <3>1. clock' <= T + w + 1
      BY <1>1, <2>0, <2>1
    <3>2. LimitInv' /\ HistoryInv' => WindowIsBounded'
      BY WindowBounded, PTL
    <3>3. Bounded(r, w, T)'
      BY <1>7
    <3> HIDE DEF r, w
    <3>4. Cardinality({c \in admitted' \ uncounted' : T < c /\ c <= T + w}) <= Limit(r)
      BY <1>6, <2>0, <3>1, <3>2, <3>3 DEF WindowIsBounded
    <3> QED BY <3>4 DEF r, w
  <2>2. CASE ~(T < clock /\ clock <= T + w)
    <3>1. {c \in admitted' \ uncounted' : T < c /\ c <= T + w} = within
      BY <1>1, <2>2
    <3> QED BY <3>1 DEF WindowInv
  <2> QED BY <2>1, <2>2
<1> QED BY <1>6, <1>7, <1>8 DEF WindowInv

\* Places that move back by one are as many.
LEMMA Shifted ==
  ASSUME NEW S \in SUBSET Nat, IsFiniteSet(S)
  PROVE  IsFiniteSet({k + 1 : k \in S}) /\ Cardinality({k + 1 : k \in S}) = Cardinality(S)
<1> DEFINE M == {k + 1 : k \in S}
           f == [k \in S |-> k + 1]
<1>1. f \in Bijection(S, M)
  <2>1. f \in [S -> M] /\ \A k, l \in S : f[k] = f[l] => k = l
    OBVIOUS
  <2>2. \A v \in M : \E k \in S : f[k] = v
    OBVIOUS
  <2> HIDE DEF f, M
  <2>3. f \in Surjection(S, M)
    BY <2>1, <2>2 DEF Surjection
  <2>4. f \in Injection(S, M)
    BY <2>1 DEF Injection, IsInjective
  <2> QED BY <2>3, <2>4 DEF Bijection
<1> HIDE DEF f, M
<1>2. Cardinality(S) = Cardinality(M) /\ IsFiniteSet(M)
  BY <1>1, FS_Bijection DEF ExistsBijection
<1> QED BY <1>2 DEF M

\* Products of natural numbers grow with a factor.
LEMMA ProductsGrow ==
  ASSUME NEW m \in Nat, NEW x \in Nat, NEW z \in Nat, z <= x
  PROVE  m * z <= m * x /\ (z + 1 <= x => m * z + m <= m * x)
<1>1. \A a, b \in Nat : a * b \in Nat
  BY Products
<1>2. m * x = m * z + m * (x - z) /\ m * (x - z) \in Nat
  BY <1>1
<1>3. ASSUME z + 1 <= x PROVE m * z + m <= m * x
  <2>1. x - z \in Nat /\ x - z >= 1
    BY <1>3
  <2>2. m * (x - z) >= m
    BY <2>1, Products
  <2> QED BY <1>1, <1>2, <2>2
<1> QED BY <1>1, <1>2, <1>3

\* The requests under way when one of them leaves.
LEMMA CallLeaves ==
  ASSUME LimitInv, NEW p \in Servers, Uncounted(p), serving' = [serving EXCEPT ![p].step = "counted"], NEW T \in Int
  PROVE  /\ UnderWay' = UnderWay \ {p} /\ p \in UnderWay
         /\ \A q \in UnderWay : serving'[q].now = serving[q].now
         /\ \A q \in UnderWay' : serving[q].now # serving[p].now
         /\ Old(T)' = Old(T) \ {p} /\ (p \in Old(T) <=> serving[p].now <= T)
         /\ Cardinality(UnderWay') = Cardinality(UnderWay) - 1
         /\ Cardinality(Old(T)') = Cardinality(Old(T)) - (IF p \in Old(T) THEN 1 ELSE 0)
<1>1. serving'[p].step = "counted" /\ serving'[p].now = serving[p].now /\ \A q \in Servers : q # p => serving'[q] = serving[q]
  BY DEF LimitInv, LimitTypeOK, CallRecords
<1>2. UnderWay' = UnderWay \ {p} /\ p \in UnderWay
  BY <1>1 DEF UnderWay, Uncounted
<1>3. \A q \in UnderWay : serving'[q].now = serving[q].now
  BY <1>1 DEF UnderWay
<1>4. \A q \in UnderWay' : serving[q].now # serving[p].now
  BY <1>2 DEF UnderWay, LimitInv, TimesDiffer
<1>5. Old(T)' = Old(T) \ {p} /\ (p \in Old(T) <=> serving[p].now <= T)
  BY <1>2, <1>3 DEF Old
<1>6. IsFiniteSet(UnderWay) /\ IsFiniteSet(Old(T))
  BY RateConstants, FS_Subset DEF UnderWay, Old
<1>7. Cardinality(UnderWay \ {p}) = Cardinality(UnderWay) - 1
  BY <1>2, <1>6, FS_RemoveElement
<1>8. Cardinality(Old(T) \ {p}) = Cardinality(Old(T)) - (IF p \in Old(T) THEN 1 ELSE 0)
  <2>1. CASE p \in Old(T)
    BY <1>6, <2>1, FS_RemoveElement
  <2>2. CASE p \notin Old(T)
    <3>1. Old(T) \ {p} = Old(T)
      BY <2>2
    <3>2. Cardinality(Old(T)) \in Nat
      BY <1>6, FS_CardinalityType
    <3>3. Cardinality(Old(T)) = Cardinality(Old(T)) - 0
      BY <3>2
    <3> QED BY <2>2, <3>1, <3>3
  <2> QED BY <2>1, <2>2
<1> QED BY <1>2, <1>3, <1>4, <1>5, <1>7, <1>8

\* A call whose counting is given up leaves the window.
LEMMA WindowGivesUp ==
  ASSUME LimitInv, HistoryInv, WindowInv, NEW p \in Servers, Uncounted(p), serving' = [serving EXCEPT ![p].step = "counted"],
         uncounted' = uncounted \cup {serving[p].now}, UNCHANGED <<clock, calls, expires, admitted>>
  PROVE  HistoryInv' /\ WindowInv'
<1> DEFINE now == serving[p].now
<1>1. /\ UnderWay' = UnderWay \ {p} /\ p \in UnderWay
      /\ \A q \in UnderWay : serving'[q].now = serving[q].now
      /\ \A q \in UnderWay' : serving[q].now # now
  <2>1. 0 \in Int
    OBVIOUS
  <2> QED BY <2>1, CallLeaves
<1>2. now \in admitted \ uncounted
  BY DEF HistoryInv
<1>3. Counted' = Counted
  <2>1. {serving[q].now : q \in UnderWay} = {serving'[q].now : q \in UnderWay'} \cup {now}
    BY <1>1
  <2> QED BY <2>1 DEF Counted
<1>4. HistoryInv'
  <2>1. \A q \in Servers : Uncounted(q)' => serving'[q].now \in admitted' \ uncounted'
    <3>1. \A q \in UnderWay' : serving'[q].now \in admitted \ uncounted /\ serving'[q].now # now
      BY <1>1 DEF HistoryInv, UnderWay
    <3> QED BY <3>1 DEF UnderWay
  <2>2. uncounted' \subseteq admitted'
    BY <1>2 DEF HistoryInv
  <2> QED BY <1>3, <2>1, <2>2 DEF HistoryInv
<1>5. ASSUME NEW i \in Shown, NEW T \in Int PROVE Bounded(Rules[i][2], Rules[i][1], T)'
  <2> DEFINE r == Rules[i][2]
             w == Rules[i][1]
             m == Processes - 1
             y == Cardinality(UnderWay)
             old == Cardinality(Old(T))
             u == Cardinality(Runs(r, T))
             sg == Cardinality(Seen(T)) + Cardinality(Gaps(r, T))
  <2>1. r \in Nat \ {0} /\ Limit(r) \in Nat /\ m \in Nat
    BY ShownRule, OneEach
  <2>2. y \in Nat /\ old \in Nat /\ u \in Nat /\ sg \in Nat
    <3> HIDE DEF r
    <3> QED BY <2>1, Counts
  <2>3. y' = y - 1 /\ (old' = old \/ old' = old - 1)
    BY CallLeaves
  <2>4. Seen(T)' = Seen(T) /\ Gaps(r, T)' = Gaps(r, T)
    BY <1>3 DEF Seen, Gaps
  <2>5. Runs(r, T)' = Runs(r, T)
    BY <2>4 DEF Runs
  <2>6. old' \in Nat
    <3>1. IsFiniteSet(Old(T)) /\ Old(T)' \in SUBSET Old(T)
      BY RateConstants, FS_Subset, CallLeaves DEF UnderWay, Old
    <3> QED BY <3>1, FS_Subset, FS_CardinalityType
  <2>7. Potential(r, T) = sg + m * (u + old) + (IF r \in Gaps(r, T) THEN 0 ELSE y)
    BY DEF Potential
  <2>8. Potential(r, T)' = sg + m * (u + old') + (IF r \in Gaps(r, T) THEN 0 ELSE y')
    BY <2>4, <2>5 DEF Potential
  <2> HIDE DEF m, y, old, u, sg
  <2>9. m * (u + old') <= m * (u + old) /\ m * (u + old) \in Nat /\ m * (u + old') \in Nat
    <3>1. u + old' \in Nat /\ u + old \in Nat /\ u + old' <= u + old
      BY <2>2, <2>3, <2>6
    <3> QED BY <2>1, <3>1, Products, ProductsGrow
  <2>10. Potential(r, T)' <= Limit(r) \/ ~(Potential(r, T) <= Limit(r))
    <3> HIDE DEF r
    <3> QED BY <2>1, <2>2, <2>3, <2>7, <2>8, <2>9
  <2>11. Bounded(r, w, T)
    BY DEF WindowInv
  <2> QED BY <2>4, <2>10, <2>11 DEF Bounded
<1>6. ASSUME NEW i \in Shown, NEW T \in Int
      PROVE  Cardinality({c \in admitted' \ uncounted' : T < c /\ c <= T + Rules[i][1]}) <= Limit(Rules[i][2])
  <2> DEFINE all == {c \in admitted \ uncounted : T < c /\ c <= T + Rules[i][1]}
             rest == {c \in admitted \ uncounted' : T < c /\ c <= T + Rules[i][1]}
  <2>1. rest \subseteq all /\ IsFiniteSet(all)
    <3>1. all \in SUBSET Nat /\ clock \in Nat /\ \A c \in all : c <= clock
      BY DEF HistoryInv, LimitInv, LimitTypeOK
    <3> QED BY <3>1, FS_BoundedSetOfNaturals
  <2>2. Cardinality(rest) <= Cardinality(all) /\ Cardinality(rest) \in Nat /\ Cardinality(all) \in Nat
    BY <2>1, FS_Subset, FS_CardinalityType
  <2>3. Cardinality(all) <= Limit(Rules[i][2]) /\ Limit(Rules[i][2]) \in Nat
    BY ShownRule, OneEach DEF WindowInv
  <2> HIDE DEF all
  <2>4. Cardinality(rest) <= Limit(Rules[i][2])
    <3> HIDE DEF rest
    <3> QED BY <2>2, <2>3
  <2> QED BY <2>4
<1> QED BY <1>4, <1>5, <1>6 DEF WindowInv

\* What a push does to the gaps before the r-th place: they move back by one, and a call from before T
\* makes another.
LEMMA GapsMove ==
  ASSUME LimitInv, NEW p \in Servers, Pushed(p), NEW r \in Nat \ {0}, r <= max_api_calls, NEW T \in Int
  PROVE  /\ 1 \in Gaps(r, T)' <=> serving[p].now <= T
         /\ \A k \in 2..r : k \in Gaps(r, T)' <=> k - 1 \in Gaps(r, T)
         /\ Gaps(r, T) \in SUBSET (1..r) /\ Gaps(r, T)' \in SUBSET (1..r)
<1> DEFINE now == serving[p].now
<1>1. /\ calls' \in Seq(Nat) /\ Len(calls') > 0 /\ calls'[1] = now
      /\ Len(calls') = IF Len(calls) < max_api_calls THEN Len(calls) + 1 ELSE max_api_calls
      /\ \A i \in 2..Len(calls') : i - 1 \in 1..Len(calls) /\ calls'[i] = calls[i - 1]
  BY PushedList
<1>2. now \in Nat /\ Len(calls) \in Nat /\ Len(calls') \in Nat /\ max_api_calls \in Nat /\ 1 \in 1..r
  BY <1>1, MaxCalls DEF LimitInv, LimitTypeOK, CallRecords, CallLists
<1> HIDE DEF now
<1>3. 1 \in Gaps(r, T)' <=> now <= T
  BY <1>1, <1>2 DEF Gaps
<1>4. ASSUME NEW k \in 2..r PROVE k \in Gaps(r, T)' <=> k - 1 \in Gaps(r, T)
  <2>1. k \in 1..r /\ k - 1 \in 1..r
    BY <1>2
  <2>2. CASE k <= Len(calls')
    <3>1. k \in 2..Len(calls')
      BY <1>2, <2>2
    <3>2. k - 1 \in 1..Len(calls) /\ calls'[k] = calls[k - 1]
      BY <1>1, <3>1
    <3>3. ~(k > Len(calls')) /\ ~(k - 1 > Len(calls))
      BY <1>2, <2>2, <3>2
    <3> QED BY <2>1, <3>2, <3>3 DEF Gaps
  <2>3. CASE ~(k <= Len(calls'))
    <3>1. k > Len(calls') /\ k - 1 > Len(calls)
      BY <1>1, <1>2, <2>3
    <3> QED BY <2>1, <3>1 DEF Gaps
  <2> QED BY <2>2, <2>3
<1>5. Gaps(r, T) \in SUBSET (1..r) /\ Gaps(r, T)' \in SUBSET (1..r)
  BY DEF Gaps
<1> QED BY <1>3, <1>4, <1>5 DEF now

\* A set of places, with the first one if there is a first.
LEMMA WithFirst ==
  ASSUME NEW S \in SUBSET (Nat \ {0}), IsFiniteSet(S), NEW first \in BOOLEAN,
         NEW M, M \subseteq (IF first THEN {1} ELSE {}) \cup {k + 1 : k \in S}
  PROVE  /\ IsFiniteSet(M)
         /\ Cardinality(M) <= Cardinality(S) + (IF first THEN 1 ELSE 0)
         /\ M = (IF first THEN {1} ELSE {}) \cup {k + 1 : k \in S} => Cardinality(M) = Cardinality(S) + (IF first THEN 1 ELSE 0)
<1> DEFINE moved == {k + 1 : k \in S}
           all == (IF first THEN {1} ELSE {}) \cup moved
<1>1. IsFiniteSet(moved) /\ Cardinality(moved) = Cardinality(S) /\ 1 \notin moved
  BY Shifted
<1>2. Cardinality(S) \in Nat
  BY FS_CardinalityType
<1> HIDE DEF moved
<1>3. IsFiniteSet(all) /\ Cardinality(all) = Cardinality(S) + (IF first THEN 1 ELSE 0)
  <2>1. CASE first
    <3>1. all = moved \cup {1}
      BY <2>1
    <3> QED BY <1>1, <2>1, <3>1, FS_AddElement
  <2>2. CASE ~first
    <3>1. all = moved /\ Cardinality(S) = Cardinality(S) + 0
      BY <1>2, <2>2
    <3> QED BY <1>1, <2>2, <3>1
  <2> QED BY <2>1, <2>2
<1>4. M \subseteq all
  BY DEF moved
<1> HIDE DEF all
<1>5. IsFiniteSet(M) /\ Cardinality(M) <= Cardinality(all)
  BY <1>3, <1>4, FS_Subset
<1> QED BY <1>3, <1>5 DEF all, moved

\* How many gaps and runs of gaps there are after a push.
LEMMA GapsCounted ==
  ASSUME LimitInv, NEW p \in Servers, Pushed(p), NEW r \in Nat \ {0}, r <= max_api_calls, NEW T \in Int
  PROVE  /\ Cardinality(Gaps(r, T)') = Cardinality(Gaps(r, T)) - (IF r \in Gaps(r, T) THEN 1 ELSE 0) + (IF serving[p].now <= T THEN 1 ELSE 0)
         /\ Cardinality(Runs(r, T)') \in Nat
         /\ Cardinality(Runs(r, T)') <= Cardinality(Runs(r, T)) - (IF r \in Runs(r, T) THEN 1 ELSE 0) + (IF serving[p].now <= T THEN 1 ELSE 0)
         /\ r \in Gaps(r, T) /\ r \notin Gaps(r, T)' => r \in Runs(r, T)
<1> DEFINE G == Gaps(r, T)
           R == Runs(r, T)
           first == serving[p].now <= T
<1>1. /\ 1 \in G' <=> first
      /\ \A k \in 2..r : k \in G' <=> k - 1 \in G
      /\ G \in SUBSET (1..r) /\ G' \in SUBSET (1..r)
  BY GapsMove
<1>2. R = {k \in G : k = 1 \/ k - 1 \notin G} /\ R' = {k \in G' : k = 1 \/ k - 1 \notin G'}
  BY DEF Runs
<1>3. first \in BOOLEAN
  OBVIOUS
<1> HIDE DEF G, R, first
<1>4. IsFiniteSet(1..r)
  BY FS_Interval
<1>5. IsFiniteSet(G) /\ IsFiniteSet(R) /\ IsFiniteSet(G \ {r}) /\ IsFiniteSet(R \ {r})
  <2>1. \A S \in SUBSET (1..r) : IsFiniteSet(S)
    BY <1>4, FS_Subset
  <2> QED BY <1>1, <1>2, <2>1
<1>6. \A S : IsFiniteSet(S) => Cardinality(S \ {r}) = Cardinality(S) - (IF r \in S THEN 1 ELSE 0)
  <2> SUFFICES ASSUME NEW S, IsFiniteSet(S) PROVE Cardinality(S \ {r}) = Cardinality(S) - (IF r \in S THEN 1 ELSE 0)
    OBVIOUS
  <2>1. CASE r \in S
    BY <2>1, FS_RemoveElement
  <2>2. CASE r \notin S
    <3>1. S \ {r} = S
      BY <2>2
    <3>2. Cardinality(S) \in Nat
      BY FS_CardinalityType
    <3>3. Cardinality(S) = Cardinality(S) - 0
      BY <3>2
    <3> QED BY <2>2, <3>1, <3>3
  <2> QED BY <2>1, <2>2
<1>7. G' = (IF first THEN {1} ELSE {}) \cup {k + 1 : k \in G \ {r}}
  <2>1. ASSUME NEW k \in G' PROVE k \in (IF first THEN {1} ELSE {}) \cup {j + 1 : j \in G \ {r}}
    <3>1. k = 1 \/ (k \in 2..r /\ k - 1 # r /\ k = (k - 1) + 1)
      BY <1>1
    <3> QED BY <1>1, <3>1
  <2>2. ASSUME NEW k \in G \ {r} PROVE k + 1 \in G'
    <3>1. k + 1 \in 2..r /\ (k + 1) - 1 = k
      BY <1>1
    <3> QED BY <1>1, <3>1
  <2> QED BY <1>1, <2>1, <2>2
<1>8. R' \subseteq (IF first THEN {1} ELSE {}) \cup {k + 1 : k \in R \ {r}}
  <2> SUFFICES ASSUME NEW k \in R' PROVE k \in (IF first THEN {1} ELSE {}) \cup {j + 1 : j \in R \ {r}}
    OBVIOUS
  <2>1. k \in G' /\ (k = 1 \/ k - 1 \notin G') /\ k \in 1..r
    BY <1>1, <1>2
  <2>2. CASE k = 1
    BY <1>1, <2>1, <2>2
  <2>3. CASE k # 1
    <3>1. k \in 2..r /\ k - 1 # r /\ k = (k - 1) + 1
      BY <2>1, <2>3
    <3>2. k - 1 \in G
      BY <1>1, <2>1, <3>1
    <3>3. k - 1 = 1 \/ (k - 1) - 1 \notin G
      <4>1. CASE k - 1 # 1
        <5>1. k - 1 \in 2..r
          BY <2>1, <3>1, <4>1
        <5> QED BY <1>1, <2>1, <2>3, <5>1
      <4> QED BY <4>1
    <3> QED BY <1>2, <3>1, <3>2, <3>3
  <2> QED BY <2>2, <2>3
<1>9. G \ {r} \in SUBSET (Nat \ {0}) /\ R \ {r} \in SUBSET (Nat \ {0})
  <2>1. \A k \in 1..r : k \in Nat \ {0}
    OBVIOUS
  <2>2. R \subseteq G
    BY <1>2
  <2> QED BY <1>1, <2>1, <2>2
<1>10. Cardinality(G') = Cardinality(G \ {r}) + (IF first THEN 1 ELSE 0)
  BY <1>3, <1>5, <1>7, <1>9, WithFirst
<1>11. IsFiniteSet(R') /\ Cardinality(R') <= Cardinality(R \ {r}) + (IF first THEN 1 ELSE 0)
  BY <1>3, <1>5, <1>8, <1>9, WithFirst
<1>12. r \in G /\ r \notin G' => r \in R
  <2>1. ASSUME r \in G, r \notin G', r # 1 PROVE r - 1 \notin G
    <3>1. r \in 2..r
      BY <2>1
    <3> QED BY <1>1, <2>1, <3>1
  <2> QED BY <1>2, <2>1
<1>13. Cardinality(R') \in Nat
  BY <1>11, FS_CardinalityType
<1>14. Cardinality(G \ {r}) = Cardinality(G) - (IF r \in G THEN 1 ELSE 0) /\ Cardinality(R \ {r}) = Cardinality(R) - (IF r \in R THEN 1 ELSE 0)
  BY <1>5, <1>6
<1> QED BY <1>10, <1>11, <1>12, <1>13, <1>14 DEF G, R, first

\* A push does not raise the potential: what it adds to the calls or to the gaps is a gap the less, a call
\* under way the less, or the end of a run of gaps.
LEMMA PotentialKept ==
  ASSUME LimitInv, HistoryInv, NEW p \in Servers, serving[p].step = "exec", Pushed(p),
         NEW r \in Nat \ {0}, r <= max_api_calls, NEW T \in Int,
         Seen(T)' = IF serving[p].now > T THEN Seen(T) \cup {serving[p].now} ELSE Seen(T)
  PROVE  Potential(r, T)' <= Potential(r, T) /\ Potential(r, T) \in Int /\ Potential(r, T)' \in Int
<1> DEFINE now == serving[p].now
           m == Processes - 1
           s == Cardinality(Seen(T))
           y == Cardinality(UnderWay)
           old == Cardinality(Old(T))
           u == Cardinality(Runs(r, T))
           g == Cardinality(Gaps(r, T))
           x == u + old
           bit == IF r \in Gaps(r, T) THEN 1 ELSE 0
           run == IF r \in Runs(r, T) THEN 1 ELSE 0
           stale == IF now <= T THEN 1 ELSE 0
<1>1. m \in Nat /\ Processes = m + 1
  BY OneEach
<1>2. s \in Nat /\ y \in Nat /\ old \in Nat /\ u \in Nat /\ g \in Nat /\ y <= Processes /\ IsFiniteSet(Seen(T))
  BY Counts
<1>3. Uncounted(p) /\ serving' = [serving EXCEPT ![p].step = "counted"] /\ now \in Nat
  BY DEF Uncounted, Pushed, LimitInv, LimitTypeOK, CallRecords
<1>4. y' = y - 1 /\ old' = old - stale /\ p \in UnderWay
  BY <1>3, CallLeaves
<1>5. old' \in Nat /\ y' \in Nat
  <2>1. IsFiniteSet(Old(T)) /\ Old(T)' \in SUBSET Old(T) /\ IsFiniteSet(UnderWay) /\ UnderWay' \in SUBSET UnderWay
    BY <1>3, RateConstants, FS_Subset, CallLeaves DEF UnderWay, Old
  <2> QED BY <2>1, FS_Subset, FS_CardinalityType
<1>6. s' = s + 1 - stale
  <2>1. CASE now > T
    <3>1. now \notin Seen(T)
      BY <1>3, <1>4 DEF Seen, Counted
    <3>2. s' = s + 1
      BY <1>2, <2>1, <3>1, FS_AddElement
    <3> QED BY <1>2, <1>3, <2>1, <3>2
  <2>2. CASE ~(now > T)
    <3>1. s' = s /\ now <= T
      BY <1>3, <2>2
    <3> QED BY <1>2, <3>1
  <2> QED BY <2>1, <2>2
<1>7. g' = g - bit + stale /\ u' \in Nat /\ u' <= u - run + stale /\ (r \in Gaps(r, T) /\ r \notin Gaps(r, T)' => run = 1)
  BY GapsCounted
<1>8. Potential(r, T) = s + g + m * x + (IF r \in Gaps(r, T) THEN 0 ELSE y)
  BY DEF Potential
<1>9. Potential(r, T)' = s' + g' + m * x' + (IF r \in Gaps(r, T)' THEN 0 ELSE y')
  BY DEF Potential
<1>10. run \in {0, 1} /\ stale \in {0, 1} /\ (run = 1 => r \in Gaps(r, T))
  BY DEF Runs
<1>11. bit = 1 <=> r \in Gaps(r, T)
  OBVIOUS
<1>12. bit \in {0, 1}
  OBVIOUS
<1>13. x \in Nat /\ x' \in Nat /\ x' = u' + old'
  BY <1>2, <1>5, <1>7
<1> HIDE DEF now, m, s, y, old, u, g, bit, run, stale, x
<1>14. x' <= x - run
  BY <1>2, <1>4, <1>5, <1>7, <1>10, <1>13 DEF x
<1>15. m * x \in Nat /\ m * x' \in Nat /\ m * x' <= m * x /\ (run = 1 => m * x' + m <= m * x)
  <2>1. x' <= x
    BY <1>10, <1>13, <1>14
  <2>2. run = 1 => x' + 1 <= x
    BY <1>13, <1>14
  <2> QED BY <1>1, <1>13, <2>1, <2>2, Products, ProductsGrow
<1>16. s' + g' = s + g + 1 - bit /\ s' + g' \in Int /\ s + g \in Int
  BY <1>2, <1>6, <1>7, <1>10, <1>12
<1> DEFINE mx == m * x
           mz == m * x'
           here == r \in Gaps(r, T)
           there == r \in Gaps(r, T)'
<1>17. mx \in Nat /\ mz \in Nat /\ mz <= mx /\ (run = 1 => mz + m <= mx)
  BY <1>15
<1>18. Potential(r, T) = s + g + mx + (IF here THEN 0 ELSE y) /\ Potential(r, T)' = s' + g' + mz + (IF there THEN 0 ELSE y')
  BY <1>8, <1>9
<1>19. bit = (IF here THEN 1 ELSE 0) /\ (here /\ ~there => run = 1)
  BY <1>7, <1>11, <1>12
<1>20. here \in BOOLEAN /\ there \in BOOLEAN
  OBVIOUS
<1> HIDE DEF mx, mz, here, there
<1>21. CASE here
  BY <1>1, <1>2, <1>4, <1>5, <1>16, <1>17, <1>18, <1>19, <1>20, <1>21
<1>22. CASE ~here
  BY <1>1, <1>2, <1>4, <1>5, <1>16, <1>17, <1>18, <1>19, <1>20, <1>22
<1> QED BY <1>21, <1>22

\* Before the first call after T is counted, the potential is within the limit.
LEMMA PotentialStarts ==
  ASSUME LimitInv, HistoryInv, NEW p \in Servers, Uncounted(p), NEW r \in Nat \ {0}, NEW T \in Int,
         serving[p].now > T, Seen(T) = {}
  PROVE  Potential(r, T) <= Limit(r)
<1> DEFINE m == Processes - 1
           old == Cardinality(Old(T))
<1>1. m \in Nat /\ Processes = m + 1 /\ Limit(r) = r + Processes * m
  BY OneEach DEF Limit
<1>2. Gaps(r, T) = 1..r
  <2>1. ASSUME NEW k \in 1..r, ~(k > Len(calls)) PROVE calls[k] <= T
    <3>1. k \in 1..Len(calls)
      BY <2>1 DEF LimitInv, LimitTypeOK, CallLists
    <3>2. calls[k] \in Counted /\ calls[k] \in Nat
      BY <3>1 DEF HistoryInv, LimitInv, LimitTypeOK, CallLists
    <3> QED BY <3>2 DEF Seen
  <2> QED BY <2>1 DEF Gaps
<1>3. Runs(r, T) = {1} /\ r \in Gaps(r, T)
  BY <1>2 DEF Runs
<1>4. Cardinality(Gaps(r, T)) = r /\ Cardinality(Runs(r, T)) = 1 /\ Cardinality(Seen(T)) = 0
  <2>1. Cardinality(1..r) = r
    BY FS_Interval
  <2> QED BY <1>2, <1>3, <2>1, FS_Singleton, FS_EmptySet
<1>5. old \in Nat /\ old + 1 <= Processes
  <2>1. Old(T) \in SUBSET (Servers \ {p}) /\ IsFiniteSet(Servers)
    <3>1. serving[p].now \in Nat
      BY DEF LimitInv, LimitTypeOK, CallRecords
    <3>2. p \notin Old(T)
      BY <3>1 DEF Old
    <3> QED BY <3>2, RateConstants DEF Old, UnderWay
  <2>2. Cardinality(Servers \ {p}) = Processes - 1 /\ IsFiniteSet(Servers \ {p})
    BY <2>1, FS_RemoveElement DEF Processes
  <2>3. IsFiniteSet(Old(T)) /\ old <= Processes - 1
    BY <2>1, <2>2, FS_Subset
  <2>4. old \in Nat
    BY <2>3, FS_CardinalityType
  <2> HIDE DEF old
  <2> QED BY <1>1, <2>3, <2>4
<1>6. Potential(r, T) = 0 + r + m * (1 + old) + 0
  BY <1>3, <1>4 DEF Potential
<1> HIDE DEF m, old
<1>7. m * (1 + old) <= m * Processes /\ m * (1 + old) \in Nat /\ m * Processes \in Nat /\ m * Processes = Processes * m
  <2>1. 1 + old \in Nat /\ 1 + old <= Processes /\ Processes \in Nat
    BY <1>1, <1>5
  <2> QED BY <1>1, <2>1, Products, ProductsGrow
<1> QED BY <1>1, <1>6, <1>7

\* A call is counted: what is in the window stays, and its bound.
LEMMA WindowCounts ==
  ASSUME LimitInv, HistoryInv, WindowInv, NEW p \in Servers, serving[p].step = "exec", Pushed(p)
  PROVE  HistoryInv' /\ WindowInv'
<1> DEFINE now == serving[p].now
<1>1. /\ UnderWay' = UnderWay \ {p} /\ p \in UnderWay
      /\ \A q \in UnderWay : serving'[q].now = serving[q].now
      /\ \A q \in UnderWay' : serving[q].now # now
  <2>1. 0 \in Int /\ Uncounted(p) /\ serving' = [serving EXCEPT ![p].step = "counted"]
    BY DEF Uncounted, Pushed
  <2> QED BY <2>1, CallLeaves
<1>2. now \in admitted \ uncounted /\ now \in Nat /\ now < clock /\ clock \in Nat
  BY <1>1 DEF HistoryInv, UnderWay, LimitInv, LimitTypeOK
<1>3. UNCHANGED <<clock, admitted, uncounted>> /\ expires' = clock + max_api_window
  BY DEF Pushed
<1>4. Counted' = Counted \cup {now} /\ now \notin Counted
  <2>1. {serving[q].now : q \in UnderWay} = {serving'[q].now : q \in UnderWay'} \cup {now}
    BY <1>1
  <2>2. now \notin {serving'[q].now : q \in UnderWay'}
    BY <1>1
  <2> QED BY <1>2, <1>3, <2>1, <2>2 DEF Counted
<1>5. HistoryInv'
  <2>1. \A q \in Servers : Uncounted(q)' => serving'[q].now \in admitted' \ uncounted'
    BY <1>1, <1>3 DEF HistoryInv, UnderWay
  <2>2. ASSUME NEW i \in 1..Len(calls') PROVE calls'[i] \in Counted'
    <3>1. i = 1 \/ i \in 2..Len(calls')
      OBVIOUS
    <3>2. CASE i = 1
      BY <1>4, <3>2, PushedList
    <3>3. CASE i \in 2..Len(calls')
      <4>1. i - 1 \in 1..Len(calls) /\ calls'[i] = calls[i - 1]
        BY <3>3, PushedList
      <4> QED BY <1>4, <4>1 DEF HistoryInv
    <3> QED BY <3>1, <3>2, <3>3
  <2>3. ASSUME NEW c \in Counted' PROVE expires' > c + max_api_window
    <3>1. c \in Nat /\ c < clock /\ max_api_window \in Nat
      BY <1>2, <1>4, <2>3, MaxCalls DEF HistoryInv, Counted
    <3> QED BY <1>2, <1>3, <3>1
  <2>4. expires' \in Nat
    BY <1>2, <1>3, MaxCalls
  <2>5. max_api_window' = max_api_window
    BY DEF max_api_window
  <2> QED BY <1>3, <2>1, <2>2, <2>3, <2>4, <2>5 DEF HistoryInv
<1>6. ASSUME NEW r \in Nat \ {0}, r <= max_api_calls, NEW w \in Nat, NEW T \in Int, Bounded(r, w, T)
      PROVE  Bounded(r, w, T)'
  <2>1. Limit(r) \in Nat
    BY OneEach
  <2>2. Seen(T)' = IF now > T THEN Seen(T) \cup {now} ELSE Seen(T)
    BY <1>4 DEF Seen
  <2>4. Potential(r, T)' <= Potential(r, T) /\ Potential(r, T) \in Int /\ Potential(r, T)' \in Int
    BY <1>6, <2>2, PotentialKept
  <2>5. CASE Potential(r, T) <= Limit(r)
    <3>1. Potential(r, T)' <= Limit(r)
      BY <2>1, <2>4, <2>5
    <3> QED BY <3>1 DEF Bounded, Limit
  <2>6. CASE Seen(T) = {} /\ now > T
    <3>1. Potential(r, T) <= Limit(r)
      BY <1>1, <2>6, PotentialStarts DEF UnderWay
    <3>2. Potential(r, T)' <= Limit(r)
      BY <2>1, <2>4, <3>1
    <3> QED BY <3>2 DEF Bounded, Limit
  <2>7. CASE Seen(T) = {} /\ ~(now > T)
    BY <2>2, <2>7 DEF Bounded
  <2>8. CASE ~(clock <= T + w + 1)
    BY <1>3, <2>8 DEF Bounded
  <2> QED BY <1>6, <2>5, <2>6, <2>7, <2>8 DEF Bounded
<1>7. ASSUME NEW i \in Shown, NEW T \in Int
      PROVE  Cardinality({c \in admitted' \ uncounted' : T < c /\ c <= T + Rules[i][1]}) <= Limit(Rules[i][2])
  BY <1>3 DEF WindowInv
<1>8. \A i \in Shown : \A T \in Int : Bounded(Rules[i][2], Rules[i][1], T)'
  <2> SUFFICES ASSUME NEW i \in Shown, NEW T \in Int PROVE Bounded(Rules[i][2], Rules[i][1], T)'
    OBVIOUS
  <2>1. Bounded(Rules[i][2], Rules[i][1], T) /\ Rules[i][2] \in Nat \ {0} /\ Rules[i][1] \in Nat /\ Rules[i][2] <= max_api_calls
    BY ShownRule DEF WindowInv
  <2> QED BY <1>6, <2>1
<1> QED BY <1>5, <1>7, <1>8 DEF WindowInv

\* No call was let in at first.
LEMMA CallsInvInit == LimitsInit => CallsInv
<1> SUFFICES ASSUME LimitsInit PROVE CallsInv
  OBVIOUS
<1>1. HistoryInv
  BY DEF LimitsInit, HistoryInv, Uncounted, NoCall, Counted
<1>2. WindowInv
  <2>1. ASSUME NEW i \in Shown, NEW T \in Int PROVE Bounded(Rules[i][2], Rules[i][1], T)
    <3>1. Seen(T) = {}
      BY DEF LimitsInit, Seen, Counted
    <3> QED BY <3>1 DEF Bounded
  <2>2. ASSUME NEW i \in Shown, NEW T \in Int
        PROVE  Cardinality({c \in admitted \ uncounted : T < c /\ c <= T + Rules[i][1]}) <= Limit(Rules[i][2])
    <3>1. {c \in admitted \ uncounted : T < c /\ c <= T + Rules[i][1]} = {}
      BY DEF LimitsInit
    <3>2. Limit(Rules[i][2]) \in Nat
      BY ShownRule, OneEach
    <3> QED BY <3>1, <3>2, FS_EmptySet
  <2> QED BY <2>1, <2>2 DEF WindowInv
<1> QED BY <1>1, <1>2, LimitInvInit DEF CallsInv

\* Every step keeps the windows.
LEMMA CallsInvNext == CallsInv /\ [LimitsNext]_limitVars => CallsInv'
<1> SUFFICES ASSUME CallsInv, [LimitsNext]_limitVars PROVE CallsInv'
  OBVIOUS
<1>0. LimitInv /\ HistoryInv /\ WindowInv /\ LimitInv' /\ clock \in Nat
  BY LimitInvNext DEF CallsInv, LimitInv, LimitTypeOK
<1>1. ASSUME NEW p \in Servers, RateLimited(p) \/ WatchList(p) \/ api_calls_left(p) \/ AnswerCall(p)
      PROVE  HistoryInv' /\ WindowInv'
  <2>1. UNCHANGED <<clock, calls, admitted, uncounted, expires>> /\ \A q \in Servers : q # p => serving'[q] = serving[q]
    BY <1>0, <1>1 DEF RateLimited, WatchList, api_calls_left, AnswerCall, LimitInv, LimitTypeOK
  <2>2. (Uncounted(p)' <=> Uncounted(p)) /\ (Uncounted(p) => serving'[p].now = serving[p].now)
    BY <1>0, <1>1 DEF RateLimited, WatchList, api_calls_left, AnswerCall, LimitInv, LimitTypeOK, CallRecords, Uncounted, NoCall
  <2>3. \A q \in Servers : (Uncounted(q)' <=> Uncounted(q)) /\ (Uncounted(q) => serving'[q].now = serving[q].now)
    BY <2>1, <2>2 DEF Uncounted
  <2> QED BY <1>0, <2>1, <2>3, WindowRests
<1>2. ASSUME NEW p \in Servers, incr_ratelimit(p) PROVE HistoryInv' /\ WindowInv'
  <2>1. CASE calls = serving[p].seen /\ Pushed(p)
    BY <1>0, <1>2, <2>1, WindowCounts DEF incr_ratelimit
  <2>2. CASE /\ serving' = [serving EXCEPT ![p].step = "counted"] /\ uncounted' = uncounted \cup {serving[p].now}
             /\ UNCHANGED <<clock, calls, expires, admitted>>
    <3>1. Uncounted(p)
      BY <1>2 DEF incr_ratelimit, Uncounted
    <3> QED BY <1>0, <2>2, <3>1, WindowGivesUp
  <2>3. CASE /\ serving' = [serving EXCEPT ![p].step = "watch", ![p].conflicts = @ + 1]
             /\ UNCHANGED <<uncounted, clock, calls, expires, admitted>>
    <3>1. Uncounted(p)
      BY <1>2 DEF incr_ratelimit, Uncounted
    <3>2. serving'[p].step = "watch" /\ serving'[p].now = serving[p].now /\ \A q \in Servers : q # p => serving'[q] = serving[q]
      BY <1>0, <2>3 DEF LimitInv, LimitTypeOK, CallRecords
    <3>3. \A q \in Servers : (Uncounted(q)' <=> Uncounted(q)) /\ (Uncounted(q) => serving'[q].now = serving[q].now)
      BY <3>1, <3>2 DEF Uncounted
    <3> QED BY <1>0, <2>3, <3>3, WindowRests
  <2> QED BY <1>2, <2>1, <2>2, <2>3 DEF incr_ratelimit
<1>3. ASSUME UNCHANGED <<clock, calls, serving, admitted, uncounted, expires>> PROVE HistoryInv' /\ WindowInv'
  <2>1. \A q \in Servers : (Uncounted(q)' <=> Uncounted(q)) /\ (Uncounted(q) => serving'[q].now = serving[q].now)
    BY <1>3 DEF Uncounted
  <2> QED BY <1>0, <1>3, <2>1, WindowRests
<1>4. ASSUME block_user \/ unblock_user \/ UNCHANGED limitVars PROVE HistoryInv' /\ WindowInv'
  BY <1>3, <1>4 DEF block_user, unblock_user, limitVars
<1>5. ASSUME Tick PROVE HistoryInv' /\ WindowInv'
  <2>1. \A q \in Servers : (Uncounted(q)' <=> Uncounted(q)) /\ (Uncounted(q) => serving'[q].now = serving[q].now)
    BY <1>5 DEF Tick, Uncounted
  <2>2. clock' = clock + 1 /\ UNCHANGED <<admitted, uncounted, expires>> /\ (calls' = calls \/ (calls' = <<>> /\ clock' >= expires))
    BY <1>5 DEF Tick, ClockMoves
  <2> QED BY <1>0, <2>1, <2>2, WindowRests
<1>6. ASSUME NEW p \in Servers, rate_limit_user(p) PROVE HistoryInv' /\ WindowInv'
  BY <1>0, <1>6, WindowAdmits
<1>7. HistoryInv' /\ WindowInv'
  BY <1>1, <1>2, <1>4, <1>5, <1>6 DEF LimitsNext
<1> QED BY <1>0, <1>7 DEF CallsInv

\* Any rule: one whose place is past the end of the list is kept by the longest one.
LEMMA WindowsKept == CallsInv => WindowRespected
<1> SUFFICES ASSUME CallsInv, NEW i \in 1..Len(Rules), NEW t \in admitted
             PROVE  Cardinality({c \in admitted \ uncounted : c <= t /\ c > t - Rules[i][1]})
                    <= Rules[i][2] + Cardinality(Servers) * (Cardinality(Servers) - 1)
  BY DEF WindowRespected
<1> DEFINE last == Len(Rules)
           w == Rules[i][1]
           r == Rules[i][2]
           within == {c \in admitted \ uncounted : c <= t /\ c > t - w}
<1>1. Rules[i] \in Nat \X (Nat \ {0}) /\ last \in 1..Len(Rules) /\ Rules[last] \in Nat \X (Nat \ {0}) /\ w <= Rules[last][1]
  <2>1. i = last \/ i < last
    BY RateConstants
  <2> QED BY <2>1, RateConstants
<1>2. t \in Nat /\ w \in Nat /\ r \in Nat \ {0} /\ admitted \in SUBSET Nat
  BY <1>1 DEF CallsInv, HistoryInv
<1>3. CASE r <= max_api_calls
  <2>1. i \in Shown /\ t - w \in Int
    BY <1>2, <1>3 DEF Shown
  <2>2. within = {c \in admitted \ uncounted : t - w < c /\ c <= (t - w) + w}
    BY <1>2
  <2> QED BY <2>1, <2>2 DEF CallsInv, WindowInv, Limit, Processes
<1>4. CASE ~(r <= max_api_calls)
  <2> DEFINE long == Rules[last][1]
             most == Rules[last][2]
             wide == {c \in admitted \ uncounted : t - long < c /\ c <= (t - long) + long}
  <2>1. last \in Shown /\ long \in Nat /\ most \in Nat \ {0} /\ most = max_api_calls /\ w <= long
    BY <1>1, MaxCalls DEF Shown, max_api_calls
  <2>2. within \subseteq wide
    <3> SUFFICES ASSUME NEW c \in within PROVE c \in wide
      OBVIOUS
    <3>1. c \in admitted \ uncounted /\ c \in Nat /\ c <= t /\ c > t - w
      BY <1>2
    <3> HIDE DEF within, w, long
    <3>2. t - long < c /\ c <= (t - long) + long
      BY <1>2, <2>1, <3>1
    <3> QED BY <3>1, <3>2
  <2>3. t - long \in Int
    BY <1>2, <2>1
  <2>4. Cardinality(wide) <= Limit(most)
    BY <2>1, <2>3 DEF CallsInv, WindowInv
  <2>5. IsFiniteSet(wide)
    <3>1. wide \in SUBSET Nat /\ (t - long) + long = t
      <4>1. wide \in SUBSET Nat
        BY <1>2
      <4> HIDE DEF long
      <4> QED BY <1>2, <2>1, <4>1
    <3>2. \A c \in wide : c <= t
      BY <3>1
    <3> QED BY <1>2, <3>1, <3>2, FS_BoundedSetOfNaturals
  <2> HIDE DEF within, wide
  <2>6. Cardinality(within) <= Cardinality(wide) /\ Cardinality(within) \in Nat /\ Cardinality(wide) \in Nat
    BY <2>2, <2>5, FS_Subset, FS_CardinalityType
  <2>7. Limit(most) <= Limit(r) /\ Limit(most) \in Nat /\ Limit(r) \in Nat
    <3> HIDE DEF r, most
    <3>1. Limit(most) \in Nat /\ Limit(r) \in Nat
      BY <1>2, <2>1, OneEach
    <3>2. most <= r
      BY <1>2, <1>4, <2>1, MaxCalls
    <3>3. Processes \in Nat /\ Processes - 1 \in Nat
      BY OneEach
    <3> DEFINE extra == Processes * (Processes - 1)
    <3>4. extra \in Nat
      BY <3>3, Products
    <3> HIDE DEF extra
    <3>5. Limit(most) = most + extra /\ Limit(r) = r + extra
      BY DEF Limit, extra
    <3> QED BY <1>2, <2>1, <3>1, <3>2, <3>4, <3>5
  <2>8. Cardinality(within) <= Limit(r)
    <3> HIDE DEF r, most
    <3> QED BY <2>4, <2>6, <2>7
  <2> QED BY <2>8 DEF within, Limit, Processes
<1> QED BY <1>3, <1>4

\* What redis has of a user stays whole, and no window of any rule admits more calls than the rule says and
\* one for each ordered pair of processes, for any rules, processes and conflicts.
THEOREM LimiterStaysSound == LimitsSpec => []LimiterSound
<1>1. CallsInv => LimiterSound
  BY WindowsKept DEF CallsInv, LimitInv, LimiterSound
<1> QED BY <1>1, CallsInvInit, CallsInvNext, PTL DEF LimitsSpec

-----------------------------------------------------------------------------
(* Accounts.                                                                 *)


Places == Realms \cup {None}
OrgRows == [exists : BOOLEAN, deactivated : BOOLEAN, invite_required : BOOLEAN]
AccountRows == [realm : Places, active : BOOLEAN, dummy : BOOLEAN, admin : BOOLEAN]
PreregRows == [email : Emails, referred_by : Places, realm_creation : BOOLEAN, status : {0, 1}]
LinkRows == [prereg : Nat, host : Places, sent : Nat, open : BOOLEAN]
InviteRows == [email : Emails, referrer : Realms]
Registering == {"realm", "user", "counted", "created"}
RegRows == [step : {"idle", "founding"} \cup Registering, email : Emails \cup {None}, prereg : Nat, realm : Places,
            dummy : BOOLEAN, first : BOOLEAN]

AccountsTypeOK ==
  /\ org \in [Realms -> OrgRows] /\ account \in [Emails -> AccountRows]
  /\ preregs \in Seq(PreregRows) /\ links \in Seq(LinkRows) /\ invites \in Seq(InviteRows)
  /\ reg \in [Registrars -> RegRows]
  /\ day \in Nat /\ crashes \in Nat

\* The realms of the start stay; accounts have a realm.
HomesStand ==
  /\ \A r \in Founded : org[r].exists
  /\ \A e \in Emails : account[e].active \/ account[e].dummy => account[e].realm \in Realms

\* A link leads to a row whose address may join where the link leads.
LinkRight(k) ==
  /\ links[k].prereg \in 1..Len(preregs)
  /\ LET line == preregs[links[k].prereg]
     IN line.referred_by = None /\ ~line.realm_creation => links[k].host \in Realms /\ MayJoin(line.email, links[k].host)
LinksRight == \A k \in 1..Len(links) : LinkRight(k)

\* An invitation in the queue has its row.
InviteRight(k) ==
  \E i \in 1..Len(preregs) : preregs[i].email = invites[k].email /\ preregs[i].referred_by = invites[k].referrer
InvitesRight == \A k \in 1..Len(invites) : InviteRight(k)

\* A registration under way may join.
RequestsRight ==
  \A p \in Registrars :
    /\ reg[p].step = "founding" => reg[p].email \in Emails
    /\ reg[p].step \in Registering =>
         /\ reg[p].email \in Emails /\ reg[p].realm \in Realms
         /\ email_allowed_for_realm(reg[p].email, reg[p].realm) /\ MayJoin(reg[p].email, reg[p].realm)
         /\ reg[p].dummy => account[reg[p].email].realm \in Realms

Inhabited(r) == \E e \in Emails : account[e].realm = r
HasAdmin(r) == \E e \in Emails : account[e].realm = r /\ account[e].admin
AdminDue(r) == \E p \in Registrars : reg[p].step = "created" /\ reg[p].first /\ account[reg[p].email].realm = r

\* A realm with accounts has an admin, or a request that is about to make one; who is not
\* the first has somebody before.
AdminsComing ==
  /\ crashes = 0 => \A r \in Realms : Inhabited(r) => HasAdmin(r) \/ AdminDue(r)
  /\ \A p \in Registrars : reg[p].step = "counted" /\ ~reg[p].first => Inhabited(reg[p].realm)

AccountsInv ==
  AccountsTypeOK /\ HomesStand /\ LinksRight /\ InvitesRight /\ RequestsRight /\ JoinedByRight /\ AdminsComing

\* What a step may do to rows, links and accounts: all of them stay.
RowsKept ==
  /\ Len(preregs) <= Len(preregs')
  /\ \A i \in 1..Len(preregs) : /\ preregs'[i].email = preregs[i].email /\ preregs'[i].referred_by = preregs[i].referred_by
                                /\ preregs'[i].realm_creation = preregs[i].realm_creation
LinksKept ==
  /\ Len(links) <= Len(links')
  /\ \A k \in 1..Len(links) : links'[k] = links[k]

\* MayJoin after the step.
MayJoinNext(e, r) ==
  \/ \E i \in DOMAIN preregs' :
       preregs'[i].email = e /\ (r = preregs'[i].referred_by \/ (preregs'[i].realm_creation /\ r \notin Founded))
  \/ \E k \in DOMAIN links' : preregs'[links'[k].prereg].email = e /\ links'[k].open /\ links'[k].host = r

\* Who may join may join later too: rows and links stay.
LEMMA MayJoinStays ==
  ASSUME AccountsTypeOK, AccountsTypeOK', LinksRight, RowsKept, LinksKept, NEW e, NEW r, MayJoin(e, r)
  PROVE  MayJoinNext(e, r)
<1>1. ASSUME NEW i \in DOMAIN preregs, preregs[i].email = e, r = preregs[i].referred_by \/ (preregs[i].realm_creation /\ r \notin Founded)
      PROVE  MayJoinNext(e, r)
  <2>1. i \in 1..Len(preregs) /\ i \in DOMAIN preregs'
    BY <1>1 DEF AccountsTypeOK, RowsKept
  <2> QED BY <1>1, <2>1 DEF MayJoinNext, RowsKept
<1>2. ASSUME NEW k \in DOMAIN links, preregs[links[k].prereg].email = e, links[k].open, links[k].host = r
      PROVE  MayJoinNext(e, r)
  <2>1. k \in 1..Len(links) /\ k \in DOMAIN links'
    BY <1>2 DEF AccountsTypeOK, LinksKept
  <2>2. links[k].prereg \in 1..Len(preregs) /\ links'[k] = links[k]
    BY <2>1 DEF LinksRight, LinkRight, LinksKept
  <2>3. preregs'[links'[k].prereg].email = e
    BY <1>2, <2>2 DEF RowsKept
  <2> QED BY <1>2, <2>1, <2>2, <2>3 DEF MayJoinNext
<1> QED BY <1>1, <1>2 DEF MayJoin

\* At first there are no accounts.
LEMMA AccountsInvInit == AccountsInit => AccountsInv
<1> SUFFICES ASSUME AccountsInit PROVE AccountsInv
  OBVIOUS
<1>1. PICK dummies \in SUBSET Dummy : account = [e \in Emails |->
       IF \E r \in Founded : FirstUser[r] = e
       THEN [realm |-> CHOOSE r \in Founded : FirstUser[r] = e, active |-> TRUE, dummy |-> FALSE, admin |-> TRUE]
       ELSE IF e \in dummies THEN [realm |-> CHOOSE r \in Founded : TRUE, active |-> FALSE, dummy |-> TRUE, admin |-> FALSE]
       ELSE NoAccount]
  BY DEF AccountsInit
<1>2. ASSUME NEW e \in Emails
      PROVE  /\ account[e] \in AccountRows
             /\ account[e] # NoAccount => account[e].realm \in Founded
  <2>1. CASE \E r \in Founded : FirstUser[r] = e
    <3> DEFINE r == CHOOSE r \in Founded : FirstUser[r] = e
    <3>1. r \in Founded /\ r \in Realms
      BY <2>1, AccountConstants
    <3>2. account[e] = [realm |-> r, active |-> TRUE, dummy |-> FALSE, admin |-> TRUE]
      BY <1>1, <2>1
    <3> HIDE DEF r
    <3> QED BY <3>1, <3>2 DEF AccountRows, Places
  <2>2. CASE ~(\E r \in Founded : FirstUser[r] = e) /\ e \in dummies
    <3> DEFINE r == CHOOSE r \in Founded : TRUE
    <3>1. r \in Founded /\ r \in Realms
      BY <2>2, AccountConstants
    <3>2. account[e] = [realm |-> r, active |-> FALSE, dummy |-> TRUE, admin |-> FALSE]
      BY <1>1, <2>2
    <3> HIDE DEF r
    <3> QED BY <3>1, <3>2 DEF AccountRows, Places
  <2>3. CASE ~(\E r \in Founded : FirstUser[r] = e) /\ e \notin dummies
    BY <1>1, <2>3 DEF NoAccount, AccountRows, Places
  <2> QED BY <2>1, <2>2, <2>3
<1>3. AccountsTypeOK
  <2>1. org \in [Realms -> OrgRows]
    BY DEF AccountsInit, OrgRows
  <2>2. account \in [Emails -> AccountRows]
    BY <1>1, <1>2
  <2>3. NoRequest \in RegRows
    BY DEF NoRequest, RegRows, Places
  <2>4. reg \in [Registrars -> RegRows]
    BY <2>3 DEF AccountsInit
  <2> QED BY <2>1, <2>2, <2>4 DEF AccountsTypeOK, AccountsInit
<1>4. HomesStand
  <2>1. NoAccount.active = FALSE /\ NoAccount.dummy = FALSE
    BY DEF NoAccount
  <2>2. \A r \in Founded : org[r].exists
    BY AccountConstants DEF AccountsInit
  <2> QED BY <1>2, <2>1, <2>2, AccountConstants DEF HomesStand
<1>5. LinksRight /\ InvitesRight
  BY DEF AccountsInit, LinksRight, InvitesRight
<1>6. RequestsRight /\ \A p \in Registrars : reg[p].step = "idle"
  BY DEF AccountsInit, RequestsRight, NoRequest, Registering
<1>7. JoinedByRight
  BY DEF AccountsInit, JoinedByRight
<1>8. AdminsComing
  <2>1. ASSUME NEW r \in Realms, Inhabited(r) PROVE HasAdmin(r)
    <3>1. r \in Founded
      <4>1. PICK e \in Emails : account[e].realm = r
        BY <2>1 DEF Inhabited
      <4>2. account[e] # NoAccount
        BY <4>1, AccountConstants DEF NoAccount, None
      <4> QED BY <1>2, <4>1, <4>2
    <3>2. FirstUser[r] \in Emails /\ \A s \in Founded : FirstUser[s] = FirstUser[r] => s = r
      BY <3>1, AccountConstants
    <3>3. (CHOOSE s \in Founded : FirstUser[s] = FirstUser[r]) = r
      BY <3>1, <3>2
    <3>4. account[FirstUser[r]] = [realm |-> CHOOSE s \in Founded : FirstUser[s] = FirstUser[r], active |-> TRUE, dummy |-> FALSE, admin |-> TRUE]
      BY <1>1, <3>1, <3>2
    <3>5. account[FirstUser[r]].realm = r /\ account[FirstUser[r]].admin
      BY <3>3, <3>4
    <3> QED BY <3>2, <3>5 DEF HasAdmin
  <2> QED BY <1>6, <2>1 DEF AdminsComing
<1> QED BY <1>3, <1>4, <1>5, <1>6, <1>7, <1>8 DEF AccountsInv

\* What a link or a row more disturbs.
LEMMA LinksStay ==
  ASSUME AccountsInv, AccountsTypeOK', RowsKept, LinksKept,
         \A k \in 1..Len(links') : k \in 1..Len(links) \/ LinkRight(k)'
  PROVE  LinksRight'
<1>1. ASSUME NEW k \in 1..Len(links) PROVE LinkRight(k)'
  <2> DEFINE i == links[k].prereg
  <2>1. i \in 1..Len(preregs) /\ links'[k] = links[k]
    BY DEF AccountsInv, LinksRight, LinkRight, LinksKept
  <2>2. i \in 1..Len(preregs')
    BY <2>1 DEF RowsKept, AccountsInv, AccountsTypeOK
  <2>3. /\ preregs'[i].email = preregs[i].email /\ preregs'[i].referred_by = preregs[i].referred_by
        /\ preregs'[i].realm_creation = preregs[i].realm_creation
    BY <2>1 DEF RowsKept
  <2>4. preregs[i].referred_by = None /\ ~preregs[i].realm_creation => links[k].host \in Realms /\ MayJoin(preregs[i].email, links[k].host)
    BY DEF AccountsInv, LinksRight, LinkRight
  <2>5. MayJoin(preregs[i].email, links[k].host) => MayJoinNext(preregs[i].email, links[k].host)
    BY MayJoinStays DEF AccountsInv
  <2> HIDE DEF i
  <2>6. links'[k].prereg = i /\ links'[k].host = links[k].host
    BY <2>1 DEF i
  <2>7. ASSUME preregs'[i].referred_by = None, ~preregs'[i].realm_creation
        PROVE  links'[k].host \in Realms /\ MayJoinNext(preregs'[i].email, links'[k].host)
    BY <2>3, <2>4, <2>5, <2>6, <2>7
  <2> QED BY <2>2, <2>6, <2>7 DEF LinkRight, MayJoin, MayJoinNext
<1> QED BY <1>1 DEF LinksRight

\* An invitation stays valid through a step that leaves its rows.
LEMMA InvitesStay ==
  ASSUME AccountsInv, AccountsTypeOK', RowsKept,
         \A k \in 1..Len(invites') : (\E j \in 1..Len(invites) : invites'[k] = invites[j]) \/ InviteRight(k)'
  PROVE  InvitesRight'
<1>1. ASSUME NEW k \in 1..Len(invites'), NEW j \in 1..Len(invites), invites'[k] = invites[j]
      PROVE  InviteRight(k)'
  <2>1. PICK i \in 1..Len(preregs) : preregs[i].email = invites[j].email /\ preregs[i].referred_by = invites[j].referrer
    BY DEF AccountsInv, InvitesRight, InviteRight
  <2>2. i \in 1..Len(preregs')
    BY <2>1 DEF RowsKept, AccountsInv, AccountsTypeOK
  <2> QED BY <1>1, <2>1, <2>2 DEF RowsKept, InviteRight
<1> QED BY <1>1 DEF InvitesRight

\* Accounts and registrations go on.
LEMMA RestStays ==
  ASSUME AccountsInv, AccountsTypeOK', RowsKept, LinksKept, UNCHANGED <<account, joined>>,
         \A r \in Founded : org'[r].exists,
         \A q \in Registrars : reg'[q] = reg[q] \/ reg'[q].step = "idle",
         crashes' = 0 => crashes = 0 /\ \A q \in Registrars : reg'[q] = reg[q] \/ reg[q].step # "created"
  PROVE  HomesStand' /\ RequestsRight' /\ JoinedByRight' /\ AdminsComing'
<1>1. HomesStand'
  BY DEF AccountsInv, HomesStand
<1>2. \A e, r : MayJoin(e, r) => MayJoinNext(e, r)
  BY MayJoinStays DEF AccountsInv
<1>3. RequestsRight'
  <2> SUFFICES ASSUME NEW p \in Registrars
      PROVE /\ reg'[p].step = "founding" => reg'[p].email \in Emails
            /\ reg'[p].step \in Registering =>
                /\ reg'[p].email \in Emails /\ reg'[p].realm \in Realms
                /\ email_allowed_for_realm(reg'[p].email, reg'[p].realm) /\ MayJoinNext(reg'[p].email, reg'[p].realm)
                /\ reg'[p].dummy => account'[reg'[p].email].realm \in Realms
    BY DEF RequestsRight, email_allowed_for_realm, MayJoin, MayJoinNext
  <2>1. CASE reg'[p].step = "idle"
    BY <2>1 DEF Registering
  <2>2. CASE reg'[p] = reg[p]
    <3>1. MayJoin(reg[p].email, reg[p].realm) => MayJoinNext(reg'[p].email, reg'[p].realm)
      BY <1>2, <2>2
    <3> QED BY <2>2, <3>1 DEF AccountsInv, RequestsRight
  <2> QED BY <2>1, <2>2
<1>4. JoinedByRight'
  <2> SUFFICES ASSUME NEW e \in Emails, joined'[e] # 0
      PROVE email_allowed_for_realm(e, account'[e].realm) /\ MayJoinNext(e, account'[e].realm)
    BY DEF JoinedByRight, email_allowed_for_realm, MayJoin, MayJoinNext
  <2> QED BY <1>2 DEF AccountsInv, JoinedByRight
<1>5. AdminsComing'
  <2>1. ASSUME crashes' = 0, NEW r \in Realms, Inhabited(r)' PROVE HasAdmin(r)' \/ AdminDue(r)'
    <3>1. Inhabited(r)
      BY <2>1 DEF Inhabited
    <3>2. HasAdmin(r) \/ AdminDue(r)
      BY <2>1, <3>1 DEF AccountsInv, AdminsComing
    <3>3. HasAdmin(r) => HasAdmin(r)'
      BY DEF HasAdmin
    <3>4. AdminDue(r) => AdminDue(r)'
      BY <2>1 DEF AdminDue
    <3> QED BY <3>2, <3>3, <3>4
  <2>2. ASSUME NEW p \in Registrars, reg'[p].step = "counted", ~reg'[p].first PROVE \E e \in Emails : account'[e].realm = reg'[p].realm
    <3>1. reg'[p] = reg[p]
      BY <2>2
    <3>2. Inhabited(reg[p].realm)
      BY <2>2, <3>1 DEF AccountsInv, AdminsComing
    <3> QED BY <3>1, <3>2 DEF Inhabited
  <2> QED BY <2>1, <2>2 DEF AdminsComing, Inhabited
<1> QED BY <1>1, <1>3, <1>4, <1>5

\* A new link to confirm.
LEMMA LinkMade ==
  ASSUME AccountsTypeOK, NEW n \in Nat, NEW host \in Places, links' = Append(links, create_confirmation_link(n, host))
  PROVE  /\ links' \in Seq(LinkRows) /\ LinksKept
         /\ Len(links') = Len(links) + 1
         /\ links'[Len(links) + 1] = create_confirmation_link(n, host)
         /\ \A k \in 1..Len(links') : k \in 1..Len(links) \/ k = Len(links) + 1
<1>1. create_confirmation_link(n, host) \in LinkRows
  BY DEF create_confirmation_link, LinkRows, AccountsTypeOK
<1> QED BY <1>1 DEF AccountsTypeOK, LinksKept

\* A new preregistration row.
LEMMA RowMade ==
  ASSUME AccountsTypeOK, NEW line \in PreregRows, preregs' = Append(preregs, line)
  PROVE  preregs' \in Seq(PreregRows) /\ RowsKept /\ Len(preregs') = Len(preregs) + 1 /\ preregs'[Len(preregs) + 1] = line
BY DEF AccountsTypeOK, RowsKept

\* The latest row of an address is one of its rows.
LEMMA LatestIsRow ==
  ASSUME AccountsTypeOK, NEW e, Latest(e) # {}
  PROVE  Max(Latest(e)) \in 1..Len(preregs) /\ preregs[Max(Latest(e))].email = e
<1>1. PICK i \in Latest(e) : TRUE
  OBVIOUS
<1>2. \A j \in Latest(e) : j \in Nat /\ i >= j
  BY <1>1 DEF Latest, AccountsTypeOK
<1>3. Max(Latest(e)) \in Latest(e)
  BY <1>1, <1>2 DEF Max
<1> QED BY <1>3 DEF Latest, AccountsTypeOK

\* An address with rows has a latest one.
LEMMA LatestExists ==
  ASSUME AccountsTypeOK, NEW e, NEW i \in 1..Len(preregs), preregs[i].email = e
  PROVE  Latest(e) # {}
<1> DEFINE n == Len(preregs)
           T == {m \in Nat : m <= n /\ n - m \in 1..n /\ preregs[n - m].email = e}
<1>1. n \in Nat /\ DOMAIN preregs = 1..n
  BY DEF AccountsTypeOK
<1>2. n - i \in T
  <2>1. n - i \in Nat /\ n - i <= n /\ n - (n - i) = i
    BY <1>1
  <2> QED BY <2>1
<1>3. PICK m \in T : \A l \in T : m <= l
  BY <1>2, LeastOf
<1> DEFINE k == n - m
<1>4. k \in 1..n /\ preregs[k].email = e
  BY <1>3
<1>5. ASSUME NEW j \in 1..n, preregs[j].email = e PROVE j <= k
  <2>1. n - j \in T
    <3>1. n - j \in Nat /\ n - j <= n /\ n - (n - j) = j
      BY <1>1
    <3> QED BY <1>5, <3>1
  <2>2. m <= n - j /\ m \in Nat
    BY <1>3, <2>1
  <2> QED BY <1>1, <2>2
<1> HIDE DEF k, n
<1>6. k \in Latest(e)
  BY <1>1, <1>4, <1>5 DEF Latest
<1> QED BY <1>6

\* A finite set put in some order.
LEMMA SetToSeqTyped ==
  ASSUME NEW S, IsFiniteSet(S)
  PROVE  SetToSeq(S) \in Seq(S)
<1>1. Cardinality(S) \in Nat /\ ExistsBijection(1..Cardinality(S), S)
  BY FS_CardinalityType
<1>2. PICK f : f \in [1..Cardinality(S) -> S] /\ IsInjective(f)
  BY <1>1 DEF ExistsBijection, Bijection, Injection
<1>3. SetToSeq(S) \in [1..Cardinality(S) -> S]
  BY <1>2 DEF SetToSeq
<1> QED BY <1>1, <1>3

\* A link more, to a row whose address may join where it leads.
LEMMA LinkAdded ==
  ASSUME AccountsInv, AccountsTypeOK', RowsKept, NEW n \in 1..Len(preregs'), NEW host \in Places,
         links' = Append(links, create_confirmation_link(n, host)),
         preregs'[n].referred_by = None /\ ~preregs'[n].realm_creation =>
           host \in Realms /\ (~org[host].invite_required \/ MayJoinNext(preregs'[n].email, host))
  PROVE  LinksKept /\ LinksRight'
<1>1. PICK last \in Nat : last = Len(links) + 1
  BY DEF AccountsInv, AccountsTypeOK
<1>2. n \in Nat
  BY DEF AccountsTypeOK
<1>3. /\ LinksKept /\ Len(links') = last /\ links'[last] = create_confirmation_link(n, host)
      /\ \A k \in 1..Len(links') : k \in 1..Len(links) \/ k = last
  BY <1>1, <1>2, LinkMade DEF AccountsInv
<1>4. /\ links'[last].prereg = n /\ links'[last].host = host
      /\ links'[last].open = (host # None /\ ~org[host].invite_required)
  BY <1>3 DEF create_confirmation_link
<1>5. last \in DOMAIN links'
  <2>1. DOMAIN links' = 1..Len(links')
    BY DEF AccountsTypeOK
  <2> QED BY <1>1, <1>3, <2>1 DEF AccountsInv, AccountsTypeOK
<1>6. ASSUME preregs'[n].referred_by = None, ~preregs'[n].realm_creation
      PROVE  host \in Realms /\ MayJoinNext(preregs'[n].email, host)
  <2>1. host \in Realms /\ host # None
    BY <1>6, AccountConstants DEF None
  <2>2. CASE ~org[host].invite_required
    BY <1>4, <1>5, <2>1, <2>2 DEF MayJoinNext
  <2> QED BY <1>6, <2>1, <2>2
<1>7. LinkRight(last)'
  BY <1>4, <1>6 DEF LinkRight, MayJoin, MayJoinNext
<1>8. LinksRight'
  BY <1>3, <1>7, LinksStay
<1> QED BY <1>3, <1>8

\* Somebody gives an address to sign up with.
LEMMA SignUpStep ==
  ASSUME AccountsInv, NEW e \in Emails, NEW host \in Realms, accounts_home(e, host) \/ maybe_send_to_registration(e, host)
  PROVE  AccountsInv'
<1> DEFINE line == create_preregistration_user(e, FALSE)
<1>1. line \in PreregRows /\ host \in Places /\ Len(preregs) \in Nat
  BY DEF create_preregistration_user, PreregRows, Places, AccountsInv, AccountsTypeOK
<1>2. ~org[host].invite_required
  BY DEF accounts_home, maybe_send_to_registration, clean_email
<1>3. UNCHANGED <<org, account, invites, reg, day, crashes, joined>>
  BY DEF accounts_home, maybe_send_to_registration
<1>4. ASSUME NEW n \in 1..Len(preregs'), RowsKept, preregs' \in Seq(PreregRows),
             links' = Append(links, create_confirmation_link(n, host))
      PROVE  AccountsInv'
  <2>1. links' \in Seq(LinkRows)
    <3>1. n \in Nat
      BY <1>4
    <3> QED BY <1>1, <1>4, <3>1, LinkMade DEF AccountsInv
  <2>2. AccountsTypeOK'
    BY <1>3, <1>4, <2>1 DEF AccountsInv, AccountsTypeOK
  <2>3. LinksKept /\ LinksRight'
    BY <1>1, <1>2, <1>4, <2>2, LinkAdded
  <2>4. InvitesRight'
    BY <1>3, <1>4, <2>2, InvitesStay
  <2>5. HomesStand' /\ RequestsRight' /\ JoinedByRight' /\ AdminsComing'
    BY <1>3, <1>4, <2>2, <2>3, RestStays DEF AccountsInv, HomesStand
  <2> QED BY <2>2, <2>3, <2>4, <2>5 DEF AccountsInv
<1>5. CASE NewLink(line, host)
  <2>1. preregs' \in Seq(PreregRows) /\ RowsKept /\ Len(preregs') = Len(preregs) + 1
    BY <1>1, <1>5, RowMade DEF NewLink, AccountsInv
  <2>2. Len(preregs) + 1 \in 1..Len(preregs')
    BY <1>1, <2>1
  <2> QED BY <1>4, <1>5, <2>1, <2>2 DEF NewLink
<1>6. CASE Latest(e) # {} /\ links' = Append(links, create_confirmation_link(Max(Latest(e)), host)) /\ UNCHANGED preregs
  <2>1. Max(Latest(e)) \in 1..Len(preregs')
    BY <1>6, LatestIsRow DEF AccountsInv
  <2>2. RowsKept /\ preregs' \in Seq(PreregRows)
    BY <1>1, <1>6 DEF RowsKept, AccountsInv, AccountsTypeOK
  <2> QED BY <1>4, <1>6, <2>1, <2>2
<1> QED BY <1>5, <1>6 DEF accounts_home, maybe_send_to_registration

\* Somebody founds an organisation.
LEMMA FoundingStep ==
  ASSUME AccountsInv, NEW p \in Registrars, create_realm(p)
  PROVE  AccountsInv'
<1> DEFINE line == create_preregistration_user(reg[p].email, TRUE)
<1>1. line \in PreregRows /\ line.realm_creation /\ None \in Places
  BY DEF create_preregistration_user, PreregRows, Places, AccountsInv, RequestsRight, create_realm
<1>2. PICK n \in Nat : n = Len(preregs) + 1
  BY DEF AccountsInv, AccountsTypeOK
<1>3. preregs' \in Seq(PreregRows) /\ RowsKept /\ Len(preregs') = n /\ preregs'[n] = line /\ n \in 1..Len(preregs')
  <2>1. preregs' \in Seq(PreregRows) /\ RowsKept /\ Len(preregs') = n /\ preregs'[n] = line
    BY <1>1, <1>2, RowMade DEF create_realm, NewLink, AccountsInv
  <2>2. Len(preregs) \in Nat
    BY DEF AccountsInv, AccountsTypeOK
  <2> QED BY <1>2, <2>1, <2>2
<1>4. links' = Append(links, create_confirmation_link(n, None))
  BY <1>2 DEF create_realm, NewLink
<1>5. UNCHANGED <<org, account, invites, day, crashes, joined>> /\ reg' = [reg EXCEPT ![p] = NoRequest] /\ reg[p].step = "founding"
  BY DEF create_realm
<1>6. NoRequest \in RegRows /\ NoRequest.step = "idle"
  BY DEF NoRequest, RegRows, Places
<1>7. AccountsTypeOK'
  <2>1. links' \in Seq(LinkRows)
    BY <1>1, <1>4, LinkMade DEF AccountsInv
  <2> QED BY <1>3, <1>5, <1>6, <2>1 DEF AccountsInv, AccountsTypeOK
<1> HIDE DEF line
<1>8. LinksKept /\ LinksRight'
  BY <1>1, <1>3, <1>4, <1>7, LinkAdded
<1>9. InvitesRight'
  BY <1>3, <1>5, <1>7, InvitesStay
<1>10. HomesStand' /\ RequestsRight' /\ JoinedByRight' /\ AdminsComing'
  <2>1. \A q \in Registrars : reg'[q] = reg[q] \/ (reg'[q].step = "idle" /\ reg[q].step # "created")
    BY <1>5, <1>6 DEF AccountsInv, AccountsTypeOK
  <2> QED BY <1>3, <1>5, <1>7, <1>8, <2>1, RestStays DEF AccountsInv, HomesStand
<1> QED BY <1>7, <1>8, <1>9, <1>10 DEF AccountsInv

\* Two sequences of letters one after the other.
LEMMA Concatenated ==
  ASSUME NEW T, NEW s \in Seq(T), NEW t \in Seq(T)
  PROVE  /\ s \o t \in Seq(T) /\ Len(s \o t) = Len(s) + Len(t)
         /\ \A i \in 1..Len(s) : (s \o t)[i] = s[i]
         /\ \A i \in 1..Len(t) : (s \o t)[Len(s) + i] = t[i]
<1>1. \A i \in 1..Len(t) : (s \o t)[Len(s) + i] = t[i]
  OBVIOUS
<1> QED BY <1>1

\* A user invites others.
LEMMA InviteStep ==
  ASSUME AccountsInv, NEW inviter \in Emails, NEW S \in SUBSET Emails, do_invite_users(inviter, S)
  PROVE  AccountsInv'
<1> DEFINE r == account[inviter].realm
           validated == SetToSeq({e \in S : MayRegister(e)})
           rows == [i \in DOMAIN validated |-> [email |-> validated[i], referred_by |-> r, realm_creation |-> FALSE, status |-> 0]]
           mails == [i \in DOMAIN validated |-> [email |-> validated[i], referrer |-> r]]
<1>1. r \in Realms
  BY DEF do_invite_users, json_invite_users, AccountsInv, HomesStand
<1>2. validated \in Seq(Emails)
  <2>1. IsFiniteSet({e \in S : MayRegister(e)}) /\ {e \in S : MayRegister(e)} \subseteq Emails
    BY AccountConstants, FS_Subset
  <2>2. validated \in Seq({e \in S : MayRegister(e)})
    BY <2>1, SetToSeqTyped
  <2> QED BY <2>1, <2>2
<1>3. preregs' = preregs \o rows /\ invites' = invites \o mails
  BY DEF do_invite_users
<1>4. UNCHANGED <<org, account, links, reg, day, crashes, joined>>
  BY DEF do_invite_users
<1> HIDE DEF validated
<1>5. PICK n \in Nat : n = Len(validated) /\ DOMAIN validated = 1..n
  BY <1>2
<1>6. rows \in Seq(PreregRows) /\ Len(rows) = n /\ \A i \in 1..n : rows[i].email = validated[i] /\ rows[i].referred_by = r
  <2>1. \A i \in 1..n : rows[i] \in PreregRows
    BY <1>1, <1>2, <1>5 DEF PreregRows, Places
  <2> QED BY <1>5, <2>1
<1>7. mails \in Seq(InviteRows) /\ Len(mails) = n /\ \A i \in 1..n : mails[i].email = validated[i] /\ mails[i].referrer = r
  <2>1. \A i \in 1..n : mails[i] \in InviteRows
    BY <1>1, <1>2, <1>5 DEF InviteRows
  <2> QED BY <1>5, <2>1
<1> HIDE DEF rows, mails
<1>8. preregs' \in Seq(PreregRows) /\ RowsKept /\ Len(preregs') = Len(preregs) + n /\ \A i \in 1..n : preregs'[Len(preregs) + i] = rows[i]
  <2>1. preregs \in Seq(PreregRows) /\ Len(preregs) \in Nat
    BY DEF AccountsInv, AccountsTypeOK
  <2>2. preregs' \in Seq(PreregRows) /\ Len(preregs') = Len(preregs) + n
    BY <1>3, <1>6, <2>1, Concatenated
  <2>3. \A i \in 1..Len(preregs) : preregs'[i] = preregs[i]
    BY <1>3, <1>6, <2>1, Concatenated
  <2>4. \A i \in 1..n : preregs'[Len(preregs) + i] = rows[i]
    BY <1>3, <1>6, <2>1, Concatenated
  <2>5. Len(preregs) <= Len(preregs')
    BY <2>1, <2>2
  <2> QED BY <2>2, <2>3, <2>4, <2>5 DEF RowsKept
<1>9. AccountsTypeOK' /\ LinksKept
  <2>1. invites' \in Seq(InviteRows)
    BY <1>3, <1>7, Concatenated DEF AccountsInv, AccountsTypeOK
  <2> QED BY <1>4, <1>8, <2>1 DEF AccountsInv, AccountsTypeOK, LinksKept
<1>10. LinksRight'
  BY <1>4, <1>8, <1>9, LinksStay
<1>11. InvitesRight'
  <2> DEFINE m == Len(invites)
  <2>0. invites \in Seq(InviteRows) /\ Len(preregs) \in Nat /\ m \in Nat
    BY DEF AccountsInv, AccountsTypeOK
  <2>1. Len(invites') = m + n
    BY <1>3, <1>7, <2>0, Concatenated
  <2>2. \A k \in 1..m : invites'[k] = invites[k]
    BY <1>3, <1>7, <2>0, Concatenated
  <2>3. \A i \in 1..n : invites'[m + i] = mails[i]
    BY <1>3, <1>7, <2>0, Concatenated
  <2> HIDE DEF m
  <2>4. ASSUME NEW k \in 1..Len(invites'), k \notin 1..m PROVE InviteRight(k)'
    <3>1. k - m \in 1..n /\ m + (k - m) = k
      BY <2>0, <2>1, <2>4
    <3>2. invites'[k] = mails[k - m] /\ preregs'[Len(preregs) + (k - m)] = rows[k - m] /\ Len(preregs) + (k - m) \in 1..Len(preregs')
      BY <1>8, <2>0, <2>1, <2>3, <3>1
    <3> QED BY <1>6, <1>7, <3>1, <3>2 DEF InviteRight
  <2>5. \A k \in 1..Len(invites') : (\E j \in 1..Len(invites) : invites'[k] = invites[j]) \/ InviteRight(k)'
    BY <2>2, <2>4 DEF m
  <2> QED BY <1>8, <1>9, <2>5, InvitesStay
<1>12. HomesStand' /\ RequestsRight' /\ JoinedByRight' /\ AdminsComing'
  BY <1>4, <1>8, <1>9, RestStays DEF AccountsInv, HomesStand
<1> QED BY <1>9, <1>10, <1>11, <1>12 DEF AccountsInv

\* The worker sends the letter of an invitation.
LEMMA MailStep ==
  ASSUME AccountsInv, do_send_confirmation_email
  PROVE  AccountsInv'
<1> DEFINE invite == Head(invites)
           n == Max(Latest(invite.email))
<1>1. /\ invites # <<>> /\ links' = Append(links, create_confirmation_link(n, invite.referrer)) /\ invites' = Tail(invites)
      /\ UNCHANGED <<org, account, preregs, reg, day, crashes, joined>>
  BY DEF do_send_confirmation_email
<1>2. invites \in Seq(InviteRows) /\ Len(invites) \in Nat /\ Len(invites) > 0 /\ invite = invites[1] /\ invite \in InviteRows
  BY <1>1 DEF AccountsInv, AccountsTypeOK
<1>3. PICK i \in 1..Len(preregs) : preregs[i].email = invite.email /\ preregs[i].referred_by = invite.referrer
  BY <1>2 DEF AccountsInv, InvitesRight, InviteRight
<1> HIDE DEF invite
<1>4. n \in 1..Len(preregs') /\ preregs'[n].email = invite.email
  <2>1. Latest(invite.email) # {}
    BY <1>3, LatestExists DEF AccountsInv
  <2> QED BY <1>1, <2>1, LatestIsRow DEF AccountsInv
<1>5. invite.referrer \in Realms /\ invite.referrer \in Places
  BY <1>2 DEF InviteRows, Places
<1>6. /\ invites' \in Seq(InviteRows) /\ Len(invites') = Len(invites) - 1
      /\ \A k \in 1..Len(invites') : k + 1 \in 1..Len(invites) /\ invites'[k] = invites[k + 1]
  BY <1>1, <1>2
<1> HIDE DEF n
<1>7. AccountsTypeOK'
  <2>1. n \in Nat
    BY <1>1, <1>4
  <2>2. links' \in Seq(LinkRows)
    BY <1>1, <1>5, <2>1, LinkMade DEF AccountsInv
  <2> QED BY <1>1, <1>6, <2>2 DEF AccountsInv, AccountsTypeOK
<1>8. RowsKept
  BY <1>1 DEF RowsKept, AccountsInv, AccountsTypeOK
<1>9. MayJoinNext(preregs'[n].email, invite.referrer)
  <2>1. i \in DOMAIN preregs' /\ preregs'[i].email = invite.email /\ invite.referrer = preregs'[i].referred_by
    BY <1>1, <1>3 DEF AccountsInv, AccountsTypeOK
  <2> QED BY <1>4, <2>1 DEF MayJoinNext
<1>10. LinksKept /\ LinksRight'
  BY <1>1, <1>4, <1>5, <1>7, <1>8, <1>9, LinkAdded
<1>11. InvitesRight'
  BY <1>6, <1>7, <1>8, InvitesStay
<1>12. HomesStand' /\ RequestsRight' /\ JoinedByRight' /\ AdminsComing'
  BY <1>1, <1>7, <1>8, <1>10, RestStays DEF AccountsInv, HomesStand
<1> QED BY <1>7, <1>10, <1>11, <1>12 DEF AccountsInv

\* Somebody follows a link.
LEMMA ConfirmStep ==
  ASSUME AccountsInv, NEW k \in DOMAIN links, confirm(k)
  PROVE  AccountsInv'
<1>1. links[k].prereg \in 1..Len(preregs)
  BY DEF AccountsInv, AccountsTypeOK, LinksRight, LinkRight
<1>2. /\ preregs' = [preregs EXCEPT ![links[k].prereg].status = 1]
      /\ UNCHANGED <<org, account, links, invites, reg, day, crashes, joined>>
  BY DEF confirm
<1>3. PICK i \in 1..Len(preregs) : i = links[k].prereg
  BY <1>1
<1>4. preregs' = [preregs EXCEPT ![i] = [preregs[i] EXCEPT !.status = 1]]
  BY <1>2, <1>3
<1>5. [preregs[i] EXCEPT !.status = 1] \in PreregRows
  <2>1. preregs[i] \in PreregRows
    BY DEF AccountsInv, AccountsTypeOK
  <2> QED BY <2>1 DEF PreregRows
<1>6. preregs' \in Seq(PreregRows) /\ Len(preregs') = Len(preregs)
  BY <1>4, <1>5 DEF AccountsInv, AccountsTypeOK
<1>7. RowsKept /\ LinksKept
  BY <1>2, <1>4, <1>6 DEF RowsKept, LinksKept, AccountsInv, AccountsTypeOK, PreregRows
<1>8. AccountsTypeOK'
  BY <1>2, <1>6 DEF AccountsInv, AccountsTypeOK
<1>9. LinksRight' /\ InvitesRight'
  BY <1>2, <1>7, <1>8, LinksStay, InvitesStay
<1>10. HomesStand' /\ RequestsRight' /\ JoinedByRight' /\ AdminsComing'
  BY <1>2, <1>7, <1>8, RestStays DEF AccountsInv, HomesStand
<1> QED BY <1>8, <1>9, <1>10 DEF AccountsInv

\* The steps of a request that write no account.
LEMMA RequestStays ==
  ASSUME AccountsInv, NEW p \in Registrars, NEW r \in RegRows,
         UNCHANGED <<account, preregs, links, invites, day, crashes, joined>>,
         reg' = [reg EXCEPT ![p] = r], reg[p].step # "created", r.step # "created",
         org' \in [Realms -> OrgRows], \A q \in Founded : org'[q].exists,
         r.step = "founding" => r.email \in Emails,
         r.step \in Registering =>
           /\ r.email \in Emails /\ r.realm \in Realms /\ email_allowed_for_realm(r.email, r.realm) /\ MayJoin(r.email, r.realm)
           /\ r.dummy => account[r.email].realm \in Realms,
         r.step = "counted" /\ ~r.first => Inhabited(r.realm)
  PROVE  AccountsInv'
<1>1. reg'[p] = r /\ \A q \in Registrars : q # p => reg'[q] = reg[q]
  BY DEF AccountsInv, AccountsTypeOK
<1>2. AccountsTypeOK'
  BY DEF AccountsInv, AccountsTypeOK
<1>3. HomesStand' /\ LinksRight' /\ InvitesRight' /\ JoinedByRight'
  BY DEF AccountsInv, HomesStand, LinksRight, LinkRight, InvitesRight, InviteRight, JoinedByRight, MayJoin, email_allowed_for_realm
<1>4. RequestsRight'
  <2> SUFFICES ASSUME NEW q \in Registrars
      PROVE /\ reg'[q].step = "founding" => reg'[q].email \in Emails
            /\ reg'[q].step \in Registering =>
                /\ reg'[q].email \in Emails /\ reg'[q].realm \in Realms
                /\ email_allowed_for_realm(reg'[q].email, reg'[q].realm) /\ MayJoin(reg'[q].email, reg'[q].realm)
                /\ reg'[q].dummy => account[reg'[q].email].realm \in Realms
    BY DEF RequestsRight, email_allowed_for_realm, MayJoin
  <2> QED BY <1>1 DEF AccountsInv, RequestsRight
<1>5. AdminsComing'
  <2>1. ASSUME crashes' = 0, NEW s \in Realms, Inhabited(s)' PROVE HasAdmin(s)' \/ AdminDue(s)'
    <3>1. Inhabited(s)
      BY <2>1 DEF Inhabited
    <3>2. HasAdmin(s) \/ AdminDue(s)
      BY <2>1, <3>1 DEF AccountsInv, AdminsComing
    <3>3. HasAdmin(s) => HasAdmin(s)'
      BY DEF HasAdmin
    <3>4. AdminDue(s) => AdminDue(s)'
      BY <1>1 DEF AdminDue
    <3> QED BY <3>2, <3>3, <3>4
  <2>2. ASSUME NEW q \in Registrars, reg'[q].step = "counted", ~reg'[q].first
        PROVE  \E e \in Emails : account'[e].realm = reg'[q].realm
    BY <1>1, <2>2 DEF AccountsInv, AdminsComing, Inhabited
  <2> QED BY <2>1, <2>2 DEF AdminsComing, Inhabited
<1> QED BY <1>2, <1>3, <1>4, <1>5 DEF AccountsInv

\* The request that nobody makes is a request.
LEMMA IdleRequest == NoRequest \in RegRows /\ NoRequest.step = "idle" /\ "idle" \notin Registering
BY DEF NoRequest, RegRows, Places, Registering

\* The form's key is looked up.
LEMMA KeyStep ==
  ASSUME AccountsInv, NEW p \in Registrars, NEW e \in Emails, check_key_is_valid(p, e)
  PROVE  AccountsInv'
<1> DEFINE r == [NoRequest EXCEPT !.step = "founding", !.email = e]
<1>1. r \in RegRows /\ r.step = "founding" /\ r.email = e /\ "founding" \notin Registering
  BY DEF NoRequest, RegRows, Places, Registering
<1>2. /\ reg' = [reg EXCEPT ![p] = r] /\ reg[p].step = "idle"
      /\ UNCHANGED <<org, account, preregs, links, invites, day, crashes, joined>>
  BY DEF check_key_is_valid
<1>3. org' \in [Realms -> OrgRows] /\ \A q \in Founded : org'[q].exists
  BY <1>2 DEF AccountsInv, AccountsTypeOK, HomesStand
<1> HIDE DEF r
<1> QED BY <1>1, <1>2, <1>3, RequestStays

\* The form is submitted.
LEMMA RegisterStep ==
  ASSUME AccountsInv, NEW p \in Registrars, NEW k \in DOMAIN links, accounts_register(p, k)
  PROVE  AccountsInv'
<1> DEFINE i == links[k].prereg
           line == preregs[i]
           realm == RealmOfRegistration(line, links[k].host)
           dummy == account[line.email].dummy
           read == [NoRequest EXCEPT !.prereg = i, !.email = line.email, !.dummy = dummy]
<1>1. /\ reg[p].step = "idle" /\ UNCHANGED <<org, account, preregs, links, invites, day, crashes, joined>>
      /\ realm # None => email_allowed_for_realm(line.email, realm)
      /\ \/ realm # None /\ reg' = [reg EXCEPT ![p] = [read EXCEPT !.step = "user", !.realm = realm]]
         \/ \E r \in Realms : realm = None /\ ~org[r].exists /\ reg' = [reg EXCEPT ![p] = [read EXCEPT !.step = "realm", !.realm = r]]
  BY DEF accounts_register
<1>2. k \in 1..Len(links) /\ i \in 1..Len(preregs) /\ line \in PreregRows /\ links[k] \in LinkRows /\ i \in Nat
  BY DEF AccountsInv, AccountsTypeOK, LinksRight, LinkRight
<1>3. line.email \in Emails /\ line.referred_by \in Places /\ line.realm_creation \in BOOLEAN /\ i \in DOMAIN preregs
  BY <1>2 DEF PreregRows, AccountsInv, AccountsTypeOK
<1>4. line.referred_by = None /\ ~line.realm_creation => links[k].host \in Realms /\ MayJoin(line.email, links[k].host)
  BY <1>2 DEF AccountsInv, LinksRight, LinkRight
<1>5. org' \in [Realms -> OrgRows] /\ \A q \in Founded : org'[q].exists
  BY <1>1 DEF AccountsInv, AccountsTypeOK, HomesStand
<1>6. ASSUME realm # None PROVE realm \in Realms /\ MayJoin(line.email, realm)
  <2>1. CASE line.referred_by # None
    BY <1>3, <2>1 DEF RealmOfRegistration, MayJoin, Places
  <2>2. CASE line.referred_by = None
    BY <1>4, <1>6, <2>2 DEF RealmOfRegistration
  <2> QED BY <2>1, <2>2
<1>7. ASSUME realm = None, NEW r \in Realms, ~org[r].exists
      PROVE  MayJoin(line.email, r) /\ email_allowed_for_realm(line.email, r)
  <2>1. line.realm_creation
    <3>1. None \notin Realms
      BY AccountConstants DEF None
    <3> QED BY <1>3, <1>4, <1>7, <3>1 DEF RealmOfRegistration
  <2>2. r \notin Founded
    BY <1>7 DEF AccountsInv, HomesStand
  <2> QED BY <1>3, <2>1, <2>2, AccountConstants DEF MayJoin, email_allowed_for_realm
<1>8. dummy \in BOOLEAN /\ (dummy => account[line.email].realm \in Realms)
  BY <1>3 DEF AccountsInv, AccountsTypeOK, AccountRows, HomesStand
<1> HIDE DEF realm, line, i, dummy
<1>9. ASSUME NEW step \in {"user", "realm"}, NEW r \in Realms, reg' = [reg EXCEPT ![p] = [read EXCEPT !.step = step, !.realm = r]],
             MayJoin(line.email, r), email_allowed_for_realm(line.email, r)
      PROVE  AccountsInv'
  <2> DEFINE new == [read EXCEPT !.step = step, !.realm = r]
  <2>1. read \in RegRows /\ read.email = line.email /\ read.dummy = dummy
    BY <1>2, <1>3, <1>8, IdleRequest DEF RegRows
  <2> HIDE DEF read
  <2>2. /\ new \in RegRows /\ new.step \in {"user", "realm"} /\ new.email = line.email /\ new.realm = r /\ new.dummy = dummy
    BY <1>9, <2>1 DEF RegRows, Places, Registering
  <2>3. reg' = [reg EXCEPT ![p] = new]
    BY <1>9
  <2> HIDE DEF new
  <2> QED BY <1>1, <1>3, <1>5, <1>8, <1>9, <2>2, <2>3, RequestStays
<1> QED BY <1>1, <1>6, <1>7, <1>9

\* A request goes on between the submitted form and the new account.
LEMMA RequestMoves ==
  ASSUME AccountsInv, NEW p \in Registrars, do_create_realm(p) \/ CountUsers(p)
  PROVE  AccountsInv'
<1>1. reg[p] \in RegRows /\ reg \in [Registrars -> RegRows]
  BY DEF AccountsInv, AccountsTypeOK
<1>2. /\ reg[p].step \in {"realm", "user"} /\ reg[p].step \in Registering
      /\ UNCHANGED <<account, preregs, links, invites, day, crashes, joined>>
  BY DEF do_create_realm, CountUsers, Registering
<1>3. /\ reg[p].email \in Emails /\ reg[p].realm \in Realms
      /\ email_allowed_for_realm(reg[p].email, reg[p].realm) /\ MayJoin(reg[p].email, reg[p].realm)
      /\ reg[p].dummy => account[reg[p].email].realm \in Realms
  BY <1>2 DEF AccountsInv, RequestsRight
<1>4. CASE do_create_realm(p)
  <2> DEFINE r == [reg[p] EXCEPT !.step = "user"]
             fresh == [exists |-> TRUE, deactivated |-> FALSE, invite_required |-> TRUE]
  <2>1. /\ r \in RegRows /\ r.step = "user" /\ r.email = reg[p].email /\ r.realm = reg[p].realm /\ r.dummy = reg[p].dummy
    BY <1>1 DEF RegRows, Registering
  <2>2. reg' = [reg EXCEPT ![p] = r]
    BY <1>1, <1>4 DEF do_create_realm
  <2>3. fresh \in OrgRows /\ fresh.exists
    BY DEF OrgRows
  <2>4. org' = org \/ org' = [org EXCEPT ![reg[p].realm] = fresh]
    BY <1>4 DEF do_create_realm
  <2> HIDE DEF fresh, r
  <2>5. org' \in [Realms -> OrgRows] /\ \A q \in Founded : org'[q].exists
    BY <2>3, <2>4, AccountConstants DEF AccountsInv, AccountsTypeOK, HomesStand
  <2> QED BY <1>2, <1>3, <2>1, <2>2, <2>5, RequestStays
<1>5. CASE CountUsers(p)
  <2> DEFINE first == first_in_realm(reg[p].realm)
             r == [reg[p] EXCEPT !.step = "counted", !.first = first]
  <2>1. first \in BOOLEAN /\ (~first => Inhabited(reg[p].realm))
    BY DEF first_in_realm, Inhabited
  <2>2. reg' = [reg EXCEPT ![p] = r]
    BY <1>1, <1>5 DEF CountUsers
  <2>3. org' \in [Realms -> OrgRows] /\ \A q \in Founded : org'[q].exists
    BY <1>5 DEF CountUsers, AccountsInv, AccountsTypeOK, HomesStand
  <2> HIDE DEF first
  <2>4. /\ r \in RegRows /\ r.step = "counted" /\ r.email = reg[p].email /\ r.realm = reg[p].realm /\ r.dummy = reg[p].dummy
        /\ r.first = first
    BY <1>1, <2>1 DEF RegRows, Registering
  <2> HIDE DEF r
  <2> QED BY <1>2, <1>3, <2>1, <2>2, <2>3, <2>4, RequestStays
<1> QED BY <1>4, <1>5

\* A request fails.
LEMMA DiesStep ==
  ASSUME AccountsInv, NEW p \in Registrars, RequestDies(p)
  PROVE  AccountsInv'
<1>1. /\ crashes' = crashes + 1 /\ crashes \in Nat /\ reg' = [reg EXCEPT ![p] = NoRequest]
      /\ UNCHANGED <<org, account, preregs, links, invites, day, joined>>
  BY DEF RequestDies, AccountsInv, AccountsTypeOK
<1>2. crashes' \in Nat /\ crashes' # 0
  BY <1>1
<1>3. AccountsTypeOK' /\ RowsKept /\ LinksKept
  BY <1>1, <1>2, IdleRequest DEF AccountsInv, AccountsTypeOK, RowsKept, LinksKept
<1>4. \A q \in Registrars : reg'[q] = reg[q] \/ reg'[q].step = "idle"
  BY <1>1, IdleRequest DEF AccountsInv, AccountsTypeOK
<1>5. HomesStand' /\ RequestsRight' /\ JoinedByRight' /\ AdminsComing'
  BY <1>1, <1>2, <1>3, <1>4, RestStays DEF AccountsInv, HomesStand
<1>6. LinksRight' /\ InvitesRight'
  BY <1>1, <1>3, LinksStay, InvitesStay
<1> QED BY <1>3, <1>5, <1>6 DEF AccountsInv

\* The rows of the address, marked as not used.
LEMMA MarkedRows ==
  ASSUME AccountsInv, NEW e, NEW n, preregs' = process_new_human_user(e, n)
  PROVE  preregs' \in Seq(PreregRows) /\ RowsKept
<1> DEFINE m == Len(preregs)
           unused(i) == [preregs[i] EXCEPT !.status = 0]
<1>1. preregs \in Seq(PreregRows) /\ m \in Nat /\ DOMAIN preregs = 1..m
  BY DEF AccountsInv, AccountsTypeOK
<1>2. ASSUME NEW i \in 1..m
      PROVE  /\ unused(i) \in PreregRows /\ preregs[i] \in PreregRows /\ unused(i).email = preregs[i].email
             /\ unused(i).referred_by = preregs[i].referred_by /\ unused(i).realm_creation = preregs[i].realm_creation
  <2>1. preregs[i] \in PreregRows
    BY <1>1
  <2> QED BY <2>1 DEF PreregRows
<1>3. preregs' = [i \in 1..m |-> IF preregs[i].email = e /\ i # n THEN unused(i) ELSE preregs[i]]
  BY <1>1 DEF process_new_human_user
<1>4. preregs' \in Seq(PreregRows) /\ Len(preregs') = m
  <2>1. preregs' \in [1..m -> PreregRows]
    BY <1>2, <1>3
  <2> QED BY <1>1, <2>1
<1> HIDE DEF unused
<1>5. ASSUME NEW i \in 1..m
      PROVE  /\ preregs'[i].email = preregs[i].email /\ preregs'[i].referred_by = preregs[i].referred_by
             /\ preregs'[i].realm_creation = preregs[i].realm_creation
  BY <1>2, <1>3
<1> QED BY <1>1, <1>4, <1>5 DEF RowsKept

\* The account of a registration comes, in the realm of the registration, or is activated in its own.
LEMMA AccountComes ==
  ASSUME AccountsInv, AccountsTypeOK', RowsKept, NEW p \in Registrars, NEW e \in Emails, NEW new \in RegRows,
         reg[p].step = "counted", e = reg[p].email, UNCHANGED <<org, links, invites, crashes>>,
         reg' = [reg EXCEPT ![p] = new], new.step = "created", new.email = e, new.realm = reg[p].realm, new.first = reg[p].first,
         \A f \in Emails : f # e => account'[f] = account[f] /\ joined'[f] = joined[f],
         account'[e].realm \in Realms,
         account[e].realm \in Realms => account'[e].realm = account[e].realm /\ account'[e].admin = account[e].admin,
         account[e].realm \notin Realms => account'[e].realm = reg[p].realm,
         joined'[e] # 0 => (joined[e] # 0 /\ account'[e].realm = account[e].realm) \/ account'[e].realm = reg[p].realm
  PROVE  AccountsInv'
<1>1. reg'[p] = new /\ \A q \in Registrars : q # p => reg'[q] = reg[q]
  BY DEF AccountsInv, AccountsTypeOK
<1>2. /\ reg[p].realm \in Realms /\ email_allowed_for_realm(e, reg[p].realm) /\ MayJoin(e, reg[p].realm)
  BY DEF AccountsInv, RequestsRight, Registering
<1>3. LinksKept
  BY DEF AccountsInv, AccountsTypeOK, LinksKept
<1>4. \A f, r : MayJoin(f, r) => MayJoinNext(f, r)
  BY <1>3, MayJoinStays DEF AccountsInv
<1>5. \A f \in Emails : account[f].realm \in Realms => account'[f].realm = account[f].realm /\ account'[f].admin = account[f].admin
  OBVIOUS
<1>6. LinksRight' /\ InvitesRight'
  BY <1>3, LinksStay, InvitesStay
<1>7. HomesStand'
  BY DEF AccountsInv, HomesStand
<1>8. RequestsRight'
  <2> SUFFICES ASSUME NEW q \in Registrars
      PROVE /\ reg'[q].step = "founding" => reg'[q].email \in Emails
            /\ reg'[q].step \in Registering =>
                /\ reg'[q].email \in Emails /\ reg'[q].realm \in Realms
                /\ email_allowed_for_realm(reg'[q].email, reg'[q].realm) /\ MayJoinNext(reg'[q].email, reg'[q].realm)
                /\ reg'[q].dummy => account'[reg'[q].email].realm \in Realms
    BY DEF RequestsRight, email_allowed_for_realm, MayJoin, MayJoinNext
  <2>1. CASE q = p
    BY <1>1, <1>2, <1>4, <2>1
  <2>2. CASE q # p
    BY <1>1, <1>4, <1>5, <2>2 DEF AccountsInv, RequestsRight
  <2> QED BY <2>1, <2>2
<1>9. JoinedByRight'
  <2> SUFFICES ASSUME NEW f \in Emails, joined'[f] # 0
      PROVE email_allowed_for_realm(f, account'[f].realm) /\ MayJoinNext(f, account'[f].realm)
    BY DEF JoinedByRight, email_allowed_for_realm, MayJoin, MayJoinNext
  <2>1. CASE f # e
    BY <1>4, <2>1 DEF AccountsInv, JoinedByRight
  <2>2. CASE f = e
    BY <1>2, <1>4, <2>2 DEF AccountsInv, JoinedByRight
  <2> QED BY <2>1, <2>2
<1>10. AdminsComing'
  <2>1. ASSUME crashes' = 0, NEW r \in Realms, Inhabited(r)' PROVE HasAdmin(r)' \/ AdminDue(r)'
    <3>1. CASE Inhabited(r)
      <4>1. HasAdmin(r) \/ AdminDue(r)
        BY <2>1, <3>1 DEF AccountsInv, AdminsComing
      <4>2. HasAdmin(r) => HasAdmin(r)'
        BY <1>5, <2>1 DEF HasAdmin
      <4>3. AdminDue(r) => AdminDue(r)'
        <5> SUFFICES ASSUME NEW q \in Registrars, reg[q].step = "created", reg[q].first, account[reg[q].email].realm = r
            PROVE AdminDue(r)'
          BY DEF AdminDue
        <5>1. reg'[q] = reg[q] /\ reg[q].email \in Emails
          BY <1>1 DEF AccountsInv, RequestsRight, Registering
        <5> QED BY <1>5, <2>1, <5>1 DEF AdminDue
      <4> QED BY <4>1, <4>2, <4>3
    <3>2. CASE ~Inhabited(r)
      <4>1. account'[e].realm = r /\ account[e].realm \notin Realms
        BY <1>5, <2>1, <3>2 DEF Inhabited
      <4>2. reg[p].first
        BY <3>2, <4>1 DEF AccountsInv, AdminsComing
      <4> QED BY <1>1, <4>1, <4>2 DEF AdminDue
    <3> QED BY <3>1, <3>2
  <2>2. ASSUME NEW q \in Registrars, reg'[q].step = "counted", ~reg'[q].first
        PROVE  \E f \in Emails : account'[f].realm = reg'[q].realm
    <3>1. reg'[q] = reg[q] /\ reg[q].realm \in Realms
      BY <1>1, <2>2 DEF AccountsInv, RequestsRight, Registering
    <3>2. Inhabited(reg[q].realm)
      BY <2>2, <3>1 DEF AccountsInv, AdminsComing
    <3> QED BY <1>5, <3>1, <3>2 DEF Inhabited
  <2> QED BY <2>1, <2>2 DEF AdminsComing, Inhabited
<1> QED BY <1>6, <1>7, <1>8, <1>9, <1>10 DEF AccountsInv

\* The account is created.
LEMMA CreateStep ==
  ASSUME AccountsInv, NEW p \in Registrars, do_create_user(p)
  PROVE  AccountsInv'
<1> DEFINE e == reg[p].email
           ok == reg[p].dummy \/ user_email_is_unique(e)
           new == [reg[p] EXCEPT !.step = "created"]
<1>1. reg[p].step = "counted" /\ UNCHANGED <<org, links, invites, day, crashes>> /\ reg[p] \in RegRows /\ reg \in [Registrars -> RegRows]
  BY DEF do_create_user, AccountsInv, AccountsTypeOK
<1>2. /\ e \in Emails /\ reg[p].realm \in Realms /\ reg[p].dummy \in BOOLEAN
      /\ reg[p].dummy => account[e].realm \in Realms
  BY <1>1 DEF AccountsInv, RequestsRight, Registering, RegRows
<1>3. account[e] \in AccountRows /\ account \in [Emails -> AccountRows]
  BY <1>2 DEF AccountsInv, AccountsTypeOK
<1>4. new \in RegRows /\ new.step = "created" /\ new.email = e /\ new.realm = reg[p].realm /\ new.first = reg[p].first
  BY <1>1 DEF RegRows, Registering
<1>5. CASE ~ok
  <2>1. UNCHANGED <<account, joined, preregs>> /\ reg' = [reg EXCEPT ![p] = NoRequest]
    BY <1>5 DEF do_create_user
  <2>2. org' \in [Realms -> OrgRows] /\ \A q \in Founded : org'[q].exists
    BY <1>1 DEF AccountsInv, AccountsTypeOK, HomesStand
  <2> QED BY <1>1, <2>1, <2>2, IdleRequest, RequestStays
<1>6. ok => reg' = [reg EXCEPT ![p] = new]
  BY <1>1 DEF do_create_user
<1>7. CASE ok /\ reg[p].dummy
  <2> DEFINE line == [account[e] EXCEPT !.active = TRUE, !.dummy = FALSE]
  <2>1. account' = [account EXCEPT ![e] = line] /\ UNCHANGED <<joined, preregs>>
    BY <1>3, <1>7 DEF do_create_user, do_activate_user
  <2>2. line \in AccountRows /\ line.realm = account[e].realm /\ line.admin = account[e].admin
    BY <1>3 DEF AccountRows
  <2> HIDE DEF line, new
  <2>3. AccountsTypeOK' /\ RowsKept
    <3>1. account' \in [Emails -> AccountRows] /\ reg' \in [Registrars -> RegRows]
      BY <1>1, <1>3, <1>4, <1>6, <1>7, <2>1, <2>2
    <3>2. AccountsTypeOK'
      BY <1>1, <2>1, <3>1 DEF AccountsInv, AccountsTypeOK
    <3> QED BY <2>1, <3>2 DEF AccountsInv, AccountsTypeOK, RowsKept
  <2>4. account'[e] = line /\ \A f \in Emails : f # e => account'[f] = account[f]
    BY <1>2, <1>3, <2>1
  <2> QED BY <1>1, <1>2, <1>4, <1>6, <1>7, <2>1, <2>2, <2>3, <2>4, AccountComes
<1>8. CASE ok /\ ~reg[p].dummy
  <2> DEFINE r == reg[p].realm
             line == [NoAccount EXCEPT !.realm = r, !.active = TRUE]
  <2>1. /\ account' = [account EXCEPT ![e] = line] /\ account[e] = NoAccount
        /\ joined' = [joined EXCEPT ![e] = reg[p].prereg] /\ preregs' = process_new_human_user(e, reg[p].prereg)
    BY <1>8 DEF do_create_user, create_user, user_email_is_unique
  <2>2. line \in AccountRows /\ line.realm = r /\ NoAccount.realm = None /\ None \notin Realms
    BY <1>2, AccountConstants DEF NoAccount, AccountRows, Places, None
  <2> HIDE DEF line, new
  <2>3. preregs' \in Seq(PreregRows) /\ RowsKept
    BY <2>1, MarkedRows
  <2>4. AccountsTypeOK'
    BY <1>1, <1>3, <1>4, <1>6, <1>8, <2>1, <2>2, <2>3 DEF AccountsInv, AccountsTypeOK
  <2>5. account'[e] = line /\ \A f \in Emails : f # e => account'[f] = account[f] /\ joined'[f] = joined[f]
    BY <1>2, <1>3, <2>1
  <2> QED BY <1>1, <1>2, <1>4, <1>6, <1>8, <2>1, <2>2, <2>3, <2>4, <2>5, AccountComes
<1> QED BY <1>5, <1>7, <1>8

\* An administrator changes the organisation.
LEMMA AdminStep ==
  ASSUME AccountsInv, NEW p \in Registrars, do_change_is_admin(p)
  PROVE  AccountsInv'
<1> DEFINE e == reg[p].email
           line == [account[e] EXCEPT !.admin = TRUE]
<1>1. /\ reg[p].step = "created" /\ UNCHANGED <<org, preregs, links, invites, day, crashes, joined>>
      /\ reg' = [reg EXCEPT ![p] = NoRequest]
      /\ account' = IF reg[p].first THEN [account EXCEPT ![e].admin = TRUE] ELSE account
  BY DEF do_change_is_admin
<1>2. e \in Emails /\ account[e] \in AccountRows /\ account \in [Emails -> AccountRows]
  BY <1>1 DEF AccountsInv, AccountsTypeOK, RequestsRight, Registering
<1>3. /\ line \in AccountRows /\ line.realm = account[e].realm /\ line.admin
      /\ line.active = account[e].active /\ line.dummy = account[e].dummy
  BY <1>2 DEF AccountRows
<1>4. account' = IF reg[p].first THEN [account EXCEPT ![e] = line] ELSE account
  BY <1>1, <1>2
<1> HIDE DEF line
<1>5. /\ account' \in [Emails -> AccountRows]
      /\ \A f \in Emails : account'[f].realm = account[f].realm
      /\ \A f \in Emails : account'[f].active = account[f].active /\ account'[f].dummy = account[f].dummy
      /\ \A f \in Emails : account[f].admin => account'[f].admin
  BY <1>2, <1>3, <1>4
<1>6. reg'[p] = NoRequest /\ \A q \in Registrars : q # p => reg'[q] = reg[q]
  BY <1>1 DEF AccountsInv, AccountsTypeOK
<1>7. AccountsTypeOK'
  BY <1>1, <1>5, IdleRequest DEF AccountsInv, AccountsTypeOK
<1>8. HomesStand'
  BY <1>1, <1>5 DEF AccountsInv, HomesStand
<1>9. LinksRight' /\ InvitesRight' /\ RowsKept /\ LinksKept
  <2>1. RowsKept /\ LinksKept
    BY <1>1 DEF AccountsInv, AccountsTypeOK, RowsKept, LinksKept
  <2> QED BY <1>1, <1>7, <2>1, LinksStay, InvitesStay
<1>10. JoinedByRight'
  BY <1>1, <1>5 DEF AccountsInv, JoinedByRight, MayJoin, email_allowed_for_realm
<1>11. RequestsRight'
  <2> SUFFICES ASSUME NEW q \in Registrars
      PROVE /\ reg'[q].step = "founding" => reg'[q].email \in Emails
            /\ reg'[q].step \in Registering =>
                /\ reg'[q].email \in Emails /\ reg'[q].realm \in Realms
                /\ email_allowed_for_realm(reg'[q].email, reg'[q].realm) /\ MayJoin(reg'[q].email, reg'[q].realm)
                /\ reg'[q].dummy => account'[reg'[q].email].realm \in Realms
    BY <1>1 DEF RequestsRight, email_allowed_for_realm, MayJoin
  <2> QED BY <1>5, <1>6, IdleRequest DEF AccountsInv, RequestsRight
<1>12. AdminsComing'
  <2>1. ASSUME crashes' = 0, NEW r \in Realms, Inhabited(r)' PROVE HasAdmin(r)' \/ AdminDue(r)'
    <3>1. HasAdmin(r) \/ AdminDue(r)
      BY <1>1, <1>5, <2>1 DEF AccountsInv, AdminsComing, Inhabited
    <3>2. HasAdmin(r) => HasAdmin(r)'
      BY <1>5 DEF HasAdmin
    <3>3. ASSUME NEW q \in Registrars, reg[q].step = "created", reg[q].first, account[reg[q].email].realm = r
          PROVE  HasAdmin(r)' \/ AdminDue(r)'
      <4>1. reg[q].email \in Emails
        BY <3>3 DEF AccountsInv, RequestsRight, Registering
      <4>2. CASE q # p
        BY <1>5, <1>6, <3>3, <4>1, <4>2 DEF AdminDue
      <4>3. CASE q = p
        <5>1. account'[e] = line /\ line.realm = r
          BY <1>2, <1>3, <1>4, <3>3, <4>3
        <5> QED BY <1>2, <1>3, <5>1 DEF HasAdmin
      <4> QED BY <4>2, <4>3
    <3> QED BY <3>1, <3>2, <3>3 DEF AdminDue
  <2>2. ASSUME NEW q \in Registrars, reg'[q].step = "counted", ~reg'[q].first
        PROVE  \E f \in Emails : account'[f].realm = reg'[q].realm
    BY <1>5, <1>6, <2>2, IdleRequest DEF AccountsInv, AdminsComing, Inhabited
  <2> QED BY <2>1, <2>2 DEF AdminsComing, Inhabited
<1> QED BY <1>7, <1>8, <1>9, <1>10, <1>11, <1>12 DEF AccountsInv

\* Realms and days change nothing of this.
LEMMA AroundStep ==
  ASSUME AccountsInv,
         \/ \E r \in Realms : SetInviteRequired(r) \/ do_deactivate_realm(r) \/ do_reactivate_realm(r)
         \/ DayPasses \/ UNCHANGED accountVars
  PROVE  AccountsInv'
<1>1. UNCHANGED <<account, preregs, links, invites, reg, crashes, joined>>
  BY DEF SetInviteRequired, do_deactivate_realm, do_reactivate_realm, ChangeRealm, DayPasses, accountVars
<1>2. org' \in [Realms -> OrgRows] /\ \A q \in Founded : org'[q].exists
  <2>1. ASSUME NEW r \in Realms, NEW line \in OrgRows, line.exists = org[r].exists, org' = [org EXCEPT ![r] = line]
        PROVE  org' \in [Realms -> OrgRows] /\ \A q \in Founded : org'[q].exists
    BY <2>1, AccountConstants DEF AccountsInv, AccountsTypeOK, HomesStand
  <2>2. ASSUME NEW r \in Realms, SetInviteRequired(r) \/ do_deactivate_realm(r) \/ do_reactivate_realm(r)
        PROVE  org' \in [Realms -> OrgRows] /\ \A q \in Founded : org'[q].exists
    <3>1. org[r] \in OrgRows
      BY DEF AccountsInv, AccountsTypeOK
    <3> DEFINE closed == ~org[r].invite_required
               row1 == [org[r] EXCEPT !.invite_required = closed]
               row2 == [org[r] EXCEPT !.deactivated = TRUE]
               row3 == [org[r] EXCEPT !.deactivated = FALSE]
    <3>2. org' \in {[org EXCEPT ![r] = row1], [org EXCEPT ![r] = row2], [org EXCEPT ![r] = row3]}
      BY <2>2 DEF SetInviteRequired, do_deactivate_realm, do_reactivate_realm, ChangeRealm
    <3>3. closed \in BOOLEAN
      OBVIOUS
    <3> HIDE DEF closed
    <3>4. /\ row1 \in OrgRows /\ row1.exists = org[r].exists /\ row2 \in OrgRows /\ row2.exists = org[r].exists
          /\ row3 \in OrgRows /\ row3.exists = org[r].exists
      BY <3>1, <3>3 DEF OrgRows
    <3> HIDE DEF row1, row2, row3
    <3> QED BY <2>1, <3>2, <3>4
  <2>3. CASE UNCHANGED org
    BY <2>3 DEF AccountsInv, AccountsTypeOK, HomesStand
  <2> QED BY <2>2, <2>3 DEF DayPasses, accountVars
<1>3. day' \in Nat
  <2>1. day' = day \/ day' = day + 1
    BY DEF SetInviteRequired, do_deactivate_realm, do_reactivate_realm, ChangeRealm, DayPasses, accountVars
  <2> QED BY <2>1 DEF AccountsInv, AccountsTypeOK
<1>4. AccountsTypeOK' /\ RowsKept /\ LinksKept
  BY <1>1, <1>2, <1>3 DEF AccountsInv, AccountsTypeOK, RowsKept, LinksKept
<1>5. LinksRight' /\ InvitesRight'
  BY <1>1, <1>4, LinksStay, InvitesStay
<1>6. HomesStand' /\ RequestsRight' /\ JoinedByRight' /\ AdminsComing'
  BY <1>1, <1>2, <1>4, RestStays
<1> QED BY <1>4, <1>5, <1>6 DEF AccountsInv

\* Every step keeps the accounts sound.
LEMMA AccountsInvNext == AccountsInv /\ [AccountsNext]_accountVars => AccountsInv'
BY SignUpStep, FoundingStep, InviteStep, MailStep, ConfirmStep, KeyStep, RegisterStep, RequestMoves, DiesStep,
   CreateStep, AdminStep, AroundStep DEF AccountsNext

\* Registration gives nobody what is not theirs, and leaves no realm without an admin, for any addresses,
\* realms and number of requests side by side, with any settings, bounds and number of lost requests.
THEOREM RegistrationIsSound == AccountsSpec => []RegistrationSound
<1>1. AccountsInv => RegistrationSound
  <2>1. AccountsInv => RealmHasAdmin
    BY DEF AccountsInv, AdminsComing, RealmHasAdmin, Inhabited, HasAdmin, AdminDue
  <2> QED BY <2>1 DEF AccountsInv, RegistrationSound
<1> QED BY <1>1, AccountsInvInit, AccountsInvNext, PTL DEF AccountsSpec
=============================================================================
