----------------------------- MODULE WebEntries -----------------------------
(***************************************************************************)
(* The ways into the server: log-in, which makes a session, and the        *)
(* decorators that admit a request to its view by a session, by an address *)
(* and an API key, or by a key alone.  All but the last find the profile   *)
(* through the cache, while users and the realm are deactivated.           *)
(***************************************************************************)
EXTENDS Caches

CONSTANT Webhooks    \* users that are incoming webhooks

VARIABLES
  sessions,   \* users with a session
  req         \* the request each process serves: entry, API key shown, whether its user was barred
              \* when it began and has been since (history), and whether its view runs

webVars == <<cacheVars, sessions, req>>

NoReq == [entry |-> "none", user |-> "none", shown |-> 0, away |-> FALSE, admin |-> FALSE, barred |-> FALSE, inside |-> FALSE]

WebInit == CachesInit /\ sessions = {} /\ req = [p \in Readers |-> NoReq]

\* A password or a session is 2; an API key is good while the row has it.  A view may be for administrators.
Shut(rows, off, r) ==
  ~rows[r.user].active \/ off \/ r.away \/ (r.admin /\ ~rows[r.user].admin) \/ (r.shown # 2 /\ r.shown # rows[r.user].api_key)

\* Whether the request should not get in: what shuts its user out is saved and flushed.
Barred(r, key) == writer.step # "flush" /\ key \notin raced /\ Shut(row, realm_off, r)

\* The request, at a host of its realm or away, for a view or an administrator's view.
Request(entry, u, shown, away, admin) ==
  [entry |-> entry, user |-> u, shown |-> shown, away |-> away, admin |-> admin, barred |-> FALSE, inside |-> FALSE]

Start(p, r, key) ==
  /\ req[p] = NoReq
  /\ cache_get(p, key)
  /\ req' = [req EXCEPT ![p] = [r EXCEPT !.barred = Barred(r, key)]]
  /\ UNCHANGED sessions

\* api_fetch_api_key and the login page look the address up.
StartLogin(p, u) == \E away \in BOOLEAN : Start(p, Request("login", u, 2, away, FALSE), <<"email", row[u].email>>)

\* Requests with a session look the id up: ZulipAuthMixin.get_user.
get_user(p, u) ==
  /\ u \in sessions
  /\ \E entry \in {"json", "page"}, away, admin \in BOOLEAN : Start(p, Request(entry, u, 2, away, entry = "json" /\ admin), <<"id", u>>)

authenticated_rest_api_view(p, u, k) ==
  \E away, admin \in BOOLEAN : Start(p, Request("rest", u, k, away, admin), <<"email", row[u].email>>)

\* is_webhook
authenticated_api_view(p, u, k) == Start(p, Request("api", u, k, FALSE, FALSE), <<"email", row[u].email>>)

\* Sessions are for paths outside /api; the rest needs an Authorization header.
rest_dispatch(p, u) == get_user(p, u) \/ \E k \in 0..1 : authenticated_rest_api_view(p, u, k)

check_subdomain(r) == ~r.away

common_get_active_user_by_email(profile) == profile.active /\ ~profile.off

authenticate(r, profile) == common_get_active_user_by_email(profile) /\ check_subdomain(r)

MutNoRealmCheck(r, profile) == profile.active /\ check_subdomain(r)
logged_in_and_active(r, profile) == profile.active /\ ~profile.off /\ check_subdomain(r)

authenticate_log_and_execute_json(r, profile) ==
  profile.active /\ ~profile.off /\ profile.id \notin Webhooks /\ check_subdomain(r)

validate_api_key(r, profile, is_webhook) ==
  /\ profile.api_key = r.shown /\ profile.active
  /\ profile.id \in Webhooks => is_webhook
  /\ ~profile.off /\ check_subdomain(r)

require_realm_admin(r, profile) == r.admin => profile.admin

Admits(r, profile) ==
  /\ CASE r.entry = "login" -> authenticate(r, profile)
       [] r.entry = "page" -> logged_in_and_active(r, profile)
       [] r.entry = "json" -> authenticate_log_and_execute_json(r, profile)
       [] OTHER -> validate_api_key(r, profile, r.entry = "api")
  /\ require_realm_admin(r, profile)

\* The session made by login(), or the view.
Decide(p) ==
  LET r == req[p]
      ok == look[p].val # Missing /\ Admits(r, look[p].val[1])
  IN /\ look[p].step = "done" /\ r # NoReq /\ ~r.inside
     /\ sessions' = IF ok /\ r.entry = "login" THEN sessions \cup {r.user} ELSE sessions
     /\ req' = [req EXCEPT ![p] = IF ok /\ r.entry # "login" THEN [r EXCEPT !.inside = TRUE] ELSE NoReq]
     /\ look' = [look EXCEPT ![p] = NoLook]
     /\ UNCHANGED <<row, realm_off, cached, writer, saves, raced>>

\* The key alone, asked of the database.
api_key_only_webhook_view(p, u, k) ==
  LET r == Request("webhook", u, k, FALSE, FALSE)
  IN /\ req[p] = NoReq /\ look[p].step = "idle"
     /\ row[u].api_key = k /\ row[u].active /\ ~realm_off
     /\ req' = [req EXCEPT ![p] = [r EXCEPT !.inside = TRUE, !.barred = Barred(r, <<"webhook", u>>)]]
     /\ UNCHANGED <<cacheVars, sessions>>

ViewEnds(p) == req[p].inside /\ req' = [req EXCEPT ![p] = NoReq] /\ UNCHANGED <<cacheVars, sessions>>

\* After the flush, do_deactivate_user and do_deactivate_realm delete the sessions.
delete_user_sessions ==
  /\ writer.step = "sessions"
  /\ sessions' = sessions \ writer.drop
  /\ writer' = NoSave
  /\ UNCHANGED <<row, realm_off, cached, look, saves, raced, req>>

get_active_user_dicts_in_realm(p) ==
  /\ req[p] = NoReq
  /\ \/ cache_get(p, <<"active_user_dicts", "realm">>)
     \/ /\ look[p].step = "done"
        /\ look' = [look EXCEPT ![p] = NoLook]
        /\ UNCHANGED <<row, realm_off, cached, writer, saves, raced>>
  /\ UNCHANGED <<sessions, req>>

\* Sessions name their user; an address that its user gives up may be another's next.
StillNamed(r) == r.entry \in {"json", "page"} \/ row'[r.user].email = row[r.user].email

WebNext ==
  \/ \E p \in Readers, u \in Users :
       StartLogin(p, u) \/ rest_dispatch(p, u) \/ \E k \in 0..1 : authenticated_api_view(p, u, k) \/ api_key_only_webhook_view(p, u, k)
  \/ \E p \in Readers : Decide(p) \/ ViewEnds(p) \/ get_active_user_dicts_in_realm(p)
  \/ delete_user_sessions
  \/ /\ \/ \E p \in Readers : QueryOnMiss(p) \/ cache_set(p)
        \/ \E k \in Keys : Evict(k)
        \/ Flush
     /\ UNCHANGED <<sessions, req>>
  \/ /\ Save
     /\ req' = [p \in Readers |-> [req[p] EXCEPT !.barred = @ /\ Shut(row', realm_off', req[p]) /\ StillNamed(req[p])]]
     /\ UNCHANGED sessions

WebSpec == WebInit /\ [][WebNext]_webVars

-----------------------------------------------------------------------------

\* Once a deactivation, a demotion or a new API key is saved and flushed, no request that begins later
\* reaches a view it may not, whatever session, cached profile or log-in was in flight and whichever
\* decorator it meets; and no request to another realm's host does.
BarredStayOut == \A p \in Readers : ~(req[p].inside /\ req[p].barred)
=============================================================================
