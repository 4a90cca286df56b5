------------------------------- MODULE LogIn -------------------------------
(***************************************************************************)
(* How one person gets a session or an API key: by password, LDAP, a web   *)
(* server's REMOTE_USER, JWT, the development log-in, a Google token, and  *)
(* by Google or GitHub, which goes through the main site and comes back to *)
(* the realm's host with a signed cookie, while accounts and realms are    *)
(* deactivated.  Realms have subdomains; one account to an address.        *)
(***************************************************************************)
EXTENDS Integers

CONSTANTS
  RealmHosts,     \* subdomains of realms
  OtherHosts,     \* subdomains that are no realm's, and "" for the main site
  Logins,         \* addresses
  Home,           \* Home[e]: the realm of e's account, or ""
  Dummies,        \* accounts that only mirroring made
  Mine,           \* the addresses this person can prove
  Directory,      \* the addresses in the LDAP directory
  Methods,        \* Methods[r]: AUTHENTICATION_FLAGS of the realm
  MaxAge,         \* seconds the cookie lives (15)
  MaxTime         \* bound: the time

ASSUME LogInTimes == MaxAge \in Nat /\ MaxTime \in Nat

ASSUME LogInConstants ==
  /\ Mine \subseteq Logins /\ Directory \subseteq Logins
  /\ "" \notin RealmHosts /\ Home \in [Logins -> RealmHosts \cup {""}]
  /\ Dummies \subseteq {e \in Logins : Home[e] # ""}

VARIABLES
  home,        \* the realm of each address' account
  inactive,    \* accounts that are not active
  shut,        \* realms deactivated
  hop,         \* a flow through the main site: step, subdomain, mobile, signup
  cookie,      \* subdomain.signature
  time,
  proved,      \* history: when Google or GitHub last told who this is
  grant        \* what the person got

loginVars == <<home, inactive, shut, hop, cookie, time, proved, grant>>

Nobody == ""
NoHop == [step |-> "none", subdomain |-> "", mobile |-> FALSE, signup |-> FALSE]
NoCookie == [email |-> "", subdomain |-> "", signup |-> FALSE, made |-> 0]
NoGrant == [what |-> "none", user |-> "", host |-> "", way |-> "none"]

LogInInit ==
  /\ home = Home
  /\ inactive = Dummies /\ shut = {}
  /\ hop = NoHop /\ cookie = NoCookie /\ time = 0 /\ proved = 0 /\ grant = NoGrant

AllHosts == RealmHosts \cup OtherHosts
auth_enabled_helper(method, r) == method \in Methods[r]

\* None, the account's address, or why not: what return_data tells.
check_subdomain_of(host, e) == host = home[e]

Bar(e) ==
  CASE home[e] = "" -> "unknown"
    [] e \in inactive -> "inactive_user"
    [] home[e] \in shut -> "inactive_realm"
    [] OTHER -> "ok"

common_get_active_user(e) == IF Bar(e) = "ok" THEN e ELSE Nobody

MutDummyAnyHost(e, host) == [user |-> common_get_active_user(e), invalid_subdomain |-> FALSE]

\* use_dummy_backend
ZulipDummyBackend(e, host) ==
  LET u == common_get_active_user(e)
      right == u # Nobody /\ check_subdomain_of(host, e)
  IN [user |-> IF right THEN u ELSE Nobody, invalid_subdomain |-> u # Nobody /\ ~right]

EmailAuthBackend(e, host) ==
  IF common_get_active_user(e) # Nobody /\ auth_enabled_helper("Email", home[e]) /\ e \in Mine /\ check_subdomain_of(host, e)
  THEN e ELSE Nobody

GoogleMobileOauth2Backend(e, host) ==
  IF Bar(e) = "ok" /\ check_subdomain_of(host, e) /\ auth_enabled_helper("Google", home[e]) THEN e ELSE Nobody

ZulipRemoteUserBackend(e, host) ==
  IF common_get_active_user(e) # Nobody /\ check_subdomain_of(host, e) /\ auth_enabled_helper("RemoteUser", home[e])
  THEN e ELSE Nobody

\* The directory knows the password; an account that does not exist is made in the realm of the host.
get_or_create_user(e, host) ==
  IF home[e] # ""
  THEN Bar(e) = "ok" /\ auth_enabled_helper("LDAP", home[e])
  ELSE host \in RealmHosts \ shut

ZulipLDAPAuthBackend(e, host) ==
  /\ e \in Directory \cap Mine
  /\ get_or_create_user(e, host)
  /\ home[e] # "" => check_subdomain_of(host, e)

DevAuthBackend(e) == IF common_get_active_user(e) # Nobody /\ auth_enabled_helper("Dev", home[e]) THEN e ELSE Nobody

-----------------------------------------------------------------------------
(* What the views hand out.                                                  *)

Give(what, e, host, way) == grant' = [what |-> what, user |-> e, host |-> host, way |-> way]

\* The log-in page with an error, registration, a page that asks, an API key for the app, or a session.
login_or_register_remote_user(e, user, host, way, invalid_subdomain, mobile, signup) ==
  IF invalid_subdomain \/ ((user = Nobody \/ user \in Dummies) /\ ~signup) THEN grant' = NoGrant
  ELSE IF user = Nobody \/ user \in Dummies THEN Give("register", e, host, way)
  ELSE IF mobile THEN Give("key", user, host, way)
  ELSE Give("session", user, host, way)

\* clean_username turns away wrong hosts; then the backends in their order,
\* which the form does not tell the host: LDAP then makes no account.
login_page(host, e) ==
  /\ grant = NoGrant /\ host # ""
  /\ home[e] # "" => home[e] \notin shut /\ (e \in inactive => e \in Dummies) /\ check_subdomain_of(host, e)
  /\ EmailAuthBackend(e, home[e]) # Nobody \/ ZulipLDAPAuthBackend(e, home[e])
  /\ Give("session", e, host, "Email")
  /\ UNCHANGED <<home, inactive, shut, hop, cookie, time, proved>>

\* api_fetch_api_key: a Google token, or a password for the backends in turn; LDAP may make the account.
api_fetch_api_key(host, e) ==
  /\ grant = NoGrant
  /\ \/ e \in Mine /\ GoogleMobileOauth2Backend(e, host) # Nobody /\ Give("key", e, host, "Google") /\ UNCHANGED home
     \/ EmailAuthBackend(e, host) # Nobody /\ Give("key", e, host, "Email") /\ UNCHANGED home
     \/ /\ EmailAuthBackend(e, host) = Nobody /\ ZulipLDAPAuthBackend(e, host)
        /\ home' = [home EXCEPT ![e] = IF @ = "" THEN host ELSE @]
        /\ Give("key", e, host, "LDAP")
  /\ UNCHANGED <<inactive, shut, hop, cookie, time, proved>>

\* The web server has authenticated the person; so has whoever signed the token.
remote_user_sso(host, e) ==
  /\ grant = NoGrant /\ e \in Mine
  /\ login_or_register_remote_user(e, ZulipRemoteUserBackend(e, host), host, "RemoteUser", FALSE, FALSE, FALSE)
  /\ UNCHANGED <<home, inactive, shut, hop, cookie, time, proved>>

remote_user_jwt(host, e) ==
  LET answer == ZulipDummyBackend(e, host)
  IN /\ grant = NoGrant /\ e \in Mine /\ ~answer.invalid_subdomain
     /\ login_or_register_remote_user(e, answer.user, host, "jwt", FALSE, FALSE, FALSE)
     /\ UNCHANGED <<home, inactive, shut, hop, cookie, time, proved>>

\* Both development log-ins.
dev_direct_login(host, e) ==
  /\ grant = NoGrant /\ DevAuthBackend(e) # Nobody
  /\ \E what \in {"session", "key"} : Give(what, e, host, "Dev")
  /\ UNCHANGED <<home, inactive, shut, hop, cookie, time, proved>>

\* A person with a session asks for its key, and gives the password where one can be used.
json_fetch_api_key(e) ==
  /\ grant.what = "session" /\ grant.user = e
  /\ auth_enabled_helper("Email", home[e]) => EmailAuthBackend(e, grant.host) # Nobody
  /\ e \notin inactive /\ home[e] \notin shut
  /\ Give("key", e, grant.host, grant.way)
  /\ UNCHANGED <<home, inactive, shut, hop, cookie, time, proved>>

logout_then_login ==
  /\ grant # NoGrant
  /\ grant' = NoGrant
  /\ UNCHANGED <<home, inactive, shut, hop, cookie, time, proved>>

-----------------------------------------------------------------------------
(* Through the main site.                                                    *)

\* start_google_oauth2, start_social_login and start_social_signup
redirect_to_main_site(host) ==
  /\ hop = NoHop /\ grant = NoGrant
  /\ \E mobile, signup \in BOOLEAN, step \in {"google", "github"} :
       /\ step = "google" => ~signup
       /\ step = "github" => ~mobile
       /\ hop' = [step |-> step, subdomain |-> host, mobile |-> mobile, signup |-> signup]
  /\ UNCHANGED <<home, inactive, shut, cookie, time, proved, grant>>

\* Only realms' hosts are sent on to Google.
send_oauth_request_to_google ==
  /\ hop.step = "google"
  /\ hop' = IF hop.subdomain \in RealmHosts THEN [hop EXCEPT !.step = "at_google"] ELSE NoHop
  /\ UNCHANGED <<home, inactive, shut, cookie, time, proved, grant>>

\* Signed, with the subdomain it is for.
redirect_and_log_into_subdomain(e, subdomain, signup) ==
  cookie' = [email |-> e, subdomain |-> subdomain, signup |-> signup, made |-> time]

\* Google tells the address, or an error; the state that comes back is the one that was sent.  A mobile
\* client gets its key here; others go to the realm's host.
finish_google_oauth2 ==
  /\ hop.step = "at_google" /\ grant = NoGrant
  /\ hop' = NoHop
  /\ \/ UNCHANGED <<cookie, proved, grant>>
     \/ \E e \in Mine :
          /\ proved' = time
          /\ IF hop.mobile
             THEN LET answer == ZulipDummyBackend(e, hop.subdomain)
                  IN /\ login_or_register_remote_user(e, answer.user, hop.subdomain, "web", answer.invalid_subdomain, TRUE, FALSE)
                     /\ UNCHANGED cookie
             ELSE redirect_and_log_into_subdomain(e, hop.subdomain, FALSE) /\ UNCHANGED grant
  /\ UNCHANGED <<home, inactive, shut, time>>

\* GitHub's answer at the main site, whose subdomain is the empty one: an account there is told so, and
\* only inactive ones are stopped.
common_authenticate(e) == IF e = "" THEN "invalid_email" ELSE IF Bar(e) = "ok" THEN "invalid_subdomain" ELSE Bar(e)

process_do_auth(e) ==
  IF common_authenticate(e) \in {"inactive_user", "inactive_realm"} \/ hop.subdomain \notin RealmHosts THEN UNCHANGED cookie
  ELSE redirect_and_log_into_subdomain(e, hop.subdomain, hop.signup)

do_auth ==
  /\ hop.step = "github" /\ grant = NoGrant
  /\ hop' = NoHop
  /\ \/ UNCHANGED <<cookie, proved>>                        \* AuthFailed
     \/ \E e \in Mine : process_do_auth(e) /\ proved' = time
  /\ UNCHANGED <<home, inactive, shut, time, grant>>

authenticate_remote_user(e, host) == ZulipDummyBackend(e, host)

get_signed_cookie == cookie # NoCookie /\ time - cookie.made <= MaxAge

\* The browser sends the cookie to every host of the site.
log_into_subdomain(host) ==
  /\ grant = NoGrant /\ get_signed_cookie
  /\ cookie.subdomain = host
  /\ IF cookie.signup
     THEN login_or_register_remote_user(cookie.email, Nobody, host, "web", FALSE, FALSE, TRUE)
     ELSE LET answer == authenticate_remote_user(cookie.email, host)
          IN login_or_register_remote_user(cookie.email, answer.user, host, "web", answer.invalid_subdomain, FALSE, FALSE)
  /\ UNCHANGED <<home, inactive, shut, hop, cookie, time, proved>>

-----------------------------------------------------------------------------

Elsewhere ==
  /\ \/ \E e \in Logins : home[e] # "" /\ inactive' = inactive \cup {e} /\ UNCHANGED <<shut, time>>
     \/ \E r \in RealmHosts : shut' = shut \cup {r} /\ UNCHANGED <<inactive, time>>
     \/ time < MaxTime /\ time' = time + 1 /\ UNCHANGED <<inactive, shut>>
  /\ UNCHANGED <<home, hop, cookie, proved, grant>>

LogInNext ==
  \/ \E host \in AllHosts, e \in Logins :
       login_page(host, e) \/ api_fetch_api_key(host, e) \/ remote_user_sso(host, e) \/ remote_user_jwt(host, e) \/ dev_direct_login(host, e)
  \/ \E e \in Logins : json_fetch_api_key(e)
  \/ \E host \in AllHosts : redirect_to_main_site(host) \/ log_into_subdomain(host)
  \/ send_oauth_request_to_google \/ finish_google_oauth2 \/ do_auth \/ logout_then_login
  \/ Elsewhere

LogInSpec == LogInInit /\ [][LogInNext]_loginVars

-----------------------------------------------------------------------------

GrantRight ==
  LET g == grant'
  IN g # grant /\ g # NoGrant =>
       /\ g.what # "register" => g.user \notin inactive /\ home'[g.user] \notin shut
       /\ g.way # "Dev" => g.user \in Mine
       /\ g.way # "Dev" /\ g.what # "register" => home'[g.user] = g.host
       /\ g.way = "web" /\ grant = NoGrant => time - proved' <= MaxAge

\* What is handed out at the end of any flow goes to the owner of an account that is active in an open
\* realm at that moment, at the host of that realm, and, on the way through the main site, only while the
\* identity that Google or GitHub told is fresh; registration is for fresh identities too.
GrantsRight == [][GrantRight]_loginVars
=============================================================================
