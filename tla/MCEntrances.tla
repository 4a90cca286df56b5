---------------------------- MODULE MCEntrances ----------------------------
(***************************************************************************)
(* The ways into the server together: accounts are made, people log in,    *)
(* their requests are admitted and their rates limited.  The four keep     *)
(* their state in different tables and services, so one behaviour follows  *)
(* one of them.                                                            *)
(***************************************************************************)
EXTENDS Accounts, WebEntries, RateLimiter, LogIn

VARIABLE area   \* the part that this behaviour follows

vars == <<area, accountVars, webVars, limitVars, loginVars>>

Init ==
  /\ area \in {"accounts", "web", "limits", "login"}
  /\ AccountsInit /\ WebInit /\ LimitsInit /\ LogInInit
  /\ area # "accounts" => \A e \in Emails : ~account[e].dummy

Next ==
  /\ UNCHANGED area
  /\ \/ area = "accounts" /\ AccountsNext /\ UNCHANGED <<webVars, limitVars, loginVars>>
     \/ area = "web" /\ WebNext /\ UNCHANGED <<accountVars, limitVars, loginVars>>
     \/ area = "limits" /\ LimitsNext /\ UNCHANGED <<accountVars, webVars, loginVars>>
     \/ area = "login" /\ LogInNext /\ UNCHANGED <<accountVars, webVars, limitVars>>

Spec == Init /\ [][Next]_vars

-----------------------------------------------------------------------------
\* For Accounts.
MCFirstUser == [r \in {"a", "c"} |-> IF r = "a" THEN "ann" ELSE "cat"]
MCAllowed == [r \in {"a", "b", "c"} |-> IF r = "a" THEN {"ann", "u"} ELSE IF r = "b" THEN Emails ELSE {"cat", "u"}]

\* For Caches: the one user's address.
MCFirstAddress == [u \in Users |-> "e1"]

\* For RateLimiter: one call in 2 seconds, and in 4; with two processes, up to three are let in.
MCRules == <<<<2, 1>>, <<4, 1>>>>

\* For LogIn: d (a mirror dummy) in a, o, who is somebody else, in b, and n, who has no account yet.
MCHome == [e \in Logins |-> CASE e = "o" -> "b" [] e = "n" -> "" [] OTHER -> "a"]
MCMethods == [r \in RealmHosts |-> IF r = "a" THEN {"Email", "LDAP", "Google", "RemoteUser"} ELSE {"Dev", "GitHub"}]
=============================================================================
