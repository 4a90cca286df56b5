---------------------------- MODULE MCOperations -----------------------------
(***************************************************************************)
(* What runs beside the requests: the counts of analytics, mail about      *)
(* missed messages, scheduled mail, and the export of a realm.             *)
(* They keep their state apart, so one behaviour follows one of them.      *)
(***************************************************************************)
EXTENDS Analytics, MissedMail, ScheduledMail, RealmExport

VARIABLE area   \* the part that this behaviour follows

vars == <<area, analyticsVars, missedVars, scheduledVars, exportVars>>

Init ==
  /\ area \in {"analytics", "missed", "scheduled", "export"}
  /\ AnalyticsInit /\ MissedInit /\ ScheduledInit /\ ExportInit

Next ==
  /\ UNCHANGED area
  /\ \/ /\ area = "analytics" /\ AnalyticsNext
        /\ UNCHANGED <<missedVars, scheduledVars, exportVars>>
     \/ /\ area = "missed" /\ MissedNext
        /\ UNCHANGED <<analyticsVars, scheduledVars, exportVars>>
     \/ /\ area = "scheduled" /\ ScheduledNext
        /\ UNCHANGED <<analyticsVars, missedVars, exportVars>>
     \/ /\ area = "export" /\ ExportNext
        /\ UNCHANGED <<analyticsVars, missedVars, scheduledVars>>

Spec == Init /\ [][Next]_vars

(***************************************************************************)
(* Mail is neither lost nor repeated without a cause: no missed message is *)
(* passed over, a reply address posts one answer, to a conversation of its *)
(* mail (MissedMail), and scheduled mail goes out once unless it was taken *)
(* back (ScheduledMail).                                                   *)
(***************************************************************************)
MailRight == MissedMailRight /\ ScheduledMailRight

-----------------------------------------------------------------------------
\* For Analytics: u of realm r, v of realm q.
MCHumanRealm == [u |-> "r", v |-> "q"]

\* For MissedMail: a private message from a, and after others in the topic a mention by b.
MCMissedBy == [m \in Misses |-> "u"]
MCMissSender == [m \in Conversation |-> IF m \in {1, 2} THEN "a" ELSE "b"]
MCMissTopic == [m \in Conversation |-> IF m = 1 THEN "" ELSE "topic"]

\* For RealmExport: x is of another realm.
Message(s, r, c, f) == [sender |-> s, to |-> r, client |-> c, file |-> f]
MCTraffic ==
  {Message("u", InStream("s"), "website", "f"), Message("u", Personal("d"), "api", ""),
   Message("bot1", Personal("u"), "mobile", ""), Message("j", InStream("s"), "api", "f"),
   Message("d", Huddle({"u", "d", "j"}), "mobile", ""),
   Message("u", Huddle({"u", "x", "bot1"}), "website", "f")}

Symmetry == Permutations(Letters)
=============================================================================
