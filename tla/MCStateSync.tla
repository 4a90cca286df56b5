---------------------------- MODULE MCStateSync ----------------------------
EXTENDS StateSync

CONSTANTS me, ann, zoe, rob, s1, s2

MCHumans == {me, ann, zoe}
MCBots == {rob}
MCStreams == {s1, s2}
MCHotspots == <<"click_to_reply", "new_topic_button">>
MCAdmins == {me, ann}
MCAbsent == {zoe}

\* For Activity: a browser with input, the desktop application, idle or not, and a visit.
Reported(c, s, input) == [client |-> c, status |-> s, new_user_input |-> input]
MCReports == {Reported("website", "active", TRUE), Reported("ZulipDesktop", "idle", FALSE),
              Reported("ZulipDesktop", "active", FALSE), Reported("website", "", FALSE)}
=============================================================================
