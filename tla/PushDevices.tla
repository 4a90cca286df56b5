----------------------------- MODULE PushDevices -----------------------------
(***************************************************************************)
(* Mobile notifications: which device belongs to whom (PushDeviceToken,    *)
(* unique by token) and how the answers of Apple and Google change that.   *)
(* Registrations are two statements, and calls of several users of one     *)
(* device overlap.                                                         *)
(***************************************************************************)
EXTENDS Integers, FiniteSets, FiniteSetsExt, Functions

CONSTANTS
  Owners,         \* users
  AppleTokens, GoogleTokens,
  OurApp,         \* tokens whose ios_app_id is ZULIP_IOS_APP_ID or missing
  MaxTime,        \* bound: ticks
  MaxCalls        \* bound: registrations under way

Tokens == AppleTokens \union GoogleTokens

VARIABLES
  time,
  devices,      \* PushDeviceToken: token -> [user, last_updated]
  adding,       \* calls of add_push_device_token past their first statement
  pushing,      \* handle_push_notification at work, with the devices it found
  sentTo,       \* notes in redis: [user, token] pairs Apple was sent
  quiet,        \* users who turned notifications off or read what they would be told of
  owned         \* history: token -> the registration that should stand

pushVars == <<time, devices, adding, pushing, sentTo, quiet, owned>>

NotPushing == [user |-> "", apple |-> {}, google |-> {}]
Without(f, t) == Restrict(f, DOMAIN f \ {t})
With(f, t, v) == [x \in DOMAIN f \union {t} |-> IF x = t THEN v ELSE f[x]]
Owns(u, t) == t \in DOMAIN devices /\ devices[t].user = u
-----------------------------------------------------------------------------
(* add_push_device_token *)
\* Another user of the device did not log out: the row goes.
AddBegins(u, t) ==
  /\ Cardinality(adding) < MaxCalls /\ [user |-> u, token |-> t] \notin adding
  /\ adding' = adding \union {[user |-> u, token |-> t]}
  /\ devices' = IF Owns(u, t) THEN devices ELSE Without(devices, t)
  /\ owned' = IF Owns(u, t) THEN owned ELSE Without(owned, t)
  /\ UNCHANGED <<time, pushing, sentTo, quiet>>

\* The slip of leaving the row as it is when it was there.
MutNotRenewed(u, t) == IF Owns(u, t) THEN devices[t].last_updated ELSE time

\* get_or_create, and the time of a row that was there.
RenewedAt(u, t) == time

\* get_or_create raises when another user's row was made in between.
AddEnds(c) ==
  /\ c \in adding
  /\ adding' = adding \ {c}
  /\ IF c.token \in DOMAIN devices /\ ~Owns(c.user, c.token)
     THEN UNCHANGED <<devices, owned>>
     ELSE /\ devices' = With(devices, c.token,
                             [user |-> c.user, last_updated |-> RenewedAt(c.user, c.token)])
          /\ owned' = With(owned, c.token, [user |-> c.user, at |-> time])
  /\ UNCHANGED <<time, pushing, sentTo, quiet>>

\* Whoever asks, the row of the token goes; the call of the user is the end of
\* what was registered for the device.
remove_push_device_token(t) ==
  /\ t \in DOMAIN devices
  /\ devices' = Without(devices, t)
  /\ owned' = Without(owned, t)
  /\ UNCHANGED <<time, adding, pushing, sentTo, quiet>>
-----------------------------------------------------------------------------
(* handle_push_notification *)
PushBegins(u) ==
  /\ pushing = NotPushing
  /\ u \notin quiet
  /\ LET mine == {t \in DOMAIN devices : Owns(u, t)} IN
     /\ mine # {}
     /\ pushing' = [user |-> u, apple |-> mine \intersect AppleTokens,
                    google |-> mine \intersect GoogleTokens]
  /\ UNCHANGED <<time, devices, adding, sentTo, quiet, owned>>

\* Each token goes out with an identifier under which redis knows it.
send_apple_push_notification ==
  /\ pushing.apple # {}
  /\ pushing' = [pushing EXCEPT !.apple = {}, !.user = IF pushing.google = {} THEN "" ELSE @]
  /\ sentTo' = sentTo \union {[user |-> pushing.user, token |-> t] : t \in pushing.apple \intersect OurApp}
  /\ UNCHANGED <<time, devices, adding, quiet, owned>>

AllSent(t) == [pushing EXCEPT !.google = @ \ {t}, !.user = IF @ # "" /\ pushing.google = {t} THEN "" ELSE @]

\* send_android_push_notification: Google's answer for one device.
Sent(t) == UNCHANGED <<devices, owned>>

\* The device is known by a newer token: the row takes it, or goes if it is there.
Canonical(t, new) ==
  IF new \in DOMAIN devices \/ t \notin DOMAIN devices
  THEN devices' = Without(devices, t) /\ owned' = Without(owned, t)
  ELSE /\ devices' = With(Without(devices, t), new, devices[t])
       /\ owned' = IF t \in DOMAIN owned THEN With(Without(owned, t), new, owned[t]) ELSE owned

NotRegistered(t) == devices' = Without(devices, t) /\ owned' = Without(owned, t)

send_android_push_notification(t) ==
  /\ pushing.apple = {} /\ t \in pushing.google
  /\ \/ Sent(t) /\ pushing' = AllSent(t)
     \/ \E new \in GoogleTokens \ {t} : Canonical(t, new) /\ pushing' = AllSent(t)
     \/ \* objects.get raises for a row that is gone, and the rest is left
        /\ NotRegistered(t)
        /\ pushing' = IF t \in DOMAIN devices THEN AllSent(t) ELSE NotPushing
     \/ \* IOError: nothing was sent
        UNCHANGED <<devices, owned>> /\ pushing' = NotPushing
  /\ UNCHANGED <<time, adding, sentTo, quiet>>

\* Apple's answer "invalid token" to one identifier: the row of that user only.
response_listener(n) ==
  /\ n \in sentTo
  /\ sentTo' = sentTo \ {n}
  /\ IF Owns(n.user, n.token)
     THEN devices' = Without(devices, n.token) /\ owned' = Without(owned, n.token)
     ELSE UNCHANGED <<devices, owned>>
  /\ UNCHANGED <<time, adding, pushing, quiet>>

\* check_apns_feedback: tokens unavailable since a moment in the past.
Unused(t, since) == devices[t].last_updated < since

check_apns_feedback(t, since) ==
  /\ t \in DOMAIN devices
  /\ devices' = IF Unused(t, since) THEN Without(devices, t) ELSE devices
  /\ owned' = IF t \in DOMAIN owned /\ owned[t].at < since THEN Without(owned, t) ELSE owned
  /\ UNCHANGED <<time, adding, pushing, sentTo, quiet>>
-----------------------------------------------------------------------------
Tick == time < MaxTime /\ time' = time + 1
          /\ UNCHANGED <<devices, adding, pushing, sentTo, quiet, owned>>

\* receives_offline_notifications and receives_online_notifications turn false,
\* or the message is read or deleted: handle_push_notification returns early.
FallsQuiet(u) == u \notin quiet /\ quiet' = quiet \union {u}
                   /\ UNCHANGED <<time, devices, adding, pushing, sentTo, owned>>

PushInit ==
  /\ time = 0 /\ devices = <<>> /\ adding = {} /\ pushing = NotPushing
  /\ sentTo = {} /\ quiet = {} /\ owned = <<>>

PushNext ==
  \/ \E u \in Owners, t \in Tokens : AddBegins(u, t)
  \/ \E c \in adding : AddEnds(c)
  \/ \E t \in Tokens : remove_push_device_token(t)
  \/ \E u \in Owners : PushBegins(u) \/ FallsQuiet(u)
  \/ send_apple_push_notification
  \/ \E t \in GoogleTokens : send_android_push_notification(t)
  \/ \E n \in sentTo : response_listener(n)
  \/ \E t \in AppleTokens, since \in 0 .. time : check_apns_feedback(t, since)
  \/ Tick

PushSpec == PushInit /\ [][PushNext]_pushVars
-----------------------------------------------------------------------------
(***************************************************************************)
(* A registration that was answered with success stands until the device   *)
(* is registered for another user, is unregistered, is reported dead after *)
(* it was last registered, or is called invalid by Apple in answer to a    *)
(* notification: neither an overlapping registration nor                   *)
(* Apple's report on the time before it was renewed takes it away          *)
(* (add_push_device_token, check_apns_feedback, response_listener).        *)
(***************************************************************************)
RegistrationStands == \A t \in DOMAIN owned : Owns(owned[t].user, t)
=============================================================================
