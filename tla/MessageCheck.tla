---------------------------- MODULE MessageCheck ----------------------------
(***************************************************************************)
(* What a request to send a message goes through until the message is      *)
(* stored: the rights of the user and of the mirroring clients, stub       *)
(* accounts for mirrored people, the recipient, and the search for a       *)
(* mirrored message that another mirror already stored.  Checking and      *)
(* storing are two steps, between which other requests run.                *)
(***************************************************************************)
EXTENDS Integers, Sequences, FiniteSets

CONSTANTS
  People,         \* addresses
  FirstAccounts,  \* the account of each address at the start
  DomainOf,       \* the realm whose domain the address has
  BotOwner,       \* from bots to their owners
  CrossBots,      \* get_cross_realm_emails
  NoticeBot,      \* NOTIFICATION_BOT, one of them
  SuperUsers,     \* is_api_super_user
  Channels, ChannelRealm,
  FirstMembers,   \* the subscribers of each channel at the start
  ZephyrRealms,
  Requests,       \* what people ask for
  Window,         \* ticks in which two copies of a group message are taken for one
  MaxStored, MaxWaiting, MaxTicks

ASSUME CheckConstants ==
  /\ Window \in Nat /\ NoticeBot \in CrossBots /\ CrossBots \subseteq People
  /\ \A b \in DOMAIN BotOwner : BotOwner[b] \in People
  /\ FirstAccounts \in [People -> [state : {"none", "active", "gone", "dummy"}, realm : {FirstAccounts[p].realm : p \in People}]]

\* What REQ lets through; a message without recipients is refused.
ASSUME RequestShape ==
  \A r \in Requests :
    /\ r.by \in People /\ r.sender \in People /\ r.forged \in BOOLEAN /\ r.time \in Nat
    /\ r.type \in {"stream", "private"} /\ r.to # {} /\ IsFiniteSet(r.to)
    /\ r.type = "private" => r.to \subseteq People

VARIABLES
  account,  \* state (none, active, gone or dummy) and realm of each address
  members,  \* active subscriptions of each channel
  closed,   \* invite-only channels
  ticks,    \* the time; every message checked has its own
  warned,   \* bots whose owners were told lately
  waiting,  \* messages checked and not yet stored
  stored    \* messages, as they were stored

checkVars == <<account, members, closed, ticks, warned, waiting, stored>>

Mirrors == {"zephyr_mirror", "irc_mirror", "jabber_mirror"}
Bots == DOMAIN BotOwner

CheckInit ==
  /\ account = FirstAccounts
  /\ members = FirstMembers
  /\ closed = {}
  /\ ticks = 1 /\ warned = {} /\ waiting = {} /\ stored = <<>>

-----------------------------------------------------------------------------

\* Everybody that a private message names uses the server, the forwarder of a message that
\* a mirror did not forge is among them, and they are of one realm.  Between two people
\* the recipient is the other one; a larger group includes the sender.
MutOnlyRecipients(accounts, to, sender, forwarder, strict) ==
  IF /\ \A e \in to : accounts[e].state \in {"active", "dummy"}
     /\ strict => forwarder \in to
     /\ Cardinality({accounts[e].realm : e \in to \ CrossBots}) <= 1
  THEN LET others == IF Cardinality(to) = 2 THEN to \ {sender} ELSE to
       IN {[kind |-> IF Cardinality(others) > 1 THEN "huddle" ELSE "personal",
            who |-> IF Cardinality(others) > 1 THEN others \cup {sender} ELSE others]}
  ELSE {}

recipient_for_emails(accounts, to, sender, forwarder, strict) ==
  IF /\ \A e \in to : accounts[e].state \in {"active", "dummy"}
     /\ strict => forwarder \in to
     /\ Cardinality({accounts[e].realm : e \in (to \cup {sender}) \ CrossBots}) <= 1
  THEN LET others == IF Cardinality(to) = 2 THEN to \ {sender} ELSE to
       IN {[kind |-> IF Cardinality(others) > 1 THEN "huddle" ELSE "personal",
            who |-> IF Cardinality(others) > 1 THEN others \cup {sender} ELSE others]}
  ELSE {}

\* get_stream finds one of that name in the realm.
get_channel(c, realm) == c \in Channels /\ ChannelRealm[c] = realm

\* A stream of the realm in which the sender, its owner or a super user may write (so may
\* the welcome bot, which none of the requests is from).
StreamRecipient(c, realm, sender, forwarder) ==
  IF /\ get_channel(c, realm)
     /\ \/ c \notin closed \/ sender \in members[c]
        \/ {sender, forwarder} \cap SuperUsers # {}
        \/ sender \in Bots /\ BotOwner[sender] \in members[c]
  THEN {[kind |-> "stream", who |-> {c}]} ELSE {}

\* Bug: the mirrors' clocks are taken to agree.
MutSameTime(a, b) == a.sender = b.sender /\ a.to = b.to /\ a.at = b.at

\* Copies of one mirrored message: same sender and recipient, and the same time, or for a
\* group nearly the same.
already_sent_mirrored_message(a, b) ==
  /\ a.sender = b.sender /\ a.to = b.to
  /\ IF a.to.kind = "huddle" THEN a.at - b.at \in -Window..Window ELSE a.at = b.at

\* A bot wrote to a stream that is not there or that nobody reads: its owner is told.
send_pm_if_empty_stream(sender, c, realm) ==
  /\ sender \in Bots \ warned
  /\ account[sender].realm = realm /\ realm \notin ZephyrRealms
  /\ get_channel(c, realm) => members[c] = {}

\* internal_send_private_message to the owner.
OwnerNotice(bot) ==
  {[sender |-> NoticeBot, to |-> to, at |-> ticks, via |-> "Internal", by |-> NoticeBot,
    forged |-> FALSE, raced |-> FALSE] :
     to \in recipient_for_emails(account, {BotOwner[bot]}, NoticeBot, NoticeBot, FALSE)}

Recipients(r, accounts, sender, realm) ==
  IF r.type = "stream" THEN UNION {StreamRecipient(c, realm, sender, r.by) : c \in r.to}
  ELSE recipient_for_emails(accounts, r.to, sender, r.by, r.client \in Mirrors /\ ~r.forged)

\* check_message for sender (a stream message has one stream): the message waits to be stored, unless its recipient is refused
\* or it is a copy of one that is stored.
check_message(r, accounts, sender) ==
  LET realm == IF r.realm = "" THEN accounts[sender].realm ELSE r.realm
      tell == r.type = "stream" /\ \E c \in r.to : send_pm_if_empty_stream(sender, c, realm)
      at == IF r.forged THEN r.time ELSE ticks
      fresh == {[sender |-> sender, to |-> to, at |-> at, via |-> r.client, by |-> r.by,
                 forged |-> r.forged, raced |-> FALSE] : to \in Recipients(r, accounts, sender, realm)}
      Copies(m, others) == r.client = "zephyr_mirror" /\ \E n \in others : already_sent_mirrored_message(n, m)
      Sent == {stored[i] : i \in 1..Len(stored)}
  IN /\ waiting' = waiting \cup {[m EXCEPT !.raced = Copies(m, waiting)] : m \in {n \in fresh : ~Copies(n, Sent)}}
     /\ ticks < MaxTicks /\ ticks' = ticks + 1
     /\ account' = accounts
     /\ warned' = IF tell THEN warned \cup {sender} ELSE warned
     /\ stored' = IF tell /\ OwnerNotice(sender) # {} THEN Append(stored, CHOOSE n \in OwnerNotice(sender) : TRUE) ELSE stored
     /\ Cardinality(waiting') <= MaxWaiting /\ Len(stored') + Cardinality(waiting') <= MaxStored
     /\ UNCHANGED <<members, closed>>

\* same_realm_zephyr_user, same_realm_irc_user and same_realm_jabber_user.
same_realm_user(client, by, e) ==
  DomainOf[e] = account[by].realm /\ (client = "zephyr_mirror" => account[by].realm \in ZephyrRealms)

\* A stub for each person of the message who has no account in the realm of the forwarder;
\* one who has an account elsewhere cannot get it, and the request fails.
create_mirrored_message_users(r) ==
  LET named == {r.sender} \cup (IF r.type = "private" THEN r.to ELSE {})
      realm == account[r.by].realm
  IN IF /\ \A e \in named : same_realm_user(r.client, r.by, e)
        /\ \A e \in named : account[e].state = "none" \/ account[e].realm = realm
     THEN {[e \in People |-> IF e \in named /\ account[e].state = "none" THEN [state |-> "dummy", realm |-> realm]
                              ELSE account[e]]}
     ELSE {}

\* Mirrored stream messages are for super users, those of IRC for streams named with a #.
send_mirrored(r) ==
  /\ r.type # "private" => r.by \in SuperUsers
  /\ r.client = "irc_mirror" /\ r.type # "private" => r.to = {"#irc"}
  /\ \E accounts \in create_mirrored_message_users(r) : check_message(r, accounts, r.sender)

\* Only super users forge a sender's time or write in another realm.
send_message_backend(r) ==
  /\ account[r.by].state = "active"
  /\ r.forged => r.by \in SuperUsers
  /\ r.realm \notin {"", account[r.by].realm} => r.by \in SuperUsers
  /\ IF r.client \in Mirrors THEN send_mirrored(r) ELSE check_message(r, account, r.by)

\* The rows are written.
do_send_messages(m) ==
  /\ waiting' = waiting \ {m}
  /\ stored' = Append(stored, m)
  /\ UNCHANGED <<account, members, closed, ticks, warned>>

\* Meanwhile people leave, are deactivated, and channels become invite-only.
DeactivateAccount(p) ==
  /\ account[p].state = "active" /\ p \notin CrossBots
  /\ account' = [account EXCEPT ![p].state = "gone"]
  /\ members' = [c \in Channels |-> members[c] \ {p}]
  /\ UNCHANGED <<closed, ticks, warned, waiting, stored>>

CloseChannel(c) ==
  /\ closed' = closed \cup {c}
  /\ UNCHANGED <<account, members, ticks, warned, waiting, stored>>

CheckNext ==
  \/ \E r \in Requests : send_message_backend(r)
  \/ \E m \in waiting : do_send_messages(m)
  \/ \E p \in DOMAIN account : DeactivateAccount(p)
  \/ \E c \in Channels \ closed : CloseChannel(c)

CheckSpec == CheckInit /\ [][CheckNext]_checkVars

-----------------------------------------------------------------------------

Sharers(m) == m.to.who \cup {m.sender}

(***************************************************************************)
(* A private message is between people of one realm and the bots that      *)
(* serve all realms; two people share one recipient each way and a group   *)
(* one that includes the sender; and what a mirror forwards, unless it     *)
(* forges, its user took part in.  The mirroring comment of                *)
(* send_message_backend promises this, create_mirrored_message_users and   *)
(* recipient_for_emails have to keep it together.                          *)
(***************************************************************************)
PrivateAmongPeers ==
  \A m \in {stored[i] : i \in 1..Len(stored)} : m.to.kind # "stream" =>
    /\ Cardinality({account[p].realm : p \in Sharers(m) \ CrossBots}) <= 1
    /\ IF m.to.kind = "huddle" THEN m.sender \in m.to.who /\ Cardinality(m.to.who) > 2 ELSE Cardinality(m.to.who) = 1
    /\ m.via \in Mirrors /\ ~m.forged => m.by \in Sharers(m)

(***************************************************************************)
(* A Zephyr message that several mirrors forward is stored once, unless    *)
(* one of them asked while the copy of another was on its way to the       *)
(* tables: already_sent_mirrored_message_id reads before do_send_messages  *)
(* writes, and no constraint of the tables joins them.                     *)
(***************************************************************************)
MirroredOnce ==
  \A i, j \in 1..Len(stored) :
    /\ i < j /\ stored[i].via = "zephyr_mirror" /\ stored[j].via = "zephyr_mirror"
    /\ stored[i].sender = stored[j].sender /\ stored[i].to = stored[j].to
    /\ stored[i].at = stored[j].at \/ (stored[i].to.kind = "huddle" /\ stored[i].at - stored[j].at \in -Window..Window)
    => stored[i].raced \/ stored[j].raced

\* What was checked and mirrored is stored where it belongs, and once.
SentRight == PrivateAmongPeers /\ MirroredOnce
=============================================================================
