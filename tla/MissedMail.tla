----------------------------- MODULE MissedMail ------------------------------
(***************************************************************************)
(* Mail about missed messages and the answers to it: MissedMessageWorker   *)
(* gathers what the event queues report, one mail per conversation goes    *)
(* out with an address that is good for one reply, and the mail gateway    *)
(* (over LMTP and a queue, or by polling a mailbox) posts the replies and  *)
(* the mail to the addresses of streams.                                   *)
(***************************************************************************)
EXTENDS Integers, FiniteSets, FiniteSetsExt, Functions, Sequences, SequencesExt

CONSTANTS
  Conversation,   \* ids of messages
  Misses,         \* those of them that are missed
  MissedBy,       \* [Misses -> the user who missed it]
  MissSender,     \* [Conversation -> who sent it]
  MissTopic,      \* [Conversation -> stream topic, "" of a private message]
  Letters,        \* mails that come in
  MaxMailDeaths   \* bound: workers that die

ASSUME MissedMailAssumption == MaxMailDeaths \in Nat /\ Misses \subseteq Conversation /\ Conversation \subseteq Nat

Readers == {MissedBy[m] : m \in Misses}

VARIABLES
  told,         \* history: misses reported to the queue
  missQueue,    \* missedmessage_emails
  batch,        \* events MissedMessageWorker took and acknowledged
  handling,     \* the user at work: what was loaded, the mails still to write
  settled,      \* misses that were read, or deleted (edited to "(deleted)")
  mailOff,      \* users without enable_offline_email_notifications
  outbox,       \* missedmessage_email_senders
  mails,        \* mail -> times it reached its user
  excused,      \* history: misses a worker died with or the mail server refused
  replyKeys,    \* redis: mail -> [left, to] of its reply address
  expiredKeys,  \* history: mails whose reply address ran out of time
  letters,      \* mail to the gateway: [addr, state, posted, to]
  renamed,      \* the stream whose address is written to has another name now
  mailDeaths

missedVars == <<told, missQueue, batch, handling, settled, mailOff, outbox, mails,
                excused, replyKeys, expiredKeys, letters, renamed, mailDeaths>>
missWorkerVars == <<told, missQueue, batch, handling, settled, mailOff, outbox, mails, excused>>
gatewayVars == <<replyKeys, expiredKeys, letters, renamed>>

NoUser == [user |-> "nobody", wants |-> FALSE, groups |-> {}]
\* A reply address is named by the misses its mail is about; a stream's by none.
StreamAddress == {{}}
Die == mailDeaths < MaxMailDeaths /\ mailDeaths' = mailDeaths + 1
Live == UNCHANGED mailDeaths
-----------------------------------------------------------------------------
(* What users do *)
EventMissed(m) ==
  /\ m \notin told
  /\ told' = told \union {m} /\ missQueue' = missQueue \union {m}
  /\ UNCHANGED <<batch, handling, settled, mailOff, outbox, mails, excused>>
  /\ UNCHANGED gatewayVars /\ Live

MissSettled(m) ==
  /\ m \in told \ settled
  /\ settled' = settled \union {m}
  /\ UNCHANGED <<told, missQueue, batch, handling, mailOff, outbox, mails, excused>>
  /\ UNCHANGED gatewayVars /\ Live

do_missedmessage_unsubscribe(u) ==
  /\ u \notin mailOff /\ mailOff' = mailOff \union {u}
  /\ UNCHANGED <<told, missQueue, batch, handling, settled, outbox, mails, excused>>
  /\ UNCHANGED gatewayVars /\ Live
-----------------------------------------------------------------------------
(* MissedMessageWorker *)
\* Everything in the queue is taken and acknowledged at once.
drain_queue ==
  /\ handling = NoUser /\ batch = {} /\ missQueue # {}
  /\ batch' = missQueue /\ missQueue' = {}
  /\ UNCHANGED <<told, handling, settled, mailOff, outbox, mails, excused>>
  /\ UNCHANGED gatewayVars /\ Live

\* One mail for the messages with the same recipient and topic.
SameMail(m, n) == MissTopic[m] = MissTopic[n]
ByRecipientSubject(ms) == {{n \in ms : SameMail(m, n)} : m \in ms}

Unread(ms) == ms \ settled

handle_missedmessage_emails(u) ==
  /\ handling = NoUser
  /\ LET mine == {m \in batch : MissedBy[m] = u}  groups == ByRecipientSubject(Unread(mine)) IN
     /\ mine # {}
     /\ batch' = batch \ mine
     /\ handling' = IF groups = {} THEN NoUser
                    ELSE [user |-> u, wants |-> u \notin mailOff, groups |-> groups]
  /\ UNCHANGED <<told, missQueue, settled, mailOff, outbox, mails, excused>>
  /\ UNCHANGED gatewayVars /\ Live

\* create_missed_message_address: a private message is answered to its sender.
ReplyTo(m) == IF MissTopic[m] = "" THEN MissSender[m] ELSE MissTopic[m]

\* Messages of the topic that came shortly before the first miss are shown too.
get_context_for_message(m) == {n \in Conversation : MissTopic[n] = MissTopic[m] /\ n < m}
WithContext(g) == IF MissTopic[Min(g)] = "" THEN g ELSE g \union get_context_for_message(Min(g))

message_header(m) == IF MissTopic[m] = "" THEN MissSender[m] ELSE MissTopic[m]
sender_string(m) == IF MissTopic[m] = "" THEN "" ELSE MissSender[m]
SenderPayload(m) == [sender |-> sender_string(m), content |-> <<m>>]

\* A message goes under the last header and the last sender if they are its own.
Collapse(blocks, m) ==
  LET last == Len(blocks)
      senders == blocks[last].senders
      under == Len(senders)
  IN IF last = 0 \/ blocks[last].header # message_header(m)
     THEN Append(blocks, [header |-> message_header(m), senders |-> <<SenderPayload(m)>>])
     ELSE IF senders[under].sender = sender_string(m)
          THEN [blocks EXCEPT ![last].senders[under].content = Append(@, m)]
          ELSE [blocks EXCEPT ![last].senders = Append(@, SenderPayload(m))]

\* By date, which sorts the caller's list as well.
build_message_list(messages) == FoldLeft(Collapse, <<>>, SetToSortSeq(messages, <))

\* The mail for one conversation, answered to the first message of the sorted list.
do_send_missedmessage_events_reply_in_zulip(g) ==
  /\ g \in handling.groups
  /\ handling' = IF handling.groups = {g} THEN NoUser
                 ELSE [handling EXCEPT !.groups = @ \ {g}]
  /\ IF handling.wants
     THEN /\ outbox' = outbox \union {g}
          /\ replyKeys' = [x \in DOMAIN replyKeys \union {g} |->
                             IF x = g THEN [left |-> 1, to |-> ReplyTo(Min(WithContext(g)))] ELSE replyKeys[x]]
     ELSE UNCHANGED <<outbox, replyKeys>>
  /\ UNCHANGED <<told, missQueue, batch, settled, mailOff, mails, excused, expiredKeys, letters, renamed>>
  /\ Live

MissedWorkerDies ==
  /\ batch # {} \/ handling # NoUser
  /\ excused' = excused \union batch \union UNION handling.groups
  /\ batch' = {} /\ handling' = NoUser
  /\ UNCHANGED <<told, missQueue, settled, mailOff, outbox, mails>>
  /\ UNCHANGED gatewayVars /\ Die

\* MissedMessageSendingWorker: a mail that was sent by a worker that died before
\* it acknowledged is taken again; a mail that was refused is forgotten.
SendMail(g) ==
  /\ g \in outbox
  /\ \/ /\ outbox' = outbox \ {g} /\ mails' = [mails EXCEPT ![g] = @ + 1]
        /\ UNCHANGED excused /\ Live
     \/ /\ outbox' = outbox /\ mails' = [mails EXCEPT ![g] = @ + 1]
        /\ UNCHANGED excused /\ Die
     \/ /\ outbox' = outbox \ {g} /\ excused' = excused \union g
        /\ UNCHANGED mails /\ Live
  /\ UNCHANGED <<told, missQueue, batch, handling, settled, mailOff>> /\ UNCHANGED gatewayVars
-----------------------------------------------------------------------------
(* The mail gateway *)
WriteLetter(l, a) ==
  /\ letters[l].state = "none"
  /\ a \notin StreamAddress => mails[a] > 0
  /\ letters' = [letters EXCEPT ![l].state = "sent", ![l].addr = a]
  /\ UNCHANGED missWorkerVars /\ UNCHANGED <<replyKeys, expiredKeys, renamed>> /\ Live

\* The slip of one use too many.
MutOneMore(left) == left < -1
\* mark_missed_message_address_as_used: hincrby creates a key that is not there.
UsedUp(left) == left < 0
UsesLeft(a) == IF a \in DOMAIN replyKeys THEN replyKeys[a].left - 1 ELSE -1

mark_missed_message_address_as_used(a) ==
  replyKeys' = IF UsedUp(UsesLeft(a)) THEN Restrict(replyKeys, DOMAIN replyKeys \ {a})
               ELSE [replyKeys EXCEPT ![a].left = UsesLeft(a)]

\* extract_and_validate for a stream, the mark for a reply.
Accepted(a) == IF a \in StreamAddress THEN ~renamed ELSE ~UsedUp(UsesLeft(a))
Marks(a) == IF a \in StreamAddress THEN UNCHANGED replyKeys
            ELSE mark_missed_message_address_as_used(a)

\* The answer to the mail server; a request that dies is made again.
mirror_email_message(l) ==
  /\ letters[l].state = "sent"
  /\ Marks(letters[l].addr)
  /\ \/ /\ letters' = [letters EXCEPT ![l].state =
                         IF Accepted(letters[l].addr) THEN "queued" ELSE "bounced"]
        /\ Live
     \/ UNCHANGED letters /\ Die
  /\ UNCHANGED missWorkerVars /\ UNCHANGED <<expiredKeys, renamed>>

\* process_message on a letter of the mailbox: the mark, then the post; the
\* letter is flagged after both, so a run that dies sees it again.
get_imap_messages(l) ==
  /\ letters[l].state = "sent"
  /\ Marks(letters[l].addr)
  /\ letters' = [letters EXCEPT ![l].state = IF Accepted(letters[l].addr) THEN "marked" ELSE "reported"]
  /\ UNCHANGED missWorkerVars /\ UNCHANGED <<expiredKeys, renamed>> /\ Live

\* send_to_missed_message_address and process_stream_message.
Found(a) == IF a \in StreamAddress THEN ~renamed ELSE a \in DOMAIN replyKeys
PostedTo(a) == IF a \in StreamAddress THEN "stream" ELSE replyKeys[a].to

\* MirrorWorker (queued) and the poller (marked): a worker that dies after the
\* post has the letter again.
process_message(l, before, again) ==
  /\ letters[l].state = before
  /\ LET a == letters[l].addr IN
     IF Found(a)
     THEN \E s \in {"done", again} :
            /\ letters' = [letters EXCEPT ![l].state = s, ![l].posted = @ + 1, ![l].to = PostedTo(a)]
            /\ IF s = "done" THEN Live ELSE Die
     ELSE letters' = [letters EXCEPT ![l].state = "lost"] /\ Live
  /\ UNCHANGED missWorkerVars /\ UNCHANGED <<replyKeys, expiredKeys, renamed>>

\* Five days without a letter.
KeyExpires(a) ==
  /\ a \in DOMAIN replyKeys
  /\ replyKeys' = Restrict(replyKeys, DOMAIN replyKeys \ {a})
  /\ expiredKeys' = expiredKeys \union {a}
  /\ UNCHANGED missWorkerVars /\ UNCHANGED <<letters, renamed>> /\ Live

RenameStream ==
  ~renamed /\ renamed' = TRUE /\ UNCHANGED missWorkerVars /\ UNCHANGED <<replyKeys, expiredKeys, letters>> /\ Live
-----------------------------------------------------------------------------
Groups == {g \in SUBSET Misses : g # {}}

MissedInit ==
  /\ told = {} /\ missQueue = {} /\ batch = {} /\ handling = NoUser
  /\ settled = {} /\ mailOff = {}
  /\ outbox = {} /\ mails = [g \in Groups |-> 0] /\ excused = {}
  /\ replyKeys = <<>> /\ expiredKeys = {} /\ renamed = FALSE /\ mailDeaths = 0
  /\ letters = [l \in Letters |-> [addr |-> {}, state |-> "none", posted |-> 0, to |-> "nobody"]]

MissedNext ==
  \/ \E m \in Misses : EventMissed(m) \/ MissSettled(m)
  \/ \E u \in Readers : do_missedmessage_unsubscribe(u) \/ handle_missedmessage_emails(u)
  \/ drain_queue \/ MissedWorkerDies \/ RenameStream
  \/ \E g \in handling.groups : do_send_missedmessage_events_reply_in_zulip(g)
  \/ \E g \in outbox : SendMail(g)
  \/ \E g \in Groups : KeyExpires(g)
  \/ \E l \in Letters :
       \/ \E a \in Groups \union StreamAddress : WriteLetter(l, a)
       \/ mirror_email_message(l) \/ get_imap_messages(l)
       \/ process_message(l, "queued", "queued") \/ process_message(l, "marked", "sent")

MissedSpec == MissedInit /\ [][MissedNext]_missedVars
-----------------------------------------------------------------------------
InPreparation == missQueue \union batch \union UNION (handling.groups \union outbox)

\* How often a mail about m reached its user.
Times(m) == Cardinality(UNION {{g} \X (1..mails[g]) : g \in {h \in Groups : m \in h}})

(***************************************************************************)
(* No miss is passed over: whatever was reported is on its way to a mail,  *)
(* was mailed, was read or deleted first, or its user wants no mail; only  *)
(* a worker that dies and a mail server that refuses lose one, and only a  *)
(* worker that dies mails one twice (MissedMessageWorker acknowledges the  *)
(* whole queue before it starts).                                          *)
(***************************************************************************)
MissesMailed ==
  \A m \in told :
    /\ \/ m \in InPreparation \/ m \in excused \/ Times(m) > 0
       \/ m \in settled \/ MissedBy[m] \in mailOff
    /\ Times(m) <= 1 + mailDeaths

\* What a mail shows: <<header, sender, message>> in order.
Lines(g) ==
  LET blocks == build_message_list(WithContext(g))
      lines(block) == FlattenSeq([s \in DOMAIN block.senders |->
        [i \in DOMAIN block.senders[s].content |-> <<block.header, block.senders[s].sender, block.senders[s].content[i]>>]])
  IN FlattenSeq([b \in DOMAIN blocks |-> lines(blocks[b])])
Shown(g) == {line[3] : line \in ToSet(Lines(g))}

(***************************************************************************)
(* A mail shows every message it is about, and each message once, after    *)
(* those before it, under its conversation and its sender                  *)
(* (build_message_list, get_context_for_message).                          *)
(***************************************************************************)
MailsLaidOut ==
  \A g \in outbox :
    /\ g \subseteq Shown(g)
    /\ \A i \in DOMAIN Lines(g) :
         LET message == Lines(g)[i][3]
         IN /\ Lines(g)[i] = <<message_header(message), sender_string(message), message>>
            /\ i > 1 => Lines(g)[i - 1][3] < message

(***************************************************************************)
(* A reply address posts the letters of one writer's answer only: never    *)
(* two letters, never to a conversation the mail was not about, and never  *)
(* twice unless a worker died after the post.                              *)
(***************************************************************************)
RepliesOnce ==
  \A l \in Letters : letters[l].posted > 0 =>
    /\ letters[l].posted <= 1 + mailDeaths
    /\ letters[l].addr \notin StreamAddress =>
         /\ letters[l].to \in {ReplyTo(m) : m \in letters[l].addr}
         /\ \A k \in Letters \ {l} : letters[k].addr = letters[l].addr => letters[k].posted = 0

(***************************************************************************)
(* A letter the gateway took is posted, unless another letter to the same  *)
(* address came (which deletes the key the first one still needs), the     *)
(* address ran out of time, or the stream was renamed                      *)
(* (mark_missed_message_address_as_used before the worker's look-up).      *)
(***************************************************************************)
TakenIsPosted ==
  \A l \in Letters : letters[l].state = "lost" =>
    IF letters[l].addr \in StreamAddress THEN renamed
    ELSE \/ letters[l].addr \in expiredKeys
         \/ \E k \in Letters \ {l} : letters[k].addr = letters[l].addr

(***************************************************************************)
(* Missed messages are mailed, and what is answered to the mails is posted *)
(* once and where it belongs.                                              *)
(***************************************************************************)
MissedMailRight == MissesMailed /\ MailsLaidOut /\ RepliesOnce /\ TakenIsPosted
=============================================================================
