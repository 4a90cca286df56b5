---------------------------- MODULE ScheduledMail ----------------------------
(***************************************************************************)
(* Mail for later: the ScheduledEmail rows that signups, invitations and   *)
(* digests leave, what takes them back (unsubscribing, deactivation), and  *)
(* the deliverer, which reads the list of due rows and then works through  *)
(* it while the rows may go.                                               *)
(***************************************************************************)
EXTENDS Integers, FiniteSets

CONSTANTS
  Members,          \* users, each with an address that may have been invited
  MaxClock,         \* bound: days
  MaxJobs,          \* bound: rows ever made
  MaxDeliverDeaths  \* bound: processes that die

ASSUME ScheduledMailAssumption == MaxJobs \in Nat /\ MaxClock \in Nat /\ "nobody" \notin Members

VARIABLES
  day,
  jobs,           \* ScheduledEmail: [id, type, user, address, due]
  made,           \* rows made so far: their ids are 1 .. made
  dueList,        \* email_jobs_to_deliver: rows still to go through
  sentTimes,      \* id -> mails
  takenBack,      \* history: rows somebody took back
  duringRound,    \* history: of these, the ones the deliverer had in its list
  signups,        \* the signups queue
  digests,        \* the digest_emails queue
  joined,         \* users who signed up
  activeMembers, wantDigest, realmUp,
  deliverDeaths

jobVars == <<jobs, made, takenBack, duringRound>>
memberVars == <<signups, digests, joined, activeMembers, wantDigest, realmUp>>
deliverVars == <<dueList, sentTimes, deliverDeaths>>
scheduledVars == <<day, jobVars, memberVars, deliverVars>>

Dies == deliverDeaths < MaxDeliverDeaths /\ deliverDeaths' = deliverDeaths + 1
Job(n, type, user, address, delay) ==
  [id |-> made + n, type |-> type, user |-> user, address |-> address, due |-> day + delay]

\* send_future_email, for the rows of one step.
send_future_email(old, new) ==
  /\ made + Cardinality(new) <= MaxJobs
  /\ jobs' = old \union new /\ made' = made + Cardinality(new)
  /\ UNCHANGED <<takenBack, duringRound>>

\* The rows of a user, of one type or of all; an invitation reminder has an
\* address and no user.
Scheduled(us, types) == {j \in jobs : j.user \in us /\ j.type \in types}

\* Whoever takes mail back means the rows there are: takenBack keeps them.
clear_scheduled_emails(us, types) ==
  /\ jobs' = jobs \ Scheduled(us, types)
  /\ takenBack' = takenBack \union {j.id : j \in Scheduled(us, types)}
  /\ duringRound' = duringRound \union {j.id : j \in Scheduled(us, types) \intersect dueList}
  /\ UNCHANGED made
AllTypes == {"welcome", "digest", "reminder"}
-----------------------------------------------------------------------------
(* The workers *)
\* The mail of the invitation and, for two days later, its reminder.
ConfirmationEmailWorker(u) ==
  /\ u \notin joined
  /\ send_future_email(jobs, {Job(1, "reminder", "nobody", u, 2)})
  /\ UNCHANGED <<day, memberVars, deliverVars>>

process_new_human_user(u) ==
  /\ u \notin joined
  /\ joined' = joined \union {u} /\ activeMembers' = activeMembers \union {u}
  /\ signups' = signups \union {u}
  /\ UNCHANGED <<day, jobVars, digests, wantDigest, realmUp, deliverVars>>

\* One mail after an hour and one after a day.
enqueue_welcome_emails(u) == {Job(1, "welcome", u, "nobody", 1), Job(2, "welcome", u, "nobody", 2)}

\* The reminders of the new user are looked up by user, where none is. The list
\* server may refuse, and then the welcome mails are not scheduled; a worker that
\* dies between the two has the signup again.
SignupWorker(u) ==
  /\ u \in signups
  /\ LET kept == jobs \ Scheduled({u}, {"reminder"}) IN
     \/ /\ signups' = signups \ {u}
        /\ send_future_email(kept, enqueue_welcome_emails(u))
        /\ UNCHANGED deliverDeaths
     \/ /\ signups' = signups \ {u} /\ send_future_email(kept, {})
        /\ UNCHANGED deliverDeaths
     \/ /\ signups' = signups
        /\ send_future_email(kept, {Job(1, "welcome", u, "nobody", 1)}) /\ Dies
  /\ UNCHANGED <<day, digests, joined, activeMembers, wantDigest, realmUp, dueList, sentTimes>>

\* enqueue_digest_emails: users of working realms who want it and were away.
queue_digest_recipient(u) ==
  /\ realmUp /\ u \in activeMembers /\ u \in wantDigest /\ u \notin digests
  /\ made < MaxJobs
  /\ digests' = digests \union {u}
  /\ UNCHANGED <<day, jobVars, signups, joined, activeMembers, wantDigest, realmUp, deliverVars>>

\* A digest with enough traffic is due at once. Neither the wish for it nor the
\* account is looked at again.
handle_digest_email(u) ==
  /\ u \in digests
  /\ digests' = digests \ {u}
  /\ \/ send_future_email(jobs, {Job(1, "digest", u, "nobody", 0)})
     \/ UNCHANGED jobVars
  /\ UNCHANGED <<day, signups, joined, activeMembers, wantDigest, realmUp, deliverVars>>
-----------------------------------------------------------------------------
(* Taking mail back *)
do_digest_unsubscribe(u) ==
  /\ u \in joined \intersect wantDigest
  /\ wantDigest' = wantDigest \ {u}
  /\ clear_scheduled_emails({u}, {"digest"})
  /\ UNCHANGED <<day, signups, digests, joined, activeMembers, realmUp, deliverVars>>

do_welcome_unsubscribe(u) ==
  /\ u \in joined
  /\ Scheduled({u}, {"welcome"}) # {}
  /\ clear_scheduled_emails({u}, {"welcome"})
  /\ UNCHANGED <<day, memberVars, deliverVars>>

do_deactivate_user(u) ==
  /\ u \in activeMembers
  /\ activeMembers' = activeMembers \ {u}
  /\ clear_scheduled_emails({u}, AllTypes)
  /\ UNCHANGED <<day, signups, digests, joined, wantDigest, realmUp, deliverVars>>

do_deactivate_realm ==
  /\ realmUp /\ realmUp' = FALSE
  /\ clear_scheduled_emails(activeMembers, AllTypes)
  /\ UNCHANGED <<day, signups, digests, joined, activeMembers, wantDigest, deliverVars>>
-----------------------------------------------------------------------------
(* deliver_email *)
DueJobs == {j \in jobs : j.due <= day}

ReadDueJobs ==
  /\ dueList = {} /\ DueJobs # {}
  /\ dueList' = DueJobs
  /\ UNCHANGED <<day, jobVars, memberVars, sentTimes, deliverDeaths>>

Mailed(j) == sentTimes' = [sentTimes EXCEPT ![j.id] = @ + 1]

\* The mail goes and the row with it; a row that is gone already is no error.
DeliverJob(j) ==
  /\ j \in dueList /\ dueList' = dueList \ {j}
  /\ Mailed(j) /\ jobs' = jobs \ {j}
  /\ UNCHANGED <<day, made, takenBack, duringRound, memberVars, deliverDeaths>>

\* EmailNotDeliveredException: the row waits for the next round.
NotDelivered(j) ==
  /\ j \in dueList /\ dueList' = dueList \ {j}
  /\ UNCHANGED <<day, jobVars, memberVars, sentTimes, deliverDeaths>>

\* The process dies, or any other exception ends it: before or after the mail
\* went; supervisor starts it again.
DelivererDies(j) ==
  /\ j \in dueList /\ dueList' = {} /\ Dies
  /\ Mailed(j) \/ UNCHANGED sentTimes
  /\ UNCHANGED <<day, jobVars, memberVars>>

DayPasses == day < MaxClock /\ day' = day + 1 /\ UNCHANGED <<jobVars, memberVars, deliverVars>>
-----------------------------------------------------------------------------
ScheduledInit ==
  /\ day = 0 /\ jobs = {} /\ made = 0 /\ dueList = {}
  /\ sentTimes = [n \in 1 .. MaxJobs |-> 0]
  /\ takenBack = {} /\ duringRound = {} /\ signups = {} /\ digests = {}
  /\ joined = {} /\ activeMembers = {} /\ wantDigest = Members /\ realmUp = TRUE
  /\ deliverDeaths = 0

ScheduledNext ==
  \/ \E u \in Members :
       \/ ConfirmationEmailWorker(u) \/ process_new_human_user(u) \/ SignupWorker(u)
       \/ queue_digest_recipient(u) \/ handle_digest_email(u)
       \/ do_digest_unsubscribe(u) \/ do_welcome_unsubscribe(u) \/ do_deactivate_user(u)
  \/ do_deactivate_realm \/ ReadDueJobs \/ DayPasses
  \/ \E j \in dueList : DeliverJob(j) \/ NotDelivered(j) \/ DelivererDies(j)

ScheduledSpec == ScheduledInit /\ [][ScheduledNext]_scheduledVars
-----------------------------------------------------------------------------
(***************************************************************************)
(* Scheduled mail goes out, once: a row is there until its mail went or    *)
(* somebody took it back; a mail is repeated only by a process that died   *)
(* after it; and a row that was taken back while it was not in the         *)
(* deliverer's list is never in it again (clear_scheduled_emails against   *)
(* the list deliver_email read).                                           *)
(***************************************************************************)
ScheduledMailRight ==
  \A n \in 1 .. made :
    /\ sentTimes[n] <= 1 + deliverDeaths
    /\ n \in {j.id : j \in jobs} \/ sentTimes[n] > 0 \/ n \in takenBack
    /\ n \in takenBack \ duringRound => n \notin {j.id : j \in dueList}
=============================================================================
