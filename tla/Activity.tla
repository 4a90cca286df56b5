------------------------------ MODULE Activity ------------------------------
(***************************************************************************)
(* Presence and activity of a user: reports of the clients take the time,  *)
(* go through RabbitMQ and are written by the workers of user_presence,    *)
(* user_activity_interval and user_activity.  Two reports may be published *)
(* in another order than their times have, though a request is ended       *)
(* (harakiri) before it is MaxLate old; a worker that dies before it       *)
(* acknowledged an event gets it again.                                    *)
(***************************************************************************)
EXTENDS Integers, Sequences, FiniteSets, FiniteSetsExt

CONSTANTS
  Clients,         \* client names, with website
  Reports,         \* what clients report: client, status and new_user_input; the status of a visit is ""
  StaleAfter,      \* 70 seconds
  OfflineAfter,    \* OFFLINE_THRESHOLD_SECS
  MinInterval,     \* MIN_INTERVAL_LENGTH
  MaxLate,         \* bound: age of a report when it is published
  MaxNow,
  MaxReports,
  MaxServed,       \* bound: requests served at a time
  MaxWorkerDeaths

ASSUME ActivityConstants ==
  /\ "website" \in Clients
  /\ {StaleAfter, OfflineAfter, MinInterval, MaxLate, MaxNow, MaxReports, MaxServed, MaxWorkerDeaths} \subseteq Nat
  /\ OfflineAfter >= StaleAfter + MaxLate /\ StaleAfter >= 2 * MaxLate /\ MinInterval >= MaxLate
ASSUME ReportsAreReports ==
  \A r \in Reports : r.client \in Clients /\ r.status \in {"", "active", "idle"} /\ r.new_user_input \in BOOLEAN

VARIABLES
  now,
  served,     \* requests that have taken the time, with the queues they publish to
  events,     \* the queues
  presences,  \* UserPresence rows by client
  announced,  \* the status of the last presence event of each client
  intervals,  \* UserActivityInterval rows: <<start, end>>
  visits,     \* UserActivity rows by client
  handled,    \* history: the reports of each queue that its worker has handled
  published,  \* history: how many visits of each client were published
  used        \* how much of the bounds is used up

activityVars == <<now, served, events, presences, announced, intervals, visits, handled, published, used>>

Queues == {"user_presence", "user_activity_interval", "user_activity"}
NoPresence == [status |-> "none", timestamp |-> -1]

ActivityInit ==
  /\ now = 0
  /\ served = {}
  /\ events = [q \in Queues |-> <<>>]
  /\ presences = [c \in Clients |-> NoPresence] /\ announced = [c \in Clients |-> "none"]
  /\ intervals = {} /\ visits = [c \in Clients |-> [count |-> 0, last_visit |-> -1]]
  /\ handled = [q \in Queues |-> {}] /\ published = [c \in Clients |-> 0]
  /\ used = [reports |-> 0, deaths |-> 0]

\* Time goes on; no report in hand gets older than MaxLate.
Passes ==
  /\ now < MaxNow /\ now' = now + 1
  /\ \A r \in served : now - r.time < MaxLate
  /\ UNCHANGED <<served, events, presences, announced, intervals, visits, handled, published, used>>

Serve(to, client, status) ==
  /\ Cardinality(served) < MaxServed /\ used.reports < MaxReports
  /\ served' = served \cup {[to |-> to, client |-> client, status |-> status, time |-> now]}
  /\ used' = [used EXCEPT !.reports = @ + 1]
  /\ UNCHANGED <<now, events, presences, announced, intervals, visits, handled, published>>

\* A client says whether it is active, and whether there was input.
update_active_status_backend(client, status, new_user_input) ==
  Serve(IF new_user_input THEN <<"user_presence", "user_activity_interval">> ELSE <<"user_presence">>, client, status)

\* Any other request counts as a visit.
update_user_activity(client) == Serve(<<"user_activity">>, client, "")

\* queue_json_publish, to one queue after the other.
update_user_presence(r) ==
  /\ events' = [events EXCEPT ![Head(r.to)] = Append(@, [client |-> r.client, status |-> r.status, time |-> r.time])]
  /\ published' = IF Head(r.to) = "user_activity" THEN [published EXCEPT ![r.client] = @ + 1] ELSE published
  /\ served' = (served \ {r}) \cup (IF Len(r.to) = 1 THEN {} ELSE {[r EXCEPT !.to = Tail(@)]})
  /\ UNCHANGED <<now, presences, announced, intervals, visits, handled, used>>

-----------------------------------------------------------------------------

\* The worker has written what the event says; it acknowledges it or dies before.
Acknowledge(q) ==
  /\ handled' = [handled EXCEPT ![q] = @ \cup {Head(events[q])}]
  /\ \/ events' = [events EXCEPT ![q] = Tail(@)] /\ UNCHANGED used
     \/ used.deaths < MaxWorkerDeaths /\ used' = [used EXCEPT !.deaths = @ + 1] /\ UNCHANGED events

consolidate_client(client) == IF client = "ZulipDesktop" THEN "website" ELSE client

\* Mutant: whatever is reported is written.
MutAlwaysWritten(row, r) == TRUE

\* An idle report does not end an active presence that is fresh.
Writes(row, r) ==
  row = NoPresence \/ r.time - row.timestamp > StaleAfter \/ row.status = "idle" \/ row.status = r.status

\* Others are told of a client that is new, or that is active again.
Announces(row, r) ==
  row = NoPresence \/ (r.status = "active" /\ (r.time - row.timestamp > StaleAfter \/ row.status = "idle"))

UserPresenceWorker ==
  /\ events["user_presence"] # <<>>
  /\ LET r == Head(events["user_presence"])
         c == consolidate_client(r.client)
         row == presences[c]
     IN /\ presences' = IF Writes(row, r) THEN [presences EXCEPT ![c] = [status |-> r.status, timestamp |-> r.time]]
                        ELSE presences
        /\ announced' = IF Announces(row, r) THEN [announced EXCEPT ![c] = presences'[c].status] ELSE announced
  /\ Acknowledge("user_presence")
  /\ UNCHANGED <<now, served, intervals, visits, published>>

\* The latest interval takes the new one in when one end of that lies inside it.
do_update_user_activity_interval ==
  /\ events["user_activity_interval"] # <<>>
  /\ LET start == Head(events["user_activity_interval"]).time
         end == start + MinInterval
         latest == {i \in intervals : \A j \in intervals : j[2] <= i[2]}
         inside(t, i) == i[1] <= t /\ t <= i[2]
         meets(i) == inside(start, i) \/ inside(end, i)
     IN \/ /\ \A i \in latest : ~meets(i)
           /\ intervals' = intervals \cup {<<start, end>>}
        \/ \E i \in latest :
             /\ meets(i)
             /\ intervals' = (intervals \ {i}) \cup
                  {<<IF start < i[1] THEN start ELSE i[1], IF end > i[2] THEN end ELSE i[2]>>}
  /\ Acknowledge("user_activity_interval")
  /\ UNCHANGED <<now, served, presences, announced, visits, published>>

do_update_user_activity ==
  /\ events["user_activity"] # <<>>
  /\ LET r == Head(events["user_activity"])
     IN visits' = [visits EXCEPT ![r.client] = [count |-> @.count + 1, last_visit |-> r.time]]
  /\ Acknowledge("user_activity")
  /\ UNCHANGED <<now, served, presences, announced, intervals, published>>

ActivityNext ==
  \/ Passes
  \/ \E r \in Reports :
       IF r.status = "" THEN update_user_activity(r.client)
       ELSE update_active_status_backend(r.client, r.status, r.new_user_input)
  \/ \E r \in served : update_user_presence(r)
  \/ UserPresenceWorker \/ do_update_user_activity_interval \/ do_update_user_activity

-----------------------------------------------------------------------------

\* The clients of which the user has a row.
get_status_dict_by_user == {c \in Clients : presences[c] # NoPresence}

\* get_status_dicts_for_query: the latest of the rows counts as "aggregated".
aggregated ==
  LET shown == get_status_dict_by_user
  IN {presences[c] : c \in {d \in shown : \A e \in shown : presences[e].timestamp <= presences[d].timestamp}}

\* What get_presence_backend says of the user.
get_presence_backend == {IF now - p.timestamp > OfflineAfter THEN "offline" ELSE p.status : p \in aggregated}

\* UserCount "minutes_active::day": each interval that meets the period, as far as it lies in it.
do_pull_minutes_active(start_time, end_time) ==
  LET within == {i \in intervals : i[2] > start_time /\ i[1] < end_time}
      start(i) == Max({start_time, i[1]})
      end(i) == Min({end_time, i[2]})
  IN MapThenSumSet(LAMBDA i : end(i) - start(i), within)

Covered(start, end) == {t \in 0..(MaxNow + MinInterval) : start <= t /\ t <= end}

\* The rows of UserPresence, against the reports the worker has handled.
RowsAreReports ==
  \A c \in Clients :
    LET own == {r \in handled["user_presence"] : consolidate_client(r.client) = c}
        row == presences[c]
    IN /\ row # NoPresence => \E r \in own : r.status = row.status /\ r.time = row.timestamp
       /\ row.status = "idle" => \A r \in own : r.status = "active" => r.time < row.timestamp
       /\ row.status = "active" => announced[c] = "active"

VisitsAreCounted ==
  \A c \in Clients :
    LET waiting == Cardinality({i \in DOMAIN events["user_activity"] : events["user_activity"][i].client = c})
    IN visits[c].count + waiting \in published[c]..(published[c] + used.deaths)

NobodyIsOfflineEarly ==
  \A r \in handled["user_presence"] :
    now - r.time <= OfflineAfter - StaleAfter - MaxLate => "offline" \notin get_presence_backend

\* What two intervals share is less than a report may be late: each minute counts at most that
\* much too often for each of them.
Overlap == IF MaxLate = 0 THEN 0 ELSE MaxLate - 1
IntervalsCover ==
  /\ UNION {Covered(i[1], i[2]) : i \in intervals} =
       UNION {Covered(r.time, r.time + MinInterval) : r \in handled["user_activity_interval"]}
  /\ \A i, j \in intervals : i # j /\ i[1] <= j[1] => j[1] > i[2] - MaxLate
MinutesAreCounted ==
  \A start \in 0..MaxNow : \A end \in start..MaxNow :
    LET counted == do_pull_minutes_active(start, end)
        active == Cardinality({t \in start..(end - 1) : \E i \in intervals : i[1] <= t /\ t < i[2]})
    IN active <= counted /\ counted <= active + Overlap * Cardinality(intervals)

(***************************************************************************)
(* Presence holds what was reported, with several clients and late         *)
(* reports: a row is one of its client's reports; it says idle only with a *)
(* time after every active report; a row that is active was announced as   *)
(* active; whoever reported within the margin that is left between the     *)
(* thresholds is not offline.  The intervals of activity cover exactly the *)
(* times after input; a late report may make two of them overlap, by less  *)
(* than it is late, and the minutes counted in any period are the time     *)
(* they cover but for that.  No visit is lost from the counts; a worker    *)
(* that died may have counted one twice.                                   *)
(***************************************************************************)
PresenceTrue ==
  RowsAreReports /\ VisitsAreCounted /\ NobodyIsOfflineEarly /\ IntervalsCover /\ MinutesAreCounted
=============================================================================
