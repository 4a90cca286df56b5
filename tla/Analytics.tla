------------------------------ MODULE Analytics ------------------------------
(***************************************************************************)
(* Analytics: what happens on the server is counted into tables, hour by   *)
(* hour and day by day, by a cron job that may die at any statement.  A    *)
(* FillState row per statistic says how far it got.  The charts of the     *)
(* stats page read the tables while the job runs.                          *)
(*                                                                         *)
(* Time is counted in hours; what happens in hour h lies strictly between  *)
(* h and h + 1.  The job starts a few minutes after the hour, when all of  *)
(* the hour before is in the database.                                     *)
(***************************************************************************)
EXTENDS Integers, Sequences, FiniteSets, FiniteSetsExt, SequencesExt

CONSTANTS
  Humans,         \* the users, each active from hour 0
  HumanRealm,     \* user -> realm
  Busy,           \* the users who do something
  DayLength,      \* hours in a day
  ActiveDays,     \* a user counts as recently active for so many days
  Alone,          \* statistics that are also run alone, with --stat
  MinLengths,     \* min_length of a chart request, 0 when it is not given
  MaxHours,       \* bound: hours that pass
  MaxFacts,       \* bound: things that happen
  MaxDeaths       \* bound: times the job dies

ASSUME AnalyticsAssumption ==
  /\ DayLength \in Nat \ {0} /\ ActiveDays \in Nat \ {0} /\ MinLengths \subseteq Nat
  /\ IsFiniteSet(Humans) /\ DOMAIN HumanRealm = Humans /\ Busy \subseteq Humans

VARIABLES
  hour,       \* the present hour
  facts,      \* what happened: a sequence of [who, what, at]
  counts,     \* the rows of UserCount, RealmCount and InstallationCount
  fills,      \* FillState: statistic -> [end_time, state]
  job,        \* update_analytics_counts while it runs, or Idle
  lockDir,    \* ANALYTICS_LOCK_DIR exists
  deaths

analyticsVars == <<hour, facts, counts, fills, job, lockDir, deaths>>

Idle == [step |-> "idle"]
Installation == "installation"
HumanRealms == {HumanRealm[u] : u \in Humans}
-----------------------------------------------------------------------------
(***************************************************************************)
(* The statistics, in the order of count_stats_.  Of statistics that       *)
(* differ only in the column they group by, one is kept.                   *)
(***************************************************************************)
CountStat(property, table, kind, step, interval, needs, subgroup) ==
  [property |-> property, table |-> table, kind |-> kind, step |-> step,
   interval |-> interval, dependencies |-> needs, subgroup |-> subgroup]

COUNT_STATS == <<
  CountStat("messages_sent", "user", "sql", 1, 1, {}, TRUE),
  CountStat("active_users_audit", "user", "sql", DayLength, DayLength, {}, TRUE),
  CountStat("active_users_log", "realm", "logging", DayLength, DayLength, {}, TRUE),
  CountStat("15day_actives", "user", "sql", DayLength, ActiveDays * DayLength, {}, FALSE),
  CountStat("realm_active_humans", "realm", "dependent", DayLength, DayLength,
            {"active_users_audit", "15day_actives"}, FALSE) >>

Stats == Range(COUNT_STATS)
StatNames == {s.property : s \in Stats}

floor_to_day(t) == (t \div DayLength) * DayLength
\* Nothing happens exactly on the hour, so the ceiling is the next boundary.
ceiling_to_day(h) == floor_to_day(h) + DayLength
-----------------------------------------------------------------------------
(* What the queries of the statistics find in the database. *)
Between(from, to) == {i \in DOMAIN facts : from <= facts[i].at /\ facts[i].at < to}

count_message_by_user(u, from, to) ==
  Cardinality({i \in Between(from, to) : facts[i].who = u /\ facts[i].what = "sent"})

AuditEvents == {"created", "deactivated", "reactivated"}

check_realmauditlog_by_user(u, to) ==
  LET mine == {i \in Between(0, to) : facts[i].who = u /\ facts[i].what \in AuditEvents}
  IN IF mine # {} /\ facts[Max(mine)].what # "deactivated" THEN 1 ELSE 0

check_useractivityinterval_by_user(u, from, to) ==
  IF \E i \in Between(from, to) : facts[i].who = u /\ facts[i].what = "visit" THEN 1 ELSE 0

UserValue(property, u, from, to) ==
  CASE property = "messages_sent" -> count_message_by_user(u, from, to)
    [] property = "active_users_audit" -> check_realmauditlog_by_user(u, to)
    [] property = "15day_actives" -> check_useractivityinterval_by_user(u, from, to)

Row(table, s, key, to, value) ==
  [table |-> table, stat |-> s.property, key |-> key, end |-> to, value |-> value, copy |-> 0]

\* count_realm_active_humans_query joins the rows of its two dependencies.
ActiveHumans(r, to) ==
  {u \in Humans : HumanRealm[u] = r /\
     \A p \in {"active_users_audit", "15day_actives"} :
       \E c \in counts : c.table = "user" /\ c.stat = p /\ c.key = u /\ c.end = to}

pull_function(s, to) ==
  IF s.kind = "dependent"
  THEN {Row("realm", s, r, to, Cardinality(ActiveHumans(r, to))) :
          r \in {x \in HumanRealms : ActiveHumans(x, to) # {}}}
  ELSE {Row("user", s, u, to, UserValue(s.property, u, to - s.interval, to)) :
          u \in {x \in Humans : UserValue(s.property, x, to - s.interval, to) > 0}}

Total(rs) == MapThenSumSet(LAMBDA c : c.value, rs)

RowsOf(table, s, to) == {c \in counts : c.table = table /\ c.stat = s.property /\ c.end = to}

RealmRows(s, to) ==
  LET from(r) == {c \in RowsOf("user", s, to) : HumanRealm[c.key] = r}
  IN {Row("realm", s, r, to, Total(from(r))) : r \in {x \in HumanRealms : from(x) # {}}}

InstallationRows(s, to) ==
  LET from == RowsOf("realm", s, to)
  IN IF from = {} THEN {} ELSE {Row(Installation, s, Installation, to, Total(from))}
-----------------------------------------------------------------------------
last_successful_fill(property) ==
  CASE property \notin DOMAIN fills -> -1
    [] property \in DOMAIN fills /\ fills[property].state = "done" -> fills[property].end_time
    [] OTHER -> fills[property].end_time - 1

\* A slip in the undo: the realms' sums of the unfinished hour stay.
MutKeepsRealms(s) == <<"user", Installation>>

\* The tables do_delete_counts_at_hour empties, in its order.
do_delete_counts_at_hour(s) ==
  IF s.kind = "logging"
  THEN <<Installation>> \o (IF s.table = "user" THEN <<"realm">> ELSE <<>>)
  ELSE <<"user", "realm", Installation>>

do_update_fill_state(property, end, state) ==
  fills' = [p \in DOMAIN fills \union {property} |->
              IF p = property THEN [end_time |-> end, state |-> state] ELSE fills[p]]

-----------------------------------------------------------------------------
(* Life on the server. *)
IsActive(u) == check_realmauditlog_by_user(u, hour + 1) = 1

\* do_increment_logging_stat: the row of the present day is made or raised.
do_increment_logging_stat(r, by) ==
  LET s == COUNT_STATS[3]
      to == ceiling_to_day(hour)
      old == {c \in RowsOf("realm", s, to) : c.key = r}
  IN counts' = (counts \ old) \union {Row("realm", s, r, to, Total(old) + by)}

Happens(u, what) ==
  /\ Len(facts) < MaxFacts + Cardinality(Humans)
  /\ facts' = Append(facts, [who |-> u, what |-> what, at |-> hour])
  /\ CASE what = "deactivated" -> IsActive(u) /\ do_increment_logging_stat(HumanRealm[u], -1)
       [] what = "reactivated" -> ~IsActive(u) /\ do_increment_logging_stat(HumanRealm[u], 1)
       [] OTHER -> IsActive(u) /\ UNCHANGED counts
  /\ UNCHANGED <<hour, fills, job, lockDir, deaths>>

\* The job is done, or dead, within the hour it was started in.
HourPasses ==
  /\ hour < MaxHours /\ job = Idle
  /\ hour' = hour + 1
  /\ UNCHANGED <<facts, counts, fills, job, lockDir, deaths>>
-----------------------------------------------------------------------------
(* update_analytics_counts. *)
\* handle: all statistics, or the one given with --stat; a directory is the lock.
RunCommand(stats) ==
  /\ job = Idle /\ ~lockDir
  /\ lockDir' = TRUE
  /\ job' = [step |-> "open", todo |-> stats, fill_to_time |-> hour, at |-> 0, left |-> <<>>]
  /\ UNCHANGED <<hour, facts, counts, fills, deaths>>

Stat == Head(job.todo)

\* A dependent statistic is filled no further than what it depends on.
fill_to_time(s, t, filled) == Min({t} \union {filled[d] : d \in s.dependencies})

\* What the job does once the statistic is known to be filled up to `at`: fill
\* the next hour or day if it is over, else turn to the next statistic or end.
GoOn(at) ==
  LET known == \A d \in Stat.dependencies : d \in DOMAIN fills
      limit == fill_to_time(Stat, job.fill_to_time,
                            [d \in Stat.dependencies |-> last_successful_fill(d)])
  IN IF known /\ at + Stat.step <= limit
     THEN job' = [job EXCEPT !.step = "start", !.at = at + Stat.step] /\ UNCHANGED lockDir
     ELSE IF Len(job.todo) > 1
     THEN job' = [job EXCEPT !.step = "open", !.todo = Tail(@), !.at = 0] /\ UNCHANGED lockDir
     ELSE job' = Idle /\ lockDir' = FALSE

\* The first part of process_count_stat: where the statistic stands.
OpenStat ==
  /\ job.step = "open"
  /\ LET p == Stat.property IN
     \/ /\ p \notin DOMAIN fills
        /\ do_update_fill_state(p, 0, "done")
        /\ GoOn(0)
     \/ /\ p \in DOMAIN fills /\ fills[p].state = "started"
        /\ job' = [job EXCEPT !.step = "undo", !.left = do_delete_counts_at_hour(Stat)]
        /\ UNCHANGED <<fills, lockDir>>
     \/ /\ p \in DOMAIN fills /\ fills[p].state = "done"
        /\ GoOn(fills[p].end_time)
        /\ UNCHANGED fills
  /\ UNCHANGED <<hour, facts, counts, deaths>>

UndoStat ==
  /\ job.step = "undo"
  /\ LET end == fills[Stat.property].end_time IN
     \/ /\ job.left # <<>>
        /\ counts' = counts \ RowsOf(Head(job.left), Stat, end)
        /\ job' = [job EXCEPT !.left = Tail(@)]
        /\ UNCHANGED <<fills, lockDir>>
     \/ /\ job.left = <<>>
        /\ do_update_fill_state(Stat.property, end - Stat.step, "done")
        /\ GoOn(end - Stat.step)
        /\ UNCHANGED counts
  /\ UNCHANGED <<hour, facts, deaths>>

StartStat ==
  /\ job.step = "start"
  /\ do_update_fill_state(Stat.property, job.at, "started")
  /\ job' = [job EXCEPT !.step =
               CASE Stat.kind # "logging" -> "pull"
                 [] Stat.kind = "logging" /\ Stat.table = "user" -> "realm"
                 [] OTHER -> Installation]
  /\ UNCHANGED <<hour, facts, counts, lockDir, deaths>>

\* Rows that a unique constraint would hold apart.  It does so only where
\* there is a subgroup: to SQL two NULLs differ.
Twins(n) == {c \in counts : c.table = n.table /\ c.stat = n.stat /\ c.key = n.key /\ c.end = n.end}

RowsToInsert ==
  CASE job.step = "pull" -> pull_function(Stat, job.at)
    [] job.step = "realm" -> RealmRows(Stat, job.at)
    [] job.step = Installation -> InstallationRows(Stat, job.at)

\* do_fill_count_stat_at_hour: one INSERT, the pull or an aggregation.  One that
\* breaks a constraint raises, which is JobDies.
FillStat ==
  /\ job.step \in {"pull", "realm", Installation}
  /\ Stat.subgroup => \A n \in RowsToInsert : Twins(n) = {}
  /\ counts' = counts \union {[n EXCEPT !.copy = Cardinality(Twins(n))] : n \in RowsToInsert}
  /\ job' = [job EXCEPT !.step =
               CASE @ = "pull" /\ Stat.table = "user" -> "realm"
                 [] @ = Installation -> "close"
                 [] OTHER -> Installation]
  /\ UNCHANGED <<hour, facts, fills, lockDir, deaths>>

CloseStat ==
  /\ job.step = "close"
  /\ do_update_fill_state(Stat.property, job.at, "done")
  /\ GoOn(job.at)
  /\ UNCHANGED <<hour, facts, counts, deaths>>

\* An exception, also of the database, ends the command and frees the lock;
\* a kill leaves the directory, which the operator removes.
JobDies ==
  /\ job # Idle /\ deaths < MaxDeaths
  /\ job' = Idle /\ deaths' = deaths + 1
  /\ lockDir' \in BOOLEAN
  /\ UNCHANGED <<hour, facts, counts, fills>>

OperatorUnlocks ==
  /\ job = Idle /\ lockDir
  /\ lockDir' = FALSE
  /\ UNCHANGED <<hour, facts, counts, fills, job, deaths>>
-----------------------------------------------------------------------------
(* The stats page. *)
\* From the end back by steps to the start, or further when the chart is short.
time_range(start, end, step, min_length) ==
  LET last == IF step = 1 THEN end ELSE floor_to_day(end)
      first == IF min_length = 0 THEN start ELSE Min({start, last - (min_length - 1) * step})
  IN {t \in first .. last : (last - t) % step = 0}

get_time_series_by_subgroup(s, table, key, times) ==
  [t \in times |-> LET found == {c \in RowsOf(table, s, t) : c.key = key}
                   IN IF found = {} THEN 0 ELSE (CHOOSE c \in found : TRUE).value]

\* A chart that names no end runs to the last successful fill.
get_chart_data(s, table, key, min_length) ==
  get_time_series_by_subgroup(s, table, key,
    time_range(0, last_successful_fill(s.property), s.step, min_length))
-----------------------------------------------------------------------------
AnalyticsInit ==
  /\ hour = 0
  /\ facts = SetToSeq({[who |-> u, what |-> "created", at |-> 0] : u \in Humans})
  /\ counts = {Row("realm", COUNT_STATS[3], r, DayLength,
                   Cardinality({u \in Humans : HumanRealm[u] = r})) : r \in HumanRealms}
  /\ fills = <<>> /\ job = Idle /\ lockDir = FALSE /\ deaths = 0

\* The charts get_chart_data can draw for a user.
ChartsOf(u) == {<<COUNT_STATS[5], "realm", HumanRealm[u]>>,
                <<COUNT_STATS[1], "realm", HumanRealm[u]>>, <<COUNT_STATS[1], "user", u>>}

AnalyticsNext ==
  \/ \E u \in Busy, what \in {"sent", "visit", "deactivated", "reactivated"} : Happens(u, what)
  \/ HourPasses
  \/ \E stats \in {COUNT_STATS} \union {<<s>> : s \in {x \in Stats : x.property \in Alone}} : RunCommand(stats)
  \/ OpenStat \/ UndoStat \/ StartStat \/ FillStat \/ CloseStat
  \/ JobDies \/ OperatorUnlocks

AnalyticsSpec == AnalyticsInit /\ [][AnalyticsNext]_analyticsVars
-----------------------------------------------------------------------------
(* What a chart should show: counted from what happened, not from the tables. *)
TrueCount(s, table, key, to) ==
  LET value(u) ==
        IF s.kind = "dependent"
        THEN UserValue("active_users_audit", u, to - DayLength, to)
               * UserValue("15day_actives", u, to - ActiveDays * DayLength, to)
        ELSE UserValue(s.property, u, to - s.interval, to)
  IN IF table = "user" THEN value(key)
     ELSE MapThenSumSet(value, {u \in Humans : HumanRealm[u] = key})

(***************************************************************************)
(* A chart shows what happened, every hour and day of it counted once,     *)
(* whatever statements the job died between, whichever statistics were run *)
(* alone, and while the job fills further hours (process_count_stat,       *)
(* last_successful_fill, get_chart_data).                                  *)
(***************************************************************************)
ChartsTrue ==
  \A c \in UNION {ChartsOf(u) : u \in Humans}, m \in MinLengths :
    last_successful_fill(c[1].property) >= 0 =>
      LET shown == get_chart_data(c[1], c[2], c[3], m)
      IN \A t \in DOMAIN shown : shown[t] = TrueCount(c[1], c[2], c[3], t)

(***************************************************************************)
(* Where both are filled, the realm's count of users by audit log is the   *)
(* sum of the daily changes logged so far, and the installation's count is *)
(* the sum of its realms' (the comment at active_users_log:is_bot:day, and *)
(* do_aggregate_to_summary_table).                                         *)
(***************************************************************************)
SumsAgree ==
  LET filled(p) == {t \in 1 .. MaxHours : t % DayLength = 0 /\ t <= last_successful_fill(p)}
      log == COUNT_STATS[3]
      audit == COUNT_STATS[2]
      upTo(t, r) == {c \in counts : c.table = "realm" /\ c.stat = log.property
                                       /\ c.key = r /\ c.end <= t}
  IN /\ \A t \in filled(audit.property), r \in HumanRealms :
          Total({c \in RowsOf("realm", audit, t) : c.key = r}) = Total(upTo(t, r))
     /\ \A s \in Stats : \A t \in filled(s.property) :
          Total(RowsOf(Installation, s, t)) = Total(RowsOf("realm", s, t))

(***************************************************************************)
(* No INSERT of a fill meets a row that is there already: where there is a *)
(* unique constraint the statistic could not be filled any more, where     *)
(* there is none the hour would be counted twice                           *)
(* (do_delete_counts_at_hour before a repeated do_fill_count_stat_at_hour).*)
(***************************************************************************)
InsertsFresh ==
  job.step \in {"pull", "realm", Installation} => \A n \in RowsToInsert : Twins(n) = {}

(***************************************************************************)
(* What process_count_stat leaves is right whenever it was killed and run  *)
(* again: the charts show the facts, the sums of users, realms and server  *)
(* agree, and no hour is inserted twice.                                   *)
(***************************************************************************)
CountsTrue == ChartsTrue /\ SumsAgree /\ InsertsFresh
=============================================================================
