---------------------------- MODULE RateLimiter ----------------------------
(***************************************************************************)
(* The rate limiter of one user in redis: a list of the times of the last  *)
(* calls and a sorted set of the same times, which every request reads to  *)
(* decide and then adds to in an optimistic transaction.  Processes serve  *)
(* requests of the user at the same time.                                  *)
(***************************************************************************)
EXTENDS Integers, Sequences, FiniteSets

CONSTANTS
  Servers,     \* processes
  Rules,       \* RATE_LIMITING_RULES, shortest first: <<seconds, requests>>
  MaxConflicts,\* conflicts after which incr_ratelimit gives up (11 in the code)
  BlockTime,   \* seconds of a manual block
  MaxClock     \* bound: the time

ASSUME RateConstants ==
  /\ MaxClock \in Nat /\ BlockTime \in Nat /\ MaxConflicts \in Nat
  /\ Rules \in Seq(Nat \X (Nat \ {0})) /\ Rules # <<>>
  /\ \A i, j \in 1..Len(Rules) : i < j => Rules[i][1] <= Rules[j][1]
  /\ IsFiniteSet(Servers) /\ Servers # {}

VARIABLES
  clock,
  calls,      \* the list, newest push first
  callset,    \* the sorted set
  expires,    \* when both keys expire
  blocked,    \* until when the blocking key lives
  serving,    \* a request in each process
  admitted,   \* history: times of the calls let in
  uncounted   \* history: times of calls let in that were never counted

limitVars == <<clock, calls, callset, expires, blocked, serving, admitted, uncounted>>

NoCall == [step |-> "idle", now |-> 0, seen |-> <<>>, conflicts |-> 0, left |-> 0]

LimitsInit ==
  /\ clock = 1 /\ calls = <<>> /\ callset = {} /\ expires = 0 /\ blocked = 0
  /\ serving = [p \in Servers |-> NoCall]
  /\ admitted = {} /\ uncounted = {}

max_api_calls == Rules[Len(Rules)][2]
max_api_window == Rules[Len(Rules)][1]

\* LINDEX, from 0; an index past the end is None.
Stamped(list, i) == IF i < Len(list) THEN {list[i + 1]} ELSE {}

\* Reads the entry after the one the rule is about.
MutOffByOne == \/ blocked > clock
               \/ \E rule \in {Rules[i] : i \in 1..Len(Rules)} : \E stamp \in Stamped(calls, rule[2]) : stamp + rule[1] > clock

\* The call that is n back tells whether there were n in the window.
is_ratelimited ==
  \/ blocked > clock
  \/ \E rule \in {Rules[i] : i \in 1..Len(Rules)} : \E stamp \in Stamped(calls, rule[2] - 1) : stamp + rule[1] > clock

\* Time goes on; redis forgets keys whose time is over.
ClockMoves ==
  /\ clock < MaxClock
  /\ clock' = clock + 1
  /\ IF clock' >= expires THEN calls' = <<>> /\ callset' = {} ELSE UNCHANGED <<calls, callset>>

\* The clock moves whenever it is read for a call, so that no two calls have the same time.
rate_limit_user(p) ==
  /\ serving[p].step = "idle"
  /\ ~is_ratelimited
  /\ ClockMoves
  /\ serving' = [serving EXCEPT ![p] = [NoCall EXCEPT !.step = "watch", !.now = clock]]
  /\ admitted' = admitted \cup {clock}
  /\ UNCHANGED <<expires, blocked, uncounted>>

\* RateLimited: the answer is 429.
RateLimited(p) ==
  /\ serving[p].step = "idle" /\ is_ratelimited
  /\ serving' = [serving EXCEPT ![p].step = "refused"]
  /\ UNCHANGED <<clock, calls, callset, expires, blocked, admitted, uncounted>>

\* WATCH, and the entry that will be trimmed.
WatchList(p) ==
  /\ serving[p].step = "watch"
  /\ serving' = [serving EXCEPT ![p].step = "exec", ![p].seen = calls]
  /\ UNCHANGED <<clock, calls, callset, expires, blocked, admitted, uncounted>>

Pushed(p) ==
  LET list == <<serving[p].now>> \o calls
  IN /\ calls' = SubSeq(list, 1, IF Len(list) < max_api_calls THEN Len(list) ELSE max_api_calls)
     /\ callset' = (callset \cup {serving[p].now}) \ Stamped(serving[p].seen, max_api_calls - 1)
     /\ expires' = clock + max_api_window
     /\ serving' = [serving EXCEPT ![p].step = "counted"]
     /\ UNCHANGED <<clock, blocked, admitted, uncounted>>

\* Executes whatever happened to the list.
MutNoWatch(p) == serving[p].step = "exec" /\ Pushed(p)

\* incr_ratelimit: WatchError starts it again, and after so many it is given up.
incr_ratelimit(p) ==
  /\ serving[p].step = "exec"
  /\ \/ calls = serving[p].seen /\ Pushed(p)
     \/ /\ calls # serving[p].seen
        /\ IF serving[p].conflicts >= MaxConflicts
           THEN serving' = [serving EXCEPT ![p].step = "counted"] /\ uncounted' = uncounted \cup {serving[p].now}
           ELSE serving' = [serving EXCEPT ![p].step = "watch", ![p].conflicts = @ + 1] /\ UNCHANGED uncounted
        /\ UNCHANGED <<clock, calls, callset, expires, blocked, admitted>>

\* What the response says is left: the calls of the set in the longest window.
api_calls_left(p) ==
  /\ serving[p].step = "counted"
  /\ serving' = [serving EXCEPT ![p].step = "answer",
                   ![p].left = max_api_calls - Cardinality({c \in callset : c >= clock - max_api_window /\ c <= clock})]
  /\ UNCHANGED <<clock, calls, callset, expires, blocked, admitted, uncounted>>

\* RateLimitMiddleware adds the headers.
AnswerCall(p) ==
  /\ serving[p].step \in {"answer", "refused"}
  /\ serving' = [serving EXCEPT ![p] = NoCall]
  /\ UNCHANGED <<clock, calls, callset, expires, blocked, admitted, uncounted>>

block_user == blocked = 0 /\ blocked' = clock + BlockTime /\ UNCHANGED <<clock, calls, callset, expires, serving, admitted, uncounted>>
unblock_user == blocked > clock /\ blocked' = 0 /\ UNCHANGED <<clock, calls, callset, expires, serving, admitted, uncounted>>

Tick == ClockMoves /\ UNCHANGED <<expires, blocked, serving, admitted, uncounted>>

LimitsNext ==
  \/ \E p \in Servers :
       rate_limit_user(p) \/ RateLimited(p) \/ WatchList(p) \/ incr_ratelimit(p) \/ api_calls_left(p) \/ AnswerCall(p)
  \/ block_user \/ unblock_user \/ Tick

LimitsSpec == LimitsInit /\ [][LimitsNext]_limitVars

-----------------------------------------------------------------------------

\* The list and the set always name the same calls, however transactions interleave: the set decides what
\* the client is told is left, the list what it is let do.
SetMatchesList == callset = {calls[i] : i \in 1..Len(calls)} /\ Len(calls) <= max_api_calls

\* No window of a rule admits more calls than the rule says and one for every process and every other
\* process: each has one under way that the list does not show yet, and since the list is in the order of
\* the pushes, the late push of a call that is older than the window hides a call in it and lets all the
\* processes through again.  Calls whose counting was given up are over.
WindowRespected ==
  \A i \in 1..Len(Rules) : \A t \in admitted :
    Cardinality({c \in admitted \ uncounted : c <= t /\ c > t - Rules[i][1]}) <= Rules[i][2] + Cardinality(Servers) * (Cardinality(Servers) - 1)

\* What redis has of a user stays whole, and it bounds what the user is let do.
LimiterSound == SetMatchesList /\ WindowRespected
=============================================================================
