-------------------------------- MODULE FanOut --------------------------------
(***************************************************************************)
(* process_notification of zerver/tornado/event_queue.py: how one notice   *)
(* becomes an event in each of many queues, at the level where Python      *)
(* dicts are shared.  A queue holds references; two queues may refer to    *)
(* the same event dict or to the same message dict, and what a client      *)
(* reads is what the dict says when its poll is answered.                  *)
(*                                                                         *)
(* A notice is handled in one callback of the IOLoop, but its loop is      *)
(* taken step by step, because a step may raise and end the loop.          *)
(* Virtual events (EventQueue) and lost answers (EventDelivery) are left   *)
(* to their own modules.                                                   *)
(***************************************************************************)
EXTENDS Naturals, Integers, Sequences

CONSTANTS Users,
          N,               \* number of queues, numbered as they were allocated
          Owner,           \* user_profile_id of each queue
          Markdown,        \* queues with apply_markdown
          AllStreams,      \* queues in realm_clients_all_streams
          NarrowMentioned, \* of those, queues narrowed to is:mentioned
          Kinds,           \* kinds of notices that are sent
          MaxNotices       \* bound: notices sent

Clients == 1 .. N

\* Which of the two dicts of a message a queue is given.
Rendered(c) == IF c \in Markdown THEN "markdown" ELSE "no_markdown"

ASSUME FanOutAssumption ==
    /\ N \in Nat /\ MaxNotices \in Nat /\ Owner \in [Clients -> Users]
    /\ Markdown \subseteq Clients /\ AllStreams \subseteq Clients
    /\ NarrowMentioned \subseteq AllStreams
    /\ Kinds \subseteq {"event", "userdata", "message"}

VARIABLES
    notices,       \* the notices so far; the last one is being handled
    todo,          \* queues that its loop has not reached
    next_event_id, \* of each queue
    queue,         \* of each queue: references to events
    event_id,      \* the dict entry 'id' of each event dict
    is_mentioned,  \* the entry 'is_mentioned' of each message dict
    parked,        \* queues with a poll waiting
    last_event_id, \* of each client
    applied        \* of each client: the events it has received, by value

vars == <<notices, todo, next_event_id, queue, event_id, is_mentioned, parked,
          last_event_id, applied>>

(* A notice; flags are the users' flags, here only 'mentioned'.            *)
Notice == {n \in [kind : Kinds, to : SUBSET Users, mentioned : SUBSET Users] :
             n.to # {} /\ n.mentioned \subseteq n.to /\ (n.kind # "message" => n.mentioned = {})}

(* References.  An event dict is named after the notice and the first      *)
(* queue it is pushed to, a message dict after its rendering.              *)
DictRef == (1 .. MaxNotices) \X Clients
MessageRef == (1 .. MaxNotices) \X {"markdown", "no_markdown"}

Entry == [n : 1 .. MaxNotices, dict : DictRef, flags : {"None", "mentioned", "plain"}]
Value == [n : 1 .. MaxNotices, id : Int, mentioned : BOOLEAN]

Init ==
    /\ notices = <<>> /\ todo = {} /\ parked = {}
    /\ next_event_id = [c \in Clients |-> 0] /\ queue = [c \in Clients |-> <<>>]
    /\ event_id = [r \in DictRef |-> -1]
    /\ is_mentioned = [r \in MessageRef |-> FALSE]
    /\ last_event_id = [c \in Clients |-> -1] /\ applied = [c \in Clients |-> <<>>]

-----------------------------------------------------------------------------
Current == Len(notices)

(* Which queues the loops of a notice visit.  A message here is one to a   *)
(* public stream: it also goes to the queues that take all of them.        *)
Targets(notice) ==
    {c \in Clients : \/ Owner[c] \in notice.to
                     \/ notice.kind = "message" /\ c \in AllStreams}

(* process_notification begins.                                            *)
ProcessNotification(notice) ==
    /\ todo = {} /\ Current < MaxNotices
    /\ notices' = Append(notices, notice) /\ todo' = Targets(notice)
    /\ UNCHANGED <<next_event_id, queue, event_id, is_mentioned, parked,
                   last_event_id, applied>>

(* MUTANT of Flags: the realm loop runs last.                              *)
MutFlagsRealmLast(c) ==
    IF c \in AllStreams THEN "None"
    ELSE IF Owner[c] \in notices[Current].mentioned THEN "mentioned" ELSE "plain"

(* send_to_clients: a recipient's flags replace the None of the realm loop.*)
Flags(c) ==
    LET notice == notices[Current]
    IN  IF Owner[c] \in notice.mentioned THEN "mentioned"
        ELSE IF Owner[c] \in notice.to THEN "plain" ELSE "None"

(* MUTANT of DictFor: process_event pushes the event itself, not a copy.   *)
MutDictShared(c) == <<Current, 1>>

(* The event dict that is pushed: dict(event) in process_event, a new dict *)
(* in process_message_event, one dict per user in process_userdata_event.  *)
DictFor(c) ==
    IF notices[Current].kind = "userdata"
    THEN <<Current, CHOOSE d \in Clients : /\ Owner[d] = Owner[c]
                                          /\ \A e \in Clients : Owner[e] = Owner[c] => d <= e>>
    ELSE <<Current, c>>

(* The client reads an answer: every event in it, by value.                *)
ValuesOf(c, entries, ids, marks) ==
    [i \in 1 .. Len(entries) |->
        [n |-> entries[i].n, id |-> ids[entries[i].dict],
         mentioned |-> marks[<<entries[i].n, Rendered(c)>>]]]

Largest(last, values) ==
    LET ids == {values[i].id : i \in DOMAIN values} \cup {last}
    IN  CHOOSE m \in ids : \A i \in ids : i <= m

Answer(c, entries, ids, marks) ==
    LET values == ValuesOf(c, entries, ids, marks)
    IN  /\ applied' = [applied EXCEPT ![c] = @ \o values]
        /\ last_event_id' = [last_event_id EXCEPT ![c] = Largest(@, values)]
        /\ parked' = parked \ {c}

(* add_event: push gives the dict the queue's next id; a parked poll is    *)
(* answered with the contents.                                             *)
AddEvent(c, marks) ==
    LET entries == Append(queue[c], [n |-> Current, dict |-> DictFor(c),
                                     flags |-> Flags(c)])
        ids     == [event_id EXCEPT ![DictFor(c)] = next_event_id[c]]
    IN  /\ event_id' = ids
        /\ next_event_id' = [next_event_id EXCEPT ![c] = @ + 1]
        /\ queue' = [queue EXCEPT ![c] = entries]
        /\ \/ c \in parked /\ Answer(c, entries, ids, marks)
           \/ c \notin parked /\ UNCHANGED <<parked, last_event_id, applied>>

Skip == UNCHANGED <<next_event_id, queue, event_id, parked, last_event_id, applied>>

(* MUTANT of NarrowFilter: missing flags count as a match.                 *)
MutNarrowNoneMatches(c) ==
    IF c \in NarrowMentioned /\ Flags(c) = "plain" THEN "False" ELSE "True"

(* narrow_filter with ["is", "mentioned"]: 'mentioned' is looked for in    *)
(* the flags, a TypeError if they are None.                                *)
NarrowFilter(c) ==
    CASE c \notin NarrowMentioned \/ Flags(c) = "mentioned" -> "True"
      [] c \in NarrowMentioned /\ Flags(c) = "plain"        -> "False"
      [] c \in NarrowMentioned /\ Flags(c) = "None"         -> "TypeError"

(* The body of process_message_event's last loop for queue c: is_mentioned *)
(* is written into the shared message dict, then accepts_event decides; an *)
(* exception ends the loop.                                                *)
MessageBody(c) ==
    LET marks == IF Flags(c) = "None" THEN is_mentioned
                 ELSE [is_mentioned EXCEPT ![<<Current, Rendered(c)>>] = (Flags(c) = "mentioned")]
    IN  /\ is_mentioned' = marks
        /\ \/ NarrowFilter(c) = "TypeError" /\ todo' = {} /\ Skip
           \/ NarrowFilter(c) = "False" /\ todo' = todo \ {c} /\ Skip
           \/ NarrowFilter(c) = "True" /\ todo' = todo \ {c} /\ AddEvent(c, marks)

(* send_to_clients is a dict: any order.                                   *)
ProcessMessageEvent(c) ==
    /\ c \in todo /\ notices[Current].kind = "message"
    /\ MessageBody(c)
    /\ UNCHANGED notices

(* process_event and process_userdata_event go through a user's queues in  *)
(* the order of their allocation.                                          *)
ProcessEvent(c) ==
    /\ c \in todo /\ notices[Current].kind # "message"
    /\ \A d \in todo : Owner[d] = Owner[c] => c <= d
    /\ todo' = todo \ {c} /\ AddEvent(c, is_mentioned)
    /\ UNCHANGED <<notices, is_mentioned>>

(* MUTANT of Pruned: only events below the acknowledged id are dropped.    *)
MutPrunedBelow(entries, through) ==
    LET gone == {k \in 0 .. Len(entries) :
                   \A i \in 1 .. k : event_id[entries[i].dict] < through}
    IN  SubSeq(entries, (CHOOSE k \in gone : \A j \in gone : j <= k) + 1, Len(entries))

(* prune: from the left, as long as the id in the dict is small enough.    *)
Pruned(entries, through) ==
    LET gone == {k \in 0 .. Len(entries) :
                   \A i \in 1 .. k : event_id[entries[i].dict] <= through}
    IN  SubSeq(entries, (CHOOSE k \in gone : \A j \in gone : j <= k) + 1, Len(entries))

(* fetch_events: prune, answer with what is left, or park.                 *)
FetchEvents(c) ==
    /\ todo = {} /\ c \notin parked
    /\ LET left == Pruned(queue[c], last_event_id[c])
       IN  /\ queue' = [queue EXCEPT ![c] = left]
           /\ \/ left # <<>> /\ Answer(c, left, event_id, is_mentioned)
              \/ /\ left = <<>> /\ parked' = parked \cup {c}
                 /\ UNCHANGED <<last_event_id, applied>>
    /\ UNCHANGED <<notices, todo, next_event_id, event_id, is_mentioned>>

Next ==
    \/ \E notice \in Notice : ProcessNotification(notice)
    \/ \E c \in Clients : ProcessMessageEvent(c)
    \/ \E c \in Clients : ProcessEvent(c)
    \/ \E c \in Clients : FetchEvents(c)

Spec == Init /\ [][Next]_vars

-----------------------------------------------------------------------------
TypeOK ==
    /\ \A n \in 1 .. Current : notices[n] \in Notice
    /\ todo \subseteq Clients /\ parked \subseteq Clients
    /\ next_event_id \in [Clients -> Nat]
    /\ \A c \in Clients : \A i \in 1 .. Len(queue[c]) : queue[c][i] \in Entry
    /\ event_id \in [DictRef -> Int] /\ is_mentioned \in [MessageRef -> BOOLEAN]
    /\ last_event_id \in [Clients -> Int]
    /\ \A c \in Clients : \A i \in 1 .. Len(applied[c]) : applied[c][i] \in Value

(* Whom a notice is for: the queues of its users, and for a message also   *)
(* the queues that take every stream, except what a narrow filters out.    *)
IsFor(c, notice) ==
    \/ Owner[c] \in notice.to /\ (c \notin NarrowMentioned \/ notice.kind # "message")
    \/ notice.kind = "message" /\ c \in AllStreams \ NarrowMentioned
    \/ c \in NarrowMentioned /\ Owner[c] \in notice.mentioned

Count(c, n) ==
    LET at == {i \in 1 .. Len(applied[c]) : applied[c][i].n = n}
    IN  IF at = {} THEN 0 ELSE IF \E i \in at : at = {i} THEN 1 ELSE 2

(* The loop of a message is cut short where a queue narrowed to mentions   *)
(* gets flags None: narrow_filter raises and whoever comes later in the    *)
(* loop goes without.                                                      *)
CutShort(notice) ==
    /\ notice.kind = "message"
    /\ \E d \in NarrowMentioned : Owner[d] \notin notice.to

(* Once a notice has been handled, each queue it is for holds its event or *)
(* has had it received: no queue is skipped, and no acknowledgement drops  *)
(* an event that its client has not seen.  (Not so for notices cut short.) *)
NothingMissed ==
    todo = {} =>
        \A c \in Clients, n \in 1 .. Current :
            IsFor(c, notices[n]) /\ ~CutShort(notices[n]) =>
                \/ Count(c, n) > 0
                \/ \E i \in 1 .. Len(queue[c]) : queue[c][i].n = n

(* With no answer lost, no client receives an event twice.                 *)
ReceivedOnce == \A c \in Clients, n \in 1 .. Current : Count(c, n) <= 1

(* A recipient's queue gets the recipient's flags even if it also takes    *)
(* every stream; missedmessage_hook and the narrow filter rely on it.      *)
OwnFlags ==
    \A c \in Clients : \A i \in 1 .. Len(queue[c]) :
        LET notice == notices[queue[c][i].n]
        IN  /\ queue[c][i].flags = "None" => Owner[c] \notin notice.to
            /\ queue[c][i].flags = "mentioned" <=> Owner[c] \in notice.mentioned

(* A queue that shares its message dicts with no other user's queue is     *)
(* told rightly whether its owner is mentioned.  (Others may read the mark *)
(* of whoever came later in the loop.)                                     *)
OwnMark ==
    \A c \in Clients : \A i \in 1 .. Len(applied[c]) :
        LET notice == notices[applied[c][i].n]
            alone  == \A d \in Clients : Rendered(d) = Rendered(c) => Owner[d] = Owner[c]
        IN  notice.kind = "message" /\ Owner[c] \in notice.to /\ alone =>
                applied[c][i].mentioned = (Owner[c] \in notice.mentioned)

(* A notice reaches each queue it is for exactly once, with the flags and  *)
(* the mark of its own user.                                               *)
DeliveredExactly == NothingMissed /\ ReceivedOnce /\ OwnFlags /\ OwnMark

(* A client narrowed to its mentions sees no message that does not mention *)
(* its owner, be the owner a recipient or not.                             *)
NarrowHonoured ==
    \A c \in NarrowMentioned :
        LET seen == {applied[c][i].n : i \in 1 .. Len(applied[c])}
                    \cup {queue[c][i].n : i \in 1 .. Len(queue[c])}
        IN  \A n \in seen : notices[n].kind = "message" =>
                Owner[c] \in notices[n].mentioned

===============================================================================
