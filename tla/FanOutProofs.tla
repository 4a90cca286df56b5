---------------------------- MODULE FanOutProofs -----------------------------
(***************************************************************************)
(* Proofs about the fan-out of notices, for any users, queues and notices. *)
(* What a queue holds and its client was given is told apart by the ids in *)
(* the dicts, so delivery is exact as long as no dict is shared (no notice *)
(* of kind userdata); flags, marks and narrows are right in any case.      *)
(***************************************************************************)
EXTENDS FanOut, WellFoundedInduction, TLAPS

-----------------------------------------------------------------------------
(* The invariants *)

Noticeboard == Seq(Notice)
Entries == Seq(Entry)
Values == Seq(Value)

\* The variables of FanOut.
FanType ==
  /\ notices \in Noticeboard /\ Len(notices) <= MaxNotices
  /\ todo \subseteq Clients /\ parked \subseteq Clients /\ (todo # {} => Current # 0)
  /\ next_event_id \in [Clients -> Nat] /\ queue \in [Clients -> Entries]
  /\ event_id \in [DictRef -> Int] /\ is_mentioned \in [MessageRef -> BOOLEAN]
  /\ applied \in [Clients -> Values]

\* The flags of a queue's owner in a notice.
FlagsFor(c, notice) ==
  IF Owner[c] \in notice.mentioned THEN "mentioned"
  ELSE IF Owner[c] \in notice.to THEN "plain" ELSE "None"

\* What may be in the queue of c, or in the hands of its client.
Reached(c, n) ==
  /\ n \in 1 .. Current /\ (n = Current => c \notin todo)
  /\ c \in NarrowMentioned /\ notices[n].kind = "message" => Owner[c] \in notices[n].mentioned

\* No other user's queue shares its message dicts.
Alone(c) == \A d \in Clients : Rendered(d) = Rendered(c) => Owner[d] = Owner[c]
OwnMessage(c, n) == Alone(c) /\ notices[n].kind = "message" /\ Owner[c] \in notices[n].to
Mentions(c, n) == Owner[c] \in notices[n].mentioned

EntryRight(c, e) ==
  /\ Reached(c, e.n) /\ e.flags = FlagsFor(c, notices[e.n])
  /\ OwnMessage(c, e.n) => (is_mentioned[<<e.n, Rendered(c)>>] <=> Mentions(c, e.n))
ValueRight(c, v) ==
  /\ Reached(c, v.n)
  /\ OwnMessage(c, v.n) => (v.mentioned <=> Mentions(c, v.n))

QueuesRight ==
  \A c \in Clients :
    /\ \A i \in 1 .. Len(queue[c]) : EntryRight(c, queue[c][i])
    /\ \A i \in 1 .. Len(applied[c]) : ValueRight(c, applied[c][i])

Given(c, n) == \E i \in 1 .. Len(applied[c]) : applied[c][i].n = n
Held(c, n) == \E i \in 1 .. Len(queue[c]) : queue[c][i].n = n

\* What queue c holds, in the order of the ids in its own dicts; its client was given what has an
\* id up to the last one it knows, once.
GivenOf(given, n) == \E j \in 1 .. Len(given) : given[j].n = n
ExactOf(c, entries, given, ids, last, next) ==
  /\ \A i \in 1 .. Len(entries) :
       /\ entries[i].dict = <<entries[i].n, c>> /\ ids[<<entries[i].n, c>>] < next
       /\ ids[<<entries[i].n, c>>] <= last <=> GivenOf(given, entries[i].n)
  /\ \A i, j \in 1 .. Len(entries) : i < j => ids[<<entries[i].n, c>>] < ids[<<entries[j].n, c>>]
  /\ \A i, j \in 1 .. Len(given) : given[i].n = given[j].n => i = j
  /\ last < next

IdsRight ==
  /\ last_event_id \in [Clients -> Int]
  /\ \A c \in Clients :
       /\ ExactOf(c, queue[c], applied[c], event_id, last_event_id[c], next_event_id[c])
       /\ c \in parked => queue[c] = <<>>

\* A notice that a queue is for is held, was given, or its turn is to come.
Served(c, n) ==
  \/ GivenOf(applied[c], n) \/ GivenOf(queue[c], n)
  \/ n = Current /\ c \in todo
NoneMissed ==
  \A c \in Clients, n \in 1 .. Current : IsFor(c, notices[n]) /\ ~CutShort(notices[n]) => Served(c, n)

FanInv == FanType /\ QueuesRight
ExactInv == FanInv /\ IdsRight /\ NoneMissed
-----------------------------------------------------------------------------
(* Sequences *)

\* A nonempty set of numbers has a least one.
LEMMA LeastExists ==
  ASSUME NEW T, T \subseteq Nat, T # {}
  PROVE  \E x \in T : \A y \in T : x <= y
<1>1. PICK x \in T : \A y \in T : ~(<<y, x>> \in OpToRel(<, Nat))
  BY NatLessThanWellFounded, WFMin
<1>2. \A y \in T : ~(y < x)
  BY <1>1 DEF OpToRel
<1> QED
  BY <1>2

\* Of the numbers from 0 to n for which something holds there is a greatest.
LEMMA GreatestExists ==
  ASSUME NEW T, NEW n \in Nat, T \subseteq 0 .. n, T # {}
  PROVE  \E x \in T : \A y \in T : y <= x
<1>1. PICK U : U = {n - x : x \in T}
  OBVIOUS
<1>2. U \subseteq Nat /\ U # {}
  <2>1. PICK t \in T : TRUE
    OBVIOUS
  <2>2. n - t \in U
    BY <1>1, <2>1
  <2>3. \A x \in T : n - x \in Nat
    OBVIOUS
  <2> QED
    BY <1>1, <2>2, <2>3
<1>3. PICK u \in U : \A y \in U : u <= y
  BY <1>2, LeastExists
<1>5. PICK x \in T : u = n - x
  BY <1>1, <1>3
<1>6. \A y \in T : y <= x
  <2> SUFFICES ASSUME NEW y \in T PROVE y <= x
    OBVIOUS
  <2>1. n - y \in U
    BY <1>1
  <2>2. n - x <= n - y /\ x \in Int /\ y \in Int
    BY <1>3, <1>5, <2>1
  <2> QED
    BY <2>2
<1> QED
  BY <1>6

\* prune drops the longest beginning of the queue with ids up to the acknowledged one.
LEMMA PrunedTo ==
  ASSUME NEW entries, Len(entries) \in Nat, NEW through
  PROVE  \E k \in 0 .. Len(entries) :
           /\ Pruned(entries, through) = SubSeq(entries, k + 1, Len(entries))
           /\ \A i \in 1 .. k : event_id[entries[i].dict] <= through
           /\ k < Len(entries) => ~(event_id[entries[k + 1].dict] <= through)
<1>1. PICK gone : gone = {k \in 0 .. Len(entries) : \A i \in 1 .. k : event_id[entries[i].dict] <= through}
  OBVIOUS
<1>2. 0 \in gone /\ gone \subseteq 0 .. Len(entries)
  BY <1>1
<1>3. PICK k : k = CHOOSE x \in gone : \A j \in gone : j <= x
  OBVIOUS
<1>4. k \in gone /\ \A j \in gone : j <= k
  BY <1>2, <1>3, GreatestExists
<1>5. Pruned(entries, through) = SubSeq(entries, k + 1, Len(entries))
  BY <1>1, <1>3 DEF Pruned
<1>6. ASSUME k < Len(entries), event_id[entries[k + 1].dict] <= through PROVE FALSE
  <2>1. \A i \in 1 .. (k + 1) : i \in 1 .. k \/ i = k + 1
    BY <1>2, <1>4
  <2>2. k + 1 \in gone
    BY <1>1, <1>2, <1>4, <1>6, <2>1
  <2> QED
    BY <1>2, <1>4, <2>2
<1> QED
  BY <1>1, <1>2, <1>4, <1>5, <1>6

-----------------------------------------------------------------------------
(* What one queue gains and loses *)

\* The first queue of an owner.
LEMMA DictIsRef ==
  ASSUME FanType, NEW c \in Clients, Current \in 1 .. MaxNotices
  PROVE  DictFor(c) \in DictRef
<1>1. PICK mine : mine = {d \in Clients : Owner[d] = Owner[c]}
  OBVIOUS
<1>2. c \in mine /\ mine \subseteq Nat /\ mine \subseteq Clients
  BY <1>1, FanOutAssumption DEF Clients
<1>3. PICK first \in mine : \A y \in mine : first <= y
  BY <1>2, LeastExists
<1>4. \E d \in Clients : Owner[d] = Owner[c] /\ \A e \in Clients : Owner[e] = Owner[c] => d <= e
  BY <1>1, <1>2, <1>3
<1> QED
  BY <1>4 DEF DictFor, DictRef

\* The answer to a poll: what was queued, by value.
AnswerIs(c, entries, ids, marks, values) ==
  /\ Len(values) = Len(entries)
  /\ \A i \in 1 .. Len(entries) :
       /\ values[i].n = entries[i].n /\ values[i].id = ids[entries[i].dict]
       /\ values[i].mentioned = marks[<<entries[i].n, Rendered(c)>>]
  /\ applied' = [applied EXCEPT ![c] = @ \o values]
  /\ last_event_id' = [last_event_id EXCEPT ![c] = Largest(@, values)]
  /\ parked' = parked \ {c}

\* An answer gives each entry its value.
LEMMA AnswerGives ==
  ASSUME FanType, NEW c \in Clients, NEW entries \in Entries, NEW ids \in [DictRef -> Int],
         NEW marks \in [MessageRef -> BOOLEAN], Answer(c, entries, ids, marks)
  PROVE  \E values \in Values : AnswerIs(c, entries, ids, marks, values)
<1>1. PICK values : values = ValuesOf(c, entries, ids, marks)
  OBVIOUS
<1>2. Len(entries) \in Nat /\ \A i \in 1 .. Len(entries) : entries[i] \in Entry
  BY DEF Entries
<1>0. Rendered(c) \in {"markdown", "no_markdown"}
  BY DEF Rendered
<1>3. \A i \in 1 .. Len(entries) :
        /\ entries[i].n \in 1 .. MaxNotices /\ ids[entries[i].dict] \in Int
        /\ marks[<<entries[i].n, Rendered(c)>>] \in BOOLEAN
  <2> SUFFICES ASSUME NEW i \in 1 .. Len(entries)
               PROVE  /\ entries[i].n \in 1 .. MaxNotices /\ ids[entries[i].dict] \in Int
                      /\ marks[<<entries[i].n, Rendered(c)>>] \in BOOLEAN
    OBVIOUS
  <2>1. PICK e \in Entry : e = entries[i]
    BY <1>2
  <2>2. e.n \in 1 .. MaxNotices /\ e.dict \in DictRef
    BY DEF Entry
  <2>3. ids[e.dict] \in Int
    BY <2>2
  <2>4. <<e.n, Rendered(c)>> \in MessageRef
    BY <1>0, <2>2 DEF MessageRef
  <2>5. marks[<<e.n, Rendered(c)>>] \in BOOLEAN
    BY <2>4
  <2> QED
    BY <2>1, <2>2, <2>3, <2>5
<1>4. values = [i \in 1 .. Len(entries) |->
                 [n |-> entries[i].n, id |-> ids[entries[i].dict], mentioned |-> marks[<<entries[i].n, Rendered(c)>>]]]
  BY <1>1 DEF ValuesOf
<1>5. \A i \in 1 .. Len(entries) : values[i] \in Value
  BY <1>3, <1>4 DEF Value
<1>6. values \in Seq(Value)
  BY <1>2, <1>4, <1>5
<1>7. Len(values) = Len(entries)
  BY <1>2, <1>4, <1>6
<1> QED
  BY <1>1, <1>4, <1>6, <1>7 DEF Answer, AnswerIs, Values

\* What a client was given stays, and the answer is put behind it.
LEMMA Handed ==
  ASSUME FanType, NEW c \in Clients, NEW values \in Values, applied' = [applied EXCEPT ![c] = @ \o values]
  PROVE  /\ applied' \in [Clients -> Values]
         /\ \A d \in Clients : d # c => applied'[d] = applied[d]
         /\ Len(applied'[c]) = Len(applied[c]) + Len(values) /\ Len(applied[c]) \in Nat /\ Len(values) \in Nat
         /\ \A i \in 1 .. Len(applied[c]) : applied'[c][i] = applied[c][i]
         /\ \A j \in 1 .. Len(values) : applied'[c][Len(applied[c]) + j] = values[j]
         /\ \A i \in 1 .. Len(applied'[c]) :
              i \in 1 .. Len(applied[c]) \/ (i - Len(applied[c]) \in 1 .. Len(values) /\ applied'[c][i] = values[i - Len(applied[c])])
<1>1. applied \in [Clients -> Values] /\ applied[c] \in Seq(Value) /\ values \in Seq(Value)
  BY DEF FanType, Values
<1>2. applied'[c] = applied[c] \o values /\ applied[c] \o values \in Seq(Value)
  BY <1>1
<1>3. applied' \in [Clients -> Values]
  BY <1>1, <1>2 DEF Values
<1>4. \A d \in Clients : d # c => applied'[d] = applied[d]
  BY <1>1
<1> QED
  BY <1>1, <1>2, <1>3, <1>4

\* An event is put behind the others of its queue, and a poll that waits is answered.
LEMMA AddEventGives ==
  ASSUME FanType, NEW c \in Clients, Current \in 1 .. MaxNotices, NEW marks \in [MessageRef -> BOOLEAN], AddEvent(c, marks)
  PROVE  \E e \in Entry, entries \in Entries, ids \in [DictRef -> Int] :
           /\ e.n = Current /\ e.dict = DictFor(c) /\ e.flags = Flags(c)
           /\ entries = Append(queue[c], e) /\ Len(entries) = Len(queue[c]) + 1 /\ Len(queue[c]) \in Nat
           /\ ids = [event_id EXCEPT ![DictFor(c)] = next_event_id[c]] /\ event_id' = ids
           /\ queue' = [queue EXCEPT ![c] = entries] /\ queue' \in [Clients -> Entries]
           /\ next_event_id' = [next_event_id EXCEPT ![c] = @ + 1] /\ next_event_id' \in [Clients -> Nat]
           /\ \/ c \in parked /\ Answer(c, entries, ids, marks)
              \/ c \notin parked /\ UNCHANGED <<parked, last_event_id, applied>>
<1>1. PICK e : e = [n |-> Current, dict |-> DictFor(c), flags |-> Flags(c)]
  OBVIOUS
<1>2. Flags(c) \in {"None", "mentioned", "plain"}
  BY DEF Flags
<1>3. e \in Entry /\ e.n = Current /\ e.dict = DictFor(c) /\ e.flags = Flags(c)
  BY <1>1, <1>2, DictIsRef DEF Entry
<1>4. PICK entries : entries = Append(queue[c], e)
  OBVIOUS
<1>5. queue \in [Clients -> Entries] /\ queue[c] \in Seq(Entry)
  BY DEF FanType, Entries
<1>6. entries \in Seq(Entry) /\ Len(entries) = Len(queue[c]) + 1 /\ Len(queue[c]) \in Nat
  BY <1>3, <1>4, <1>5
<1>7. PICK ids : ids = [event_id EXCEPT ![DictFor(c)] = next_event_id[c]]
  OBVIOUS
<1>8. ids \in [DictRef -> Int] /\ next_event_id \in [Clients -> Nat]
  <2>1. next_event_id \in [Clients -> Nat] /\ event_id \in [DictRef -> Int]
    BY DEF FanType
  <2>2. next_event_id[c] \in Int
    BY <2>1
  <2> QED
    BY <1>7, <2>1, <2>2
<1>9. /\ event_id' = ids /\ next_event_id' = [next_event_id EXCEPT ![c] = @ + 1] /\ queue' = [queue EXCEPT ![c] = entries]
      /\ \/ c \in parked /\ Answer(c, entries, ids, marks)
         \/ c \notin parked /\ UNCHANGED <<parked, last_event_id, applied>>
  BY <1>1, <1>4, <1>7 DEF AddEvent
<1>10. queue' \in [Clients -> Entries] /\ next_event_id' \in [Clients -> Nat]
  BY <1>5, <1>6, <1>8, <1>9 DEF Entries
<1> QED
  BY <1>3, <1>4, <1>6, <1>7, <1>8, <1>9, <1>10 DEF Entries
-----------------------------------------------------------------------------
(* Flags, marks and narrows *)

\* What a step leaves of notices keeps what was known of them.
LEMMA FanStarts == Init => FanInv
<1> SUFFICES ASSUME Init PROVE FanInv
  OBVIOUS
<1>1. <<>> \in Noticeboard /\ <<>> \in Entries /\ <<>> \in Values /\ Len(<<>>) = 0
  BY DEF Noticeboard, Entries, Values
<1>2. MaxNotices \in Nat
  BY FanOutAssumption
<1>3. FanType
  BY <1>1, <1>2 DEF Init, FanType
<1>4. \A c \in Clients : Len(queue[c]) = 0 /\ Len(applied[c]) = 0
  BY <1>1 DEF Init
<1> QED
  BY <1>3, <1>4 DEF FanInv, QueuesRight

\* The flags an event gets are those of the notice at work.
LEMMA FlagsOfNotice == ASSUME NEW c PROVE Flags(c) = FlagsFor(c, notices[Current])
BY DEF Flags, FlagsFor

\* Another notice comes when the last one is done.
LEMMA NoticeKeeps ==
  ASSUME FanInv, NEW notice \in Notice, ProcessNotification(notice)
  PROVE  FanInv' /\ Current' = Current + 1 /\ Current \in Nat /\ \A n \in 1 .. Current : notices'[n] = notices[n]
<1>1. /\ todo = {} /\ Current < MaxNotices /\ notices' = Append(notices, notice) /\ todo' = Targets(notice)
      /\ queue' = queue /\ applied' = applied /\ is_mentioned' = is_mentioned /\ parked' = parked
      /\ next_event_id' = next_event_id /\ event_id' = event_id
  BY DEF ProcessNotification
<1>2. notices \in Seq(Notice) /\ Current \in Nat /\ MaxNotices \in Nat
  BY FanOutAssumption DEF FanInv, FanType, Noticeboard, Current
<1>3. /\ notices' \in Seq(Notice) /\ Current' = Current + 1
      /\ \A n \in 1 .. Current : notices'[n] = notices[n]
  BY <1>1, <1>2 DEF Current
<1>4. FanType'
  BY <1>1, <1>2, <1>3 DEF FanInv, FanType, Noticeboard, Targets, Current
<1>5. ASSUME NEW c \in Clients, NEW n, Reached(c, n) PROVE Reached(c, n)' /\ notices'[n] = notices[n]
  <2>1. n \in 1 .. Current /\ notices'[n] = notices[n]
    BY <1>3, <1>5 DEF Reached
  <2>2. n \in 1 .. Current' /\ n # Current'
    BY <1>2, <1>3, <2>1
  <2> QED
    BY <1>5, <2>1, <2>2 DEF Reached
<1>6. ASSUME NEW c \in Clients, NEW e, EntryRight(c, e) PROVE EntryRight(c, e)'
  <2>1. PICK n : n = e.n
    OBVIOUS
  <2>2. Reached(c, n) /\ Reached(c, n)' /\ notices'[n] = notices[n]
    BY <1>5, <1>6, <2>1 DEF EntryRight
  <2> QED
    BY <1>1, <1>6, <2>1, <2>2 DEF EntryRight, OwnMessage, Mentions, FlagsFor, Alone
<1>7. ASSUME NEW c \in Clients, NEW v, ValueRight(c, v) PROVE ValueRight(c, v)'
  <2>1. PICK n : n = v.n
    OBVIOUS
  <2>2. Reached(c, n) /\ Reached(c, n)' /\ notices'[n] = notices[n]
    BY <1>5, <1>7, <2>1 DEF ValueRight
  <2> QED
    BY <1>1, <1>7, <2>1, <2>2 DEF ValueRight, OwnMessage, Mentions, Alone
<1>8. QueuesRight'
  <2>1. ASSUME NEW c \in Clients, NEW i \in 1 .. Len(queue[c]) PROVE EntryRight(c, queue[c][i])'
    <3>1. PICK e : e = queue[c][i]
      OBVIOUS
    <3>2. EntryRight(c, e)'
      BY <1>6, <3>1 DEF FanInv, QueuesRight
    <3> QED
      BY <1>1, <3>1, <3>2
  <2>2. ASSUME NEW c \in Clients, NEW i \in 1 .. Len(applied[c]) PROVE ValueRight(c, applied[c][i])'
    <3>1. PICK v : v = applied[c][i]
      OBVIOUS
    <3>2. ValueRight(c, v)'
      BY <1>7, <3>1 DEF FanInv, QueuesRight
    <3> QED
      BY <1>1, <3>1, <3>2
  <2> QED
    BY <1>1, <2>1, <2>2 DEF QueuesRight
<1> QED
  BY <1>2, <1>3, <1>4, <1>8 DEF FanInv

\* Marks that are right stay right.
MarksStay(marks) ==
  \A d \in Clients, n \in 1 .. Current :
    OwnMessage(d, n) /\ (is_mentioned[<<n, Rendered(d)>>] <=> Mentions(d, n)) => (marks[<<n, Rendered(d)>>] <=> Mentions(d, n))

\* Events and answers of a notice stay right while its loop runs.
LEMMA EntryKept ==
  ASSUME FanInv, notices' = notices, todo' \subseteq todo, MarksStay(is_mentioned'), NEW c \in Clients, NEW e, EntryRight(c, e)
  PROVE  EntryRight(c, e)'
BY DEF EntryRight, Reached, OwnMessage, Mentions, MarksStay, FlagsFor, Alone, Current

\* The value stays what it was.
LEMMA ValueKept ==
  ASSUME notices' = notices, todo' \subseteq todo, NEW c \in Clients, NEW v, ValueRight(c, v)
  PROVE  ValueRight(c, v)'
BY DEF ValueRight, Reached, OwnMessage, Mentions, Alone, Current

\* A handler that gives queue c new contents and its client an answer from them.
LEMMA QueueAnswers ==
  ASSUME FanInv, FanType', NEW c \in Clients, notices' = notices, todo' \subseteq todo, MarksStay(is_mentioned'),
         NEW entries \in Entries, queue' = [queue EXCEPT ![c] = entries],
         \A i \in 1 .. Len(entries) : EntryRight(c, entries[i])',
         \/ applied' = applied
         \/ \E values \in Values :
              /\ Len(values) = Len(entries) /\ applied' = [applied EXCEPT ![c] = @ \o values]
              /\ \A i \in 1 .. Len(entries) :
                   values[i].n = entries[i].n /\ values[i].mentioned = is_mentioned'[<<entries[i].n, Rendered(c)>>]
  PROVE  FanInv'
<1>1. queue \in [Clients -> Entries]
  BY DEF FanInv, FanType
<1>2. queue'[c] = entries /\ \A d \in Clients : d # c => queue'[d] = queue[d]
  BY <1>1
<1>3. ASSUME NEW d \in Clients, NEW i \in 1 .. Len(queue'[d]) PROVE EntryRight(d, queue[d][i])'
  <2>1. CASE d = c
    BY <1>2, <1>3, <2>1
  <2>2. CASE d # c
    <3>1. PICK e : e = queue[d][i]
      OBVIOUS
    <3>2. EntryRight(d, e)
      BY <1>2, <1>3, <2>2, <3>1 DEF FanInv, QueuesRight
    <3>3. EntryRight(d, e)'
      BY <3>2, EntryKept
    <3> QED
      BY <1>2, <2>2, <3>1, <3>3
  <2> QED
    BY <2>1, <2>2
<1>4. ASSUME NEW d \in Clients, NEW i \in 1 .. Len(applied'[d]) PROVE ValueRight(d, applied[d][i])'
  <2>1. PICK v : v = applied'[d][i]
    OBVIOUS
  <2>2. CASE i \in 1 .. Len(applied[d]) /\ v = applied[d][i]
    <3>1. ValueRight(d, v)
      BY <2>2 DEF FanInv, QueuesRight
    <3> QED
      BY <2>1, <3>1, ValueKept
  <2>3. CASE applied' = applied
    BY <1>4, <2>1, <2>2, <2>3
  <2>4. CASE applied' # applied
    <3>1. PICK values \in Values :
            /\ Len(values) = Len(entries) /\ applied' = [applied EXCEPT ![c] = @ \o values]
            /\ \A j \in 1 .. Len(entries) :
                 values[j].n = entries[j].n /\ values[j].mentioned = is_mentioned'[<<entries[j].n, Rendered(c)>>]
      BY <2>4
    <3>2. FanType
      BY DEF FanInv
    <3>3. CASE d # c
      BY <1>4, <2>1, <2>2, <3>1, <3>2, <3>3, Handed
    <3>4. CASE d = c /\ i \in 1 .. Len(applied[c])
      BY <2>1, <2>2, <3>1, <3>2, <3>4, Handed
    <3>5. CASE d = c /\ i \notin 1 .. Len(applied[c])
      <4>1. PICK j \in 1 .. Len(values) : v = values[j]
        BY <1>4, <2>1, <3>1, <3>2, <3>5, Handed
      <4>2. PICK e : e = entries[j]
        OBVIOUS
      <4>3. EntryRight(c, e)' /\ v.n = e.n /\ v.mentioned = is_mentioned'[<<e.n, Rendered(c)>>]
        BY <3>1, <4>1, <4>2
      <4>4. ValueRight(c, v)'
        BY <4>3 DEF EntryRight, ValueRight
      <4> QED
        BY <2>1, <3>5, <4>4
    <3> QED
      BY <3>3, <3>4, <3>5
  <2> QED
    BY <2>3, <2>4
<1> QED
  BY <1>3, <1>4 DEF FanInv, QueuesRight

\* add_event for the queue whose turn it is.
LEMMA PushKeeps ==
  ASSUME FanInv, NEW c \in todo, Current \in 1 .. MaxNotices, is_mentioned' \in [MessageRef -> BOOLEAN],
         AddEvent(c, is_mentioned'), notices' = notices, todo' = todo \ {c}, MarksStay(is_mentioned'),
         c \in NarrowMentioned /\ notices[Current].kind = "message" => Mentions(c, Current),
         OwnMessage(c, Current) => (is_mentioned'[<<Current, Rendered(c)>>] <=> Mentions(c, Current))
  PROVE  FanInv'
<1>1. FanType /\ c \in Clients
  BY DEF FanInv, FanType
<1>2. PICK marks \in [MessageRef -> BOOLEAN] : marks = is_mentioned'
  OBVIOUS
<1>3. AddEvent(c, marks)
  BY <1>2
<1>4. PICK e \in Entry, entries \in Entries, ids \in [DictRef -> Int] :
        /\ e.n = Current /\ e.dict = DictFor(c) /\ e.flags = Flags(c)
        /\ entries = Append(queue[c], e) /\ Len(entries) = Len(queue[c]) + 1 /\ Len(queue[c]) \in Nat
        /\ event_id' = ids
        /\ queue' = [queue EXCEPT ![c] = entries] /\ queue' \in [Clients -> Entries]
        /\ next_event_id' \in [Clients -> Nat]
        /\ \/ c \in parked /\ Answer(c, entries, ids, marks)
           \/ c \notin parked /\ UNCHANGED <<parked, last_event_id, applied>>
  BY <1>1, <1>3, AddEventGives
<1>5. EntryRight(c, e)'
  <2>1. Current' = Current
    BY DEF Current
  <2>2. e.flags = FlagsFor(c, notices[Current])
    BY <1>4, FlagsOfNotice
  <2> QED
    BY <1>4, <2>1, <2>2 DEF EntryRight, Reached, OwnMessage, Mentions, Alone, FlagsFor
<1>6. ASSUME NEW i \in 1 .. Len(entries) PROVE EntryRight(c, entries[i])'
  <2>1. CASE i = Len(queue[c]) + 1
    <3>1. entries[i] = e
      BY <1>1, <1>4, <2>1 DEF FanType, Entries
    <3> QED
      BY <1>5, <3>1
  <2>2. CASE i # Len(queue[c]) + 1
    <3>1. i \in 1 .. Len(queue[c]) /\ entries[i] = queue[c][i]
      BY <1>1, <1>4, <1>6, <2>2 DEF FanType, Entries
    <3>2. PICK x : x = entries[i]
      OBVIOUS
    <3>3. EntryRight(c, x)
      BY <1>1, <3>1, <3>2 DEF FanInv, QueuesRight
    <3>4. todo' \subseteq todo
      OBVIOUS
    <3>5. EntryRight(c, x)'
      BY <1>1, <3>3, <3>4, EntryKept
    <3> QED
      BY <3>2, <3>5
  <2> QED
    BY <2>1, <2>2
<1>7. \/ applied' = applied /\ parked' = parked
      \/ \E values \in Values :
           /\ Len(values) = Len(entries) /\ applied' = [applied EXCEPT ![c] = @ \o values] /\ parked' = parked \ {c}
           /\ \A i \in 1 .. Len(entries) :
                values[i].n = entries[i].n /\ values[i].mentioned = is_mentioned'[<<entries[i].n, Rendered(c)>>]
  <2>1. CASE c \notin parked /\ UNCHANGED <<parked, last_event_id, applied>>
    BY <2>1
  <2>2. CASE Answer(c, entries, ids, marks)
    <3>1. PICK values \in Values : AnswerIs(c, entries, ids, marks, values)
      BY <1>1, <2>2, AnswerGives
    <3> QED
      BY <1>2, <3>1 DEF AnswerIs
  <2> QED
    BY <1>4, <2>1, <2>2
<1>8. applied' \in [Clients -> Values] /\ parked' \subseteq Clients
  BY <1>1, <1>7, Handed DEF FanType
<1>9. FanType'
  BY <1>1, <1>4, <1>8 DEF FanType, Current
<1>10. todo' \subseteq todo /\ queue' = [queue EXCEPT ![c] = entries]
  BY <1>4
<1>11. \/ applied' = applied
       \/ \E values \in Values :
            /\ Len(values) = Len(entries) /\ applied' = [applied EXCEPT ![c] = @ \o values]
            /\ \A i \in 1 .. Len(entries) :
                 values[i].n = entries[i].n /\ values[i].mentioned = is_mentioned'[<<entries[i].n, Rendered(c)>>]
  BY <1>7
<1> QED
  BY <1>1, <1>6, <1>9, <1>10, <1>11, QueueAnswers

\* A queue that the narrow or an exception leaves out.
LEMMA SkipKeeps ==
  ASSUME FanInv, is_mentioned' \in [MessageRef -> BOOLEAN], notices' = notices, todo' \subseteq todo,
         MarksStay(is_mentioned'), Skip
  PROVE  FanInv'
<1>1. FanType'
  BY DEF FanInv, FanType, Skip, Current
<1>2. queue' = queue /\ applied' = applied
  BY DEF Skip
<1>3. ASSUME NEW d \in Clients, NEW i \in 1 .. Len(queue[d]) PROVE EntryRight(d, queue[d][i])'
  <2>1. PICK e : e = queue[d][i]
    OBVIOUS
  <2>2. EntryRight(d, e)
    BY <2>1 DEF FanInv, QueuesRight
  <2>3. EntryRight(d, e)'
    BY <2>2, EntryKept
  <2> QED
    BY <1>2, <2>1, <2>3
<1>4. ASSUME NEW d \in Clients, NEW i \in 1 .. Len(applied[d]) PROVE ValueRight(d, applied[d][i])'
  <2>1. PICK v : v = applied[d][i]
    OBVIOUS
  <2>2. ValueRight(d, v)
    BY <2>1 DEF FanInv, QueuesRight
  <2>3. ValueRight(d, v)'
    BY <2>2, ValueKept
  <2> QED
    BY <1>2, <2>1, <2>3
<1> QED
  BY <1>1, <1>2, <1>3, <1>4 DEF FanInv, QueuesRight

\* A poll: the queue is pruned, and what is left is the answer.
LEMMA FetchKeeps ==
  ASSUME FanInv, NEW c \in Clients, FetchEvents(c)
  PROVE  FanInv'
<1>1. FanType /\ notices' = notices /\ todo' \subseteq todo /\ is_mentioned' = is_mentioned
  BY DEF FanInv, FetchEvents
<1>2. PICK left : left = Pruned(queue[c], last_event_id[c])
  OBVIOUS
<1>3. queue[c] \in Seq(Entry) /\ Len(queue[c]) \in Nat
  BY <1>1 DEF FanType, Entries
<1>4. PICK k \in 0 .. Len(queue[c]) : left = SubSeq(queue[c], k + 1, Len(queue[c]))
  BY <1>2, <1>3, PrunedTo
<1>5. left \in Entries /\ \A i \in 1 .. Len(left) : k + i \in 1 .. Len(queue[c]) /\ left[i] = queue[c][k + i]
  BY <1>3, <1>4 DEF Entries
<1>6. /\ queue' = [queue EXCEPT ![c] = left]
      /\ \/ Answer(c, left, event_id, is_mentioned)
         \/ parked' = parked \cup {c} /\ applied' = applied
      /\ next_event_id' = next_event_id /\ event_id' = event_id
  BY <1>2 DEF FetchEvents
<1>7. MarksStay(is_mentioned')
  BY <1>1 DEF MarksStay
<1>8. ASSUME NEW i \in 1 .. Len(left) PROVE EntryRight(c, left[i])'
  <2>1. EntryRight(c, left[i])
    BY <1>5 DEF FanInv, QueuesRight
  <2> QED
    BY <1>1, <1>7, <2>1, EntryKept
<1>9. \/ applied' = applied /\ parked' \subseteq Clients
      \/ \E values \in Values :
           /\ Len(values) = Len(left) /\ applied' = [applied EXCEPT ![c] = @ \o values] /\ parked' = parked \ {c}
           /\ \A i \in 1 .. Len(left) :
                values[i].n = left[i].n /\ values[i].mentioned = is_mentioned[<<left[i].n, Rendered(c)>>]
  <2>1. event_id \in [DictRef -> Int] /\ is_mentioned \in [MessageRef -> BOOLEAN] /\ parked \subseteq Clients
    BY <1>1 DEF FanType
  <2>2. CASE parked' = parked \cup {c} /\ applied' = applied
    BY <2>1, <2>2
  <2>3. CASE Answer(c, left, event_id, is_mentioned)
    <3>1. PICK values \in Values : AnswerIs(c, left, event_id, is_mentioned, values)
      BY <1>1, <1>5, <2>1, <2>3, AnswerGives
    <3> QED
      BY <3>1 DEF AnswerIs
  <2> QED
    BY <1>6, <2>2, <2>3
<1>10. applied' \in [Clients -> Values] /\ parked' \subseteq Clients
  BY <1>1, <1>9, Handed DEF FanType
<1>11. queue' \in [Clients -> Entries]
  BY <1>1, <1>5, <1>6 DEF FanType
<1>12. FanType'
  BY <1>1, <1>6, <1>10, <1>11 DEF FanType, Current
<1> QED
  BY <1>1, <1>5, <1>6, <1>7, <1>8, <1>9, <1>12, QueueAnswers

\* The mark that a message's loop writes: right for its own queue, and for whoever shares the
\* dict with no other user.
LEMMA MarkWritten ==
  ASSUME FanInv, NEW c \in todo, Current \in 1 .. MaxNotices, NEW marks,
         marks = IF Flags(c) = "None" THEN is_mentioned
                 ELSE [is_mentioned EXCEPT ![<<Current, Rendered(c)>>] = (Flags(c) = "mentioned")]
  PROVE  /\ marks \in [MessageRef -> BOOLEAN] /\ MarksStay(marks)
         /\ OwnMessage(c, Current) => (marks[<<Current, Rendered(c)>>] <=> Mentions(c, Current))
<1>1. is_mentioned \in [MessageRef -> BOOLEAN] /\ c \in Clients
  BY DEF FanInv, FanType
<1>2. <<Current, Rendered(c)>> \in MessageRef
  BY DEF MessageRef, Rendered
<1>3. Flags(c) = "mentioned" <=> Mentions(c, Current)
  BY DEF Flags, Mentions
<1>4. CASE Flags(c) = "None"
  <2>1. ~OwnMessage(c, Current)
    BY <1>4 DEF Flags, OwnMessage
  <2> QED
    BY <1>1, <1>4, <2>1 DEF MarksStay
<1>5. CASE Flags(c) # "None"
  <2>1. marks = [is_mentioned EXCEPT ![<<Current, Rendered(c)>>] = (Flags(c) = "mentioned")]
    BY <1>5
  <2>2. marks \in [MessageRef -> BOOLEAN]
    BY <1>1, <1>2, <2>1
  <2>3. marks[<<Current, Rendered(c)>>] <=> Mentions(c, Current)
    BY <1>1, <1>2, <1>3, <2>1
  <2>4. \A r \in MessageRef : r # <<Current, Rendered(c)>> => marks[r] = is_mentioned[r]
    BY <1>1, <2>1
  <2>5. MarksStay(marks)
    <3> SUFFICES ASSUME NEW d \in Clients, NEW n \in 1 .. Current, OwnMessage(d, n),
                        is_mentioned[<<n, Rendered(d)>>] <=> Mentions(d, n)
                 PROVE  marks[<<n, Rendered(d)>>] <=> Mentions(d, n)
      BY DEF MarksStay
    <3>1. CASE n = Current /\ Rendered(d) = Rendered(c)
      <4>1. Owner[d] = Owner[c]
        BY <1>1, <3>1 DEF OwnMessage, Alone
      <4> QED
        BY <2>3, <3>1, <4>1 DEF Mentions
    <3>2. CASE ~(n = Current /\ Rendered(d) = Rendered(c))
      <4>1. n \in 1 .. MaxNotices
        BY FanOutAssumption
      <4>2. <<n, Rendered(d)>> \in MessageRef
        BY <4>1 DEF MessageRef, Rendered
      <4> QED
        BY <2>4, <3>2, <4>2
    <3> QED
      BY <3>1, <3>2
  <2> QED
    BY <2>2, <2>3, <2>5
<1> QED
  BY <1>4, <1>5

\* A loop runs for a notice.
LEMMA TodoCurrent == ASSUME FanInv, NEW c \in todo PROVE Current \in 1 .. MaxNotices
BY FanOutAssumption DEF FanInv, FanType, Noticeboard, Current

\* Every step keeps flags, marks and narrows right.
LEMMA FanStep == FanInv /\ [Next]_vars => FanInv'
<1> SUFFICES ASSUME FanInv, [Next]_vars PROVE FanInv'
  OBVIOUS
<1>1. CASE UNCHANGED vars
  BY <1>1 DEF vars, FanInv, FanType, QueuesRight, EntryRight, ValueRight, Reached, OwnMessage, Mentions, Alone, Current
<1>2. ASSUME NEW notice \in Notice, ProcessNotification(notice) PROVE FanInv'
  BY <1>2, NoticeKeeps
<1>3. ASSUME NEW c \in Clients, ProcessMessageEvent(c) PROVE FanInv'
  <2>1. c \in todo /\ notices' = notices /\ notices[Current].kind = "message" /\ MessageBody(c)
    BY <1>3 DEF ProcessMessageEvent
  <2>2. Current \in 1 .. MaxNotices
    BY <2>1, TodoCurrent
  <2>3. PICK marks : marks = IF Flags(c) = "None" THEN is_mentioned
                             ELSE [is_mentioned EXCEPT ![<<Current, Rendered(c)>>] = (Flags(c) = "mentioned")]
    OBVIOUS
  <2>4. /\ is_mentioned' = marks
        /\ \/ NarrowFilter(c) = "TypeError" /\ todo' = {} /\ Skip
           \/ NarrowFilter(c) = "False" /\ todo' = todo \ {c} /\ Skip
           \/ NarrowFilter(c) = "True" /\ todo' = todo \ {c} /\ AddEvent(c, marks)
    BY <2>1, <2>3 DEF MessageBody
  <2>5. /\ marks \in [MessageRef -> BOOLEAN] /\ MarksStay(marks)
        /\ OwnMessage(c, Current) => (marks[<<Current, Rendered(c)>>] <=> Mentions(c, Current))
    BY <2>1, <2>2, <2>3, MarkWritten
  <2>6. CASE Skip /\ todo' \subseteq todo
    <3>1. MarksStay(is_mentioned') /\ is_mentioned' \in [MessageRef -> BOOLEAN]
      BY <2>4, <2>5 DEF MarksStay
    <3> QED
      BY <2>1, <2>6, <3>1, SkipKeeps
  <2>7. CASE NarrowFilter(c) = "True" /\ todo' = todo \ {c} /\ AddEvent(c, marks)
    <3>1. MarksStay(is_mentioned') /\ is_mentioned' \in [MessageRef -> BOOLEAN] /\ AddEvent(c, is_mentioned')
      BY <2>4, <2>5, <2>7 DEF MarksStay
    <3>2. c \in NarrowMentioned => Mentions(c, Current)
      BY <2>7 DEF NarrowFilter, Flags, Mentions
    <3>3. OwnMessage(c, Current) => (is_mentioned'[<<Current, Rendered(c)>>] <=> Mentions(c, Current))
      BY <2>4, <2>5
    <3> QED
      BY <2>1, <2>2, <2>7, <3>1, <3>2, <3>3, PushKeeps
  <2> QED
    BY <2>4, <2>6, <2>7
<1>4. ASSUME NEW c \in Clients, ProcessEvent(c) PROVE FanInv'
  <2>1. /\ c \in todo /\ notices' = notices /\ notices[Current].kind # "message" /\ is_mentioned' = is_mentioned
        /\ todo' = todo \ {c} /\ AddEvent(c, is_mentioned')
    BY <1>4 DEF ProcessEvent
  <2>2. Current \in 1 .. MaxNotices
    BY <2>1, TodoCurrent
  <2>3. MarksStay(is_mentioned') /\ is_mentioned' \in [MessageRef -> BOOLEAN]
    BY <2>1 DEF MarksStay, FanInv, FanType
  <2> QED
    BY <2>1, <2>2, <2>3, PushKeeps DEF OwnMessage
<1>5. ASSUME NEW c \in Clients, FetchEvents(c) PROVE FanInv'
  BY <1>5, FetchKeeps
<1> QED
  BY <1>1, <1>2, <1>3, <1>4, <1>5 DEF Next

\* What a narrowed queue holds, and what its client was given, mentions its owner.
THEOREM NarrowsAreHonoured == Spec => []NarrowHonoured
<1>1. FanInv => NarrowHonoured
  <2> SUFFICES ASSUME FanInv, NEW c \in NarrowMentioned,
                      NEW n \in {applied[c][i].n : i \in 1 .. Len(applied[c])}
                                \cup {queue[c][i].n : i \in 1 .. Len(queue[c])},
                      notices[n].kind = "message"
               PROVE  Owner[c] \in notices[n].mentioned
    BY DEF NarrowHonoured
  <2>1. c \in Clients
    BY FanOutAssumption
  <2>2. Reached(c, n)
    BY <2>1 DEF FanInv, QueuesRight, EntryRight, ValueRight
  <2> QED
    BY <2>2 DEF Reached
<1> QED
  BY <1>1, FanStarts, FanStep, PTL DEF Spec
-----------------------------------------------------------------------------
(* Ids: each client is given each event once *)

\* The entries of a queue, one by one.
LEMMA EntryOf ==
  ASSUME NEW entries \in Entries, NEW i \in 1 .. Len(entries)
  PROVE  entries[i] \in Entry /\ entries[i].n \in 1 .. MaxNotices /\ entries[i].dict \in DictRef
<1>1. entries[i] \in Entry
  BY DEF Entries
<1> QED
  BY <1>1 DEF Entry

\* An entry of a list of values.
LEMMA ValueOf ==
  ASSUME NEW values \in Values, NEW i \in 1 .. Len(values)
  PROVE  values[i] \in Value /\ values[i].id \in Int /\ values[i].n \in 1 .. MaxNotices
<1>1. values[i] \in Value
  BY DEF Values
<1> QED
  BY <1>1 DEF Value

\* push: the new event has the largest id.
LEMMA ExactAdds ==
  ASSUME NEW c \in Clients, NEW entries \in Entries, NEW given, NEW ids \in [DictRef -> Int], NEW last \in Int, NEW next \in Nat,
         ExactOf(c, entries, given, ids, last, next),
         NEW e \in Entry, e.dict = <<e.n, c>>, ~GivenOf(entries, e.n), ~GivenOf(given, e.n)
  PROVE  ExactOf(c, Append(entries, e), given, [ids EXCEPT ![e.dict] = next], last, next + 1)
<1>1. PICK more : more = Append(entries, e)
  OBVIOUS
<1>2. PICK now : now = [ids EXCEPT ![e.dict] = next]
  OBVIOUS
<1>3. Len(entries) \in Nat /\ Len(more) = Len(entries) + 1 /\ more[Len(entries) + 1] = e /\ entries \in Seq(Entry)
  BY <1>1 DEF Entries
<1>4. ASSUME NEW i \in 1 .. Len(more)
      PROVE  (i \in 1 .. Len(entries) /\ more[i] = entries[i]) \/ (i = Len(entries) + 1 /\ more[i] = e)
  BY <1>1, <1>3
<1>5. e.dict \in DictRef /\ now[<<e.n, c>>] = next
  BY <1>2 DEF Entry
<1>6. ASSUME NEW i \in 1 .. Len(entries)
      PROVE  /\ now[<<entries[i].n, c>>] = ids[<<entries[i].n, c>>] /\ ids[<<entries[i].n, c>>] \in Int
             /\ ids[<<entries[i].n, c>>] < next /\ entries[i].dict = <<entries[i].n, c>>
             /\ ids[<<entries[i].n, c>>] <= last <=> GivenOf(given, entries[i].n)
  <2>1. entries[i].n # e.n /\ entries[i].n \in 1 .. MaxNotices
    BY EntryOf DEF GivenOf
  <2>2. <<entries[i].n, c>> \in DictRef /\ <<entries[i].n, c>> # e.dict
    BY <2>1 DEF DictRef
  <2>3. now[<<entries[i].n, c>>] = ids[<<entries[i].n, c>>] /\ ids[<<entries[i].n, c>>] \in Int
    BY <1>2, <2>2
  <2> QED
    BY <2>3 DEF ExactOf
<1>7. last < next /\ ~(next <= last)
  BY DEF ExactOf
<1>8. \A i \in 1 .. Len(more) :
        /\ more[i].dict = <<more[i].n, c>> /\ now[<<more[i].n, c>>] < next + 1
        /\ now[<<more[i].n, c>>] <= last <=> GivenOf(given, more[i].n)
  <2> SUFFICES ASSUME NEW i \in 1 .. Len(more)
               PROVE  /\ more[i].dict = <<more[i].n, c>> /\ now[<<more[i].n, c>>] < next + 1
                      /\ now[<<more[i].n, c>>] <= last <=> GivenOf(given, more[i].n)
    OBVIOUS
  <2>1. CASE i \in 1 .. Len(entries) /\ more[i] = entries[i]
    BY <1>6, <2>1
  <2>2. CASE more[i] = e
    BY <1>5, <1>7, <2>2
  <2> QED
    BY <1>4, <2>1, <2>2
<1>9. \A i, j \in 1 .. Len(more) : i < j => now[<<more[i].n, c>>] < now[<<more[j].n, c>>]
  <2> SUFFICES ASSUME NEW i \in 1 .. Len(more), NEW j \in 1 .. Len(more), i < j
               PROVE  now[<<more[i].n, c>>] < now[<<more[j].n, c>>]
    OBVIOUS
  <2>1. i \in 1 .. Len(entries) /\ more[i] = entries[i]
    BY <1>3, <1>4
  <2>2. CASE more[j] = e
    BY <1>5, <1>6, <2>1, <2>2
  <2>3. CASE j \in 1 .. Len(entries) /\ more[j] = entries[j]
    <3>1. ids[<<entries[i].n, c>>] < ids[<<entries[j].n, c>>]
      BY <2>1, <2>3 DEF ExactOf
    <3> QED
      BY <1>6, <2>1, <2>3, <3>1
  <2> QED
    BY <1>4, <2>2, <2>3
<1> QED
  BY <1>1, <1>2, <1>7, <1>8, <1>9 DEF ExactOf

\* The largest id of an answer is the one of its last event.
LEMMA LargestIs ==
  ASSUME NEW values \in Values, NEW last \in Int, Len(values) # 0,
         \A i \in 1 .. Len(values) : values[i].id <= values[Len(values)].id,
         last <= values[Len(values)].id
  PROVE  Largest(last, values) = values[Len(values)].id
<1>1. PICK ids : ids = {values[i].id : i \in DOMAIN values} \cup {last}
  OBVIOUS
<1>2. Len(values) \in DOMAIN values /\ DOMAIN values = 1 .. Len(values)
  BY DEF Values
<1>3. \A i \in 1 .. Len(values) : values[i].id \in Int
  BY ValueOf
<1>4. PICK top : top = values[Len(values)].id
  OBVIOUS
<1>5. top \in ids /\ ids \subseteq Int /\ \A i \in ids : i <= top
  BY <1>1, <1>2, <1>3, <1>4
<1>6. \A m \in ids : (\A i \in ids : i <= m) => m = top
  BY <1>5
<1> QED
  BY <1>1, <1>4, <1>5, <1>6 DEF Largest

\* Of numbers in ascending order the last is the largest.
LEMMA LastIsTop ==
  ASSUME NEW n \in Nat, n # 0, NEW num \in [1 .. n -> Int], \A i, j \in 1 .. n : i < j => num[i] < num[j]
  PROVE  \A i \in 1 .. n : num[i] <= num[n]
<1> SUFFICES ASSUME NEW i \in 1 .. n PROVE num[i] <= num[n]
  OBVIOUS
<1>1. num[i] \in Int /\ num[n] \in Int /\ n \in 1 .. n
  OBVIOUS
<1>2. CASE i < n
  BY <1>1, <1>2
<1>3. CASE i = n
  BY <1>1, <1>3
<1> QED
  BY <1>2, <1>3

\* Behind what was given comes the answer.
LEMMA Joined ==
  ASSUME NEW given \in Values, NEW values \in Values
  PROVE  /\ Len(given \o values) = Len(given) + Len(values) /\ Len(given) \in Nat /\ Len(values) \in Nat
         /\ \A j \in 1 .. Len(given) : (given \o values)[j] = given[j]
         /\ \A j \in 1 .. Len(values) : (given \o values)[Len(given) + j] = values[j]
         /\ \A j \in 1 .. Len(given \o values) :
              \/ j \in 1 .. Len(given) /\ (given \o values)[j] = given[j]
              \/ j - Len(given) \in 1 .. Len(values) /\ (given \o values)[j] = values[j - Len(given)]
<1>1. given \in Seq(Value) /\ values \in Seq(Value)
  BY DEF Values
<1> QED
  BY <1>1

\* An answer with all that the queue holds, none of which was given before.
LEMMA ExactAnswers ==
  ASSUME NEW c \in Clients, NEW entries \in Entries, NEW given \in Values, NEW ids \in [DictRef -> Int], NEW last \in Int, NEW next \in Nat,
         ExactOf(c, entries, given, ids, last, next), Len(entries) # 0,
         \A i \in 1 .. Len(entries) : last < ids[<<entries[i].n, c>>],
         NEW values \in Values, Len(values) = Len(entries),
         \A i \in 1 .. Len(entries) : values[i].n = entries[i].n /\ values[i].id = ids[entries[i].dict]
  PROVE  ExactOf(c, entries, given \o values, ids, Largest(last, values), next) /\ Largest(last, values) \in Int
<1>1. Len(entries) \in Nat /\ Len(given) \in Nat /\ given \in Seq(Value) /\ values \in Seq(Value)
  BY DEF Entries, Values
<1>2. ASSUME NEW i \in 1 .. Len(entries)
      PROVE  /\ values[i].n = entries[i].n /\ values[i].id = ids[<<entries[i].n, c>>] /\ values[i].id \in Int
             /\ entries[i].dict = <<entries[i].n, c>> /\ values[i].id < next /\ last < values[i].id
             /\ ~GivenOf(given, entries[i].n)
  <2>1. /\ entries[i].dict = <<entries[i].n, c>> /\ ids[<<entries[i].n, c>>] < next
        /\ ids[<<entries[i].n, c>>] <= last <=> GivenOf(given, entries[i].n)
    BY DEF ExactOf
  <2>2. ids[<<entries[i].n, c>>] \in Int
    <3>1. entries[i].dict \in DictRef
      BY EntryOf
    <3> QED
      BY <2>1, <3>1
  <2>3. values[i].n = entries[i].n /\ values[i].id = ids[<<entries[i].n, c>>]
    BY <2>1
  <2>4. last < ids[<<entries[i].n, c>>]
    OBVIOUS
  <2>5. ~GivenOf(given, entries[i].n)
    BY <2>1, <2>2, <2>4
  <2> QED
    BY <2>1, <2>2, <2>3, <2>4, <2>5
<1>3. PICK num : num = [i \in 1 .. Len(entries) |-> values[i].id]
  OBVIOUS
<1>4. /\ num \in [1 .. Len(entries) -> Int]
      /\ \A i \in 1 .. Len(entries) : num[i] = values[i].id /\ num[i] = ids[<<entries[i].n, c>>] /\ num[i] < next /\ last < num[i]
  BY <1>2, <1>3
<1>5. \A i, j \in 1 .. Len(entries) : i < j => num[i] < num[j]
  BY <1>4 DEF ExactOf
<1>6. PICK top : top = num[Len(entries)]
  OBVIOUS
<1>7. Largest(last, values) = top /\ top \in Int /\ top < next /\ \A i \in 1 .. Len(entries) : num[i] <= top
  <2>1. Len(entries) \in 1 .. Len(entries)
    BY <1>1
  <2>2. top = values[Len(values)].id /\ top \in Int /\ top < next /\ last <= top
    <3>1. PICK l \in 1 .. Len(entries) : l = Len(entries)
      BY <2>1
    <3>2. top = num[l] /\ num[l] = values[l].id /\ num[l] < next /\ last < num[l] /\ num[l] \in Int
      BY <1>4, <1>6, <3>1
    <3>3. top = values[Len(values)].id
      BY <3>1, <3>2
    <3>4. top \in Int /\ top < next /\ last < top
      BY <3>2
    <3> QED
      BY <3>3, <3>4
  <2>3. \A i \in 1 .. Len(entries) : num[i] <= top
    BY <1>1, <1>4, <1>5, <1>6, LastIsTop
  <2>4. \A i \in 1 .. Len(values) : values[i].id <= values[Len(values)].id
    BY <1>4, <2>2, <2>3
  <2> QED
    BY <2>2, <2>3, <2>4, LargestIs
<1>8. PICK all : all = given \o values
  OBVIOUS
<1>9. Len(all) = Len(given) + Len(entries)
  BY <1>8, Joined
<1>10. ASSUME NEW j \in 1 .. Len(all)
       PROVE  \/ j \in 1 .. Len(given) /\ all[j] = given[j]
              \/ j - Len(given) \in 1 .. Len(entries) /\ all[j] = values[j - Len(given)]
  BY <1>8, Joined
<1>11. \A i \in 1 .. Len(entries) : GivenOf(all, entries[i].n)
  <2> SUFFICES ASSUME NEW i \in 1 .. Len(entries) PROVE GivenOf(all, entries[i].n)
    OBVIOUS
  <2>1. Len(given) + i \in 1 .. Len(all) /\ all[Len(given) + i] = values[i]
    BY <1>1, <1>8, <1>9, Joined
  <2> QED
    BY <1>2, <2>1 DEF GivenOf
<1>12. ASSUME NEW i \in 1 .. Len(entries), NEW j \in 1 .. Len(entries), values[i].n = values[j].n PROVE i = j
  <2>1. entries[i].n = entries[j].n
    BY <1>2, <1>12
  <2>2. num[i] = num[j] /\ num[i] \in Int
    BY <1>4, <2>1
  <2>3. ~(i < j) /\ ~(j < i)
    BY <1>4, <1>5, <2>2
  <2> QED
    BY <2>3
<1>13. ASSUME NEW i \in 1 .. Len(all), NEW j \in 1 .. Len(all), all[i].n = all[j].n PROVE i = j
  <2>1. CASE i \in 1 .. Len(given) /\ all[i] = given[i] /\ j \in 1 .. Len(given) /\ all[j] = given[j]
    BY <1>13, <2>1 DEF ExactOf
  <2>2. CASE /\ i - Len(given) \in 1 .. Len(entries) /\ all[i] = values[i - Len(given)]
             /\ j - Len(given) \in 1 .. Len(entries) /\ all[j] = values[j - Len(given)]
    <3>1. i - Len(given) = j - Len(given)
      BY <1>12, <1>13, <2>2
    <3> QED
      BY <1>1, <3>1
  <2>3. CASE i \in 1 .. Len(given) /\ all[i] = given[i] /\ j - Len(given) \in 1 .. Len(entries) /\ all[j] = values[j - Len(given)]
    <3>1. ~GivenOf(given, all[j].n)
      BY <1>2, <2>3
    <3> QED
      BY <1>13, <2>3, <3>1 DEF GivenOf
  <2>4. CASE j \in 1 .. Len(given) /\ all[j] = given[j] /\ i - Len(given) \in 1 .. Len(entries) /\ all[i] = values[i - Len(given)]
    <3>1. ~GivenOf(given, all[i].n)
      BY <1>2, <2>4
    <3> QED
      BY <1>13, <2>4, <3>1 DEF GivenOf
  <2> QED
    BY <1>10, <2>1, <2>2, <2>3, <2>4
<1>14. \A i \in 1 .. Len(entries) :
         /\ entries[i].dict = <<entries[i].n, c>> /\ ids[<<entries[i].n, c>>] < next
         /\ ids[<<entries[i].n, c>>] <= top <=> GivenOf(all, entries[i].n)
  BY <1>2, <1>4, <1>7, <1>11
<1>15. \A i, j \in 1 .. Len(entries) : i < j => ids[<<entries[i].n, c>>] < ids[<<entries[j].n, c>>]
  BY DEF ExactOf
<1>16. ExactOf(c, entries, all, ids, top, next)
  BY <1>7, <1>13, <1>14, <1>15 DEF ExactOf
<1> QED
  BY <1>7, <1>8, <1>16

\* prune: what stays is in order, and has not been given.
LEMMA ExactPrunes ==
  ASSUME NEW c \in Clients, NEW entries \in Entries, NEW given, NEW ids \in [DictRef -> Int], NEW last \in Int, NEW next,
         ExactOf(c, entries, given, ids, last, next),
         NEW left \in Entries, NEW k \in 0 .. Len(entries), Len(left) = Len(entries) - k,
         \A i \in 1 .. Len(left) : left[i] = entries[k + i],
         k < Len(entries) => ~(ids[entries[k + 1].dict] <= last)
  PROVE  /\ ExactOf(c, left, given, ids, last, next)
         /\ \A i \in 1 .. Len(left) : last < ids[<<left[i].n, c>>]
<1>1. Len(entries) \in Nat /\ Len(left) \in Nat
  BY DEF Entries
<1>2. ASSUME NEW i \in 1 .. Len(left) PROVE k + i \in 1 .. Len(entries) /\ left[i] = entries[k + i]
  BY <1>1
<1>3. PICK num : num = [i \in 1 .. Len(entries) |-> ids[<<entries[i].n, c>>]]
  OBVIOUS
<1>4. /\ num \in [1 .. Len(entries) -> Int] /\ \A i \in 1 .. Len(entries) : num[i] = ids[<<entries[i].n, c>>]
      /\ \A i \in 1 .. Len(entries) : num[i] = ids[entries[i].dict]
  <2> SUFFICES ASSUME NEW i \in 1 .. Len(entries)
               PROVE  ids[<<entries[i].n, c>>] \in Int /\ entries[i].dict = <<entries[i].n, c>>
    BY <1>3
  <2>1. entries[i].dict = <<entries[i].n, c>> /\ entries[i].dict \in DictRef
    BY EntryOf DEF ExactOf
  <2> QED
    BY <2>1
<1>5. \A i, j \in 1 .. Len(entries) : i < j => num[i] < num[j]
  BY <1>4 DEF ExactOf
<1>6. ASSUME NEW i \in 1 .. Len(left) PROVE last < num[k + i]
  <2>1. k + 1 \in 1 .. Len(entries) /\ k + i \in 1 .. Len(entries) /\ k < Len(entries)
    BY <1>1, <1>2
  <2>2. last < num[k + 1] /\ num[k + 1] \in Int /\ num[k + i] \in Int
    <3>1. ~(num[k + 1] <= last)
      BY <1>4, <2>1
    <3>2. num[k + 1] \in Int /\ num[k + i] \in Int
      BY <1>4, <2>1
    <3> QED
      BY <3>1, <3>2
  <2>3. CASE i = 1
    BY <2>2, <2>3
  <2>4. CASE i # 1
    <3>1. k + 1 < k + i
      BY <1>1, <2>4
    <3>2. num[k + 1] < num[k + i]
      BY <1>5, <2>1, <3>1
    <3> QED
      BY <2>2, <3>2
  <2> QED
    BY <2>3, <2>4
<1>7. \A i \in 1 .. Len(left) : last < ids[<<left[i].n, c>>]
  BY <1>2, <1>4, <1>6
<1>8. \A i \in 1 .. Len(left) :
        /\ left[i].dict = <<left[i].n, c>> /\ ids[<<left[i].n, c>>] < next
        /\ ids[<<left[i].n, c>>] <= last <=> GivenOf(given, left[i].n)
  <2> SUFFICES ASSUME NEW i \in 1 .. Len(left)
               PROVE  /\ left[i].dict = <<left[i].n, c>> /\ ids[<<left[i].n, c>>] < next
                      /\ ids[<<left[i].n, c>>] <= last <=> GivenOf(given, left[i].n)
    OBVIOUS
  <2>1. PICK m \in 1 .. Len(entries) : left[i] = entries[m]
    BY <1>2
  <2> QED
    BY <2>1 DEF ExactOf
<1>9. \A i, j \in 1 .. Len(left) : i < j => ids[<<left[i].n, c>>] < ids[<<left[j].n, c>>]
  <2> SUFFICES ASSUME NEW i \in 1 .. Len(left), NEW j \in 1 .. Len(left), i < j
               PROVE  ids[<<left[i].n, c>>] < ids[<<left[j].n, c>>]
    OBVIOUS
  <2>1. k + i < k + j /\ k + i \in 1 .. Len(entries) /\ k + j \in 1 .. Len(entries)
    BY <1>1, <1>2
  <2>2. num[k + i] < num[k + j]
    BY <1>5, <2>1
  <2> QED
    BY <1>2, <1>4, <2>1, <2>2
<1>10. /\ \A i, j \in 1 .. Len(given) : given[i].n = given[j].n => i = j
       /\ last < next
  BY DEF ExactOf
<1>11. ExactOf(c, left, given, ids, last, next)
  BY <1>8, <1>9, <1>10 DEF ExactOf
<1> QED
  BY <1>7, <1>11

\* The ids of another queue's dicts are not touched.
LEMMA ExactElsewhere ==
  ASSUME NEW c \in Clients, NEW d \in Clients, d # c, NEW entries \in Entries, NEW given, NEW ids \in [DictRef -> Int], NEW last, NEW next,
         ExactOf(d, entries, given, ids, last, next), NEW n, NEW id
  PROVE  ExactOf(d, entries, given, [ids EXCEPT ![<<n, c>>] = id], last, next)
<1>1. PICK now : now = [ids EXCEPT ![<<n, c>>] = id]
  OBVIOUS
<1>2. ASSUME NEW i \in 1 .. Len(entries) PROVE now[<<entries[i].n, d>>] = ids[<<entries[i].n, d>>]
  <2>1. <<entries[i].n, d>> \in DictRef
    BY EntryOf DEF DictRef
  <2>2. <<entries[i].n, d>> # <<n, c>>
    OBVIOUS
  <2> QED
    BY <1>1, <2>1, <2>2
<1>3. ExactOf(d, entries, given, now, last, next)
  BY <1>2 DEF ExactOf
<1> QED
  BY <1>1, <1>3
-----------------------------------------------------------------------------
(* Nothing is missed *)

NoUserdata == "userdata" \notin Kinds

\* A client that is given what its queue held: nothing it knew is forgotten.
LEMMA GivenGrows ==
  ASSUME NEW given \in Values, NEW values \in Values, NEW n
  PROVE  /\ GivenOf(given, n) => GivenOf(given \o values, n)
         /\ GivenOf(values, n) => GivenOf(given \o values, n)
<1>1. ASSUME NEW j \in 1 .. Len(given), given[j].n = n PROVE GivenOf(given \o values, n)
  <2>1. j \in 1 .. Len(given \o values) /\ (given \o values)[j] = given[j]
    BY Joined
  <2> QED
    BY <1>1, <2>1 DEF GivenOf
<1>2. ASSUME NEW j \in 1 .. Len(values), values[j].n = n PROVE GivenOf(given \o values, n)
  <2>1. Len(given) + j \in 1 .. Len(given \o values) /\ (given \o values)[Len(given) + j] = values[j]
    BY Joined
  <2> QED
    BY <1>2, <2>1 DEF GivenOf
<1> QED
  BY <1>1, <1>2 DEF GivenOf

\* add_event leaves the queue exact, and the notice has reached it.
LEMMA ExactPush ==
  ASSUME ExactInv, NoUserdata, NEW c \in todo, is_mentioned' \in [MessageRef -> BOOLEAN],
         AddEvent(c, is_mentioned'), notices' = notices, todo' = todo \ {c}
  PROVE  IdsRight' /\ NoneMissed'
<1>1. FanInv /\ FanType /\ c \in Clients /\ Current \in 1 .. MaxNotices
  BY TodoCurrent DEF ExactInv, FanInv, FanType
<1>2. DictFor(c) = <<Current, c>>
  <2>1. notices[Current] \in Notice
    BY <1>1 DEF FanType, Noticeboard, Current
  <2>2. notices[Current].kind \in Kinds
    BY <2>1 DEF Notice
  <2> QED
    BY <2>2 DEF DictFor, NoUserdata
<1>3. PICK marks \in [MessageRef -> BOOLEAN] : marks = is_mentioned' /\ AddEvent(c, marks)
  OBVIOUS
<1>4. PICK e \in Entry, entries \in Entries, ids \in [DictRef -> Int] :
        /\ e.n = Current /\ e.dict = DictFor(c)
        /\ entries = Append(queue[c], e) /\ Len(entries) = Len(queue[c]) + 1 /\ Len(queue[c]) \in Nat
        /\ ids = [event_id EXCEPT ![DictFor(c)] = next_event_id[c]] /\ event_id' = ids
        /\ queue' = [queue EXCEPT ![c] = entries] /\ queue' \in [Clients -> Entries]
        /\ next_event_id' = [next_event_id EXCEPT ![c] = @ + 1] /\ next_event_id' \in [Clients -> Nat]
        /\ \/ c \in parked /\ Answer(c, entries, ids, marks)
           \/ c \notin parked /\ UNCHANGED <<parked, last_event_id, applied>>
  BY <1>1, <1>3, AddEventGives
<1>5. PICK held \in Entries, given \in Values, last \in Int, next \in Nat :
        held = queue[c] /\ given = applied[c] /\ last = last_event_id[c] /\ next = next_event_id[c]
  BY <1>1 DEF FanType, ExactInv, IdsRight
<1>6. ExactOf(c, held, given, event_id, last, next) /\ event_id \in [DictRef -> Int]
  BY <1>1, <1>5 DEF ExactInv, IdsRight, FanType
<1>7. ~GivenOf(held, e.n) /\ ~GivenOf(given, e.n)
  <2>1. ASSUME NEW i \in 1 .. Len(held), held[i].n = Current PROVE FALSE
    BY <1>1, <1>5, <2>1 DEF FanInv, QueuesRight, EntryRight, Reached
  <2>2. ASSUME NEW i \in 1 .. Len(given), given[i].n = Current PROVE FALSE
    BY <1>1, <1>5, <2>2 DEF FanInv, QueuesRight, ValueRight, Reached
  <2> QED
    BY <1>4, <2>1, <2>2 DEF GivenOf
<1>8. ExactOf(c, entries, given, ids, last, next + 1)
  <2>1. e.dict = <<e.n, c>> /\ entries = Append(held, e) /\ ids = [event_id EXCEPT ![e.dict] = next]
    BY <1>2, <1>4, <1>5
  <2> QED
    BY <1>1, <1>6, <1>7, <2>1, ExactAdds
<1>9. /\ queue'[c] = entries /\ next_event_id'[c] = next + 1 /\ event_id' = ids
      /\ \A d \in Clients : d # c => queue'[d] = queue[d] /\ next_event_id'[d] = next_event_id[d]
  BY <1>1, <1>4, <1>5 DEF FanType
<1>10. \/ applied' = applied /\ parked' = parked /\ last_event_id' = last_event_id /\ c \notin parked
       \/ \E values \in Values : AnswerIs(c, entries, ids, marks, values) /\ c \in parked
  <2>1. CASE c \notin parked /\ UNCHANGED <<parked, last_event_id, applied>>
    BY <2>1
  <2>2. CASE c \in parked /\ Answer(c, entries, ids, marks)
    BY <1>1, <2>2, AnswerGives
  <2> QED
    BY <1>4, <2>1, <2>2
<1>11. last_event_id \in [Clients -> Int] /\ applied \in [Clients -> Values]
  BY <1>1 DEF ExactInv, IdsRight, FanType
<1>12. /\ last_event_id' \in [Clients -> Int] /\ parked' \subseteq parked /\ c \notin parked'
       /\ ExactOf(c, entries, applied'[c], ids, last_event_id'[c], next + 1)
       /\ \A d \in Clients : d # c => applied'[d] = applied[d] /\ last_event_id'[d] = last_event_id[d]
       /\ \A n : GivenOf(applied[c], n) => GivenOf(applied'[c], n)
  <2>1. CASE applied' = applied /\ parked' = parked /\ last_event_id' = last_event_id /\ c \notin parked
    BY <1>5, <1>8, <1>11, <2>1
  <2>2. CASE \E values \in Values : AnswerIs(c, entries, ids, marks, values) /\ c \in parked
    <3>1. PICK values \in Values : AnswerIs(c, entries, ids, marks, values) /\ c \in parked
      BY <2>2
    <3>2. Len(entries) = 1 /\ entries[1] = e
      <4>1. held = <<>>
        BY <1>1, <1>5, <3>1 DEF ExactInv, IdsRight
      <4>2. entries = Append(held, e)
        BY <1>4, <1>5
      <4> QED
        BY <4>1, <4>2
    <3>3. \A i \in 1 .. Len(entries) : last < ids[<<entries[i].n, c>>]
      <4>1. ids[<<e.n, c>>] = next
        BY <1>2, <1>4, <1>5, <1>6 DEF Entry
      <4>2. last < next
        BY <1>6 DEF ExactOf
      <4> QED
        BY <3>2, <4>1, <4>2
    <3>4. Len(values) = Len(entries) /\ \A i \in 1 .. Len(entries) : values[i].n = entries[i].n /\ values[i].id = ids[entries[i].dict]
      BY <3>1 DEF AnswerIs
    <3>5. ExactOf(c, entries, given \o values, ids, Largest(last, values), next + 1) /\ Largest(last, values) \in Int
      <4>1. PICK up \in Nat : up = next + 1
        OBVIOUS
      <4>2. Len(entries) # 0 /\ ExactOf(c, entries, given, ids, last, up)
        BY <1>8, <3>2, <4>1
      <4>3. ExactOf(c, entries, given \o values, ids, Largest(last, values), up) /\ Largest(last, values) \in Int
        BY <1>1, <3>3, <3>4, <4>2, ExactAnswers
      <4> QED
        BY <4>1, <4>3
    <3>6. applied' = [applied EXCEPT ![c] = given \o values] /\ last_event_id' = [last_event_id EXCEPT ![c] = Largest(last, values)]
          /\ parked' = parked \ {c}
      BY <1>1, <1>5, <1>11, <3>1 DEF AnswerIs
    <3> QED
      BY <1>1, <1>5, <1>11, <3>5, <3>6, GivenGrows
  <2> QED
    BY <1>10, <2>1, <2>2
<1>13. ASSUME NEW d \in Clients
       PROVE  /\ ExactOf(d, queue[d], applied[d], event_id, last_event_id[d], next_event_id[d])'
              /\ d \in parked' => queue'[d] = <<>>
  <2>1. CASE d = c
    BY <1>9, <1>12, <2>1
  <2>2. CASE d # c
    <3>1. PICK q \in Entries, g \in Values, l \in Int, m \in Nat : q = queue[d] /\ g = applied[d] /\ l = last_event_id[d] /\ m = next_event_id[d]
      BY <1>1, <1>11 DEF FanType
    <3>2. ExactOf(d, q, g, event_id, l, m) /\ (d \in parked => q = <<>>)
      BY <3>1 DEF ExactInv, IdsRight
    <3>3. ids = [event_id EXCEPT ![<<Current, c>>] = next]
      BY <1>2, <1>4, <1>5
    <3>4. ExactOf(d, q, g, ids, l, m)
      BY <1>1, <1>6, <2>2, <3>2, <3>3, ExactElsewhere
    <3>5. q = queue'[d] /\ g = applied'[d] /\ l = last_event_id'[d] /\ m = next_event_id'[d] /\ ids = event_id'
      BY <1>9, <1>12, <2>2, <3>1
    <3> QED
      BY <1>12, <3>2, <3>4, <3>5
  <2> QED
    BY <2>1, <2>2
<1>14. IdsRight'
  BY <1>12, <1>13 DEF IdsRight
<1>15. \A n : GivenOf(queue[c], n) \/ n = Current => GivenOf(queue'[c], n)
  <2>1. entries = Append(held, e) /\ held \in Seq(Entry)
    BY <1>4, <1>5 DEF Entries
  <2>2. entries[Len(held) + 1] = e /\ Len(held) + 1 \in 1 .. Len(entries)
    BY <1>4, <1>5, <2>1
  <2>3. \A i \in 1 .. Len(held) : entries[i] = held[i] /\ i \in 1 .. Len(entries)
    BY <1>4, <1>5, <2>1
  <2> QED
    BY <1>4, <1>5, <1>9, <2>2, <2>3 DEF GivenOf
<1>16. ASSUME NEW d \in Clients, NEW n \in 1 .. Current, Served(d, n) PROVE Served(d, n)'
  <2>1. Current' = Current
    BY DEF Current
  <2>2. CASE d = c
    BY <1>12, <1>15, <1>16, <2>1, <2>2 DEF Served
  <2>3. CASE d # c
    BY <1>9, <1>12, <1>16, <2>1, <2>3 DEF Served
  <2> QED
    BY <2>2, <2>3
<1>17. NoneMissed'
  BY <1>16 DEF ExactInv, NoneMissed, IsFor, CutShort, Current
<1> QED
  BY <1>14, <1>17

\* fetch_events leaves the queue exact: only what was given is dropped, and all the rest is answered.
LEMMA ExactFetch ==
  ASSUME ExactInv, NEW c \in Clients, FetchEvents(c)
  PROVE  IdsRight' /\ NoneMissed'
<1>1. FanInv /\ FanType /\ todo = {}
  BY DEF ExactInv, FanInv, FetchEvents
<1>2. PICK left : left = Pruned(queue[c], last_event_id[c])
  OBVIOUS
<1>3. /\ c \notin parked /\ queue' = [queue EXCEPT ![c] = left] /\ notices' = notices /\ todo' = todo
      /\ next_event_id' = next_event_id /\ event_id' = event_id
      /\ \/ left # <<>> /\ Answer(c, left, event_id, is_mentioned)
         \/ left = <<>> /\ parked' = parked \cup {c} /\ last_event_id' = last_event_id /\ applied' = applied
  BY <1>2 DEF FetchEvents
<1>4. PICK held \in Entries, given \in Values, last \in Int, next \in Nat :
        held = queue[c] /\ given = applied[c] /\ last = last_event_id[c] /\ next = next_event_id[c]
  BY <1>1 DEF FanType, ExactInv, IdsRight
<1>5. ExactOf(c, held, given, event_id, last, next) /\ event_id \in [DictRef -> Int] /\ is_mentioned \in [MessageRef -> BOOLEAN]
  BY <1>1, <1>4 DEF ExactInv, IdsRight, FanType
<1>6. held \in Seq(Entry) /\ Len(held) \in Nat
  BY DEF Entries
<1>7. PICK k \in 0 .. Len(held) :
        /\ left = SubSeq(held, k + 1, Len(held))
        /\ \A i \in 1 .. k : event_id[held[i].dict] <= last
        /\ k < Len(held) => ~(event_id[held[k + 1].dict] <= last)
  BY <1>2, <1>4, <1>6, PrunedTo
<1>8. left \in Entries /\ Len(left) = Len(held) - k /\ \A i \in 1 .. Len(left) : left[i] = held[k + i]
  BY <1>6, <1>7 DEF Entries
<1>9. PICK ids \in [DictRef -> Int], rest \in Entries : ids = event_id /\ rest = left
  BY <1>5, <1>8
<1>10. ExactOf(c, rest, given, ids, last, next) /\ \A i \in 1 .. Len(rest) : last < ids[<<rest[i].n, c>>]
  <2>1. ExactOf(c, held, given, ids, last, next)
    BY <1>5, <1>9
  <2>2. Len(rest) = Len(held) - k /\ \A i \in 1 .. Len(rest) : rest[i] = held[k + i]
    BY <1>8, <1>9
  <2>3. k < Len(held) => ~(ids[held[k + 1].dict] <= last)
    BY <1>7, <1>9
  <2> QED
    BY <2>1, <2>2, <2>3, ExactPrunes
<1>11. /\ queue'[c] = left /\ \A d \in Clients : d # c => queue'[d] = queue[d]
  BY <1>1, <1>3 DEF FanType
<1>12. last_event_id \in [Clients -> Int] /\ applied \in [Clients -> Values]
  BY <1>1 DEF ExactInv, IdsRight, FanType
<1>13. /\ last_event_id' \in [Clients -> Int] /\ (c \in parked' => left = <<>>)
       /\ parked' \subseteq parked \cup {c}
       /\ ExactOf(c, left, applied'[c], event_id, last_event_id'[c], next)
       /\ \A d \in Clients : d # c => applied'[d] = applied[d] /\ last_event_id'[d] = last_event_id[d]
       /\ \A n : GivenOf(applied[c], n) => GivenOf(applied'[c], n)
  <2>1. CASE left = <<>> /\ parked' = parked \cup {c} /\ last_event_id' = last_event_id /\ applied' = applied
    BY <1>4, <1>9, <1>10, <1>12, <2>1
  <2>2. CASE left # <<>> /\ Answer(c, left, event_id, is_mentioned)
    <3>1. PICK values \in Values : AnswerIs(c, left, event_id, is_mentioned, values)
      BY <1>1, <1>5, <1>8, <2>2, AnswerGives
    <3>2. Len(values) = Len(left) /\ \A i \in 1 .. Len(left) : values[i].n = left[i].n /\ values[i].id = event_id[left[i].dict]
      BY <3>1 DEF AnswerIs
    <3>3. Len(left) # 0
      BY <1>8, <2>2 DEF Entries
    <3>4. ExactOf(c, rest, given \o values, ids, Largest(last, values), next) /\ Largest(last, values) \in Int
      <4>1. Len(rest) # 0 /\ Len(values) = Len(rest)
        BY <1>9, <3>2, <3>3
      <4>2. \A i \in 1 .. Len(rest) : values[i].n = rest[i].n /\ values[i].id = ids[rest[i].dict]
        BY <1>9, <3>2
      <4> QED
        BY <1>10, <4>1, <4>2, ExactAnswers
    <3>5. applied' = [applied EXCEPT ![c] = given \o values] /\ last_event_id' = [last_event_id EXCEPT ![c] = Largest(last, values)]
          /\ parked' = parked \ {c}
      BY <1>4, <1>12, <3>1 DEF AnswerIs
    <3> QED
      BY <1>4, <1>9, <1>12, <3>4, <3>5, GivenGrows
  <2> QED
    BY <1>3, <2>1, <2>2
<1>14. ASSUME NEW d \in Clients
       PROVE  /\ ExactOf(d, queue[d], applied[d], event_id, last_event_id[d], next_event_id[d])'
              /\ d \in parked' => queue'[d] = <<>>
  <2>1. CASE d = c
    BY <1>3, <1>4, <1>11, <1>13, <2>1
  <2>2. CASE d # c
    BY <1>3, <1>11, <1>13, <2>2 DEF ExactInv, IdsRight
  <2> QED
    BY <2>1, <2>2
<1>15. IdsRight'
  BY <1>13, <1>14 DEF IdsRight
<1>16. ASSUME NEW n, GivenOf(held, n) PROVE GivenOf(left, n) \/ GivenOf(given, n)
  <2>1. PICK i \in 1 .. Len(held) : held[i].n = n
    BY <1>16 DEF GivenOf
  <2>2. CASE i <= k
    <3>1. /\ held[i].dict = <<held[i].n, c>>
          /\ event_id[<<held[i].n, c>>] <= last <=> GivenOf(given, held[i].n)
      BY <1>5, <2>1 DEF ExactOf
    <3>2. i \in 1 .. k
      BY <1>6, <2>1, <2>2
    <3>3. event_id[held[i].dict] <= last
      BY <1>7, <3>2
    <3> QED
      BY <2>1, <3>1, <3>3
  <2>3. CASE ~(i <= k)
    <3>1. i - k \in 1 .. Len(left) /\ k + (i - k) = i
      BY <1>6, <1>8, <2>3
    <3>2. left[i - k] = held[i]
      BY <1>8, <3>1
    <3> QED
      BY <2>1, <3>1, <3>2 DEF GivenOf
  <2> QED
    BY <2>2, <2>3
<1>17. ASSUME NEW d \in Clients, NEW n \in 1 .. Current, Served(d, n) PROVE Served(d, n)'
  <2>1. CASE d = c
    BY <1>1, <1>4, <1>11, <1>13, <1>16, <1>17, <2>1 DEF Served
  <2>2. CASE d # c
    BY <1>1, <1>11, <1>13, <1>17, <2>2 DEF Served
  <2> QED
    BY <2>1, <2>2
<1>18. NoneMissed'
  BY <1>3, <1>17 DEF ExactInv, NoneMissed, IsFor, CutShort, Current
<1> QED
  BY <1>15, <1>18

\* process_notification: the queues a notice is for are those its loop will visit.
LEMMA ExactNotice ==
  ASSUME ExactInv, NEW notice \in Notice, ProcessNotification(notice)
  PROVE  IdsRight' /\ NoneMissed'
<1>1. /\ todo = {} /\ notices' = Append(notices, notice) /\ todo' = Targets(notice)
      /\ queue' = queue /\ applied' = applied /\ parked' = parked /\ last_event_id' = last_event_id
      /\ next_event_id' = next_event_id /\ event_id' = event_id
  BY DEF ProcessNotification
<1>2. IdsRight'
  BY <1>1 DEF ExactInv, IdsRight
<1>3. Current' = Current + 1 /\ Current \in Nat /\ \A n \in 1 .. Current : notices'[n] = notices[n]
  BY NoticeKeeps DEF ExactInv
<1>4. notices'[Current'] = notice
  BY <1>1, <1>3 DEF ExactInv, FanInv, FanType, Noticeboard, Current
<1>5. ASSUME NEW c \in Clients, NEW n \in 1 .. Current', IsFor(c, notices'[n]), ~CutShort(notices'[n]) PROVE Served(c, n)'
  <2>1. CASE n = Current'
    <3>1. c \in Targets(notice)
      BY <1>4, <1>5, <2>1, FanOutAssumption DEF IsFor, Targets, Notice
    <3> QED
      BY <1>1, <2>1, <3>1 DEF Served
  <2>2. CASE n # Current'
    <3>1. n \in 1 .. Current /\ notices'[n] = notices[n]
      BY <1>3, <2>2
    <3>2. Served(c, n)
      BY <1>5, <3>1 DEF ExactInv, NoneMissed
    <3> QED
      BY <1>1, <3>2 DEF Served
  <2> QED
    BY <2>1, <2>2
<1> QED
  BY <1>2, <1>5 DEF NoneMissed, IsFor, CutShort

\* A queue left out by its narrow is not one the notice is for; an exception cuts the notice short.
LEMMA ExactSkip ==
  ASSUME ExactInv, NEW c \in todo, notices[Current].kind = "message", notices' = notices, Skip,
         \/ NarrowFilter(c) = "TypeError" /\ todo' = {}
         \/ NarrowFilter(c) = "False" /\ todo' = todo \ {c}
  PROVE  IdsRight' /\ NoneMissed'
<1>1. /\ queue' = queue /\ applied' = applied /\ parked' = parked /\ last_event_id' = last_event_id
      /\ next_event_id' = next_event_id /\ event_id' = event_id
  BY DEF Skip
<1>2. IdsRight'
  BY <1>1 DEF ExactInv, IdsRight
<1>3. ASSUME NarrowFilter(c) = "TypeError" PROVE CutShort(notices[Current])
  BY <1>3 DEF NarrowFilter, Flags, CutShort
<1>4. ASSUME NarrowFilter(c) = "False" PROVE ~IsFor(c, notices[Current])
  BY <1>4 DEF NarrowFilter, Flags, IsFor
<1>5. ASSUME NEW d \in Clients, NEW n \in 1 .. Current, IsFor(d, notices[n]), ~CutShort(notices[n]) PROVE Served(d, n)'
  <2>1. Served(d, n)
    BY <1>5 DEF ExactInv, NoneMissed
  <2> QED
    BY <1>1, <1>3, <1>4, <1>5, <2>1 DEF Served, Current
<1> QED
  BY <1>2, <1>5 DEF NoneMissed, IsFor, CutShort, Current

\* The invariant of exact delivery.
LEMMA ExactStarts == Init => ExactInv
<1> SUFFICES ASSUME Init PROVE ExactInv
  OBVIOUS
<1>1. FanInv
  BY FanStarts
<1>2. Len(<<>>) = 0
  OBVIOUS
<1>3. \A c \in Clients : ExactOf(c, queue[c], applied[c], event_id, last_event_id[c], next_event_id[c])
  BY <1>2 DEF Init, ExactOf
<1>4. IdsRight
  BY <1>3 DEF IdsRight, Init
<1>5. Current = 0
  BY <1>2 DEF Init, Current
<1>6. NoneMissed
  BY <1>5 DEF NoneMissed
<1> QED
  BY <1>1, <1>4, <1>6 DEF ExactInv

\* Every step keeps it.
LEMMA ExactStep == NoUserdata /\ ExactInv /\ [Next]_vars => ExactInv'
<1> SUFFICES ASSUME NoUserdata, ExactInv, [Next]_vars PROVE ExactInv'
  OBVIOUS
<1>1. FanInv'
  BY FanStep DEF ExactInv
<1>2. CASE UNCHANGED vars
  BY <1>1, <1>2 DEF vars, ExactInv, IdsRight, NoneMissed, Served, IsFor, CutShort, Current
<1>3. ASSUME NEW notice \in Notice, ProcessNotification(notice) PROVE ExactInv'
  BY <1>1, <1>3, ExactNotice DEF ExactInv
<1>4. ASSUME NEW c \in Clients, ProcessMessageEvent(c) PROVE ExactInv'
  <2>1. PICK marks : marks = IF Flags(c) = "None" THEN is_mentioned
                             ELSE [is_mentioned EXCEPT ![<<Current, Rendered(c)>>] = (Flags(c) = "mentioned")]
    OBVIOUS
  <2>2. /\ c \in todo /\ notices' = notices /\ notices[Current].kind = "message" /\ is_mentioned' = marks
        /\ \/ NarrowFilter(c) = "TypeError" /\ todo' = {} /\ Skip
           \/ NarrowFilter(c) = "False" /\ todo' = todo \ {c} /\ Skip
           \/ NarrowFilter(c) = "True" /\ todo' = todo \ {c} /\ AddEvent(c, marks)
    BY <1>4, <2>1 DEF ProcessMessageEvent, MessageBody
  <2>3. CASE Skip
    <3>1. \/ NarrowFilter(c) = "TypeError" /\ todo' = {}
          \/ NarrowFilter(c) = "False" /\ todo' = todo \ {c}
          \/ todo' = todo \ {c} /\ AddEvent(c, marks)
      BY <2>2
    <3>2. ~AddEvent(c, marks)
      <4>1. next_event_id' = next_event_id /\ next_event_id \in [Clients -> Nat] /\ c \in Clients
        BY <2>2, <2>3 DEF Skip, ExactInv, FanInv, FanType
      <4> QED
        BY <4>1 DEF AddEvent
    <3> QED
      BY <1>1, <2>2, <2>3, <3>1, <3>2, ExactSkip DEF ExactInv
  <2>4. CASE todo' = todo \ {c} /\ AddEvent(c, marks)
    <3>1. is_mentioned' \in [MessageRef -> BOOLEAN] /\ AddEvent(c, is_mentioned')
      BY <1>1, <2>2, <2>4 DEF FanInv, FanType
    <3> QED
      BY <1>1, <2>2, <2>4, <3>1, ExactPush DEF ExactInv
  <2> QED
    BY <2>2, <2>3, <2>4
<1>5. ASSUME NEW c \in Clients, ProcessEvent(c) PROVE ExactInv'
  <2>1. /\ c \in todo /\ notices' = notices /\ todo' = todo \ {c} /\ is_mentioned' = is_mentioned
        /\ AddEvent(c, is_mentioned')
    BY <1>5 DEF ProcessEvent
  <2>2. is_mentioned' \in [MessageRef -> BOOLEAN]
    BY <1>1 DEF FanInv, FanType
  <2> QED
    BY <1>1, <2>1, <2>2, ExactPush DEF ExactInv
<1>6. ASSUME NEW c \in Clients, FetchEvents(c) PROVE ExactInv'
  BY <1>1, <1>6, ExactFetch DEF ExactInv
<1> QED
  BY <1>2, <1>3, <1>4, <1>5, <1>6 DEF Next

\* What the invariant says in the words of the property.
LEMMA ExactGives == ExactInv => DeliveredExactly
<1> SUFFICES ASSUME ExactInv PROVE DeliveredExactly
  OBVIOUS
<1>1. ASSUME NEW c \in Clients, NEW n, GivenOf(applied[c], n) PROVE Count(c, n) > 0
  <2>1. PICK at : at = {i \in 1 .. Len(applied[c]) : applied[c][i].n = n}
    OBVIOUS
  <2>2. at # {}
    BY <1>1, <2>1 DEF GivenOf
  <2> QED
    BY <2>1, <2>2 DEF Count
<1>2. NothingMissed
  <2> SUFFICES ASSUME todo = {}, NEW c \in Clients, NEW n \in 1 .. Current, IsFor(c, notices[n]), ~CutShort(notices[n])
               PROVE  Count(c, n) > 0 \/ \E i \in 1 .. Len(queue[c]) : queue[c][i].n = n
    BY DEF NothingMissed
  <2>1. GivenOf(applied[c], n) \/ GivenOf(queue[c], n)
    BY DEF ExactInv, NoneMissed, Served
  <2> QED
    BY <1>1, <2>1 DEF GivenOf
<1>3. ReceivedOnce
  <2> SUFFICES ASSUME NEW c \in Clients, NEW n PROVE Count(c, n) <= 1
    BY DEF ReceivedOnce
  <2>1. PICK at : at = {i \in 1 .. Len(applied[c]) : applied[c][i].n = n}
    OBVIOUS
  <2>2. \A i, j \in at : i = j
    BY <2>1 DEF ExactInv, IdsRight, ExactOf
  <2>3. at = {} \/ \E i \in at : at = {i}
    BY <2>2
  <2> QED
    BY <2>1, <2>3 DEF Count
<1>4. OwnFlags
  <2> SUFFICES ASSUME NEW c \in Clients, NEW i \in 1 .. Len(queue[c])
               PROVE  /\ queue[c][i].flags = "None" => Owner[c] \notin notices[queue[c][i].n].to
                      /\ queue[c][i].flags = "mentioned" <=> Owner[c] \in notices[queue[c][i].n].mentioned
    BY DEF OwnFlags
  <2>1. PICK e : e = queue[c][i]
    OBVIOUS
  <2>2. EntryRight(c, e)
    BY <2>1 DEF ExactInv, FanInv, QueuesRight
  <2>3. e.flags = FlagsFor(c, notices[e.n])
    BY <2>2 DEF EntryRight
  <2> QED
    BY <2>1, <2>3 DEF FlagsFor
<1>5. OwnMark
  <2> SUFFICES ASSUME NEW c \in Clients, NEW i \in 1 .. Len(applied[c]),
                      notices[applied[c][i].n].kind = "message", Owner[c] \in notices[applied[c][i].n].to,
                      \A d \in Clients : Rendered(d) = Rendered(c) => Owner[d] = Owner[c]
               PROVE  applied[c][i].mentioned = (Owner[c] \in notices[applied[c][i].n].mentioned)
    BY DEF OwnMark
  <2>1. applied[c][i].mentioned <=> Owner[c] \in notices[applied[c][i].n].mentioned
    BY DEF ExactInv, FanInv, QueuesRight, ValueRight, OwnMessage, Alone, Mentions
  <2>2. applied[c][i].mentioned \in BOOLEAN
    <3>1. applied[c][i] \in Value
      BY DEF ExactInv, FanInv, FanType, Values
    <3> QED
      BY <3>1 DEF Value
  <2> QED
    BY <2>1, <2>2
<1> QED
  BY <1>2, <1>3, <1>4, <1>5 DEF DeliveredExactly

\* Where no notice shares its dict, every notice reaches each queue it is for exactly once.
THEOREM DeliveredToEach == "userdata" \notin Kinds => (Spec => []DeliveredExactly)
<1> SUFFICES ASSUME NoUserdata PROVE Spec => []DeliveredExactly
  BY DEF NoUserdata
<1> QED
  BY ExactStarts, ExactStep, ExactGives, PTL DEF Spec
=============================================================================
