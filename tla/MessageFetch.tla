---------------------------- MODULE MessageFetch ----------------------------
(***************************************************************************)
(* Reading messages: what get_messages makes of a narrow, an anchor and    *)
(* the numbers before and after it, for the user Me of realm MyRealm, and  *)
(* a client that pages through a narrow with it while messages arrive, are *)
(* moved, starred and deleted.  A request runs its query and then fetches  *)
(* the messages it found.                                                  *)
(***************************************************************************)
EXTENDS Integers, Sequences, FiniteSets, TLC

CONSTANTS
  Me, MyRealm,
  Readers,       \* users that narrows and messages name, with the cross-realm bots
  Places,        \* streams
  PlaceRealm,    \* their realms
  FirstSecret,   \* those that are invite-only at the start
  FirstJoined,   \* and those Me is subscribed to
  Zephyr,        \* BOOLEAN: MyRealm mirrors Zephyr
  MutedPlaces,   \* streams of Me that are not in the home view
  MutedTopics,   \* pairs of a stream and a topic
  Kinds,         \* messages that may be sent: to, sender, topic, words and has
  Narrows,       \* sequences of terms: op, arg (a set) and neg; << >> is no narrow
  Topics,
  Page,          \* messages the client asks for
  MaxId,
  MaxChanges     \* bound: changes to messages and streams

ASSUME FetchConstants == MaxId \in Nat /\ MaxChanges \in Nat /\ Page \in Nat \ {0}

\* A stream's Recipient is of one stream, and the operand of stream: is one name.
ASSUME OneStream ==
  /\ \A k \in Kinds : k.to.kind = "stream" => \E p \in Places : k.to.who = {p}
  /\ \A narrow \in Narrows : \A i \in 1..Len(narrow) :
       /\ narrow[i].neg \in BOOLEAN
       /\ narrow[i].op = "stream" => \E name \in narrow[i].arg : narrow[i].arg = {name}

VARIABLES
  rows,     \* Message rows by id, with Me's UserMessage row: received and flags
  started,  \* ids of messages whose transaction is open, with the message
  next_id,
  secret,   \* invite-only streams
  joined,   \* streams of Me
  view,     \* the client's narrow, what it has of it and from where to where
  asked,    \* the request under way
  answer,   \* the ids of an answer just given, with the public streams when it was asked for
  changes,  \* number of changes made to messages and streams
  stirred   \* history: ids that a page which was already read may have missed

fetchVars == <<rows, started, next_id, secret, joined, view, asked, answer, changes, stirred>>

LARGER_THAN_MAX_MESSAGE_ID == MaxId + 1
NoView == [narrow |-> <<>>, first |-> FALSE, known |-> {}, lo |-> 0, hi |-> 0, dups |-> FALSE]
NoRequest == [step |-> "none", mixed |-> FALSE, earlier |-> {}, later |-> {}, public |-> {}]
NoAnswer == [ids |-> {}, public |-> {}]
Terms(narrow) == {narrow[i] : i \in 1..Len(narrow)}

FetchInit ==
  /\ rows = <<>> /\ started = <<>> /\ next_id = 1
  /\ secret = FirstSecret /\ joined = FirstJoined
  /\ view = NoView /\ asked = NoRequest
  /\ answer = NoAnswer /\ changes = 0 /\ stirred = {}

-----------------------------------------------------------------------------

get_place(name) == {p \in Places : p = name /\ PlaceRealm[p] = MyRealm}

\* Stream.is_public
is_public(p) == p \notin secret /\ ~(Zephyr /\ PlaceRealm[p] = MyRealm)
is_public_stream(name) == \E p \in get_place(name) : is_public(p)

\* A narrow to a public stream may show what Me did not receive, unless it asks for
\* something that only the rows of Me have.
MutNegatedToo(narrow) ==
  /\ \E t \in Terms(narrow) : t.op = "stream" /\ \E name \in t.arg : is_public_stream(name)
  /\ \A t \in Terms(narrow) : t.op # "is"

ok_to_include_history(narrow) ==
  /\ \E t \in Terms(narrow) : t.op = "stream" /\ ~t.neg /\ \E name \in t.arg : is_public_stream(name)
  /\ \A t \in Terms(narrow) : t.op # "is"

\* In a mirroring realm a stream stands for all of its un- and .d variants, and a topic for
\* its .d ones; other realms compare names.
SamePlace(p, name) == IF Zephyr THEN PlaceRealm[p] = MyRealm /\ p \in {name, "un" \o name} ELSE p \in get_place(name)
SameTopic(topic, name) == topic = name \/ (Zephyr /\ topic = name \o ".d")

\* exclude_muting_conditions: all muted streams, or with a stream only its muted topics.
Muted(m, narrow) ==
  LET named == UNION {t.arg : t \in {u \in Terms(narrow) : u.op = "stream"}}
  IN m.to.kind = "stream" /\ \E p \in m.to.who :
       \/ named = {} /\ p \in MutedPlaces \cap joined
       \/ <<p, m.topic>> \in MutedTopics /\ (named # {} => p \in named)

by_stream(m, arg) == m.to.kind = "stream" /\ \E p \in m.to.who, name \in arg : SamePlace(p, name)
by_topic(m, arg) == \E name \in arg : SameTopic(m.topic, name)
by_sender(m, arg) == m.sender \in arg
by_id(m, arg) == ToString(m.id) \in arg
by_has(m, arg) == arg \subseteq m.has
by_is(m, arg) ==
  CASE arg = {"private"} -> m.to.kind \in {"personal", "huddle"}
    [] arg = {"starred"} -> "starred" \in m.flags
    [] arg = {"unread"} -> "read" \notin m.flags
    [] arg = {"mentioned"} -> "mentioned" \in m.flags
\* Negation does not reach this one.
by_in(m, arg) == arg = {"home"} => ~Muted(m, <<>>)
\* With oneself, with another user in both directions, or a group with Me.
by_pm_with(m, arg) ==
  IF Cardinality(arg) > 1
  THEN LET others == arg \ {Me}
       IN IF Cardinality(others) > 1 THEN m.to = [kind |-> "huddle", who |-> others \cup {Me}]
          ELSE m.to = [kind |-> "personal", who |-> others]
  ELSE /\ m.to.kind = "personal"
       /\ {m.sender} \cup m.to.who = arg \cup {Me}
       /\ arg # {Me} => m.sender \notin m.to.who
by_group_pm_with(m, arg) == m.to.kind = "huddle" /\ arg \cup {Me} \subseteq m.to.who
by_search(m, arg) == arg \subseteq m.words

\* BadNarrowOperator
BadTerm(t) ==
  \/ t.op = "stream" /\ \E name \in t.arg : get_place(name) = {}
  \/ t.op \in {"sender", "pm-with", "group-pm-with"} /\ ~(t.arg \subseteq Readers)
  \/ t.op = "is" /\ t.arg \notin {{"private"}, {"starred"}, {"unread"}, {"mentioned"}}
  \/ t.op = "in" /\ t.arg \notin {{"home"}, {"all"}}
  \/ t.op = "has" /\ ~(t.arg \subseteq {"attachment", "image", "link"})
  \/ t.op \notin {"stream", "topic", "sender", "id", "has", "is", "in", "pm-with", "group-pm-with", "search", "near"}

\* A condition on the rows, turned round by negation; in: and near: only ever filter.
add_term(m, t) ==
  CASE t.op = "near" -> TRUE
    [] t.op = "in" -> by_in(m, t.arg)
    [] OTHER -> t.neg # CASE t.op = "stream" -> by_stream(m, t.arg)
                          [] t.op = "topic" -> by_topic(m, t.arg)
                          [] t.op = "sender" -> by_sender(m, t.arg)
                          [] t.op = "id" -> by_id(m, t.arg)
                          [] t.op = "has" -> by_has(m, t.arg)
                          [] t.op = "is" -> by_is(m, t.arg)
                          [] t.op = "pm-with" -> by_pm_with(m, t.arg)
                          [] t.op = "group-pm-with" -> by_group_pm_with(m, t.arg)
                          [] t.op = "search" -> by_search(m, t.arg)

\* Search terms are joined into the first of them, whose negation counts.
JoinedSearch(narrow) ==
  LET searches == SelectSeq(narrow, LAMBDA t : t.op = "search")
  IN IF searches = <<>> THEN {} ELSE {[searches[1] EXCEPT !.arg = UNION {t.arg : t \in Terms(searches)}]}

InNarrow(m, narrow) ==
  \A t \in {u \in Terms(narrow) : u.op # "search"} \cup JoinedSearch(narrow) : add_term(m, t)

Matching(narrow, history) ==
  {id \in DOMAIN rows : (history \/ rows[id].received) /\ InNarrow(rows[id], narrow)}

-----------------------------------------------------------------------------

Largest(S, n) == {x \in S : Cardinality({y \in S : y >= x}) <= n}
Smallest(S, n) == {x \in S : Cardinality({y \in S : y <= x}) <= n}

PublicHere == {p \in Places : is_public(p) /\ PlaceRealm[p] = MyRealm}

\* The first unread message of the narrow that is not muted; without a narrow not before
\* the pointer, which is at the first message here.
FirstUnread(narrow, found) ==
  LET unread == {id \in found : "read" \notin rows[id].flags /\ ~Muted(rows[id], narrow)}
  IN IF unread = {} THEN LARGER_THAN_MAX_MESSAGE_ID ELSE CHOOSE id \in unread : \A other \in unread : id <= other

\* The two sides of the anchor, which the query joins; the anchor itself is on the later side.
MutOldestFirst(found, anchor, before, after) ==
  LET upto == IF after # 0 THEN anchor - 1 ELSE anchor
  IN IF before = 0 /\ after = 0 THEN [earlier |-> {}, later |-> found \cap {anchor}]
     ELSE [earlier |-> Smallest({id \in found : id <= upto}, before),
           later |-> IF anchor = LARGER_THAN_MAX_MESSAGE_ID THEN {} ELSE Smallest({id \in found : id >= anchor}, after)]

Around(found, anchor, before, after) ==
  LET upto == IF after # 0 THEN anchor - 1 ELSE anchor
  IN IF before = 0 /\ after = 0 THEN [earlier |-> {}, later |-> found \cap {anchor}]
     ELSE [earlier |-> Largest({id \in found : id <= upto}, before),
           later |-> IF anchor = LARGER_THAN_MAX_MESSAGE_ID THEN {} ELSE Smallest({id \in found : id >= anchor}, after)]

\* A request: the query is built, on the rows of Me when the first unread message is looked
\* for, and run.  Without a narrow one more message is asked for, so that the anchor is
\* among them.  A narrow of an unknown name is refused.
get_messages_backend(narrow, first, given, before, after) ==
  LET extra == IF narrow = <<>> THEN 1 ELSE 0
      history == ok_to_include_history(narrow)
      found == Matching(narrow, history /\ ~first)
      anchor == IF first THEN FirstUnread(narrow, found) ELSE given
      page == Around(found, anchor, IF after # 0 THEN before ELSE before + extra, IF after # 0 THEN after + extra ELSE 0)
  IN /\ asked.step = "none"
     /\ \A t \in Terms(narrow) : ~BadTerm(t)
     /\ view' = [view EXCEPT !.narrow = narrow, !.first = @ \/ first]
     /\ asked' = [step |-> "ran", public |-> PublicHere, mixed |-> history /\ first,
                  earlier |-> page.earlier, later |-> page.later]
     /\ answer' = NoAnswer
     /\ UNCHANGED <<rows, started, next_id, secret, joined, changes, stirred>>

\* The messages are fetched and answered; one deleted since makes the request fail, and a
\* search for history from the first unread message has rows of another shape and fails.
Found == asked.earlier \cup asked.later
FetchFails ==
  \/ ~(Found \subseteq DOMAIN rows)
  \/ asked.mixed /\ Found # {} /\ JoinedSearch(view.narrow) # {}

Answer ==
  LET known == view.known \cup Found
  IN /\ asked.step = "ran"
     /\ asked' = NoRequest
     /\ IF FetchFails THEN UNCHANGED view /\ answer' = NoAnswer
        ELSE /\ view' = [view EXCEPT !.known = known, !.dups = @ \/ asked.earlier \cap asked.later # {},
                                     !.lo = IF known = {} THEN 0 ELSE CHOOSE x \in known : \A y \in known : x <= y,
                                     !.hi = IF known = {} THEN 0 ELSE CHOOSE x \in known : \A y \in known : x >= y]
             /\ answer' = [ids |-> Found, public |-> asked.public]
     /\ UNCHANGED <<rows, started, next_id, secret, joined, changes, stirred>>

\* The client: it opens a narrow at a message or at the first unread one, and pages on in
\* both directions from the ends of what it has.
OpenNarrow(narrow, first, anchor) ==
  view.known = {} /\ view.narrow \in {<<>>, narrow} /\ get_messages_backend(narrow, first, anchor, Page, Page)
OlderPage == view.known # {} /\ get_messages_backend(view.narrow, FALSE, view.lo, Page, 0)
NewerPage == view.known # {} /\ get_messages_backend(view.narrow, FALSE, view.hi, 0, Page)

\* What a request for a set of messages by id may show; rows of Me only, and the answer is
\* built from columns that only a search adds.
messages_in_narrow_backend(ids, narrow) ==
  /\ asked.step = "none" /\ JoinedSearch(narrow) # {} /\ \A t \in Terms(narrow) : ~BadTerm(t)
  /\ answer' = [ids |-> {id \in ids \cap DOMAIN rows : rows[id].received /\ \A t \in Terms(narrow) : add_term(rows[id], t)},
                public |-> PublicHere]
  /\ UNCHANGED <<rows, started, next_id, secret, joined, view, asked, changes, stirred>>

\* access_message: received, or on a public stream of the realm.
access_message(id) == rows[id].received \/ (rows[id].to.kind = "stream" /\ rows[id].to.who \subseteq PublicHere)

\* json_fetch_raw_message and get_message_edit_history
json_fetch_raw_message(id) ==
  /\ asked.step = "none" /\ id \in DOMAIN rows /\ access_message(id)
  /\ answer' = [ids |-> {id}, public |-> PublicHere]
  /\ UNCHANGED <<rows, started, next_id, secret, joined, view, asked, changes, stirred>>

-----------------------------------------------------------------------------

GetsCopy(k) == IF k.to.kind = "stream" THEN k.to.who \subseteq joined ELSE Me \in k.to.who \cup {k.sender}

\* The table f with the row m under id.
With(f, id, m) == [x \in DOMAIN f \cup {id} |-> IF x = id THEN m ELSE f[x]]

\* The transaction of a message takes the next id; the recipients are those of now.
StartMessage(k) ==
  /\ next_id <= MaxId
  /\ started' = With(started, next_id, [id |-> next_id, to |-> k.to, sender |-> k.sender, topic |-> k.topic,
                                        words |-> k.words, has |-> k.has, received |-> GetsCopy(k),
                                        flags |-> IF GetsCopy(k) /\ k.sender = Me THEN {"read"} ELSE {}])
  /\ next_id' = next_id + 1
  /\ answer' = NoAnswer
  /\ UNCHANGED <<rows, secret, joined, view, asked, changes, stirred>>

\* It commits, perhaps after one with a greater id.
CommitMessage(id) ==
  /\ rows' = With(rows, id, started[id])
  /\ started' = [other \in DOMAIN started \ {id} |-> started[other]]
  /\ stirred' = IF \E other \in DOMAIN rows \cup view.known \cup Found : other > id THEN stirred \cup {id} ELSE stirred
  /\ answer' = NoAnswer
  /\ UNCHANGED <<next_id, secret, joined, view, asked, changes>>

Changed == changes < MaxChanges /\ changes' = changes + 1 /\ answer' = NoAnswer

\* A message moves to another topic, Me's flags of it change, or it is deleted.
MoveMessage(id, topic) ==
  /\ rows' = [rows EXCEPT ![id].topic = topic] /\ rows' # rows
  /\ stirred' = stirred \cup {id}
  /\ Changed /\ UNCHANGED <<started, next_id, secret, joined, view, asked>>

FlagMessage(id, flag) ==
  /\ rows[id].received /\ flag \notin rows[id].flags
  /\ rows' = [rows EXCEPT ![id].flags = @ \cup {flag}]
  /\ stirred' = stirred \cup {id}
  /\ Changed /\ UNCHANGED <<started, next_id, secret, joined, view, asked>>

DeleteMessage(id) ==
  /\ rows' = [other \in DOMAIN rows \ {id} |-> rows[other]]
  /\ Changed /\ UNCHANGED <<started, next_id, secret, joined, view, asked, stirred>>

\* A stream becomes invite-only.
MakeSecret(p) ==
  /\ PlaceRealm[p] = MyRealm /\ secret' = secret \cup {p}
  /\ Changed /\ UNCHANGED <<rows, started, next_id, joined, view, asked, stirred>>

\* Me subscribes to a public stream, or leaves it; if it is muted, its messages come into the
\* home view by that.
SwitchSubscription(p) ==
  /\ p \in PublicHere
  /\ joined' = IF p \in joined THEN joined \ {p} ELSE joined \cup {p}
  /\ stirred' = stirred \cup {id \in DOMAIN rows : rows[id].to.kind = "stream" /\ p \in rows[id].to.who}
  /\ Changed /\ UNCHANGED <<rows, started, next_id, secret, view, asked>>

FetchNext ==
  \/ \E narrow \in Narrows, first \in BOOLEAN, anchor \in 1..MaxId : OpenNarrow(narrow, first, IF first THEN 1 ELSE anchor)
  \/ OlderPage
  \/ NewerPage
  \/ Answer
  \/ messages_in_narrow_backend(1..MaxId, view.narrow)
  \/ \E id \in DOMAIN rows : json_fetch_raw_message(id)
  \/ \E k \in Kinds : StartMessage(k)
  \/ \E id \in DOMAIN started : CommitMessage(id)
  \/ \E id \in DOMAIN rows, topic \in Topics : MoveMessage(id, topic)
  \/ \E id \in DOMAIN rows, flag \in {"read", "starred"} : FlagMessage(id, flag)
  \/ \E id \in DOMAIN rows : DeleteMessage(id)
  \/ \E p \in Places \ secret : MakeSecret(p)
  \/ \E p \in Places : SwitchSubscription(p)

FetchSpec == FetchInit /\ [][FetchNext]_fetchVars

-----------------------------------------------------------------------------

(***************************************************************************)
(* Whatever the narrow, Me is shown a message only if Me received it or it *)
(* is on a stream of Me's realm that was public when the request came.     *)
(* The query for history starts from all messages of the server; the terms *)
(* of the narrow are all that limits it, as ok_to_include_history says.    *)
(***************************************************************************)
OnlyVisible ==
  \A id \in answer.ids \cap DOMAIN rows :
    rows[id].received \/ (rows[id].to.kind = "stream" /\ rows[id].to.who \subseteq answer.public)

(***************************************************************************)
(* Paging in both directions leaves no gap and repeats nothing within a    *)
(* page: of the messages that match, those between the ends of what the    *)
(* client has are what it has, but for those that changed, or that were    *)
(* committed after a later one, while it paged.  A page at the first       *)
(* unread message has only what Me received, so that counts there.         *)
(***************************************************************************)
NoGap ==
  /\ ~view.dups
  /\ \A id \in Matching(view.narrow, ok_to_include_history(view.narrow) /\ ~view.first) :
       view.lo <= id /\ id <= view.hi => id \in view.known \cup stirred
=============================================================================
