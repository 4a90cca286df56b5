------------------------- MODULE MessageStoreProofs -------------------------
(***************************************************************************)
(* Proofs about checking and storing messages, reading them, their files   *)
(* and edit histories, and the cached dictionaries that readers are shown. *)
(* Each component has an inductive invariant, a lemma per handler that the *)
(* handler keeps it, and the theorem that the property of the run follows. *)
(***************************************************************************)
EXTENDS MessageCheck, MessageFetch, Attachments, Rendering, FiniteSetTheorems, WellFoundedInduction, TLAPS

\* A nonempty set of numbers has a least one: the form in which induction is used below.
LEMMA LeastExists ==
  ASSUME NEW T, T \subseteq Nat, T # {}
  PROVE  \E x \in T : \A y \in T : x <= y
<1>1. PICK x \in T : \A y \in T : ~(<<y, x>> \in OpToRel(<, Nat))
  BY NatLessThanWellFounded, WFMin
<1>2. \A y \in T : ~(y < x)
  BY <1>1 DEF OpToRel
<1> QED
  BY <1>2

-----------------------------------------------------------------------------
\* MessageCheck

\* What accounts, recipients and messages are.
AccountRecs == [state : {"none", "active", "gone", "dummy"}, realm : {FirstAccounts[p].realm : p \in People}]
Addressed == [kind : {"stream", "personal", "huddle"}, who : SUBSET (People \cup Channels)]
Mail == [sender : People, to : Addressed, at : Int, via : {r.client : r \in Requests} \cup {"Internal"},
         by : People, forged : BOOLEAN, raced : BOOLEAN]
MailSeq == Seq(Mail)

\* The variables of MessageCheck.
CheckType ==
  /\ account \in [People -> AccountRecs] /\ ticks \in Nat
  /\ waiting \subseteq Mail /\ stored \in MailSeq

\* A message under which accounts it was checked.
PeersIn(accounts, m) ==
  m.to.kind # "stream" =>
    /\ \A p \in Sharers(m) \ CrossBots : p \in People /\ accounts[p].state # "none"
    /\ Cardinality({accounts[p].realm : p \in Sharers(m) \ CrossBots}) <= 1
    /\ IF m.to.kind = "huddle" THEN m.sender \in m.to.who /\ Cardinality(m.to.who) > 2 ELSE Cardinality(m.to.who) = 1
    /\ m.via \in Mirrors /\ ~m.forged => m.by \in Sharers(m)

\* Whatever waits or is stored is right under the accounts of now.
Peers == \A m \in waiting \cup {stored[i] : i \in 1..Len(stored)} : PeersIn(account, m)

\* Two mirrored copies that MirroredOnce does not want both, and what it allows.
Twin(a, b) ==
  /\ a.via = "zephyr_mirror" /\ b.via = "zephyr_mirror" /\ a.sender = b.sender /\ a.to = b.to
  /\ a.at = b.at \/ (a.to.kind = "huddle" /\ a.at - b.at \in -Window..Window)
OneRaced(a, b) == Twin(a, b) => a.raced \/ b.raced

\* Copies are told apart wherever they are: both stored, one on its way, or both.
Once ==
  /\ \A i, j \in 1..Len(stored) : i < j => OneRaced(stored[i], stored[j])
  /\ \A i \in 1..Len(stored) : \A m \in waiting : OneRaced(stored[i], m)
  /\ \A m, n \in waiting : m # n => OneRaced(m, n)

\* The inductive invariant: SentRight for stored messages and for those on their way.
CheckInv == CheckType /\ Peers /\ Once

\* What a private recipient has to be for its sender.
RightAddress(accounts, rec, sender, forwarder, strict) ==
  /\ rec \in Addressed /\ rec.kind # "stream"
  /\ \A p \in (rec.who \cup {sender}) \ CrossBots : p \in People /\ accounts[p].state # "none"
  /\ Cardinality({accounts[p].realm : p \in (rec.who \cup {sender}) \ CrossBots}) <= 1
  /\ IF rec.kind = "huddle" THEN sender \in rec.who /\ Cardinality(rec.who) > 2 ELSE Cardinality(rec.who) = 1
  /\ strict => forwarder \in rec.who \cup {sender}

\* recipient_for_emails lets nothing through that is not right for its sender.
LEMMA RecipientRight ==
  ASSUME NEW accounts \in [People -> AccountRecs], NEW to, to \subseteq People, IsFiniteSet(to), to # {},
         NEW sender \in People, sender \in CrossBots \/ accounts[sender].state # "none", NEW forwarder, NEW strict \in BOOLEAN,
         NEW rec \in recipient_for_emails(accounts, to, sender, forwarder, strict)
  PROVE  RightAddress(accounts, rec, sender, forwarder, strict)
<1>1. PICK others : others = IF Cardinality(to) = 2 THEN to \ {sender} ELSE to
  OBVIOUS
<1>2. /\ \A e \in to : accounts[e].state \in {"active", "dummy"}
      /\ strict => forwarder \in to
      /\ Cardinality({accounts[e].realm : e \in (to \cup {sender}) \ CrossBots}) <= 1
      /\ rec = [kind |-> IF Cardinality(others) > 1 THEN "huddle" ELSE "personal",
                who |-> IF Cardinality(others) > 1 THEN others \cup {sender} ELSE others]
  BY <1>1 DEF recipient_for_emails
<1>3. others \subseteq to /\ to \subseteq others \cup {sender}
  BY <1>1
<1>4. IsFiniteSet(others) /\ Cardinality(others) \in Nat /\ Cardinality(to) \in Nat
  BY <1>3, FS_Subset, FS_CardinalityType
<1>5. /\ rec.kind = IF Cardinality(others) > 1 THEN "huddle" ELSE "personal"
      /\ rec.who = IF Cardinality(others) > 1 THEN others \cup {sender} ELSE others
  BY <1>2
<1>6. rec \in Addressed
  BY <1>2, <1>3 DEF Addressed
<1>7. PICK S : S = (rec.who \cup {sender}) \ CrossBots
  OBVIOUS
<1>8. S \subseteq (to \cup {sender}) \ CrossBots
  BY <1>3, <1>5, <1>7
<1>9. \A p \in S : p \in People /\ accounts[p].state # "none"
  BY <1>2, <1>7, <1>8
<1>10. Cardinality({accounts[p].realm : p \in S}) <= 1
  <2>1. PICK U : U = {accounts[e].realm : e \in (to \cup {sender}) \ CrossBots}
    OBVIOUS
  <2>2. PICK V : V = {accounts[p].realm : p \in S}
    OBVIOUS
  <2>3. IsFiniteSet(U)
    <3>1. IsFiniteSet(to \cup {sender})
      BY FS_AddElement
    <3>2. PICK W : W = (to \cup {sender}) \ CrossBots
      OBVIOUS
    <3>3. IsFiniteSet(W)
      BY <3>1, <3>2, FS_Subset
    <3>4. PICK f : f = [e \in W |-> accounts[e].realm]
      OBVIOUS
    <3>5. f \in Surjection(W, U)
      BY <3>2, <3>4, <2>1 DEF Surjection
    <3> QED
      BY <3>3, <3>5, FS_Surjection
  <2>4. V \subseteq U
    BY <2>1, <2>2, <1>8
  <2>5. Cardinality(V) <= Cardinality(U) /\ Cardinality(V) \in Nat /\ Cardinality(U) \in Nat
    BY <2>3, <2>4, FS_Subset, FS_CardinalityType
  <2>6. Cardinality(U) <= 1
    BY <1>2, <2>1
  <2> QED
    BY <2>2, <2>5, <2>6
<1>11. IF rec.kind = "huddle" THEN sender \in rec.who /\ Cardinality(rec.who) > 2 ELSE Cardinality(rec.who) = 1
  <2>1. CASE Cardinality(others) > 1
    <3>1. rec.kind = "huddle" /\ rec.who = others \cup {sender}
      BY <2>1, <1>5
    <3>2. IsFiniteSet(others \cup {sender}) /\
          Cardinality(others \cup {sender}) = IF sender \in others THEN Cardinality(others) ELSE Cardinality(others) + 1
      BY <1>4, FS_AddElement
    <3>3. sender \in others => Cardinality(others) # 2
      BY <1>1
    <3> QED
      BY <3>1, <3>2, <3>3, <2>1, <1>4
  <2>2. CASE ~(Cardinality(others) > 1)
    <3>1. rec.kind = "personal" /\ rec.who = others
      BY <2>2, <1>5
    <3>2. others # {}
      <4>1. CASE Cardinality(to) = 2
        <5>1. to # {sender}
          BY <4>1, FS_Singleton
        <5> QED
          BY <5>1, <1>1
      <4>2. CASE Cardinality(to) # 2
        BY <4>2, <1>1
      <4> QED
        BY <4>1, <4>2
    <3>3. Cardinality(others) # 0
      BY <3>2, <1>4, FS_EmptySet
    <3> QED
      BY <3>1, <3>3, <2>2, <1>4
  <2> QED
    BY <2>1, <2>2
<1>12. rec.kind # "stream"
  BY <1>5
<1>13. strict => forwarder \in rec.who \cup {sender}
  BY <1>2, <1>3, <1>5
<1> QED
  BY <1>6, <1>7, <1>9, <1>10, <1>11, <1>12, <1>13 DEF RightAddress

\* Accounts that exist keep their realm, so a message that was right stays right.
LEMMA PeersKept ==
  ASSUME NEW old, NEW new, NEW m, PeersIn(old, m),
         \A p \in People : old[p].state # "none" => new[p].state # "none" /\ new[p].realm = old[p].realm
  PROVE  PeersIn(new, m)
<1> SUFFICES ASSUME m.to.kind # "stream" PROVE PeersIn(new, m)
  BY DEF PeersIn
<1>1. PICK S : S = Sharers(m) \ CrossBots
  OBVIOUS
<1>2. \A p \in S : p \in People /\ old[p].state # "none"
  BY <1>1 DEF PeersIn
<1>3. {new[p].realm : p \in S} = {old[p].realm : p \in S}
  BY <1>2
<1>4. \A p \in S : new[p].state # "none"
  BY <1>2
<1> QED
  BY <1>1, <1>2, <1>3, <1>4 DEF PeersIn

\* Copies are found by already_sent_mirrored_message from either side.
LEMMA TwinIsCopy ==
  ASSUME NEW a \in Mail, NEW b \in Mail
  PROVE  /\ Twin(a, b) => already_sent_mirrored_message(a, b) /\ Twin(b, a)
         /\ Twin(a, b) => a.via = "zephyr_mirror" /\ b.via = "zephyr_mirror"
         /\ OneRaced(a, b) => OneRaced(b, a)
<1>1. a.at \in Int /\ b.at \in Int /\ Window \in Nat
  BY CheckConstants DEF Mail
<1>2. Twin(a, b) => Twin(b, a)
  BY <1>1 DEF Twin
<1>3. Twin(b, a) => Twin(a, b)
  BY <1>1 DEF Twin
<1>4. Twin(a, b) => already_sent_mirrored_message(a, b)
  BY <1>1 DEF Twin, already_sent_mirrored_message
<1> QED
  BY <1>2, <1>3, <1>4 DEF OneRaced, Twin

\* Nothing is sent at the start.
LEMMA CheckStarts == CheckInit => CheckInv
<1> SUFFICES ASSUME CheckInit PROVE CheckInv
  OBVIOUS
<1>1. account \in [People -> AccountRecs] /\ ticks \in Nat /\ waiting = {}
  BY CheckConstants DEF CheckInit, AccountRecs
<1>2. stored = <<>> /\ Len(stored) = 0 /\ stored \in MailSeq
  BY DEF CheckInit, MailSeq
<1>3. 1..Len(stored) = {}
  BY <1>2
<1> QED
  BY <1>1, <1>2, <1>3 DEF CheckInv, CheckType, Peers, Once

\* What Recipients lets through, whatever the type of the request.
LEMMA RecipientsRight ==
  ASSUME NEW r \in Requests, NEW accounts \in [People -> AccountRecs], NEW sender \in People,
         sender \in CrossBots \/ accounts[sender].state # "none", NEW realm,
         NEW rec \in Recipients(r, accounts, sender, realm)
  PROVE  /\ rec \in Addressed
         /\ rec.kind # "stream" =>
              /\ \A p \in (rec.who \cup {sender}) \ CrossBots : p \in People /\ accounts[p].state # "none"
              /\ Cardinality({accounts[p].realm : p \in (rec.who \cup {sender}) \ CrossBots}) <= 1
              /\ IF rec.kind = "huddle" THEN sender \in rec.who /\ Cardinality(rec.who) > 2 ELSE Cardinality(rec.who) = 1
              /\ r.client \in Mirrors /\ ~r.forged => r.by \in rec.who \cup {sender}
<1>1. CASE r.type = "stream"
  <2>1. PICK c \in r.to : rec \in StreamRecipient(c, realm, sender, r.by)
    BY <1>1 DEF Recipients
  <2>2. c \in Channels /\ rec = [kind |-> "stream", who |-> {c}]
    BY <2>1 DEF StreamRecipient, get_channel
  <2> QED
    BY <2>2 DEF Addressed
<1>2. CASE r.type # "stream"
  <2>1. PICK strict \in BOOLEAN : strict = (r.client \in Mirrors /\ ~r.forged)
    OBVIOUS
  <2>2. rec \in recipient_for_emails(accounts, r.to, sender, r.by, strict)
    BY <1>2, <2>1 DEF Recipients
  <2>3. r.to \subseteq People /\ IsFiniteSet(r.to) /\ r.to # {}
    BY <1>2, RequestShape
  <2>4. RightAddress(accounts, rec, sender, r.by, strict)
    BY <2>2, <2>3, RecipientRight
  <2> QED
    BY <2>4, <2>1 DEF RightAddress
<1> QED
  BY <1>1, <1>2

\* A check adds messages that are right, and none that is a copy of what is there unless it says so.
LEMMA CheckMessageKeeps ==
  ASSUME CheckInv, NEW r \in Requests, NEW accounts \in [People -> AccountRecs], NEW sender \in People,
         sender \in CrossBots \/ accounts[sender].state # "none",
         \A p \in People : account[p].state # "none" => accounts[p].state # "none" /\ accounts[p].realm = account[p].realm,
         check_message(r, accounts, sender)
  PROVE  CheckInv'
<1> DEFINE Copies(m, others) == r.client = "zephyr_mirror" /\ \E n \in others : already_sent_mirrored_message(n, m)
<1>1. PICK realm : realm = IF r.realm = "" THEN accounts[sender].realm ELSE r.realm
  OBVIOUS
<1>2. PICK tell \in BOOLEAN : tell = (r.type = "stream" /\ \E c \in r.to : send_pm_if_empty_stream(sender, c, realm))
  OBVIOUS
<1>3. PICK at : at = IF r.forged THEN r.time ELSE ticks
  OBVIOUS
<1>4. at \in Int
  BY <1>3, RequestShape DEF CheckInv, CheckType
<1>5. PICK fresh : fresh = {[sender |-> sender, to |-> to, at |-> at, via |-> r.client, by |-> r.by,
                 forged |-> r.forged, raced |-> FALSE] : to \in Recipients(r, accounts, sender, realm)}
  OBVIOUS
<1>6. PICK old : old = {stored[i] : i \in 1..Len(stored)}
  OBVIOUS
<1>7. PICK new : new = {[m EXCEPT !.raced = Copies(m, waiting)] : m \in {n \in fresh : ~Copies(n, old)}}
  OBVIOUS
<1>8. /\ waiting' = waiting \cup new /\ account' = accounts /\ ticks' = ticks + 1
      /\ stored' = IF tell /\ OwnerNotice(sender) # {} THEN Append(stored, CHOOSE n \in OwnerNotice(sender) : TRUE) ELSE stored
  <2>1. waiting' = waiting \cup new
    <3>1. waiting' = waiting \cup {[m EXCEPT !.raced = Copies(m, waiting)] : m \in {n \in
                        {[sender |-> sender, to |-> to, at |-> IF r.forged THEN r.time ELSE ticks, via |-> r.client, by |-> r.by,
                          forged |-> r.forged, raced |-> FALSE] :
                            to \in Recipients(r, accounts, sender, IF r.realm = "" THEN accounts[sender].realm ELSE r.realm)}
                        : ~Copies(n, {stored[i] : i \in 1..Len(stored)})}}
      BY Zenon DEF check_message
    <3> HIDE DEF Copies
    <3> QED
      BY <3>1, <1>1, <1>3, <1>5, <1>6, <1>7
  <2>2. account' = accounts /\ ticks' = ticks + 1
    BY Zenon DEF check_message
  <2>3. stored' = IF tell /\ OwnerNotice(sender) # {} THEN Append(stored, CHOOSE n \in OwnerNotice(sender) : TRUE) ELSE stored
    BY <1>1, <1>2, Zenon DEF check_message
  <2> QED
    BY <2>1, <2>2, <2>3
<1>9. /\ account \in [People -> AccountRecs] /\ ticks \in Nat /\ waiting \subseteq Mail
      /\ stored \in Seq(Mail) /\ Len(stored) \in Nat /\ \A i \in 1..Len(stored) : stored[i] \in Mail
  BY DEF CheckInv, CheckType, MailSeq
<1>10. \A x \in new : /\ x \in Mail /\ PeersIn(accounts, x) /\ x.sender = sender /\ x.at = at
                      /\ x.via = r.client /\ x.by = r.by /\ x.forged = r.forged
                      /\ x.raced \in BOOLEAN /\ (x.raced <=> Copies(x, waiting))
                      /\ \A n \in waiting \cup old : OneRaced(n, x)
  <2> SUFFICES ASSUME NEW x \in new
               PROVE  /\ x \in Mail /\ PeersIn(accounts, x) /\ x.sender = sender /\ x.at = at
                      /\ x.via = r.client /\ x.by = r.by /\ x.forged = r.forged
                      /\ x.raced \in BOOLEAN /\ (x.raced <=> Copies(x, waiting))
                      /\ \A n \in waiting \cup old : OneRaced(n, x)
    OBVIOUS
  <2>1. PICK m \in fresh : ~Copies(m, old) /\ x = [m EXCEPT !.raced = Copies(m, waiting)]
    BY <1>7
  <2>2. PICK to \in Recipients(r, accounts, sender, realm) :
          m = [sender |-> sender, to |-> to, at |-> at, via |-> r.client, by |-> r.by, forged |-> r.forged, raced |-> FALSE]
    BY <1>5
  <2>3. PICK raced \in BOOLEAN : raced = Copies(m, waiting)
    OBVIOUS
  <2>4. x = [sender |-> sender, to |-> to, at |-> at, via |-> r.client, by |-> r.by, forged |-> r.forged, raced |-> raced]
    BY <2>1, <2>2, <2>3
  <2>5. /\ x.sender = sender /\ x.to = to /\ x.at = at /\ x.via = r.client /\ x.by = r.by
        /\ x.forged = r.forged /\ x.raced = raced
    BY <2>4
  <2>6. m.sender = sender /\ m.to = to /\ m.at = at
    BY <2>2
  <2>7. to \in Addressed
    BY RecipientsRight
  <2>8. x \in Mail
    BY <2>4, <2>7, <1>4, RequestShape DEF Mail
  <2>9. PeersIn(accounts, x)
    <3>1. to.kind # "stream" =>
              /\ \A p \in (to.who \cup {sender}) \ CrossBots : p \in People /\ accounts[p].state # "none"
              /\ Cardinality({accounts[p].realm : p \in (to.who \cup {sender}) \ CrossBots}) <= 1
              /\ IF to.kind = "huddle" THEN sender \in to.who /\ Cardinality(to.who) > 2 ELSE Cardinality(to.who) = 1
              /\ r.client \in Mirrors /\ ~r.forged => r.by \in to.who \cup {sender}
      BY RecipientsRight
    <3> QED
      BY <3>1, <2>5 DEF PeersIn, Sharers
  <2>10. \A n : already_sent_mirrored_message(n, m) <=> already_sent_mirrored_message(n, x)
    BY <2>5, <2>6 DEF already_sent_mirrored_message
  <2>11. x.raced <=> Copies(x, waiting)
    BY <2>10, <2>3, <2>5
  <2>12. \A n \in waiting \cup old : OneRaced(n, x)
    <3> SUFFICES ASSUME NEW n \in waiting \cup old, Twin(n, x) PROVE x.raced
      BY DEF OneRaced
    <3>1. n \in Mail
      BY <1>6, <1>9
    <3>2. already_sent_mirrored_message(n, x) /\ r.client = "zephyr_mirror"
      BY <3>1, <2>8, <2>5, TwinIsCopy
    <3>3. n \notin old
      BY <3>2, <2>10, <2>1
    <3>4. n \in waiting
      BY <3>3
    <3> QED
      BY <3>4, <3>2, <2>11
  <2> QED
    BY <2>4, <2>5, <2>8, <2>9, <2>11, <2>12
<1>11. \A x, y \in new : x # y => OneRaced(x, y)
  <2> SUFFICES ASSUME NEW x \in new, NEW y \in new, Twin(x, y) PROVE x = y
    BY DEF OneRaced
  <2>1. x.to = y.to /\ x.sender = y.sender /\ x.at = y.at
    BY <1>10 DEF Twin
  <2>2. Copies(x, waiting) <=> Copies(y, waiting)
    BY <2>1 DEF already_sent_mirrored_message
  <2>3. /\ x.raced \in BOOLEAN /\ (x.raced <=> Copies(x, waiting))
        /\ y.raced \in BOOLEAN /\ (y.raced <=> Copies(y, waiting))
    BY <1>10, Zenon
  <2>4. x.raced = y.raced
    BY <2>2, <2>3, Zenon
  <2>5. x \in Mail /\ y \in Mail /\ x.via = y.via /\ x.by = y.by /\ x.forged = y.forged
    BY <1>10, Zenon
  <2> QED
    BY <2>1, <2>4, <2>5 DEF Mail
<1>12. stored' = stored \/ \E n \in Mail : stored' = Append(stored, n) /\ PeersIn(account, n) /\ n.via = "Internal"
  <2>1. CASE tell /\ OwnerNotice(sender) # {}
    <3>1. PICK n : n = CHOOSE k \in OwnerNotice(sender) : TRUE
      OBVIOUS
    <3>2. n \in OwnerNotice(sender) /\ stored' = Append(stored, n)
      BY <3>1, <2>1, <1>8
    <3>3. sender \in Bots
      BY <2>1, <1>2 DEF send_pm_if_empty_stream
    <3>4. PICK owner : owner = BotOwner[sender]
      OBVIOUS
    <3>5. owner \in People /\ NoticeBot \in People /\ NoticeBot \in CrossBots
      BY <3>3, <3>4, CheckConstants DEF Bots
    <3>6. PICK to \in recipient_for_emails(account, {owner}, NoticeBot, NoticeBot, FALSE) :
            n = [sender |-> NoticeBot, to |-> to, at |-> ticks, via |-> "Internal", by |-> NoticeBot,
                 forged |-> FALSE, raced |-> FALSE]
      BY <3>2, <3>4 DEF OwnerNotice
    <3>7. {owner} \subseteq People /\ IsFiniteSet({owner}) /\ {owner} # {}
      BY <3>5, FS_Singleton
    <3>8. RightAddress(account, to, NoticeBot, NoticeBot, FALSE)
      <4>1. PICK strict \in BOOLEAN : strict = FALSE
        OBVIOUS
      <4>2. RightAddress(account, to, NoticeBot, NoticeBot, strict)
        BY <4>1, <3>5, <3>6, <3>7, <1>9, RecipientRight
      <4> QED
        BY <4>1, <4>2
    <3>9. n.sender = NoticeBot /\ n.to = to /\ n.via = "Internal"
      BY <3>6
    <3>10. n \in Mail
      BY <3>5, <3>6, <3>8, <1>9 DEF Mail, RightAddress
    <3>11. PeersIn(account, n)
      BY <3>8, <3>9 DEF PeersIn, Sharers, Mirrors, RightAddress
    <3> QED
      BY <3>2, <3>9, <3>10, <3>11
  <2>2. CASE ~(tell /\ OwnerNotice(sender) # {})
    BY <2>2, <1>8
  <2> QED
    BY <2>1, <2>2
<1>13. waiting' \subseteq Mail /\ \A m \in waiting' : PeersIn(account', m)
  <2>1. \A m \in waiting : PeersIn(accounts, m)
    BY PeersKept DEF CheckInv, Peers
  <2> QED
    BY <2>1, <1>8, <1>9, <1>10
<1>14. \A m, n \in waiting' : m # n => OneRaced(m, n)
  <2> SUFFICES ASSUME NEW m \in waiting', NEW n \in waiting', m # n PROVE OneRaced(m, n)
    OBVIOUS
  <2>1. m \in Mail /\ n \in Mail
    BY <1>13
  <2>2. CASE m \in waiting /\ n \in waiting
    BY <2>2 DEF CheckInv, Once
  <2>3. CASE m \in waiting /\ n \in new
    BY <2>3, <1>10
  <2>4. CASE m \in new /\ n \in waiting
    BY <2>4, <2>1, <1>10, TwinIsCopy
  <2>5. CASE m \in new /\ n \in new
    BY <2>5, <1>11
  <2> QED
    BY <2>2, <2>3, <2>4, <2>5, <1>8
<1>15. \A n \in old : PeersIn(account', n) /\ \A m \in waiting' : OneRaced(n, m)
  <2>1. \A n \in old : PeersIn(accounts, n)
    BY <1>6, PeersKept DEF CheckInv, Peers
  <2>2. \A n \in old, m \in waiting : OneRaced(n, m)
    BY <1>6 DEF CheckInv, Once
  <2> QED
    BY <2>1, <2>2, <1>8, <1>10
<1>16. CASE stored' = stored
  <2>1. CheckType'
    BY <1>8, <1>9, <1>13, <1>16 DEF CheckType, MailSeq
  <2>2. Peers'
    BY <1>6, <1>13, <1>15, <1>16 DEF Peers
  <2>3. Once'
    BY <1>6, <1>14, <1>15, <1>16 DEF Once, CheckInv
  <2> QED
    BY <2>1, <2>2, <2>3 DEF CheckInv
<1>17. CASE \E n \in Mail : stored' = Append(stored, n) /\ PeersIn(account, n) /\ n.via = "Internal"
  <2>1. PICK n \in Mail : stored' = Append(stored, n) /\ PeersIn(account, n) /\ n.via = "Internal"
    BY <1>17
  <2>2. /\ stored' \in Seq(Mail) /\ Len(stored') = Len(stored) + 1 /\ stored'[Len(stored) + 1] = n
        /\ \A i \in 1..Len(stored) : stored'[i] = stored[i]
    BY <2>1, <1>9
  <2>3. \A i \in 1..Len(stored') : i \in 1..Len(stored) \/ i = Len(stored) + 1
    BY <2>2, <1>9
  <2>4. \A x : OneRaced(n, x) /\ OneRaced(x, n)
    BY <2>1 DEF OneRaced, Twin
  <2>5. CheckType'
    BY <1>8, <1>9, <1>13, <2>2 DEF CheckType, MailSeq
  <2>6. Peers'
    <3>1. PeersIn(account', n)
      BY <2>1, <1>8, PeersKept
    <3> QED
      BY <1>6, <1>13, <1>15, <2>2, <2>3, <3>1 DEF Peers
  <2>7. Once'
    <3>1. \A i, j \in 1..Len(stored') : i < j => OneRaced(stored'[i], stored'[j])
      BY <2>2, <2>3, <2>4 DEF CheckInv, Once
    <3>2. \A i \in 1..Len(stored') : \A m \in waiting' : OneRaced(stored'[i], m)
      BY <2>2, <2>3, <2>4, <1>6, <1>15
    <3> QED
      BY <3>1, <3>2, <1>14 DEF Once
  <2> QED
    BY <2>5, <2>6, <2>7 DEF CheckInv
<1> QED
  BY <1>12, <1>16, <1>17

\* The stubs for mirrored people change only who had no account.
LEMMA StubsOnly ==
  ASSUME CheckType, NEW r \in Requests, NEW accounts \in create_mirrored_message_users(r)
  PROVE  /\ accounts \in [People -> AccountRecs] /\ accounts[r.sender].state # "none"
         /\ \A p \in People : account[p].state # "none" => accounts[p].state # "none" /\ accounts[p].realm = account[p].realm
<1>1. PICK named : named = {r.sender} \cup (IF r.type = "private" THEN r.to ELSE {})
  OBVIOUS
<1>2. PICK realm : realm = account[r.by].realm
  OBVIOUS
<1>3. accounts = [e \in People |-> IF e \in named /\ account[e].state = "none" THEN [state |-> "dummy", realm |-> realm]
                                    ELSE account[e]]
  BY <1>1, <1>2 DEF create_mirrored_message_users
<1>4. account \in [People -> AccountRecs] /\ r.by \in People /\ r.sender \in People
  BY RequestShape DEF CheckType
<1>5. [state |-> "dummy", realm |-> realm] \in AccountRecs
  BY <1>2, <1>4 DEF AccountRecs
<1>6. \A e \in People : accounts[e] \in AccountRecs
  BY <1>3, <1>4, <1>5
<1> QED
  BY <1>1, <1>3, <1>4, <1>6

\* A request of any client.
LEMMA SendRequestKeeps ==
  ASSUME CheckInv, NEW r \in Requests, send_message_backend(r)
  PROVE  CheckInv'
<1>1. r.by \in People /\ r.sender \in People /\ account[r.by].state = "active" /\ account \in [People -> AccountRecs]
  BY RequestShape DEF send_message_backend, CheckInv, CheckType
<1>2. CASE r.client \in Mirrors
  <2>1. PICK accounts \in create_mirrored_message_users(r) : check_message(r, accounts, r.sender)
    BY <1>2 DEF send_message_backend, send_mirrored
  <2>2. CheckType
    BY DEF CheckInv
  <2>3. /\ accounts \in [People -> AccountRecs] /\ accounts[r.sender].state # "none"
        /\ \A p \in People : account[p].state # "none" => accounts[p].state # "none" /\ accounts[p].realm = account[p].realm
    BY <2>2, StubsOnly
  <2> QED
    BY <1>1, <2>1, <2>3, CheckMessageKeeps
<1>3. CASE r.client \notin Mirrors
  <2>1. check_message(r, account, r.by)
    BY <1>3 DEF send_message_backend
  <2> QED
    BY <1>1, <2>1, CheckMessageKeeps
<1> QED
  BY <1>2, <1>3

\* Storing a message moves it from one side of the invariant to the other.
LEMMA StoreKeeps ==
  ASSUME CheckInv, NEW m \in waiting, do_send_messages(m)
  PROVE  CheckInv'
<1>1. /\ waiting' = waiting \ {m} /\ stored' = Append(stored, m) /\ account' = account /\ ticks' = ticks
      /\ account \in [People -> AccountRecs] /\ ticks \in Nat /\ waiting \subseteq Mail /\ m \in Mail
      /\ stored \in Seq(Mail) /\ Len(stored) \in Nat /\ \A i \in 1..Len(stored) : stored[i] \in Mail
  BY DEF do_send_messages, CheckInv, CheckType, MailSeq
<1>2. /\ stored' \in Seq(Mail) /\ Len(stored') = Len(stored) + 1 /\ stored'[Len(stored) + 1] = m
      /\ \A i \in 1..Len(stored) : stored'[i] = stored[i]
  BY <1>1
<1>3. \A i \in 1..Len(stored') : i \in 1..Len(stored) \/ i = Len(stored) + 1
  BY <1>1, <1>2
<1>4. CheckType'
  BY <1>1, <1>2 DEF CheckType, MailSeq
<1>5. Peers'
  BY <1>1, <1>2, <1>3 DEF CheckInv, Peers
<1>6. Once'
  <2>1. \A i \in 1..Len(stored) : OneRaced(stored[i], m)
    BY DEF CheckInv, Once
  <2>2. \A n \in waiting' : n \in waiting /\ OneRaced(m, n)
    BY <1>1 DEF CheckInv, Once
  <2>3. \A i, j \in 1..Len(stored') : i < j => OneRaced(stored'[i], stored'[j])
    <3> SUFFICES ASSUME NEW i \in 1..Len(stored'), NEW j \in 1..Len(stored'), i < j
                 PROVE  OneRaced(stored'[i], stored'[j])
      OBVIOUS
    <3>1. i \in 1..Len(stored) /\ stored'[i] = stored[i]
      BY <1>1, <1>2, <1>3
    <3>2. CASE j \in 1..Len(stored)
      BY <3>1, <3>2, <1>2 DEF CheckInv, Once
    <3>3. CASE j = Len(stored) + 1
      BY <3>1, <3>3, <1>2, <2>1
    <3> QED
      BY <3>2, <3>3, <1>3
  <2>4. \A i \in 1..Len(stored') : \A n \in waiting' : OneRaced(stored'[i], n)
    BY <1>2, <1>3, <2>2 DEF CheckInv, Once
  <2>5. \A k, n \in waiting' : k # n => OneRaced(k, n)
    BY <2>2 DEF CheckInv, Once
  <2> QED
    BY <2>3, <2>4, <2>5 DEF Once
<1> QED
  BY <1>4, <1>5, <1>6 DEF CheckInv

\* Deactivated accounts keep their realm.
LEMMA DeactivationKeeps ==
  ASSUME CheckInv, NEW p \in DOMAIN account, DeactivateAccount(p)
  PROVE  CheckInv'
<1>1. /\ account \in [People -> AccountRecs] /\ p \in People /\ account[p].state = "active"
      /\ account' = [account EXCEPT ![p].state = "gone"] /\ waiting' = waiting /\ stored' = stored /\ ticks' = ticks
  BY DEF DeactivateAccount, CheckInv, CheckType
<1>2. PICK row \in AccountRecs : row = account[p]
  BY <1>1
<1>3. PICK left : left = [row EXCEPT !.state = "gone"]
  OBVIOUS
<1>4. left \in AccountRecs /\ left.state = "gone" /\ left.realm = row.realm
  BY <1>2, <1>3 DEF AccountRecs
<1>5. account' = [account EXCEPT ![p] = left]
  BY <1>1, <1>2, <1>3
<1>6. account' \in [People -> AccountRecs]
  BY <1>1, <1>4, <1>5
<1>7. \A q \in People : account[q].state # "none" => account'[q].state # "none" /\ account'[q].realm = account[q].realm
  BY <1>1, <1>2, <1>4, <1>5
<1>8. CheckType'
  BY <1>1, <1>6 DEF CheckInv, CheckType
<1>9. Peers'
  <2> SUFFICES ASSUME NEW m \in waiting \cup {stored[i] : i \in 1..Len(stored)} PROVE PeersIn(account', m)
    BY <1>1 DEF Peers
  <2>1. PeersIn(account, m)
    BY DEF CheckInv, Peers
  <2> QED
    BY <2>1, <1>7, PeersKept
<1>10. Once'
  BY <1>1 DEF CheckInv, Once
<1> QED
  BY <1>8, <1>9, <1>10 DEF CheckInv

\* Every step of MessageCheck keeps the invariant.
LEMMA CheckStep == CheckInv /\ [CheckNext]_checkVars => CheckInv'
<1> SUFFICES ASSUME CheckInv, [CheckNext]_checkVars PROVE CheckInv'
  OBVIOUS
<1>1. CASE \E r \in Requests : send_message_backend(r)
  BY <1>1, SendRequestKeeps
<1>2. CASE \E m \in waiting : do_send_messages(m)
  BY <1>2, StoreKeeps
<1>3. CASE \E p \in DOMAIN account : DeactivateAccount(p)
  BY <1>3, DeactivationKeeps
<1>4. CASE (\E c \in Channels \ closed : CloseChannel(c)) \/ UNCHANGED checkVars
  <2>1. account' = account /\ ticks' = ticks /\ waiting' = waiting /\ stored' = stored
    BY <1>4 DEF CloseChannel, checkVars
  <2> QED
    BY <2>1 DEF CheckInv, CheckType, Peers, Once
<1> QED
  BY <1>1, <1>2, <1>3, <1>4 DEF CheckNext

\* The invariant is what the property needs.
LEMMA CheckInvSuffices == CheckInv => SentRight
<1> SUFFICES ASSUME CheckInv PROVE SentRight
  OBVIOUS
<1>1. PrivateAmongPeers
  BY DEF CheckInv, Peers, PeersIn, PrivateAmongPeers
<1>2. MirroredOnce
  BY DEF CheckInv, Once, OneRaced, Twin, MirroredOnce
<1> QED
  BY <1>1, <1>2 DEF SentRight

\* Private messages stay among peers, with the recipient that two people or a group share,
\* and a Zephyr message that several mirrors forward is stored once unless a copy raced:
\* check_message and do_send_messages, in two steps between which other requests run.
THEOREM MessagesSentRight == CheckSpec => []SentRight
<1>1. CheckSpec => []CheckInv
  BY CheckStarts, CheckStep, PTL DEF CheckSpec
<1> QED
  BY <1>1, CheckInvSuffices, PTL

-----------------------------------------------------------------------------
\* MessageFetch

\* What rows are, and which of them the reader may see.
Sent == [id : Nat, to : {k.to : k \in Kinds}, sender : {k.sender : k \in Kinds},
         topic : Topics \cup {k.topic : k \in Kinds}, words : {k.words : k \in Kinds},
         has : {k.has : k \in Kinds}, received : BOOLEAN, flags : SUBSET {"read", "starred"}]

Visible(m, public) == m.received \/ (m.to.kind = "stream" /\ m.to.who \subseteq public)

\* The view is a record of a narrow that was asked for.
GoodView == \E narrow, first, known, lo, hi, dups :
  /\ narrow \in Narrows \cup {<<>>}
  /\ view = [narrow |-> narrow, first |-> first, known |-> known, lo |-> lo, hi |-> hi, dups |-> dups]

\* The variables of MessageFetch; a message that is being sent has no row yet.
FetchType ==
  /\ next_id \in Nat \ {0}
  /\ rows \in [DOMAIN rows -> Sent] /\ started \in [DOMAIN started -> Sent]
  /\ DOMAIN rows \subseteq 1..(next_id - 1) /\ DOMAIN started \subseteq 1..(next_id - 1)
  /\ DOMAIN rows \cap DOMAIN started = {}
  /\ GoodView

\* What a page holds was committed when it was read, and visible then.
PageIsOld == Found \subseteq 1..(next_id - 1) /\ Found \cap DOMAIN started = {}
PageVisible == \A id \in Found \cap DOMAIN rows : Visible(rows[id], asked.public)

\* The inductive invariant of OnlyVisible.
FetchInv == FetchType /\ PageIsOld /\ PageVisible /\ OnlyVisible

\* A narrow that may include history holds only messages of a public stream.
LEMMA HistoryIsPublic ==
  ASSUME NEW narrow \in Narrows \cup {<<>>}, ok_to_include_history(narrow), NEW m \in Sent, InNarrow(m, narrow)
  PROVE  Visible(m, PublicHere)
<1>1. PICK t \in Terms(narrow) : t.op = "stream" /\ ~t.neg /\ \E name \in t.arg : is_public_stream(name)
  BY DEF ok_to_include_history
<1>2. PICK i \in 1..Len(narrow) : t = narrow[i]
  BY <1>1 DEF Terms
<1>3. narrow \in Narrows
  BY <1>2
<1>4. t.neg \in BOOLEAN /\ \E name \in t.arg : t.arg = {name}
  BY <1>1, <1>2, <1>3, OneStream
<1>5. PICK name \in t.arg : t.arg = {name} /\ is_public_stream(name)
  BY <1>1, <1>4
<1>6. t.neg = FALSE
  BY <1>1, <1>4
<1>7. add_term(m, t)
  <2>1. t \in {u \in Terms(narrow) : u.op # "search"} \cup JoinedSearch(narrow)
    BY <1>1
  <2> QED
    BY <2>1 DEF InNarrow
<1>8. t.neg # by_stream(m, t.arg)
  BY <1>7, <1>1 DEF add_term
<1>9. by_stream(m, t.arg)
  BY <1>8, <1>6, Zenon DEF by_stream
<1>10. m.to.kind = "stream" /\ \E p \in m.to.who, n \in t.arg : SamePlace(p, n)
  BY <1>9 DEF by_stream
<1>11. PICK p \in m.to.who : SamePlace(p, name)
  BY <1>10, <1>5
<1>12. ~Zephyr
  BY <1>5 DEF is_public_stream, get_place, is_public
<1>13. p \in Places /\ PlaceRealm[p] = MyRealm /\ p = name /\ is_public(p)
  BY <1>5, <1>11, <1>12 DEF SamePlace, get_place, is_public_stream
<1>14. m.to.who = {p}
  <2>1. PICK k \in Kinds : m.to = k.to
    BY DEF Sent
  <2>2. \E q \in Places : m.to.who = {q}
    BY <2>1, <1>10, OneStream
  <2> QED
    BY <2>2, <1>11
<1> QED
  BY <1>10, <1>13, <1>14 DEF Visible, PublicHere

\* A page holds nothing that the query did not match.
LEMMA AroundFinds ==
  ASSUME NEW found, NEW anchor, NEW before, NEW after
  PROVE  LET page == Around(found, anchor, before, after)
         IN page.earlier \cup page.later \subseteq found
BY DEF Around, Largest, Smallest

\* The query of a page finds only what the reader may see.
LEMMA FetchRequestKeeps ==
  ASSUME FetchInv, NEW narrow \in Narrows \cup {<<>>}, NEW first \in BOOLEAN, NEW given, NEW before, NEW after,
         get_messages_backend(narrow, first, given, before, after)
  PROVE  FetchInv'
<1>t. FetchType
  BY DEF FetchInv
<1>u. UNCHANGED <<rows, started, next_id, secret, joined, changes, stirred>> /\ answer' = NoAnswer
  BY DEF get_messages_backend
<1>0. PICK found : found = Matching(narrow, ok_to_include_history(narrow) /\ ~first)
  OBVIOUS
<1>1. \E anchor, b, a : /\ asked'.public = PublicHere /\ asked'.earlier = Around(found, anchor, b, a).earlier
                        /\ asked'.later = Around(found, anchor, b, a).later
  BY <1>0 DEF get_messages_backend
<1>2. asked'.public = PublicHere /\ asked'.earlier \cup asked'.later \subseteq found
  BY <1>1, AroundFinds
<1>3. Found' \subseteq found
  BY <1>2 DEF Found
<1>4. ASSUME NEW id \in found PROVE id \in DOMAIN rows /\ Visible(rows[id], PublicHere)
  <2>1. id \in DOMAIN rows /\ rows[id] \in Sent
    BY <1>0, <1>t DEF Matching, FetchType
  <2>2. CASE rows[id].received
    BY <2>1, <2>2 DEF Visible
  <2>3. CASE ~rows[id].received
    <3>1. ok_to_include_history(narrow) /\ InNarrow(rows[id], narrow)
      BY <1>0, <2>3 DEF Matching
    <3> QED
      BY <2>1, <3>1, HistoryIsPublic
  <2> QED
    BY <2>2, <2>3
<1>5. FetchType'
  <2>1. PICK n, f, known, lo, hi, dups :
          view = [narrow |-> n, first |-> f, known |-> known, lo |-> lo, hi |-> hi, dups |-> dups]
    BY <1>t DEF FetchType, GoodView
  <2>2. \E f2 : view' = [narrow |-> narrow, first |-> f2, known |-> known, lo |-> lo, hi |-> hi, dups |-> dups]
    BY <2>1 DEF get_messages_backend
  <2>3. GoodView'
    BY <2>2 DEF GoodView
  <2> QED
    BY <2>3, <1>t, <1>u DEF FetchType
<1>6. PageIsOld'
  BY <1>3, <1>4, <1>t, <1>u DEF PageIsOld, FetchType
<1>7. PageVisible'
  BY <1>2, <1>3, <1>4, <1>u DEF PageVisible, Visible
<1>8. OnlyVisible'
  BY <1>u DEF OnlyVisible, NoAnswer
<1> QED
  BY <1>5, <1>6, <1>7, <1>8 DEF FetchInv

\* The answer adds what the query found to the view.
LEMMA AnswerKeeps ==
  ASSUME FetchInv, Answer
  PROVE  FetchInv'
<1>t. FetchType
  BY DEF FetchInv
<1>u. UNCHANGED <<rows, started, next_id, secret, joined, changes, stirred>> /\ asked' = NoRequest
  BY DEF Answer
<1>1. FetchType'
  <2>2. PICK n, f, known, lo, hi, dups :
          n \in Narrows \cup {<<>>}
          /\ view = [narrow |-> n, first |-> f, known |-> known, lo |-> lo, hi |-> hi, dups |-> dups]
    BY <1>t DEF FetchType, GoodView
  <2>3. \E k2, l2, h2, d2 :
          view' = [narrow |-> n, first |-> f, known |-> k2, lo |-> l2, hi |-> h2, dups |-> d2]
    BY <2>2 DEF Answer
  <2>4. GoodView'
    BY <2>2, <2>3 DEF GoodView
  <2> QED
    BY <2>4, <1>t, <1>u DEF FetchType
<1>2. Found' = {}
  BY <1>u DEF Found, NoRequest
<1>3. PageIsOld' /\ PageVisible'
  BY <1>2 DEF PageIsOld, PageVisible
<1>4. OnlyVisible'
  <2>1. \/ answer' = NoAnswer
        \/ answer'.ids = Found /\ answer'.public = asked.public
    BY DEF Answer
  <2> QED
    BY <2>1, <1>u DEF FetchInv, PageVisible, Visible, OnlyVisible, NoAnswer
<1> QED
  BY <1>1, <1>3, <1>4 DEF FetchInv

\* Other narrows and pages, asked for or given up.
LEMMA OtherRequestsKeep ==
  ASSUME FetchInv,
         \/ \E ids, narrow : messages_in_narrow_backend(ids, narrow)
         \/ \E id \in DOMAIN rows : json_fetch_raw_message(id)
  PROVE  FetchInv'
<1>u. UNCHANGED <<rows, started, next_id, view, asked>>
  BY DEF messages_in_narrow_backend, json_fetch_raw_message
<1>1. FetchType' /\ PageIsOld' /\ PageVisible'
  BY <1>u DEF FetchInv, FetchType, GoodView, PageIsOld, PageVisible, Visible, Found
<1>2. OnlyVisible'
  BY <1>u DEF messages_in_narrow_backend, json_fetch_raw_message, OnlyVisible, access_message
<1> QED
  BY <1>1, <1>2 DEF FetchInv

\* A message that is being sent takes an id and has no row.
LEMMA StartKeeps ==
  ASSUME FetchInv, NEW k \in Kinds, StartMessage(k)
  PROVE  FetchInv'
<1>t. FetchType /\ PageIsOld
  BY DEF FetchInv
<1>v. UNCHANGED view => (GoodView => GoodView')
  BY DEF GoodView
<1>u. UNCHANGED <<rows, view, asked>> /\ answer' = NoAnswer /\ next_id' = next_id + 1
  BY DEF StartMessage
<1>g. GetsCopy(k) \in BOOLEAN
  <2>1. CASE k.to.kind = "stream"
    BY <2>1 DEF GetsCopy
  <2>2. CASE k.to.kind # "stream"
    BY <2>2 DEF GetsCopy
  <2> QED
    BY <2>1, <2>2
<1>1. PICK m : m = [id |-> next_id, to |-> k.to, sender |-> k.sender, topic |-> k.topic, words |-> k.words,
                    has |-> k.has, received |-> GetsCopy(k), flags |-> IF GetsCopy(k) /\ k.sender = Me THEN {"read"} ELSE {}]
  OBVIOUS
<1>2. m \in Sent
  BY <1>1, <1>t, <1>g DEF Sent, FetchType
<1>3. started' = With(started, next_id, m)
  BY <1>1 DEF StartMessage
<1>4. DOMAIN started' = DOMAIN started \cup {next_id} /\ started' \in [DOMAIN started' -> Sent]
  BY <1>2, <1>3, <1>t DEF FetchType, With
<1>5. FetchType'
  BY <1>4, <1>t, <1>u, <1>v DEF FetchType
<1>6. PageIsOld'
  BY <1>4, <1>t, <1>u DEF PageIsOld, Found, FetchType
<1>7. PageVisible' /\ OnlyVisible'
  BY <1>u DEF FetchInv, PageVisible, Visible, Found, OnlyVisible, NoAnswer
<1> QED
  BY <1>5, <1>6, <1>7 DEF FetchInv

\* Its row is new: no page that was read has it.
LEMMA CommitMessageKeeps ==
  ASSUME FetchInv, NEW id \in DOMAIN started, CommitMessage(id)
  PROVE  FetchInv'
<1>t. FetchType /\ PageIsOld
  BY DEF FetchInv
<1>v. UNCHANGED view => (GoodView => GoodView')
  BY DEF GoodView
<1>u. UNCHANGED <<next_id, view, asked>> /\ answer' = NoAnswer
  BY DEF CommitMessage
<1>m. PICK m \in Sent : m = started[id]
  BY <1>t DEF FetchType
<1>1. rows' = With(rows, id, m) /\ started' = [other \in DOMAIN started \ {id} |-> started[other]]
  BY <1>m DEF CommitMessage
<1>2. DOMAIN started' = DOMAIN started \ {id} /\ started' \in [DOMAIN started' -> Sent]
  BY <1>1, <1>t DEF FetchType
<1>3. DOMAIN rows' = DOMAIN rows \cup {id} /\ rows' \in [DOMAIN rows' -> Sent] /\ \A x \in DOMAIN rows : rows'[x] = rows[x]
  BY <1>1, <1>m, <1>t DEF FetchType, With
<1>5. FetchType'
  BY <1>2, <1>3, <1>t, <1>u, <1>v DEF FetchType
<1>6. PageIsOld'
  BY <1>2, <1>t, <1>u DEF PageIsOld, Found, FetchType
<1>7. PageVisible'
  BY <1>3, <1>t, <1>u DEF FetchInv, PageVisible, PageIsOld, Visible, Found
<1>8. OnlyVisible'
  BY <1>u DEF OnlyVisible, NoAnswer
<1> QED
  BY <1>5, <1>6, <1>7, <1>8 DEF FetchInv

\* Rows that stay as visible as they were disturb nothing.
LEMMA RowsChangeKeeps ==
  ASSUME FetchInv, UNCHANGED <<started, next_id, view, asked>>, answer' = NoAnswer,
         rows' \in [DOMAIN rows' -> Sent], DOMAIN rows' \subseteq DOMAIN rows,
         \A id \in DOMAIN rows' : rows'[id].to = rows[id].to /\ rows'[id].received = rows[id].received
  PROVE  FetchInv'
<1>v. GoodView'
  BY DEF FetchInv, FetchType, GoodView
<1>1. FetchType' /\ PageIsOld'
  BY <1>v DEF FetchInv, FetchType, PageIsOld, Found
<1>2. PageVisible'
  BY DEF FetchInv, PageVisible, Visible, Found
<1>3. OnlyVisible'
  BY DEF OnlyVisible, NoAnswer
<1> QED
  BY <1>1, <1>2, <1>3 DEF FetchInv

\* Edits, flags, deletions and subscriptions.
LEMMA ChangesKeep ==
  ASSUME FetchInv,
         \/ \E id \in DOMAIN rows, topic \in Topics : MoveMessage(id, topic)
         \/ \E id \in DOMAIN rows, flag \in {"read", "starred"} : FlagMessage(id, flag)
         \/ \E id \in DOMAIN rows : DeleteMessage(id)
         \/ \E p \in Places \ secret : MakeSecret(p)
         \/ \E p \in Places : SwitchSubscription(p)
  PROVE  FetchInv'
<1>u. UNCHANGED <<started, next_id, view, asked>> /\ answer' = NoAnswer
  BY DEF MoveMessage, FlagMessage, DeleteMessage, MakeSecret, SwitchSubscription, Changed
<1>t. rows \in [DOMAIN rows -> Sent]
  BY DEF FetchInv, FetchType
<1>1. ASSUME NEW id \in DOMAIN rows, NEW topic \in Topics, MoveMessage(id, topic) PROVE FetchInv'
  <2>1. PICK m : m = [rows[id] EXCEPT !.topic = topic]
    OBVIOUS
  <2>2. m \in Sent /\ m.to = rows[id].to /\ m.received = rows[id].received
    BY <2>1, <1>t DEF Sent
  <2>3. rows' = [rows EXCEPT ![id] = m]
    BY <2>1, <1>1, <1>t DEF MoveMessage
  <2>4. DOMAIN rows' = DOMAIN rows /\ rows' \in [DOMAIN rows' -> Sent]
        /\ \A x \in DOMAIN rows' : rows'[x].to = rows[x].to /\ rows'[x].received = rows[x].received
    BY <2>2, <2>3, <1>t
  <2> QED
    BY <2>4, <1>u, RowsChangeKeeps
<1>2. ASSUME NEW id \in DOMAIN rows, NEW flag \in {"read", "starred"}, FlagMessage(id, flag) PROVE FetchInv'
  <2>1. PICK m : m = [rows[id] EXCEPT !.flags = @ \cup {flag}]
    OBVIOUS
  <2>2. m \in Sent /\ m.to = rows[id].to /\ m.received = rows[id].received
    BY <2>1, <1>t DEF Sent
  <2>3. rows' = [rows EXCEPT ![id] = m]
    BY <2>1, <1>2, <1>t DEF FlagMessage
  <2>4. DOMAIN rows' = DOMAIN rows /\ rows' \in [DOMAIN rows' -> Sent]
        /\ \A x \in DOMAIN rows' : rows'[x].to = rows[x].to /\ rows'[x].received = rows[x].received
    BY <2>2, <2>3, <1>t
  <2> QED
    BY <2>4, <1>u, RowsChangeKeeps
<1>3. ASSUME NEW id \in DOMAIN rows, DeleteMessage(id) PROVE FetchInv'
  <2>1. rows' = [other \in DOMAIN rows \ {id} |-> rows[other]]
    BY <1>3 DEF DeleteMessage
  <2>2. DOMAIN rows' \subseteq DOMAIN rows /\ rows' \in [DOMAIN rows' -> Sent]
        /\ \A x \in DOMAIN rows' : rows'[x].to = rows[x].to /\ rows'[x].received = rows[x].received
    BY <2>1, <1>t
  <2> QED
    BY <2>2, <1>u, RowsChangeKeeps
<1>4. ASSUME UNCHANGED rows PROVE FetchInv'
  BY <1>4, <1>t, <1>u, RowsChangeKeeps
<1> QED
  BY <1>1, <1>2, <1>3, <1>4 DEF MakeSecret, SwitchSubscription

\* Nothing is read at the start.
LEMMA FetchStarts == FetchInit => FetchInv
<1> SUFFICES ASSUME FetchInit PROVE FetchInv
  OBVIOUS
<1>1. DOMAIN rows = {} /\ DOMAIN started = {} /\ Found = {}
  BY DEF FetchInit, Found, NoRequest
<1>2. rows \in [DOMAIN rows -> Sent] /\ started \in [DOMAIN started -> Sent]
  BY <1>1 DEF FetchInit
<1>g. GoodView
  BY DEF FetchInit, NoView, GoodView
<1>3. FetchType
  BY <1>1, <1>2, <1>g DEF FetchInit, FetchType
<1> QED
  BY <1>1, <1>3 DEF FetchInit, FetchInv, PageIsOld, PageVisible, OnlyVisible, NoAnswer


\* Whatever a reader is shown was received or is of a public stream's history: the queries
\* of get_messages_backend with any narrow, while messages are sent, edited and deleted.
THEOREM OnlyVisibleShown == FetchSpec => []OnlyVisible
<1>2. FetchInv /\ [FetchNext]_fetchVars => FetchInv'
  <2> SUFFICES ASSUME FetchInv, [FetchNext]_fetchVars PROVE FetchInv'
    OBVIOUS
  <2>v. view.narrow \in Narrows \cup {<<>>}
    BY DEF FetchInv, FetchType, GoodView
  <2>1. ASSUME NEW narrow \in Narrows, NEW first \in BOOLEAN, NEW anchor, OpenNarrow(narrow, first, anchor)
        PROVE  FetchInv'
    BY <2>1, FetchRequestKeeps DEF OpenNarrow
  <2>2. CASE OlderPage \/ NewerPage
    BY <2>2, <2>v, FetchRequestKeeps DEF OlderPage, NewerPage
  <2>3. CASE UNCHANGED fetchVars
    BY <2>3 DEF fetchVars, FetchInv, FetchType, GoodView, PageIsOld, PageVisible, Visible, Found, OnlyVisible
  <2> QED
    BY <2>1, <2>2, <2>3, AnswerKeeps, OtherRequestsKeep, StartKeeps, CommitMessageKeeps, ChangesKeep DEF FetchNext
<1>3. FetchInv => OnlyVisible
  BY DEF FetchInv
<1> QED
  BY FetchStarts, <1>2, <1>3, PTL DEF FetchSpec

-----------------------------------------------------------------------------

\* A nonempty bounded set of numbers has a greatest one.
LEMMA GreatestExists ==
  ASSUME NEW T, NEW n \in Nat, T \subseteq 1..n, T # {}
  PROVE  \E x \in T : \A y \in T : x >= y
<1>1. PICK U : U = {n - x : x \in T}
  OBVIOUS
<1>2. U \subseteq Nat /\ U # {}
  <2>1. PICK t \in T : TRUE
    OBVIOUS
  <2>2. n - t \in U
    BY <1>1, <2>1
  <2>3. \A x \in T : n - x \in Nat
    OBVIOUS
  <2> QED
    BY <1>1, <2>2, <2>3
<1>3. PICK u \in U : \A y \in U : u <= y
  BY <1>2, LeastExists
<1>4. PICK x \in T : u = n - x
  BY <1>1, <1>3
<1>5. \A y \in T : x >= y
  BY <1>1, <1>3, <1>4
<1> QED
  BY <1>5

\* A bounded set of numbers is finite, and a subset has no more elements.
LEMMA BoundedIsFinite ==
  ASSUME NEW n \in Nat, NEW S, S \subseteq 1..n
  PROVE  IsFiniteSet(S) /\ \A T \in SUBSET S : IsFiniteSet(T) /\ Cardinality(T) \in Nat /\ Cardinality(T) <= Cardinality(S)
<1>1. IsFiniteSet(1..n)
  BY FS_Interval
<1>2. IsFiniteSet(S)
  BY <1>1, FS_Subset
<1> QED
  BY <1>2, FS_Subset, FS_CardinalityType

\* What is above one of the k largest is one of them.
LEMMA LargestClosed ==
  ASSUME NEW n \in Nat, NEW S, S \subseteq 1..n, NEW k \in Nat, NEW x \in Largest(S, k), NEW z \in S, z >= x
  PROVE  z \in Largest(S, k)
<1>0. x \in S /\ x \in Int /\ z \in Int /\ S \subseteq Int
  BY DEF Largest
<1>a. \A y \in S : y >= z => y >= x
  BY <1>0
<1>1. {y \in S : y >= z} \subseteq {y \in S : y >= x}
  BY <1>a, Zenon
<1>2. {y \in S : y >= x} \subseteq 1..n
  OBVIOUS
<1>3. Cardinality({y \in S : y >= z}) <= Cardinality({y \in S : y >= x})
      /\ Cardinality({y \in S : y >= z}) \in Nat /\ Cardinality({y \in S : y >= x}) \in Nat
  BY <1>1, <1>2, BoundedIsFinite
<1>4. Cardinality({y \in S : y >= x}) <= k
  BY DEF Largest
<1> QED
  BY <1>3, <1>4 DEF Largest

\* What is below one of the k smallest is one of them.
LEMMA SmallestClosed ==
  ASSUME NEW n \in Nat, NEW S, S \subseteq 1..n, NEW k \in Nat, NEW x \in Smallest(S, k), NEW z \in S, z <= x
  PROVE  z \in Smallest(S, k)
<1>0. x \in S /\ x \in Int /\ z \in Int /\ S \subseteq Int
  BY DEF Smallest
<1>a. \A y \in S : y <= z => y <= x
  BY <1>0
<1>1. {y \in S : y <= z} \subseteq {y \in S : y <= x}
  BY <1>a, Zenon
<1>2. {y \in S : y <= x} \subseteq 1..n
  OBVIOUS
<1>3. Cardinality({y \in S : y <= z}) <= Cardinality({y \in S : y <= x})
      /\ Cardinality({y \in S : y <= z}) \in Nat /\ Cardinality({y \in S : y <= x}) \in Nat
  BY <1>1, <1>2, BoundedIsFinite
<1>4. Cardinality({y \in S : y <= x}) <= k
  BY DEF Smallest
<1> QED
  BY <1>3, <1>4 DEF Smallest

\* Fewer than k were found: all of them were.
LEMMA LargestNone ==
  ASSUME NEW n \in Nat, NEW S, S \subseteq 1..n
  PROVE  Largest(S, 0) = {}
<1> SUFFICES ASSUME NEW x \in Largest(S, 0) PROVE FALSE
  OBVIOUS
<1>0. x \in S /\ x \in Int /\ Cardinality({y \in S : y >= x}) <= 0
  BY DEF Largest
<1>a. x >= x
  BY <1>0
<1>b. {y \in S : y >= x} \subseteq 1..n
  OBVIOUS
<1>1. x \in {y \in S : y >= x} /\ {y \in S : y >= x} \subseteq 1..n
  BY <1>0, <1>a, <1>b, Zenon
<1>2. IsFiniteSet({y \in S : y >= x}) /\ Cardinality({y \in S : y >= x}) \in Nat
  BY <1>1, BoundedIsFinite
<1>3. {y \in S : y >= x} = {}
  BY <1>0, <1>2, FS_EmptySet
<1> QED
  BY <1>1, <1>3

\* Fewer than k were found: all of them were.
LEMMA SmallestNone ==
  ASSUME NEW n \in Nat, NEW S, S \subseteq 1..n
  PROVE  Smallest(S, 0) = {}
<1> SUFFICES ASSUME NEW x \in Smallest(S, 0) PROVE FALSE
  OBVIOUS
<1>0. x \in S /\ x \in Int /\ Cardinality({y \in S : y <= x}) <= 0
  BY DEF Smallest
<1>a. x <= x
  BY <1>0
<1>b. {y \in S : y <= x} \subseteq 1..n
  OBVIOUS
<1>1. x \in {y \in S : y <= x} /\ {y \in S : y <= x} \subseteq 1..n
  BY <1>0, <1>a, <1>b, Zenon
<1>2. IsFiniteSet({y \in S : y <= x}) /\ Cardinality({y \in S : y <= x}) \in Nat
  BY <1>1, BoundedIsFinite
<1>3. {y \in S : y <= x} = {}
  BY <1>0, <1>2, FS_EmptySet
<1> QED
  BY <1>1, <1>3

\* A set without a gap among what a query finds.
Contiguous(S, found) == \A a \in S, b \in S : \A id \in found : a <= id /\ id <= b => id \in S

\* A page around an anchor has no gap: the earlier ones end and the later ones begin at it.
LEMMA AroundContiguous ==
  ASSUME NEW n \in Nat, NEW found, found \subseteq 1..n, NEW anchor \in Nat, NEW before \in Nat, NEW after \in Nat, NEW page,
         page = Around(found, anchor, before, after)
  PROVE  /\ page.earlier \cap page.later = {}
         /\ Contiguous(page.earlier \cup page.later, found)
         /\ page.earlier \cup page.later \subseteq found
<1>0. PICK low, high : low = {id \in found : id <= (IF after # 0 THEN anchor - 1 ELSE anchor)}
                       /\ high = {id \in found : id >= anchor}
  OBVIOUS
<1>s. low \subseteq 1..n /\ high \subseteq 1..n
  BY <1>0
<1>1. CASE before = 0 /\ after = 0
  <2>1. page.earlier = {} /\ page.later = found \cap {anchor}
    BY <1>1 DEF Around
  <2> QED
    BY <2>1 DEF Contiguous
<1>2. CASE ~(before = 0 /\ after = 0)
  <2>1. page.earlier = Largest(low, before)
        /\ page.later = IF anchor = LARGER_THAN_MAX_MESSAGE_ID THEN {} ELSE Smallest(high, after)
    BY <1>2, <1>0 DEF Around
  <2>2. page.earlier \subseteq low /\ page.later \subseteq high
    BY <2>1 DEF Largest, Smallest
  <2>3. after = 0 => page.later = {}
    BY <2>1, <1>s, SmallestNone
  <2>4. page.earlier \cap page.later = {}
    BY <2>2, <2>3, <1>0, <1>s
  <2>5. ASSUME NEW a \in page.earlier \cup page.later, NEW b \in page.earlier \cup page.later, NEW id \in found,
               a <= id, id <= b
        PROVE  id \in page.earlier \cup page.later
    <3>0. a \in 1..n /\ b \in 1..n /\ id \in 1..n
      BY <2>2, <2>5, <1>s
    <3>1. CASE id \in low
      <4>1. a \in page.earlier
        BY <3>0, <3>1, <2>2, <2>3, <2>5, <1>0
      <4>2. id \in page.earlier
        BY <4>1, <3>0, <3>1, <2>1, <2>5, <1>s, LargestClosed
      <4> QED
        BY <4>2
    <3>2. CASE id \notin low
      <4>1. id \in high /\ b \in page.later
        BY <3>0, <3>2, <2>2, <2>3, <2>5, <1>0
      <4>2. id \in page.later
        BY <4>1, <3>0, <2>1, <2>5, <1>s, SmallestClosed
      <4> QED
        BY <4>2
    <3> QED
      BY <3>1, <3>2
  <2>6. page.earlier \cup page.later \subseteq found
    BY <2>2, <1>0
  <2> QED
    BY <2>4, <2>5, <2>6 DEF Contiguous
<1> QED
  BY <1>1, <1>2

\* The view, what its query finds now, and how far it reaches.
ViewRecs == [narrow : Narrows \cup {<<>>}, first : BOOLEAN, known : SUBSET Nat, lo : Nat, hi : Nat, dups : BOOLEAN]

\* What the client's narrow matches now.
Live == Matching(view.narrow, ok_to_include_history(view.narrow) /\ ~view.first)

\* What is known of the view reaches from lo to hi, once there is something.
ViewEnds ==
  /\ view.known = {} => view.lo = 0 /\ view.hi = 0
  /\ view.known # {} => /\ view.lo \in view.known /\ view.hi \in view.known
                        /\ \A x \in view.known : view.lo <= x /\ x <= view.hi

\* Known messages were committed.
KnownIsOld == view.known \subseteq 1..(next_id - 1) /\ view.known \cap DOMAIN started = {}

\* The inductive invariant of NoGap: neither what is known nor what is known with the page
\* under way has a gap or an overlap among the messages that nothing stirred.
GapInv ==
  /\ FetchInv /\ view \in ViewRecs /\ ViewEnds /\ KnownIsOld
  /\ Contiguous(view.known, Live \ stirred) /\ Contiguous(view.known \cup Found, Live \ stirred)
  /\ asked.earlier \cap asked.later = {} /\ ~view.dups

\* A set without a gap has none among fewer messages.
LEMMA FewerMatch ==
  ASSUME NEW S, NEW F, NEW G, Contiguous(S, F), G \subseteq F
  PROVE  Contiguous(S, G)
BY DEF Contiguous

\* A message that nothing changed matches as it did.
LEMMA MatchStays ==
  ASSUME NEW m, NEW n,
         \/ joined' = joined
         \/ \E p : /\ ~(m.to.kind = "stream" /\ p \in m.to.who)
                   /\ joined' \cup {p} = joined \cup {p}
  PROVE  InNarrow(m, n)' <=> InNarrow(m, n)
<1>1. Muted(m, <<>>)' <=> Muted(m, <<>>)
  BY DEF Muted
<1>2. ASSUME NEW t PROVE add_term(m, t)' <=> add_term(m, t)
  BY <1>1 DEF add_term, by_in
<1> QED
  BY <1>2 DEF InNarrow

\* A narrow of history stays one until the streams change.
LEMMA HistoryShrinks ==
  ASSUME NEW n, secret \subseteq secret', ok_to_include_history(n)'
  PROVE  ok_to_include_history(n)
BY DEF ok_to_include_history, is_public_stream, is_public

\* Changes whose messages are stirred open no gap.
LEMMA GapChange ==
  ASSUME GapInv, FetchInv', UNCHANGED <<view, asked>>, KnownIsOld',
         \A id \in (Live \ stirred)' : id \in Live \ stirred \/ \A x \in view.known \cup Found : x < id
  PROVE  GapInv'
<1>1. PICK L : L = (Live \ stirred)'
  OBVIOUS
<1>2. Found' = Found
  BY DEF Found
<1>3. view.known \cup Found \subseteq Int /\ L \subseteq Int
  <2>1. DOMAIN rows' \subseteq Int
    BY DEF FetchInv, FetchType
  <2>2. L \subseteq DOMAIN rows'
    BY <1>1 DEF Live, Matching
  <2> QED
    BY <2>1, <2>2 DEF GapInv, FetchInv, KnownIsOld, PageIsOld, FetchType
<1>4. Contiguous(view.known, L) /\ Contiguous(view.known \cup Found, L)
  BY <1>1, <1>3 DEF GapInv, Contiguous
<1>5. Contiguous(view.known, Live \ stirred)' /\ Contiguous(view.known \cup Found, Live \ stirred)'
  BY <1>1, <1>2, <1>4 DEF Contiguous
<1> QED
  BY <1>5 DEF GapInv, ViewEnds

\* What matches and was not stirred matched before.
LEMMA LiveStays ==
  ASSUME view'.narrow = view.narrow, view'.first = view.first, secret \subseteq secret', NEW id \in Live',
         id \in DOMAIN rows, rows'[id] = rows[id],
         \/ joined' = joined
         \/ \E p : /\ ~(rows[id].to.kind = "stream" /\ p \in rows[id].to.who)
                   /\ joined' \cup {p} = joined \cup {p}
  PROVE  id \in Live
<1>1. PICK n, f, m : n = view.narrow /\ f = view.first /\ m = rows[id]
  OBVIOUS
<1>2. n = view'.narrow /\ f = view'.first /\ m = rows'[id]
  BY <1>1
<1>3. ok_to_include_history(n)' => ok_to_include_history(n)
  BY HistoryShrinks
<1>4. InNarrow(m, n)' <=> InNarrow(m, n)
  BY <1>1, MatchStays
<1>5. ((ok_to_include_history(n)' /\ ~f) \/ m.received) /\ InNarrow(m, n)'
  BY <1>2 DEF Live, Matching
<1>6. ((ok_to_include_history(n) /\ ~f) \/ m.received) /\ InNarrow(m, n)
  BY <1>3, <1>4, <1>5
<1> QED
  BY <1>1, <1>6 DEF Live, Matching

\* A message that is being sent is in no page.
LEMMA GapStart ==
  ASSUME GapInv, NEW k \in Kinds, StartMessage(k)
  PROVE  GapInv'
<1>1. FetchInv'
  BY StartKeeps DEF GapInv
<1>u. UNCHANGED <<rows, view, asked, secret, joined, stirred>> /\ next_id' = next_id + 1
  BY DEF StartMessage
<1>2. KnownIsOld'
  <2>1. DOMAIN started' = DOMAIN started \cup {next_id}
    BY DEF StartMessage, With
  <2> QED
    BY <2>1, <1>u DEF GapInv, KnownIsOld, FetchInv, FetchType
<1>3. ASSUME NEW id \in (Live \ stirred)' PROVE id \in Live \ stirred
  <2>1. id \in DOMAIN rows
    BY <1>3, <1>u DEF Live, Matching
  <2> QED
    BY <1>3, <1>u, <2>1, LiveStays
<1> QED
  BY <1>1, <1>2, <1>3, <1>u, GapChange

\* A message committed with an id below the newest known one is stirred.
LEMMA GapCommit ==
  ASSUME GapInv, NEW id \in DOMAIN started, CommitMessage(id)
  PROVE  GapInv'
<1>1. FetchInv'
  BY CommitMessageKeeps DEF GapInv
<1>u. UNCHANGED <<next_id, view, asked, secret, joined>>
      /\ stirred' = IF \E other \in DOMAIN rows \cup view.known \cup Found : other > id THEN stirred \cup {id} ELSE stirred
  BY DEF CommitMessage
<1>r. DOMAIN rows' = DOMAIN rows \cup {id} /\ \A x \in DOMAIN rows \ {id} : rows'[x] = rows[x]
  BY DEF CommitMessage, With
<1>2. KnownIsOld'
  <2>1. DOMAIN started' = DOMAIN started \ {id}
    BY DEF CommitMessage
  <2> QED
    BY <2>1, <1>u DEF GapInv, KnownIsOld
<1>n. id \notin view.known \cup Found /\ id \in Int /\ view.known \cup Found \subseteq Int
  BY DEF GapInv, FetchInv, FetchType, KnownIsOld, PageIsOld
<1>3. ASSUME NEW x \in (Live \ stirred)' PROVE x \in Live \ stirred \/ \A y \in view.known \cup Found : y < x
  <2>1. x \in DOMAIN rows \cup {id}
    BY <1>3, <1>r DEF Live, Matching
  <2>2. CASE x = id
    <3>1. \A y \in view.known \cup Found : ~(y > id)
      BY <2>2, <1>3, <1>u
    <3>2. \A y \in view.known \cup Found : y < id
      BY <3>1, <1>n
    <3> QED
      BY <2>2, <3>2
  <2>3. CASE x # id
    <3>1. rows'[x] = rows[x] /\ x \in DOMAIN rows
      BY <2>1, <2>3, <1>r
    <3>2. x \in Live
      BY <3>1, <1>3, <1>u, LiveStays
    <3> QED
      BY <3>2, <1>3, <1>u
  <2> QED
    BY <2>2, <2>3
<1> QED
  BY <1>1, <1>2, <1>3, <1>u, GapChange

\* Edits, flags, deletions and subscriptions stir what they change.
LEMMA GapChanges ==
  ASSUME GapInv,
         \/ \E id \in DOMAIN rows, topic \in Topics : MoveMessage(id, topic)
         \/ \E id \in DOMAIN rows, flag \in {"read", "starred"} : FlagMessage(id, flag)
         \/ \E id \in DOMAIN rows : DeleteMessage(id)
         \/ \E p \in Places \ secret : MakeSecret(p)
         \/ \E p \in Places : SwitchSubscription(p)
  PROVE  GapInv'
<1>1. FetchInv'
  BY ChangesKeep DEF GapInv
<1>u. UNCHANGED <<started, next_id, view, asked>>
  BY DEF MoveMessage, FlagMessage, DeleteMessage, MakeSecret, SwitchSubscription, Changed
<1>2. KnownIsOld'
  BY <1>u DEF GapInv, KnownIsOld
<1>s. secret \subseteq secret' /\ stirred \subseteq stirred'
  BY DEF MoveMessage, FlagMessage, DeleteMessage, MakeSecret, SwitchSubscription
<1>3. ASSUME NEW x \in (Live \ stirred)' PROVE x \in Live \ stirred
  <2>0. x \in DOMAIN rows' /\ x \notin stirred'
    BY <1>3 DEF Live, Matching
  <2>1. \/ joined' = joined
        \/ \E p : /\ ~(rows[x].to.kind = "stream" /\ p \in rows[x].to.who)
                  /\ joined' \cup {p} = joined \cup {p}
    <3>1. ASSUME NEW p \in Places, SwitchSubscription(p) 
          PROVE  ~(rows[x].to.kind = "stream" /\ p \in rows[x].to.who) /\ joined' \cup {p} = joined \cup {p}
      BY <3>1, <2>0 DEF SwitchSubscription
    <3> QED
      BY <3>1 DEF MoveMessage, FlagMessage, DeleteMessage, MakeSecret
  <2>2. x \in DOMAIN rows /\ rows'[x] = rows[x]
    <3>1. ASSUME NEW id \in DOMAIN rows, NEW topic \in Topics, MoveMessage(id, topic)
          PROVE  x \in DOMAIN rows /\ rows'[x] = rows[x]
      BY <3>1, <2>0 DEF MoveMessage
    <3>2. ASSUME NEW id \in DOMAIN rows, NEW flag \in {"read", "starred"}, FlagMessage(id, flag)
          PROVE  x \in DOMAIN rows /\ rows'[x] = rows[x]
      BY <3>2, <2>0 DEF FlagMessage
    <3>3. ASSUME NEW id \in DOMAIN rows, DeleteMessage(id)
          PROVE  x \in DOMAIN rows /\ rows'[x] = rows[x]
      BY <3>3, <2>0 DEF DeleteMessage
    <3> QED
      BY <3>1, <3>2, <3>3, <2>0 DEF MakeSecret, SwitchSubscription
  <2>3. x \in Live
    BY <2>1, <2>2, <1>3, <1>s, <1>u, LiveStays
  <2> QED
    BY <2>3, <2>0, <1>s
<1> QED
  BY <1>1, <1>2, <1>3, <1>u, GapChange

\* Other narrows and pages, asked for or given up.
LEMMA GapOther ==
  ASSUME GapInv,
         \/ \E ids, narrow : messages_in_narrow_backend(ids, narrow)
         \/ \E id \in DOMAIN rows : json_fetch_raw_message(id)
  PROVE  GapInv'
<1>1. FetchInv'
  BY OtherRequestsKeep DEF GapInv
<1>u. UNCHANGED <<rows, started, next_id, secret, joined, view, asked, stirred>>
  BY DEF messages_in_narrow_backend, json_fetch_raw_message
<1>2. KnownIsOld'
  BY <1>u DEF GapInv, KnownIsOld
<1>3. ASSUME NEW id \in (Live \ stirred)' PROVE id \in Live \ stirred
  <2>1. id \in DOMAIN rows
    BY <1>3, <1>u DEF Live, Matching
  <2> QED
    BY <1>3, <1>u, <2>1, LiveStays
<1> QED
  BY <1>1, <1>2, <1>3, <1>u, GapChange

\* A page that continues what is known to one side.
UpTo(S, found, anchor) ==
  \A a \in S : a <= anchor /\ \A id \in found : a <= id /\ id <= anchor => id \in S
From(S, found, anchor) ==
  \A a \in S : anchor <= a /\ \A id \in found : anchor <= id /\ id <= a => id \in S

\* A page of older messages continues what is known downwards.
LEMMA OlderReaches ==
  ASSUME NEW n \in Nat, NEW found, found \subseteq 1..n, NEW anchor \in Nat, NEW before \in Nat \ {0}, NEW after, after = 0, NEW page,
         page = Around(found, anchor, before, after)
  PROVE  UpTo(page.earlier \cup page.later, found, anchor)
<1>0. PICK low, high : low = {id \in found : id <= anchor} /\ high = {id \in found : id >= anchor}
  OBVIOUS
<1>1. page.earlier = Largest(low, before)
      /\ page.later = IF anchor = LARGER_THAN_MAX_MESSAGE_ID THEN {} ELSE Smallest(high, 0)
  BY <1>0 DEF Around
<1>2. low \subseteq 1..n /\ high \subseteq 1..n
  BY <1>0
<1>3. page.later = {}
  BY <1>1, <1>2, SmallestNone
<1>4. page.earlier \subseteq low
  BY <1>1 DEF Largest
<1>5. ASSUME NEW a \in page.earlier, NEW id \in found, a <= id, id <= anchor PROVE id \in page.earlier
  <2>1. id \in low
    BY <1>0, <1>5
  <2>2. id \in 1..n /\ a \in 1..n
    BY <1>2, <1>4, <1>5
  <2> QED
    BY <2>1, <2>2, <1>1, <1>2, <1>5, LargestClosed
<1> QED
  BY <1>0, <1>3, <1>4, <1>5 DEF UpTo

\* A page of newer messages continues what is known upwards.
LEMMA NewerReaches ==
  ASSUME NEW n \in Nat, NEW found, found \subseteq 1..n, NEW anchor \in Nat, NEW before, before = 0, NEW after \in Nat \ {0}, NEW page,
         page = Around(found, anchor, before, after)
  PROVE  From(page.earlier \cup page.later, found, anchor)
<1>0. PICK low, high : low = {id \in found : id <= anchor - 1} /\ high = {id \in found : id >= anchor}
  OBVIOUS
<1>1. page.earlier = Largest(low, 0)
      /\ page.later = IF anchor = LARGER_THAN_MAX_MESSAGE_ID THEN {} ELSE Smallest(high, after)
  BY <1>0 DEF Around
<1>2. low \subseteq 1..n /\ high \subseteq 1..n
  BY <1>0
<1>3. page.earlier = {}
  BY <1>1, <1>2, LargestNone
<1>4. page.later \subseteq high
  BY <1>1 DEF Smallest
<1>5. ASSUME NEW a \in page.later, NEW id \in found, anchor <= id, id <= a PROVE id \in page.later
  <2>1. id \in high
    BY <1>0, <1>5
  <2>2. id \in 1..n /\ a \in 1..n
    BY <1>2, <1>4, <1>5
  <2> QED
    BY <2>1, <2>2, <1>1, <1>2, <1>5, SmallestClosed
<1> QED
  BY <1>0, <1>2, <1>3, <1>4, <1>5 DEF From

\* The answer joins the page to what is known.
LEMMA GapAnswer ==
  ASSUME GapInv, Answer
  PROVE  GapInv'
<1>1. FetchInv'
  BY AnswerKeeps DEF GapInv
<1>u. UNCHANGED <<rows, started, next_id, secret, joined, stirred>> /\ asked' = NoRequest
  BY DEF Answer
<1>f. Found' = {} /\ asked'.earlier \cap asked'.later = {}
  BY <1>u DEF Found, NoRequest
<1>t. view \in ViewRecs /\ next_id \in Nat \ {0}
  BY DEF GapInv, FetchInv, FetchType
<1>k. PICK known : known = view.known \cup Found
  OBVIOUS
<1>i. known \subseteq 1..(next_id - 1) /\ known \cap DOMAIN started = {}
  BY <1>k DEF GapInv, FetchInv, KnownIsOld, PageIsOld
<1>2. \/ view' = view
      \/ view' = [view EXCEPT !.known = known, !.dups = @ \/ asked.earlier \cap asked.later # {},
                              !.lo = IF known = {} THEN 0 ELSE CHOOSE x \in known : \A y \in known : x <= y,
                              !.hi = IF known = {} THEN 0 ELSE CHOOSE x \in known : \A y \in known : x >= y]
  BY <1>k DEF Answer
<1>3. view' \in ViewRecs /\ ViewEnds' /\ KnownIsOld' /\ ~view'.dups /\ view'.narrow = view.narrow /\ view'.first = view.first
      /\ view'.known \in {view.known, known}
  <2>1. CASE view' = view
    BY <2>1, <1>u DEF GapInv, ViewEnds, KnownIsOld
  <2>2. CASE view' # view
    <3>1. PICK lo, hi : /\ lo = IF known = {} THEN 0 ELSE CHOOSE x \in known : \A y \in known : x <= y
                        /\ hi = IF known = {} THEN 0 ELSE CHOOSE x \in known : \A y \in known : x >= y
      OBVIOUS
    <3>2. known # {} => lo \in known /\ hi \in known /\ \A x \in known : lo <= x /\ x <= hi
      <4> SUFFICES ASSUME known # {} PROVE lo \in known /\ hi \in known /\ \A x \in known : lo <= x /\ x <= hi
        OBVIOUS
      <4>0. next_id - 1 \in Nat /\ known \subseteq Nat /\ known \subseteq Int
        BY <1>i, <1>t
      <4>1. \E x \in known : \A y \in known : x <= y
        BY <4>0, LeastExists
      <4>2. \E x \in known : \A y \in known : x >= y
        BY <4>0, <1>i, GreatestExists
      <4>3. lo \in known /\ \A y \in known : lo <= y
        BY <3>1, <4>1
      <4>4. hi \in known /\ \A y \in known : hi >= y
        BY <3>1, <4>2
      <4> QED
        BY <4>0, <4>3, <4>4
    <3>3. known = {} => lo = 0 /\ hi = 0
      BY <3>1
    <3>4. lo \in Nat /\ hi \in Nat /\ known \in SUBSET Nat
      <4>1. known \subseteq Nat
        BY <1>i, <1>t
      <4>2. CASE known = {}
        BY <4>1, <4>2, <3>3
      <4>3. CASE known # {}
        BY <4>1, <4>3, <3>2
      <4> QED
        BY <4>2, <4>3
    <3>5. view' = [view EXCEPT !.known = known, !.dups = @ \/ asked.earlier \cap asked.later # {}, !.lo = lo, !.hi = hi]
      BY <2>2, <3>1, <1>2
    <3>6. view'.known = known /\ view'.lo = lo /\ view'.hi = hi /\ view'.narrow = view.narrow /\ view'.first = view.first
          /\ (view'.dups <=> (view.dups \/ asked.earlier \cap asked.later # {}))
      BY <3>5, <1>t DEF ViewRecs
    <3>7. view' \in ViewRecs
      BY <3>5, <3>4, <1>t DEF ViewRecs
    <3>8. ~view'.dups
      BY <3>6 DEF GapInv
    <3> QED
      BY <3>2, <3>3, <3>6, <3>7, <3>8, <1>i, <1>u DEF ViewEnds, KnownIsOld
  <2> QED
    BY <2>1, <2>2
<1>4. ASSUME NEW id \in (Live \ stirred)' PROVE id \in Live \ stirred
  <2>1. id \in DOMAIN rows
    BY <1>4, <1>u DEF Live, Matching
  <2> QED
    BY <1>3, <1>4, <1>u, <2>1, LiveStays
<1>5. Contiguous(view'.known, Live \ stirred)
  BY <1>3, <1>k DEF GapInv
<1>6. PICK L : L = (Live \ stirred)'
  OBVIOUS
<1>7. Contiguous(view'.known, L)
  BY <1>4, <1>5, <1>6, FewerMatch
<1>8. Contiguous(view.known, Live \ stirred)' /\ Contiguous(view.known \cup Found, Live \ stirred)'
  BY <1>6, <1>7, <1>f DEF Contiguous
<1> QED
  BY <1>1, <1>3, <1>8, <1>f DEF GapInv

\* The query of a page continues what is known.
LEMMA GapRequest ==
  ASSUME GapInv, NEW narrow \in Narrows \cup {<<>>}, NEW first \in BOOLEAN, NEW given \in Nat,
         NEW before \in Nat, NEW after \in Nat, get_messages_backend(narrow, first, given, before, after),
         \/ view.known = {}
         \/ narrow = view.narrow /\ ~first /\ \/ given = view.lo /\ before # 0 /\ after = 0
                                              \/ given = view.hi /\ before = 0 /\ after # 0
  PROVE  GapInv'
<1>1. FetchInv'
  BY FetchRequestKeeps DEF GapInv
<1>u. UNCHANGED <<rows, started, next_id, secret, joined, stirred>>
  BY DEF get_messages_backend
<1>t. view \in ViewRecs /\ next_id - 1 \in Nat /\ DOMAIN rows \subseteq 1..(next_id - 1)
  BY DEF GapInv, FetchInv, FetchType
<1>v. view' \in ViewRecs /\ view'.narrow = narrow /\ (view'.first <=> (view.first \/ first)) /\ view'.known = view.known
      /\ view'.lo = view.lo /\ view'.hi = view.hi /\ view'.dups = view.dups
  BY <1>t DEF get_messages_backend, ViewRecs
<1>0. PICK found : found = Matching(narrow, ok_to_include_history(narrow) /\ ~first)
  OBVIOUS
<1>a. PICK anchor : anchor = IF first THEN FirstUnread(narrow, found) ELSE given
  OBVIOUS
<1>b. PICK b, a : /\ b = IF after # 0 THEN before ELSE before + (IF narrow = <<>> THEN 1 ELSE 0)
                  /\ a = IF after # 0 THEN after + (IF narrow = <<>> THEN 1 ELSE 0) ELSE 0
  OBVIOUS
<1>c. b \in Nat /\ a \in Nat /\ (after = 0 => a = 0) /\ (after # 0 => a # 0 /\ b = before) /\ (before # 0 => b # 0)
  BY <1>b
<1>2. found \subseteq 1..(next_id - 1)
  BY <1>0, <1>t DEF Matching
<1>d. found \subseteq Nat /\ found \subseteq Int
  BY <1>2, <1>t
<1>3. anchor \in Nat
  <2>1. CASE ~first
    BY <2>1, <1>a
  <2>2. CASE first
    <3>1. PICK unread : unread = {id \in found : "read" \notin rows[id].flags /\ ~Muted(rows[id], narrow)}
      OBVIOUS
    <3>2. anchor = IF unread = {} THEN MaxId + 1 ELSE CHOOSE id \in unread : \A other \in unread : id <= other
      BY <2>2, <3>1, <1>a DEF FirstUnread, LARGER_THAN_MAX_MESSAGE_ID
    <3>3. unread \subseteq Nat
      BY <3>1, <1>d, Zenon
    <3>4. CASE unread = {}
      BY <3>2, <3>4, FetchConstants
    <3>5. CASE unread # {}
      <4>1. \E x \in unread : \A y \in unread : x <= y
        BY <3>3, <3>5, LeastExists
      <4>2. anchor \in unread
        BY <3>2, <3>5, <4>1
      <4> QED
        BY <4>2, <3>3
    <3> QED
      BY <3>4, <3>5
  <2> QED
    BY <2>1, <2>2
<1>4. PICK page : page = Around(found, anchor, b, a)
  OBVIOUS
<1>5. asked'.earlier = page.earlier /\ asked'.later = page.later
  BY <1>0, <1>a, <1>b, <1>4 DEF get_messages_backend
<1>6. /\ page.earlier \cap page.later = {} /\ Contiguous(page.earlier \cup page.later, found)
      /\ page.earlier \cup page.later \subseteq found
  BY <1>2, <1>3, <1>4, <1>c, <1>t, AroundContiguous
<1>7. Found' = page.earlier \cup page.later
  BY <1>5 DEF Found
<1>8. PICK L : L = (Live \ stirred)'
  OBVIOUS
<1>9. L \subseteq found
  <2> SUFFICES ASSUME NEW id \in Live' PROVE id \in found
    BY <1>8
  <2>1. PICK m : m = rows[id]
    OBVIOUS
  <2>2. InNarrow(m, narrow)' <=> InNarrow(m, narrow)
    BY <1>u, MatchStays
  <2>3. ok_to_include_history(narrow)' => ok_to_include_history(narrow)
    BY <1>u, HistoryShrinks
  <2>4. id \in DOMAIN rows /\ ((ok_to_include_history(narrow)' /\ ~view'.first) \/ m.received) /\ InNarrow(m, narrow)'
    BY <2>1, <1>v, <1>u DEF Live, Matching
  <2>5. id \in DOMAIN rows /\ ((ok_to_include_history(narrow) /\ ~first) \/ m.received) /\ InNarrow(m, narrow)
    BY <2>2, <2>3, <2>4, <1>v
  <2> QED
    BY <2>1, <2>5, <1>0 DEF Matching
<1>10. Contiguous(view.known, L) /\ Contiguous(view.known \cup Found', L)
  <2>1. CASE view.known = {}
    BY <2>1, <1>6, <1>7, <1>9 DEF Contiguous
  <2>2. CASE view.known # {}
    <3>0. narrow = view.narrow /\ ~first
      BY <2>2
    <3>1. L \subseteq Live \ stirred
      <4> SUFFICES ASSUME NEW id \in Live' PROVE id \in Live
        BY <1>8, <1>u
      <4>1. id \in DOMAIN rows
        BY <1>u DEF Live, Matching
      <4>2. view'.narrow = view.narrow /\ view'.first = view.first
        BY <3>0, <1>v, <1>t DEF ViewRecs
      <4> QED
        BY <4>1, <4>2, <1>u, LiveStays
    <3>2. Contiguous(view.known, L)
      BY <3>1, FewerMatch DEF GapInv
    <3>3. view.lo \in view.known /\ view.hi \in view.known /\ view.known \subseteq Int
          /\ \A x \in view.known : view.lo <= x /\ x <= view.hi
      BY <2>2, <1>t DEF GapInv, ViewEnds, KnownIsOld
    <3>4. anchor = given /\ Found' \subseteq Int /\ L \subseteq Int
      <4>1. anchor = given
        BY <3>0, <1>a
      <4>2. Found' \subseteq found
        BY <1>6, <1>7
      <4> QED
        BY <4>1, <4>2, <1>9, <1>d
    <3>5. CASE given = view.lo /\ before # 0 /\ after = 0
      <4>1. /\ \A x \in Found' : x <= view.lo
            /\ \A x \in Found' : \A id \in found : x <= id /\ id <= view.lo => id \in Found'
        <5>1. page = Around(found, anchor, b, a) /\ a = 0 /\ anchor = view.lo /\ b \in Nat \ {0}
          BY <3>4, <3>5, <1>3, <1>4, <1>c
        <5>3. PICK n \in Nat : n = next_id - 1
          BY <1>t
        <5>4. found \subseteq 1..n
          BY <5>3, <1>2
        <5>5. UpTo(page.earlier \cup page.later, found, anchor)
          BY <5>1, <5>4, <1>3, OlderReaches
        <5> QED
          BY <5>1, <5>5, <1>7 DEF UpTo
      <4>2. ASSUME NEW x \in view.known \cup Found', NEW y \in view.known \cup Found', NEW id \in L, x <= id, id <= y
            PROVE  id \in view.known \cup Found'
        <5>1. CASE id >= view.lo
          <6>1. CASE y \in view.known
            BY <5>1, <6>1, <4>2, <3>2, <3>3 DEF Contiguous
          <6>2. CASE y \in Found'
            BY <5>1, <6>2, <4>1, <4>2, <3>3, <3>4
          <6> QED
            BY <6>1, <6>2, <4>2
        <5>2. CASE id < view.lo
          <6>1. x \in Found'
            BY <5>2, <4>2, <3>3, <3>4
          <6> QED
            BY <5>2, <6>1, <4>1, <4>2, <3>3, <3>4, <1>9
        <5> QED
          BY <5>1, <5>2, <3>3, <3>4, <4>2
      <4> QED
        BY <4>2, <3>2 DEF Contiguous
    <3>6. CASE given = view.hi /\ before = 0 /\ after # 0
      <4>1. /\ \A x \in Found' : view.hi <= x
            /\ \A x \in Found' : \A id \in found : view.hi <= id /\ id <= x => id \in Found'
        <5>1. page = Around(found, anchor, b, a) /\ b = 0 /\ anchor = view.hi /\ a \in Nat \ {0}
          BY <3>4, <3>6, <1>3, <1>4, <1>c
        <5>3. PICK n \in Nat : n = next_id - 1
          BY <1>t
        <5>4. found \subseteq 1..n
          BY <5>3, <1>2
        <5>5. From(page.earlier \cup page.later, found, anchor)
          BY <5>1, <5>4, <1>3, NewerReaches
        <5> QED
          BY <5>1, <5>5, <1>7 DEF From
      <4>2. ASSUME NEW x \in view.known \cup Found', NEW y \in view.known \cup Found', NEW id \in L, x <= id, id <= y
            PROVE  id \in view.known \cup Found'
        <5>1. CASE id <= view.hi
          <6>1. CASE x \in view.known
            BY <5>1, <6>1, <4>2, <3>2, <3>3 DEF Contiguous
          <6>2. CASE x \in Found'
            BY <5>1, <6>2, <4>1, <4>2, <3>3, <3>4
          <6> QED
            BY <6>1, <6>2, <4>2
        <5>2. CASE id > view.hi
          <6>1. y \in Found'
            BY <5>2, <4>2, <3>3, <3>4
          <6> QED
            BY <5>2, <6>1, <4>1, <4>2, <3>3, <3>4, <1>9
        <5> QED
          BY <5>1, <5>2, <3>3, <3>4, <4>2
      <4> QED
        BY <4>2, <3>2 DEF Contiguous
    <3> QED
      BY <2>2, <3>5, <3>6
  <2> QED
    BY <2>1, <2>2
<1>11. Contiguous(view.known, Live \ stirred)' /\ Contiguous(view.known \cup Found, Live \ stirred)'
  BY <1>8, <1>10, <1>v DEF Contiguous
<1>12. ViewEnds' /\ KnownIsOld'
  BY <1>v, <1>u DEF GapInv, ViewEnds, KnownIsOld
<1> QED
  BY <1>1, <1>5, <1>6, <1>11, <1>12, <1>v DEF GapInv

\* The pages a reader scrolled through have no gap and no overlap among the messages that
\* nothing changed meanwhile: get_messages_backend's query before and after an anchor, with
\* messages committed out of the order of their ids.
THEOREM PagesLeaveNoGap == FetchSpec => []NoGap
<1>1. FetchInit => GapInv
  <2> SUFFICES ASSUME FetchInit PROVE GapInv
    OBVIOUS
  <2>1. FetchInv
    BY FetchStarts
  <2>2. view.known = {} /\ Found = {} /\ asked.earlier = {} /\ view.lo = 0 /\ view.hi = 0 /\ ~view.dups
    BY DEF FetchInit, NoView, NoRequest, Found
  <2>3. view \in ViewRecs
    BY DEF FetchInit, NoView, ViewRecs
  <2> QED
    BY <2>1, <2>2, <2>3 DEF GapInv, ViewEnds, KnownIsOld, Contiguous
<1>2. GapInv /\ [FetchNext]_fetchVars => GapInv'
  <2> SUFFICES ASSUME GapInv, [FetchNext]_fetchVars PROVE GapInv'
    OBVIOUS
  <2>v. view.narrow \in Narrows \cup {<<>>} /\ view.lo \in Nat /\ view.hi \in Nat /\ Page \in Nat \ {0}
    BY FetchConstants DEF GapInv, ViewRecs
  <2>1. ASSUME NEW narrow \in Narrows, NEW first \in BOOLEAN, NEW anchor \in 1..MaxId,
               OpenNarrow(narrow, first, IF first THEN 1 ELSE anchor)
        PROVE  GapInv'
    <3>1. (IF first THEN 1 ELSE anchor) \in Nat
      BY <2>1, FetchConstants
    <3> QED
      BY <2>1, <2>v, <3>1, GapRequest DEF OpenNarrow
  <2>2. CASE OlderPage
    BY <2>2, <2>v, GapRequest DEF OlderPage
  <2>3. CASE NewerPage
    BY <2>3, <2>v, GapRequest DEF NewerPage
  <2>4. CASE UNCHANGED fetchVars
    <3>1. FetchInv'
      BY <2>4 DEF fetchVars, GapInv, FetchInv, FetchType, GoodView, PageIsOld, PageVisible, Visible, Found, OnlyVisible
    <3>2. ASSUME NEW id \in (Live \ stirred)' PROVE id \in Live \ stirred
      <4>1. id \in DOMAIN rows
        BY <3>2, <2>4 DEF fetchVars, Live, Matching
      <4> QED
        BY <3>2, <2>4, <4>1, LiveStays DEF fetchVars
    <3> QED
      BY <2>4, <3>1, <3>2, GapChange DEF fetchVars, GapInv, KnownIsOld
  <2> QED
    BY <2>1, <2>2, <2>3, <2>4, GapAnswer, GapOther, GapStart, GapCommit, GapChanges DEF FetchNext
<1>3. GapInv => NoGap
  <2> SUFFICES ASSUME GapInv, NEW id \in Live, view.lo <= id, id <= view.hi PROVE id \in view.known \cup stirred
    BY DEF NoGap, GapInv, Live
  <2>1. id \in 1..(next_id - 1)
    BY DEF Live, Matching, GapInv, FetchInv, FetchType
  <2>2. view.known # {}
    BY <2>1 DEF GapInv, ViewEnds, FetchInv, FetchType
  <2> QED
    BY <2>2 DEF GapInv, ViewEnds, Contiguous
<1> QED
  BY <1>1, <1>2, <1>3, PTL DEF FetchSpec

-----------------------------------------------------------------------------
\* Attachments

\* What messages, edits and uploads are.
TitleSet == Titles \cup NewTitles
Histories == Seq([text : SUBSET SUBSET Paths, title : SUBSET TitleSet])
Versions == Seq([text : SUBSET Paths, title : TitleSet])
PostRecs == [sender : Members, to : {"stream", "pm"}, text : SUBSET Paths, title : TitleSet, got : SUBSET Members,
             history : Histories, claimed : SUBSET Paths, versions : Versions, mixed : BOOLEAN, moved : BOOLEAN]
EditRecs == [id : Nat, post : Nat, row : PostRecs, text : {{}} \cup {{x} : x \in SUBSET Paths}, title : {{}} \cup {{t} : t \in NewTitles}]

UploadRecs == [step : {"none", "allowed", "written"}, path : Paths \cup {0}]

\* The variables of Attachments.
AttachType ==
  /\ uploading \in [Members -> UploadRecs]
  /\ posts \in [DOMAIN posts -> PostRecs] /\ edits \subseteq EditRecs
  /\ made \in Nat /\ Rows \subseteq Paths

\* The ids of messages are given out in order, and no message is at two places.
IdsInOrder ==
  /\ \E k \in Nat : DOMAIN posts \cup DOMAIN archive.posts = 1..k
  /\ DOMAIN posts \cap DOMAIN archive.posts = {}

\* An upload under way has its path for itself.
UploadsApart ==
  /\ sweep \subseteq aged
  /\ \A u \in Members : uploading[u] # Idle =>
       /\ uploading[u].path \in Paths \ {0} /\ uploading[u].path \notin Rows \cup sweep
       /\ uploading[u].step = "written" => uploading[u].path \in files
       /\ \A v \in Members \ {u} : uploading[v].path # uploading[u].path

\* Pairs lead from rows to messages.
LinksLead == \A l \in links : l = <<l[1], l[2]>> /\ l[1] \in Rows /\ l[2] \in DOMAIN posts

\* A message has a pair with each file it claimed, unless edits overlapped or the file was spoiled.
Linked(m, row, pairs, gone) == ~row.mixed => \A p \in row.claimed \ gone : <<p, m>> \in pairs
ClaimsLinked == \A m \in DOMAIN posts : Linked(m, posts[m], links, spoiled)

\* So has an archived one, in the archive.
ArchiveLinked ==
  \A m \in DOMAIN archive.posts : ~archive.posts[m].mixed =>
    \A p \in archive.posts[m].claimed \ spoiled : p \in archive.paths /\ <<p, m>> \in archive.links

\* A row has its file.
RowsFiled == Rows \subseteq files

\* The versions of a message are what its history leads back to.
Chained(row) ==
  /\ Len(row.versions) = Len(row.history) + 1
  /\ row.versions[1] = [text |-> row.text, title |-> row.title]
  /\ \A i \in 1..Len(row.history) : row.versions[i + 1] = Undo(row.history[i], row.versions[i])

\* Every message of which no two edits overlapped is chained.
HistoriesChained == \A m \in DOMAIN posts : ~posts[m].mixed /\ ~posts[m].moved => Chained(posts[m])

\* The inductive invariant of FilesSurvive and HistoryTruthful.
AttachInv ==
  /\ AttachType /\ IdsInOrder /\ UploadsApart
  /\ RowsFiled /\ LinksLead /\ ClaimsLinked /\ ArchiveLinked /\ HistoriesChained

\* Nothing is there at the start.
LEMMA AttachStarts == AttachInit => AttachInv
<1> SUFFICES ASSUME AttachInit PROVE AttachInv
  OBVIOUS
<1>1. DOMAIN posts = {} /\ Rows = {} /\ DOMAIN archive.posts = {}
  BY DEF AttachInit, Rows
<1>2. AttachType
  <2>1. \A u \in Members : uploading[u] = Idle
    BY DEF AttachInit
  <2>2. Idle \in UploadRecs
    BY DEF Idle, UploadRecs
  <2>3. uploading \in [Members -> UploadRecs]
    BY <2>2 DEF AttachInit
  <2>4. posts \in [DOMAIN posts -> PostRecs]
    <3>1. posts = <<>>
      BY DEF AttachInit
    <3>2. <<>> = [x \in {} |-> 0]
      OBVIOUS
    <3> QED
      BY <3>1, <3>2, <1>1
  <2> QED
    BY <1>1, <2>3, <2>4 DEF AttachInit, AttachType
<1>3. IdsInOrder
  <2>1. {} = 1..0
    OBVIOUS
  <2> QED
    BY <1>1, <2>1 DEF IdsInOrder
<1> QED
  BY <1>1, <1>2, <1>3 DEF AttachInit, AttachInv, UploadsApart, RowsFiled, LinksLead, ClaimsLinked, ArchiveLinked, HistoriesChained

\* The steps of uploads, ages and the sweep's list leave messages, links and rows alone.
LEMMA UploadKeeps ==
  ASSUME AttachInv, UNCHANGED <<attachment, links, posts, edits, archive, made, spoiled>>,
         files \subseteq files', (uploading \in [Members -> UploadRecs])', UploadsApart'
  PROVE  AttachInv'
<1>1. /\ attachment' = attachment /\ links' = links /\ posts' = posts /\ edits' = edits /\ archive' = archive
      /\ made' = made /\ spoiled' = spoiled
  OBVIOUS
<1>2. Rows' = Rows
  BY <1>1 DEF Rows
<1>3. AttachType'
  BY <1>1, <1>2 DEF AttachInv, AttachType
<1>4. IdsInOrder' /\ LinksLead' /\ ClaimsLinked' /\ ArchiveLinked' /\ HistoriesChained'
  BY <1>1, <1>2 DEF AttachInv, IdsInOrder, LinksLead, ClaimsLinked, ArchiveLinked, HistoriesChained
<1>5. RowsFiled'
  BY <1>2 DEF AttachInv, RowsFiled
<1> QED
  BY <1>3, <1>4, <1>5 DEF AttachInv

\* The steps of an upload: its path is nobody else's until it has a row.
LEMMA UploadStep ==
  ASSUME AttachInv, NEW u \in Members,
         upload_file_backend(u) \/ upload_message_image(u) \/ create_attachment(u) \/ UploadDies(u)
  PROVE  AttachInv'
<1>1. uploading \in [Members -> UploadRecs] /\ UploadsApart /\ Idle \in UploadRecs
  BY DEF AttachInv, AttachType, Idle, UploadRecs
<1>2. PICK up \in UploadRecs : up = uploading[u]
  BY <1>1
<1>3. up.step \in {"none", "allowed", "written"} /\ up = [step |-> up.step, path |-> up.path]
  BY <1>2 DEF UploadRecs
<1>4. CASE upload_file_backend(u)
  <2>1. PICK p \in Paths \ (files \cup Rows \cup aged \cup spoiled \cup archive.paths \cup {uploading[v].path : v \in Members}) :
          uploading' = [uploading EXCEPT ![u] = [step |-> "allowed", path |-> p]]
    BY <1>4 DEF upload_file_backend
  <2>2. PICK new : new = [step |-> "allowed", path |-> p]
    OBVIOUS
  <2>3. new \in UploadRecs /\ new.step = "allowed" /\ new.path = p
    BY <2>2 DEF UploadRecs
  <2>4. uploading[u] = Idle /\ UNCHANGED <<files, attachment, aged, links, posts, edits, sweep, archive, made, spoiled>>
    BY <1>4 DEF upload_file_backend
  <2>5. p # 0
    <3>1. uploading[u].path = 0
      BY <2>4 DEF Idle
    <3> QED
      BY <2>1, <3>1
  <2>6. uploading' \in [Members -> UploadRecs] /\ uploading' = [uploading EXCEPT ![u] = new]
    BY <2>1, <2>2, <2>3, <1>1
  <2>7. UploadsApart'
    <3>1. Rows' = Rows /\ sweep' = sweep /\ aged' = aged /\ files' = files
      BY <2>4 DEF Rows
    <3>2. \A v \in Members : uploading[v].path # p
      BY <2>1
    <3>3. p \notin Rows \cup sweep
      BY <2>1, <1>1 DEF UploadsApart
    <3>4. uploading'[u] = new /\ \A v \in Members \ {u} : uploading'[v] = uploading[v]
      BY <2>6, <1>1
    <3> QED
      BY <3>1, <3>2, <3>3, <3>4, <2>1, <2>3, <2>5, <1>1 DEF UploadsApart
  <2> QED
    BY <2>4, <2>6, <2>7, UploadKeeps
<1>5. CASE upload_message_image(u)
  <2>1. /\ up.step = "allowed" /\ files' = files \cup {up.path} /\ uploading' = [uploading EXCEPT ![u].step = "written"]
        /\ UNCHANGED <<attachment, aged, links, posts, edits, sweep, archive, made, spoiled>>
    BY <1>5, <1>2 DEF upload_message_image
  <2>2. PICK new : new = [up EXCEPT !.step = "written"]
    OBVIOUS
  <2>3. new \in UploadRecs /\ new.step = "written" /\ new.path = up.path
    BY <2>2, <1>2 DEF UploadRecs
  <2>4. uploading' = [uploading EXCEPT ![u] = new]
    BY <2>1, <2>2, <1>2
  <2>5. uploading'[u] = new /\ \A v \in Members \ {u} : uploading'[v] = uploading[v]
    BY <2>4, <1>1
  <2>6. uploading' \in [Members -> UploadRecs]
    BY <2>3, <2>4, <1>1
  <2>7. Rows' = Rows /\ sweep' = sweep /\ aged' = aged
    BY <2>1 DEF Rows
  <2>8. uploading[u] # Idle
    BY <2>1, <1>2 DEF Idle
  <2>9. UploadsApart'
    BY <2>1, <2>3, <2>5, <2>7, <2>8, <1>1, <1>2 DEF UploadsApart
  <2> QED
    BY <2>1, <2>6, <2>9, UploadKeeps
<1>6. CASE UploadDies(u)
  <2>1. /\ uploading' = [uploading EXCEPT ![u] = Idle] /\ aged \subseteq aged'
        /\ UNCHANGED <<files, attachment, links, posts, edits, sweep, archive, made, spoiled>>
    BY <1>6 DEF UploadDies
  <2>2. uploading'[u] = Idle /\ \A v \in Members \ {u} : uploading'[v] = uploading[v]
    BY <2>1, <1>1
  <2>3. Rows' = Rows /\ sweep' = sweep
    BY <2>1 DEF Rows
  <2>4. Idle.path = 0
    BY DEF Idle
  <2>5. UploadsApart'
    BY <2>1, <2>2, <2>3, <2>4, <1>1 DEF UploadsApart
  <2>6. uploading' \in [Members -> UploadRecs]
    BY <2>1, <1>1
  <2> QED
    BY <2>1, <2>5, <2>6, UploadKeeps
<1>7. CASE create_attachment(u)
  <2>1. PICK p : p = up.path
    OBVIOUS
  <2>2. /\ up.step = "written" /\ attachment' = Put(attachment, p, [owner |-> u, public |-> FALSE])
        /\ uploading' = [uploading EXCEPT ![u] = Idle]
        /\ UNCHANGED <<files, aged, links, posts, edits, sweep, archive, made, spoiled>>
    BY <1>7, <1>2, <2>1 DEF create_attachment
  <2>3. Rows' = Rows \cup {p}
    BY <2>2 DEF Rows, Put
  <2>4. uploading[u] # Idle
    BY <2>2, <1>2 DEF Idle
  <2>5. /\ p \in Paths /\ p \notin Rows /\ p \notin sweep /\ p \in files
        /\ \A v \in Members \ {u} : uploading[v].path # p
    BY <2>1, <2>2, <2>4, <1>1, <1>2 DEF UploadsApart
  <2>6. uploading'[u] = Idle /\ \A v \in Members \ {u} : uploading'[v] = uploading[v]
    BY <2>2, <1>1
  <2>7. Idle.path = 0
    BY DEF Idle
  <2>8. /\ links' = links /\ posts' = posts /\ edits' = edits /\ archive' = archive /\ files' = files /\ sweep' = sweep /\ aged' = aged
        /\ made' = made /\ spoiled' = spoiled
    BY <2>2
  <2>9. UploadsApart'
    BY <2>3, <2>5, <2>6, <2>7, <2>8, <1>1 DEF UploadsApart
  <2>10. AttachType'
    <3>1. uploading' \in [Members -> UploadRecs]
      BY <2>2, <1>1
    <3> QED
      BY <3>1, <2>3, <2>5, <2>8 DEF AttachInv, AttachType
  <2>11. IdsInOrder' /\ LinksLead' /\ ClaimsLinked' /\ ArchiveLinked' /\ RowsFiled' /\ HistoriesChained'
    BY <2>3, <2>5, <2>8 DEF AttachInv, IdsInOrder, LinksLead, ClaimsLinked, ArchiveLinked, RowsFiled, HistoriesChained
  <2> QED
    BY <2>9, <2>10, <2>11 DEF AttachInv
<1> QED
  BY <1>4, <1>5, <1>6, <1>7

\* A week passes, or the sweep makes its list.
LEMMA AgesKeeps ==
  ASSUME AttachInv, (\E p \in Rows \ aged : Ages(p)) \/ get_old_unclaimed_attachments
  PROVE  AttachInv'
<1>1. /\ UNCHANGED <<attachment, links, posts, edits, archive, made, spoiled>> /\ files' = files /\ uploading' = uploading
      /\ aged \subseteq aged'
  BY DEF Ages, get_old_unclaimed_attachments
<1>2. sweep' = sweep \/ sweep' \subseteq Rows \cap aged
  BY DEF Ages, get_old_unclaimed_attachments
<1>3. Rows' = Rows
  BY <1>1 DEF Rows
<1>4. UploadsApart'
  BY <1>1, <1>2, <1>3 DEF AttachInv, UploadsApart
<1>5. (uploading \in [Members -> UploadRecs])'
  BY <1>1 DEF AttachInv, AttachType
<1> QED
  BY <1>1, <1>4, <1>5, UploadKeeps

\* A file goes, by its owner or by the sweep.
LEMMA RemovalKeeps ==
  ASSUME AttachInv, NEW p, p \in Rows \cup sweep,
         files' = files \ {p}, attachment' = Drop(attachment, {p}), links' = {l \in links : l[1] # p},
         spoiled \subseteq spoiled', LinkedIn(links, p) # {} => p \in spoiled',
         UNCHANGED <<aged, posts, uploading, edits, archive, made>>, sweep' \subseteq sweep
  PROVE  AttachInv'
<1>1. Rows' = Rows \ {p}
  BY DEF Rows, Drop
<1>2. aged' = aged /\ posts' = posts /\ uploading' = uploading /\ edits' = edits /\ archive' = archive /\ made' = made
  OBVIOUS
<1>3. AttachType'
  BY <1>1, <1>2 DEF AttachInv, AttachType
<1>4. IdsInOrder'
  BY <1>2 DEF AttachInv, IdsInOrder
<1>5. UploadsApart'
  BY <1>1, <1>2 DEF AttachInv, UploadsApart
<1>6. LinksLead' /\ RowsFiled'
  BY <1>1, <1>2 DEF AttachInv, LinksLead, RowsFiled
<1>7. ClaimsLinked'
  <2> SUFFICES ASSUME NEW m \in DOMAIN posts, ~posts[m].mixed, NEW q \in posts[m].claimed \ spoiled' PROVE <<q, m>> \in links'
    BY <1>2 DEF ClaimsLinked, Linked
  <2>1. <<q, m>> \in links
    BY DEF AttachInv, ClaimsLinked, Linked
  <2>2. q # p
    <3> SUFFICES ASSUME q = p PROVE FALSE
      OBVIOUS
    <3>1. m \in LinkedIn(links, p)
      BY <2>1 DEF LinkedIn
    <3> QED
      BY <3>1
  <2> QED
    BY <2>1, <2>2
<1>8. ArchiveLinked' /\ HistoriesChained'
  BY <1>2 DEF AttachInv, ArchiveLinked, HistoriesChained
<1> QED
  BY <1>3, <1>4, <1>5, <1>6, <1>7, <1>8 DEF AttachInv


\* What a claim claims has a row, and rows neither come nor go.
LEMMA ClaimRight ==
  ASSUME NEW m, NEW sender, NEW to, NEW text
  PROVE  /\ do_claim_attachments(m, sender, to, text).paths \subseteq text \cap Rows
         /\ DOMAIN do_claim_attachments(m, sender, to, text).rows = Rows
         /\ do_claim_attachments(m, sender, to, text).links = {<<p, m>> : p \in do_claim_attachments(m, sender, to, text).paths}
<1>1. PICK claimed : claimed = {p \in text : validate_attachment_request(sender, p)}
  OBVIOUS
<1>2. PICK claimedRows : claimedRows = [p \in Rows |-> IF p \in claimed /\ to = "stream" THEN [attachment[p] EXCEPT !.public = TRUE] ELSE attachment[p]]
  OBVIOUS
<1>3. PICK pairs : pairs = {<<p, m>> : p \in claimed}
  OBVIOUS
<1>4. do_claim_attachments(m, sender, to, text) = [paths |-> claimed, rows |-> claimedRows, links |-> pairs]
  BY <1>1, <1>2, <1>3, Zenon DEF do_claim_attachments
<1>5. /\ do_claim_attachments(m, sender, to, text).paths = claimed
      /\ do_claim_attachments(m, sender, to, text).rows = claimedRows
      /\ do_claim_attachments(m, sender, to, text).links = pairs
  BY <1>4
<1>6. claimed \subseteq text \cap Rows
  BY <1>1 DEF validate_attachment_request
<1>7. DOMAIN claimedRows = Rows
  BY <1>2
<1> QED
  BY <1>3, <1>5, <1>6, <1>7

\* The id of the next message is nobody's.
LEMMA NextIdFree ==
  ASSUME IdsInOrder, NEW m, m = Cardinality(DOMAIN posts) + Cardinality(DOMAIN archive.posts) + 1
  PROVE  /\ m \in Nat /\ m \notin DOMAIN posts /\ m \notin DOMAIN archive.posts
         /\ \E k \in Nat : DOMAIN posts \cup {m} \cup DOMAIN archive.posts = 1..k
<1>1. PICK k \in Nat : DOMAIN posts \cup DOMAIN archive.posts = 1..k
  BY DEF IdsInOrder
<1>2. PICK A, B : A = DOMAIN posts /\ B = DOMAIN archive.posts
  OBVIOUS
<1>3. A \cup B = 1..k /\ A \cap B = {}
  BY <1>1, <1>2 DEF IdsInOrder
<1>4. IsFiniteSet(1..k) /\ Cardinality(1..k) = k
  BY FS_Interval
<1>5. IsFiniteSet(A) /\ IsFiniteSet(B)
  BY <1>3, <1>4, FS_Subset
<1>6. Cardinality(A \cup B) = Cardinality(A) + Cardinality(B) - Cardinality(A \cap B)
  BY <1>5, FS_Union
<1>7. Cardinality(A \cap B) = 0
  BY <1>3, FS_EmptySet
<1>8. Cardinality(A) \in Nat /\ Cardinality(B) \in Nat
  BY <1>5, FS_CardinalityType
<1>9. m = k + 1
  <2>1. m = Cardinality(A) + Cardinality(B) + 1
    BY <1>2
  <2>2. Cardinality(A \cup B) = k
    BY <1>3, <1>4
  <2> QED
    BY <2>1, <2>2, <1>6, <1>7, <1>8
<1>10. A \cup {m} \cup B = 1..(k + 1)
  BY <1>3, <1>9
<1> QED
  BY <1>2, <1>3, <1>9, <1>10

\* A new message has pairs with all it claimed.
LEMMA PostKeeps ==
  ASSUME AttachInv, NEW u \in Circle, NEW to \in {"stream", "pm"}, NEW text \in SUBSET Paths, do_send_post(u, to, text)
  PROVE  AttachInv'
<1>1. PICK m : m = Cardinality(DOMAIN posts) + Cardinality(DOMAIN archive.posts) + 1
  OBVIOUS
<1>2. PICK title : title = CHOOSE t \in Titles : TRUE
  OBVIOUS
<1>3. PICK claim : claim = do_claim_attachments(m, u, to, text)
  OBVIOUS
<1>4. PICK row : row = [sender |-> u, to |-> to, text |-> text, title |-> title, got |-> Circle, history |-> <<>>,
                        claimed |-> claim.paths, versions |-> <<[text |-> text, title |-> title]>>,
                        mixed |-> FALSE, moved |-> FALSE]
  OBVIOUS
<1>5. /\ posts' = Put(posts, m, row) /\ attachment' = claim.rows /\ links' = links \cup claim.links
      /\ UNCHANGED <<files, aged, uploading, edits, sweep, archive, made, spoiled>>
  BY <1>1, <1>2, <1>3, <1>4, Zenon DEF do_send_post
<1>6. /\ files' = files /\ aged' = aged /\ uploading' = uploading /\ edits' = edits /\ sweep' = sweep
      /\ archive' = archive /\ made' = made /\ spoiled' = spoiled
  BY <1>5
<1>7. /\ claim.paths \subseteq text \cap Rows /\ DOMAIN claim.rows = Rows
      /\ claim.links = {<<p, m>> : p \in claim.paths}
  BY <1>3, ClaimRight
<1>8. /\ m \in Nat /\ m \notin DOMAIN posts /\ m \notin DOMAIN archive.posts
      /\ \E k \in Nat : DOMAIN posts \cup {m} \cup DOMAIN archive.posts = 1..k
  BY <1>1, NextIdFree DEF AttachInv
<1>9. Rows' = Rows
  BY <1>5, <1>7 DEF Rows
<1>10. DOMAIN posts' = DOMAIN posts \cup {m} /\ posts'[m] = row /\ \A n \in DOMAIN posts : posts'[n] = posts[n]
  BY <1>5, <1>8 DEF Put
<1>11. row \in PostRecs /\ row.claimed = claim.paths
  <2>1. title \in TitleSet
    BY <1>2, AttachmentConstants DEF TitleSet
  <2>2. <<>> \in Histories
    BY DEF Histories
  <2>3. <<[text |-> text, title |-> title]>> \in Versions
    BY <2>1 DEF Versions
  <2>4. u \in Members /\ Circle \subseteq Members /\ claim.paths \subseteq Paths
    BY <1>7, AttachmentConstants
  <2> QED
    BY <2>1, <2>2, <2>3, <2>4, <1>4 DEF PostRecs
<1>12. AttachType'
  <2>1. posts' = [n \in DOMAIN posts \cup {m} |-> IF n = m THEN row ELSE posts[n]]
    BY <1>5 DEF Put
  <2>2. posts' \in [DOMAIN posts' -> PostRecs]
    BY <2>1, <1>10, <1>11 DEF AttachInv, AttachType
  <2> QED
    BY <2>2, <1>6, <1>9 DEF AttachInv, AttachType
<1>13. IdsInOrder'
  BY <1>6, <1>8, <1>10 DEF AttachInv, IdsInOrder
<1>14. UploadsApart' /\ RowsFiled'
  BY <1>6, <1>9 DEF AttachInv, UploadsApart, RowsFiled
<1>15. LinksLead'
  <2>1. \A l \in claim.links : l = <<l[1], l[2]>> /\ l[1] \in Rows /\ l[2] = m
    BY <1>7
  <2> QED
    BY <2>1, <1>5, <1>9, <1>10 DEF AttachInv, LinksLead
<1>16. ClaimsLinked'
  <2>1. Linked(m, row, links', spoiled')
    BY <1>5, <1>7, <1>11 DEF Linked
  <2>2. \A n \in DOMAIN posts : Linked(n, posts[n], links', spoiled')
    BY <1>5, <1>6 DEF AttachInv, ClaimsLinked, Linked
  <2> QED
    BY <2>1, <2>2, <1>10 DEF ClaimsLinked
<1>17. ArchiveLinked'
  BY <1>6 DEF AttachInv, ArchiveLinked
<1>18. HistoriesChained'
  <2>1. PICK first : first = [text |-> text, title |-> title]
    OBVIOUS
  <2>2. row.history = <<>> /\ row.versions = <<first>> /\ row.text = text /\ row.title = title
    BY <1>4, <2>1
  <2>3. Len(row.history) = 0 /\ Len(row.versions) = 1 /\ row.versions[1] = first
    BY <2>2
  <2>4. Chained(row)
    BY <2>1, <2>2, <2>3 DEF Chained
  <2> QED
    BY <2>4, <1>10 DEF AttachInv, HistoriesChained
<1> QED
  BY <1>12, <1>13, <1>14, <1>15, <1>16, <1>17, <1>18 DEF AttachInv

\* An edit loads its message.
LEMMA EditBegins ==
  ASSUME AttachInv, NEW m \in DOMAIN posts, NEW text \in {{}} \cup {{x} : x \in SUBSET Paths},
         NEW title \in {{}} \cup {{t} : t \in NewTitles}, update_message_backend(m, text, title)
  PROVE  AttachInv'
<1>1. PICK e : e = [id |-> made, post |-> m, row |-> posts[m], text |-> text, title |-> title]
  OBVIOUS
<1>2. /\ edits' = edits \cup {e} /\ made' = made + 1
      /\ UNCHANGED <<files, attachment, aged, links, posts, uploading, sweep, archive, spoiled>>
  BY <1>1 DEF update_message_backend
<1>3. /\ files' = files /\ attachment' = attachment /\ aged' = aged /\ links' = links /\ posts' = posts
      /\ uploading' = uploading /\ sweep' = sweep /\ archive' = archive /\ spoiled' = spoiled
  BY <1>2
<1>4. m \in Nat /\ posts[m] \in PostRecs /\ made \in Nat
  <2>1. PICK k \in Nat : DOMAIN posts \cup DOMAIN archive.posts = 1..k
    BY DEF AttachInv, IdsInOrder
  <2> QED
    BY <2>1 DEF AttachInv, AttachType
<1>5. e \in EditRecs
  BY <1>1, <1>4 DEF EditRecs
<1>6. Rows' = Rows
  BY <1>3 DEF Rows
<1>7. AttachType'
  BY <1>2, <1>3, <1>4, <1>5, <1>6 DEF AttachInv, AttachType
<1> QED
  BY <1>3, <1>6, <1>7 DEF AttachInv, IdsInOrder, UploadsApart, RowsFiled, LinksLead, ClaimsLinked, ArchiveLinked, HistoriesChained

\* A deleted message takes its pairs along, and no row that another message has.
LEMMA DeletionKeeps ==
  ASSUME AttachInv, NEW m \in DOMAIN posts, delete_message_backend(m)
  PROVE  AttachInv'
<1>1. PICK mine : mine = {p \in Rows : <<p, m>> \in links}
  OBVIOUS
<1>2. PICK left : left = {l \in links : l[2] # m}
  OBVIOUS
<1>3. PICK pairs : pairs = archive.links \cup {<<p, m>> : p \in mine}
  OBVIOUS
<1>4. PICK kept : kept = Drop(attachment, {p \in Rows : LinkedIn(left, p) = {} /\ <<p, m>> \in pairs})
  OBVIOUS
<1>5. PICK filed : filed = [posts |-> Put(archive.posts, m, Archived(posts[m])), paths |-> archive.paths \cup mine, links |-> pairs]
  OBVIOUS
<1>6. PICK moved : moved = move_message_to_archive(m)
  OBVIOUS
<1>7. moved = [archive |-> filed, links |-> left, rows |-> kept]
  BY <1>1, <1>2, <1>3, <1>4, <1>5, <1>6, Zenon DEF move_message_to_archive
<1>8. moved.archive = filed /\ moved.links = left /\ moved.rows = kept
  BY <1>7
<1>9. /\ archive' = filed /\ links' = left /\ attachment' = kept /\ posts' = Drop(posts, {m})
      /\ UNCHANGED <<files, aged, uploading, edits, sweep, made, spoiled>>
  BY <1>6, <1>8 DEF delete_message_backend
<1>10. /\ files' = files /\ aged' = aged /\ uploading' = uploading /\ edits' = edits /\ sweep' = sweep
       /\ made' = made /\ spoiled' = spoiled
  BY <1>9
<1>11. Rows' = Rows \ {p \in Rows : LinkedIn(left, p) = {} /\ <<p, m>> \in pairs}
  BY <1>4, <1>9 DEF Rows, Drop
<1>12. DOMAIN posts' = DOMAIN posts \ {m} /\ \A n \in DOMAIN posts \ {m} : posts'[n] = posts[n]
  BY <1>9 DEF Drop
<1>13. /\ archive'.posts = Put(archive.posts, m, Archived(posts[m])) /\ archive'.paths = archive.paths \cup mine
       /\ archive'.links = pairs
  BY <1>5, <1>9
<1>14. m \notin DOMAIN archive.posts
  BY DEF AttachInv, IdsInOrder
<1>15. /\ DOMAIN archive'.posts = DOMAIN archive.posts \cup {m}
       /\ \A n \in DOMAIN archive.posts : archive'.posts[n] = archive.posts[n]
       /\ archive'.posts[m] = Archived(posts[m])
  BY <1>13, <1>14 DEF Put
<1>16. AttachType'
  <2>1. posts' = [n \in DOMAIN posts \ {m} |-> posts[n]]
    BY <1>9 DEF Drop
  <2>2. posts' \in [DOMAIN posts' -> PostRecs]
    BY <2>1, <1>12 DEF AttachInv, AttachType
  <2> QED
    BY <2>2, <1>10, <1>11 DEF AttachInv, AttachType
<1>17. IdsInOrder'
  <2>1. DOMAIN posts' \cup DOMAIN archive'.posts = DOMAIN posts \cup DOMAIN archive.posts
    BY <1>12, <1>15
  <2>2. DOMAIN posts' \cap DOMAIN archive'.posts = {}
    BY <1>12, <1>15 DEF AttachInv, IdsInOrder
  <2> QED
    BY <2>1, <2>2 DEF AttachInv, IdsInOrder
<1>18. UploadsApart' /\ RowsFiled'
  BY <1>10, <1>11 DEF AttachInv, UploadsApart, RowsFiled
<1>19. LinksLead'
  <2> SUFFICES ASSUME NEW l \in left PROVE l = <<l[1], l[2]>> /\ l[1] \in Rows' /\ l[2] \in DOMAIN posts'
    BY <1>9 DEF LinksLead
  <2>1. l \in links /\ l[2] # m /\ l = <<l[1], l[2]>> /\ l[1] \in Rows /\ l[2] \in DOMAIN posts
    BY <1>2 DEF AttachInv, LinksLead
  <2>2. l[2] \in LinkedIn(left, l[1])
    BY DEF LinkedIn
  <2> QED
    BY <2>1, <2>2, <1>11, <1>12
<1>20. ClaimsLinked'
  <2> SUFFICES ASSUME NEW n \in DOMAIN posts \ {m}, ~posts[n].mixed, NEW q \in posts[n].claimed \ spoiled PROVE <<q, n>> \in left
    BY <1>9, <1>10, <1>12 DEF ClaimsLinked, Linked
  <2>1. <<q, n>> \in links
    BY DEF AttachInv, ClaimsLinked, Linked
  <2> QED
    BY <2>1, <1>2
<1>21. ArchiveLinked'
  <2>1. ASSUME NEW n \in DOMAIN archive.posts, ~archive.posts[n].mixed, NEW q \in archive.posts[n].claimed \ spoiled
        PROVE  q \in archive'.paths /\ <<q, n>> \in archive'.links
    BY <2>1, <1>3, <1>13 DEF AttachInv, ArchiveLinked
  <2>2. ASSUME ~posts[m].mixed, NEW q \in posts[m].claimed \ spoiled
        PROVE  q \in archive'.paths /\ <<q, m>> \in archive'.links
    <3>1. <<q, m>> \in links
      BY <2>2 DEF AttachInv, ClaimsLinked, Linked
    <3>2. q \in Rows
      BY <3>1 DEF AttachInv, LinksLead
    <3> QED
      BY <3>1, <3>2, <1>1, <1>3, <1>13
  <2>3. archive'.posts[m].mixed = posts[m].mixed /\ archive'.posts[m].claimed = posts[m].claimed
    BY <1>15 DEF Archived
  <2> QED
    BY <2>1, <2>2, <2>3, <1>10, <1>15 DEF ArchiveLinked
<1>22. HistoriesChained'
  BY <1>12 DEF AttachInv, HistoriesChained
<1> QED
  BY <1>16, <1>17, <1>18, <1>19, <1>20, <1>21, <1>22 DEF AttachInv


\* How the files of a message change with its text.
LEMMA ReferenceChangeRight ==
  ASSUME NEW m, NEW row, NEW text, NEW change, change = check_attachment_reference_change(m, row, text)
  PROVE  /\ DOMAIN change.rows = Rows
         /\ change.paths \subseteq (row.claimed \cap text) \cup (text \cap Rows)
         /\ \A l \in change.links : l \in links \/ \E p \in Rows : l = <<p, m>>
         /\ \A l \in links : l \in change.links \/ \E p \in row.text \ text : l = <<p, m>>
         /\ \A p \in change.paths : (p \in row.claimed => <<p, m>> \in links) => <<p, m>> \in change.links
<1>1. PICK kept : kept = links \ {<<p, m>> : p \in row.text \ text}
  OBVIOUS
<1>2. PICK claim : claim = do_claim_attachments(m, row.sender, row.to, text)
  OBVIOUS
<1>3. /\ claim.paths \subseteq text \cap Rows /\ DOMAIN claim.rows = Rows
      /\ claim.links = {<<p, m>> : p \in claim.paths}
  BY <1>2, ClaimRight
<1>4. CASE text \ row.text = {}
  <2>1. change = [paths |-> row.claimed \cap text, rows |-> attachment, links |-> kept]
    BY <1>1, <1>4 DEF check_attachment_reference_change
  <2>2. change.paths = row.claimed \cap text /\ change.rows = attachment /\ change.links = kept
    BY <2>1
  <2>3. DOMAIN change.rows = Rows
    BY <2>2 DEF Rows
  <2> QED
    BY <1>1, <2>2, <2>3
<1>5. CASE text \ row.text # {}
  <2>1. change = [paths |-> (row.claimed \cap text) \cup claim.paths, rows |-> claim.rows, links |-> kept \cup claim.links]
    BY <1>1, <1>2, <1>5 DEF check_attachment_reference_change
  <2>2. /\ change.paths = (row.claimed \cap text) \cup claim.paths /\ change.rows = claim.rows
        /\ change.links = kept \cup claim.links
    BY <2>1
  <2> QED
    BY <1>1, <1>3, <2>2
<1> QED
  BY <1>4, <1>5

\* An edit of the newest row adds one version and the entry that leads back from it.
LEMMA ChainGrows ==
  ASSUME NEW row \in PostRecs, NEW saved \in PostRecs, NEW text, NEW title, Chained(row),
         text = {} => saved.text = row.text, title = {} => saved.title = row.title,
         saved.history = edit_history_event(row, text, title),
         saved.versions = <<[text |-> saved.text, title |-> saved.title]>> \o row.versions
  PROVE  Chained(saved)
<1>1. PICK entry : entry = [text |-> IF text = {} THEN {} ELSE {row.text}, title |-> IF title = {} THEN {} ELSE {row.title}]
  OBVIOUS
<1>2. PICK first : first = [text |-> saved.text, title |-> saved.title]
  OBVIOUS
<1>3. saved.history = <<entry>> \o row.history /\ saved.versions = <<first>> \o row.versions
  BY <1>1, <1>2 DEF edit_history_event
<1>4. PICK hist, vers, n : hist = row.history /\ vers = row.versions /\ n = Len(row.history)
  OBVIOUS
<1>5. hist \in Seq([text : SUBSET SUBSET Paths, title : SUBSET TitleSet]) /\ vers \in Seq([text : SUBSET Paths, title : TitleSet])
  BY <1>4 DEF PostRecs, Histories, Versions
<1>6. n = Len(hist) /\ n \in Nat /\ Len(vers) = n + 1
  BY <1>4, <1>5 DEF Chained
<1>7. /\ Len(saved.history) = n + 1 /\ saved.history[1] = entry
      /\ \A i \in 1..n : saved.history[i + 1] = hist[i]
  BY <1>3, <1>4, <1>5, <1>6
<1>8. /\ Len(saved.versions) = n + 2 /\ saved.versions[1] = first
      /\ \A i \in 1..n + 1 : saved.versions[i + 1] = vers[i]
  BY <1>3, <1>4, <1>5, <1>6
<1>9. vers[1] = Undo(entry, first)
  <2>1. vers[1] = [text |-> row.text, title |-> row.title]
    BY <1>4 DEF Chained
  <2>2. (CHOOSE x \in {row.text} : TRUE) = row.text /\ (CHOOSE x \in {row.title} : TRUE) = row.title
    OBVIOUS
  <2>3. first.text = saved.text /\ first.title = saved.title
    BY <1>2
  <2>4. /\ entry.text = IF text = {} THEN {} ELSE {row.text}
        /\ entry.title = IF title = {} THEN {} ELSE {row.title}
    BY <1>1
  <2> QED
    BY <2>1, <2>2, <2>3, <2>4 DEF Undo
<1>10. ASSUME NEW i \in 1..n + 1 PROVE saved.versions[i + 1] = Undo(saved.history[i], saved.versions[i])
  <2>1. CASE i = 1
    BY <2>1, <1>6, <1>7, <1>8, <1>9
  <2>2. CASE i # 1
    <3>1. PICK j \in 1..n : i = j + 1
      BY <2>2, <1>6
    <3>2. vers[j + 1] = Undo(hist[j], vers[j])
      BY <1>4, <3>1 DEF Chained
    <3>3. saved.versions[i + 1] = vers[j + 1] /\ saved.history[i] = hist[j] /\ saved.versions[i] = vers[j]
      BY <3>1, <1>6, <1>7, <1>8
    <3> QED
      BY <3>2, <3>3
  <2> QED
    BY <2>1, <2>2
<1> QED
  BY <1>2, <1>6, <1>7, <1>8, <1>10 DEF Chained

\* An edit that loaded what is there now leaves the message linked and chained; any other
\* marks it mixed.
LEMMA EditKeeps ==
  ASSUME AttachInv, NEW e \in edits, NEW everywhere \in BOOLEAN, do_update_message(e, everywhere)
  PROVE  AttachInv'
<1>1. PICK row : row = e.row
  OBVIOUS
<1>2. PICK text : text = IF e.text = {} THEN row.text ELSE CHOOSE x \in e.text : TRUE
  OBVIOUS
<1>3. PICK title : title = IF e.title = {} THEN row.title ELSE CHOOSE x \in e.title : TRUE
  OBVIOUS
<1>4. PICK change : change = IF e.text = {} THEN [paths |-> row.claimed, rows |-> attachment, links |-> links]
                             ELSE check_attachment_reference_change(e.post, row, text)
  OBVIOUS
<1>5. PICK mixed \in BOOLEAN : mixed = (posts[e.post].mixed \/ posts[e.post] # row)
  OBVIOUS
<1>6. PICK saved : saved = [row EXCEPT !.text = text, !.title = title, !.history = edit_history_event(row, e.text, e.title),
                           !.claimed = change.paths,
                           !.versions = <<[text |-> text, title |-> title]>> \o posts[e.post].versions,
                           !.mixed = posts[e.post].mixed \/ posts[e.post] # row, !.moved = posts[e.post].moved]
  OBVIOUS
<1> DEFINE Follows(m) == everywhere /\ e.title # {} /\ posts[m].title = row.title /\ posts[m].to = row.to
<1>7. /\ files' = files /\ aged' = aged /\ uploading' = uploading /\ edits' = edits \ {e} /\ sweep' = sweep
      /\ archive' = archive /\ made' = made /\ spoiled' = spoiled
  BY DEF do_update_message
<1>8. e \in EditRecs /\ posts \in [DOMAIN posts -> PostRecs]
  BY DEF AttachInv, AttachType
<1>9. CASE e.post \notin DOMAIN posts
  <2>1. posts' = posts /\ attachment' = attachment /\ links' = links
    BY <1>9 DEF do_update_message
  <2>2. Rows' = Rows
    BY <2>1 DEF Rows
  <2>3. AttachType'
    BY <1>7, <2>1, <2>2 DEF AttachInv, AttachType
  <2> QED
    BY <1>7, <2>1, <2>2, <2>3 DEF AttachInv, IdsInOrder, UploadsApart, RowsFiled, LinksLead, ClaimsLinked, ArchiveLinked, HistoriesChained
<1>10. CASE e.post \in DOMAIN posts
  <2>1. PICK m \in DOMAIN posts : m = e.post
    BY <1>10
  <2>2. PICK now \in PostRecs : now = posts[m]
    BY <1>8
  <2>3. /\ posts' = [n \in DOMAIN posts |->
                        IF n = m THEN saved
                        ELSE IF Follows(n) THEN [posts[n] EXCEPT !.title = title, !.moved = TRUE] ELSE posts[n]]
        /\ attachment' = change.rows /\ links' = change.links
    BY <1>1, <1>2, <1>3, <1>4, <1>6, <1>10, <2>1, Zenon DEF do_update_message
  <2>4. row \in PostRecs /\ e.text \in {{}} \cup {{x} : x \in SUBSET Paths} /\ e.title \in {{}} \cup {{t} : t \in NewTitles}
    BY <1>1, <1>8 DEF EditRecs
  <2>5. text \in SUBSET Paths
    BY <1>2, <2>4 DEF PostRecs
  <2>6. title \in TitleSet
    BY <1>3, <2>4 DEF PostRecs, TitleSet
  <2>7. /\ DOMAIN change.rows = Rows /\ change.paths \subseteq Paths
        /\ \A l \in change.links : l \in links \/ \E p \in Rows : l = <<p, m>>
        /\ \A l \in links : l \in change.links \/ \E p : l = <<p, m>>
        /\ \A p \in change.paths : (p \in row.claimed => <<p, m>> \in links) => <<p, m>> \in change.links
    <3>1. CASE e.text = {}
      <4>1. change = [paths |-> row.claimed, rows |-> attachment, links |-> links]
        BY <1>4, <3>1
      <4>2. change.paths = row.claimed /\ change.rows = attachment /\ change.links = links
        BY <4>1
      <4>3. row.claimed \subseteq Paths
        BY <2>4 DEF PostRecs
      <4> QED
        BY <4>2, <4>3 DEF Rows
    <3>2. CASE e.text # {}
      <4>1. change = check_attachment_reference_change(m, row, text)
        BY <1>4, <2>1, <3>2
      <4>2. Rows \subseteq Paths
        BY DEF AttachInv, AttachType
      <4> QED
        BY <4>1, <4>2, <2>5, ReferenceChangeRight
    <3> QED
      BY <3>1, <3>2
  <2>8. Rows' = Rows
    BY <2>3, <2>7 DEF Rows
  <2>9. /\ saved \in PostRecs /\ saved.claimed = change.paths /\ saved.mixed = mixed /\ saved.moved = now.moved
        /\ saved.text = text /\ saved.title = title /\ saved.history = edit_history_event(row, e.text, e.title)
        /\ saved.versions = <<[text |-> text, title |-> title]>> \o now.versions
        /\ text = IF e.text = {} THEN row.text ELSE text
        /\ title = IF e.title = {} THEN row.title ELSE title
    <3>1. PICK history : history = edit_history_event(row, e.text, e.title)
      OBVIOUS
    <3>2. PICK versions : versions = <<[text |-> text, title |-> title]>> \o now.versions
      OBVIOUS
    <3>3. history \in Histories
      <4>1. row.history \in Histories /\ row.text \in SUBSET Paths /\ row.title \in TitleSet
        BY <2>4 DEF PostRecs
      <4>2. PICK oldText, oldTitle : /\ oldText = IF e.text = {} THEN {} ELSE {row.text}
                                     /\ oldTitle = IF e.title = {} THEN {} ELSE {row.title}
        OBVIOUS
      <4>3. history = <<[text |-> oldText, title |-> oldTitle]>> \o row.history
        BY <3>1, <4>2 DEF edit_history_event
      <4>4. oldText \in SUBSET SUBSET Paths /\ oldTitle \in SUBSET TitleSet
        BY <4>1, <4>2
      <4>5. [text |-> oldText, title |-> oldTitle] \in [text : SUBSET SUBSET Paths, title : SUBSET TitleSet]
        BY <4>4
      <4> QED
        BY <4>1, <4>3, <4>5 DEF Histories
    <3>4. versions \in Versions
      <4>1. now.versions \in Versions
        BY <2>2 DEF PostRecs
      <4>2. [text |-> text, title |-> title] \in [text : SUBSET Paths, title : TitleSet]
        BY <2>5, <2>6
      <4> QED
        BY <3>2, <4>1, <4>2 DEF Versions
    <3>5. now.moved \in BOOLEAN
      BY <2>2 DEF PostRecs
    <3>6. PICK moved \in BOOLEAN : moved = now.moved
      BY <3>5
    <3>7. saved = [row EXCEPT !.text = text, !.title = title, !.history = history, !.claimed = change.paths,
                              !.versions = versions, !.mixed = mixed, !.moved = moved]
      BY <1>5, <1>6, <2>1, <2>2, <3>1, <3>2, <3>6, Zenon
    <3>8. /\ saved \in PostRecs /\ saved.claimed = change.paths /\ saved.mixed = mixed /\ saved.moved = moved
          /\ saved.text = text /\ saved.title = title /\ saved.history = history /\ saved.versions = versions
      BY <3>3, <3>4, <3>7, <2>4, <2>5, <2>6, <2>7 DEF PostRecs
    <3> QED
      BY <3>1, <3>2, <3>6, <3>8, <1>2, <1>3
  <2>10. \A n \in DOMAIN posts \ {m} :
           /\ posts'[n] \in PostRecs /\ posts'[n].claimed = posts[n].claimed /\ posts'[n].mixed = posts[n].mixed
    <3> SUFFICES ASSUME NEW n \in DOMAIN posts \ {m}
                 PROVE  posts'[n] \in PostRecs /\ posts'[n].claimed = posts[n].claimed /\ posts'[n].mixed = posts[n].mixed
      OBVIOUS
    <3>1. PICK old \in PostRecs : old = posts[n]
      BY <1>8
    <3>2. PICK new : new = [old EXCEPT !.title = title, !.moved = TRUE]
      OBVIOUS
    <3>3. new \in PostRecs /\ new.claimed = old.claimed /\ new.mixed = old.mixed
      BY <3>1, <3>2, <2>6 DEF PostRecs
    <3>4. posts'[n] = new \/ posts'[n] = old
      BY <3>1, <3>2, <2>3
    <3> QED
      BY <3>1, <3>3, <3>4
  <2>11. DOMAIN posts' = DOMAIN posts /\ posts'[m] = saved
    BY <2>3
  <2>12. posts' \in [DOMAIN posts' -> PostRecs]
    <3>1. \A n \in DOMAIN posts : posts'[n] \in PostRecs
      BY <2>9, <2>10, <2>11
    <3> HIDE DEF Follows
    <3> QED
      BY <3>1, <2>3, <2>11
  <2>13. AttachType'
    BY <2>8, <2>12, <1>7 DEF AttachInv, AttachType
  <2>14. IdsInOrder' /\ UploadsApart' /\ RowsFiled' /\ ArchiveLinked'
    BY <2>8, <2>11, <1>7 DEF AttachInv, IdsInOrder, UploadsApart, RowsFiled, ArchiveLinked
  <2>15. LinksLead'
    <3> SUFFICES ASSUME NEW l \in change.links PROVE l = <<l[1], l[2]>> /\ l[1] \in Rows /\ l[2] \in DOMAIN posts
      BY <2>3, <2>8, <2>11 DEF LinksLead
    <3>1. CASE l \in links
      BY <3>1 DEF AttachInv, LinksLead
    <3>2. CASE \E p \in Rows : l = <<p, m>>
      BY <3>2
    <3> QED
      BY <3>1, <3>2, <2>7
  <2>16. ClaimsLinked'
    <3>1. Linked(m, saved, links', spoiled')
      <4> SUFFICES ASSUME ~saved.mixed, NEW p \in saved.claimed \ spoiled PROVE <<p, m>> \in links'
        BY <1>7 DEF Linked
      <4>1. ~posts[m].mixed /\ posts[m] = row
        BY <2>1, <2>9, <1>5, Zenon
      <4>2. p \in row.claimed => <<p, m>> \in links
        BY <4>1 DEF AttachInv, ClaimsLinked, Linked
      <4> QED
        BY <4>2, <2>3, <2>7, <2>9
    <3>2. \A n \in DOMAIN posts \ {m} : Linked(n, posts'[n], links', spoiled')
      <4> SUFFICES ASSUME NEW n \in DOMAIN posts \ {m}, ~posts'[n].mixed, NEW p \in posts'[n].claimed \ spoiled PROVE <<p, n>> \in links'
        BY <1>7 DEF Linked
      <4>1. <<p, n>> \in links
        BY <2>10 DEF AttachInv, ClaimsLinked, Linked
      <4> QED
        BY <4>1, <2>3, <2>7
    <3> QED
      BY <3>1, <3>2, <2>11 DEF ClaimsLinked
  <2>17. HistoriesChained'
    <3>1. ASSUME ~saved.mixed, ~saved.moved PROVE Chained(saved)
      <4>1. ~posts[m].mixed /\ posts[m] = row
        BY <3>1, <2>1, <2>9, <1>5, Zenon
      <4>2. ~row.moved /\ ~row.mixed
        BY <3>1, <4>1, <2>2, <2>9
      <4>3. Chained(row)
        BY <4>1, <4>2 DEF AttachInv, HistoriesChained
      <4>4. now = row
        BY <4>1, <2>2
      <4> QED
        BY <4>3, <4>4, <2>4, <2>9, ChainGrows
    <3>2. \A n \in DOMAIN posts \ {m} : ~posts'[n].moved => posts'[n] = posts[n]
      <4> SUFFICES ASSUME NEW n \in DOMAIN posts \ {m}, posts'[n] # posts[n] PROVE posts'[n].moved
        OBVIOUS
      <4>1. PICK old \in PostRecs : old = posts[n]
        BY <1>8
      <4>2. PICK new : new = [old EXCEPT !.title = title, !.moved = TRUE]
        OBVIOUS
      <4>3. new.moved
        BY <4>1, <4>2 DEF PostRecs
      <4>4. posts'[n] = new
        BY <4>1, <4>2, <2>3
      <4> QED
        BY <4>3, <4>4
    <3> QED
      BY <3>1, <3>2, <2>11 DEF AttachInv, HistoriesChained
  <2> QED
    BY <2>13, <2>14, <2>15, <2>16, <2>17 DEF AttachInv
<1> QED
  BY <1>9, <1>10

\* Every step of Attachments keeps the invariant.
LEMMA AttachStep == AttachInv /\ [AttachNext]_attachVars => AttachInv'
<1> SUFFICES ASSUME AttachInv, [AttachNext]_attachVars PROVE AttachInv'
  OBVIOUS
<1>1. CASE \E u \in Members : upload_file_backend(u) \/ upload_message_image(u) \/ create_attachment(u) \/ UploadDies(u)
  BY <1>1, UploadStep
<1>2. CASE \E u \in Circle, to \in {"stream", "pm"}, text \in SUBSET Paths : do_send_post(u, to, text)
  BY <1>2, PostKeeps
<1>3. CASE \E m \in DOMAIN posts \cap Edited, text \in {{}} \cup {{x} : x \in SUBSET Paths}, title \in {{}} \cup {{t} : t \in NewTitles} :
             update_message_backend(m, text, title)
  BY <1>3, EditBegins
<1>4. CASE \E e \in edits, everywhere \in BOOLEAN : do_update_message(e, everywhere)
  BY <1>4, EditKeeps
<1>5. CASE \E m \in DOMAIN posts : delete_message_backend(m)
  BY <1>5, DeletionKeeps
<1>6. CASE \E p \in Rows : remove_attachment(p)
  <2>1. PICK p \in Rows : remove_attachment(p)
    BY <1>6
  <2> QED
    BY <2>1, RemovalKeeps DEF remove_attachment
<1>7. CASE (\E p \in Rows \ aged : Ages(p)) \/ get_old_unclaimed_attachments
  BY <1>7, AgesKeeps
<1>8. CASE \E p \in sweep : do_delete_old_unclaimed_attachments(p)
  <2>1. PICK p \in sweep : do_delete_old_unclaimed_attachments(p)
    BY <1>8
  <2> QED
    BY <2>1, RemovalKeeps DEF do_delete_old_unclaimed_attachments
<1>9. CASE UNCHANGED attachVars
  <2>1. /\ files' = files /\ attachment' = attachment /\ aged' = aged /\ links' = links /\ posts' = posts /\ edits' = edits
        /\ uploading' = uploading /\ sweep' = sweep /\ archive' = archive /\ made' = made /\ spoiled' = spoiled
    BY <1>9 DEF attachVars
  <2>2. Rows' = Rows
    BY <2>1 DEF Rows
  <2> QED
    BY <2>1, <2>2 DEF AttachInv, AttachType, IdsInOrder, UploadsApart, RowsFiled, LinksLead, ClaimsLinked, ArchiveLinked, HistoriesChained
<1> QED
  BY <1>1, <1>2, <1>3, <1>4, <1>5, <1>6, <1>7, <1>8, <1>9 DEF AttachNext

\* The invariant is what the property needs.
LEMMA AttachInvSuffices == AttachInv => FilesSurvive
<1> SUFFICES ASSUME AttachInv PROVE FilesSurvive
  OBVIOUS
<1>1. FilesReadable
  <2> SUFFICES ASSUME NEW m \in DOMAIN posts, ~posts[m].mixed, NEW p \in posts[m].claimed \ spoiled, NEW u \in posts[m].got
               PROVE  serve_file_backend(u, p)
    BY DEF FilesReadable
  <2>1. <<p, m>> \in links
    BY DEF AttachInv, ClaimsLinked, Linked
  <2>2. p \in Rows
    BY <2>1 DEF AttachInv, LinksLead
  <2>3. p \in files
    BY <2>2 DEF AttachInv, RowsFiled
  <2>4. m \in LinkedIn(links, p)
    BY <2>1 DEF LinkedIn
  <2> QED
    BY <2>2, <2>3, <2>4 DEF serve_file_backend, validate_attachment_request
<1>2. ArchiveWhole
  BY DEF AttachInv, IdsInOrder, LinksLead, ArchiveLinked, ArchiveWhole
<1> QED
  BY <1>1, <1>2 DEF FilesSurvive

\* Who received a message can open the files its sender claimed, and the archive of a deleted
\* message is whole, whatever uploads, edits, deletions and the sweep do to other messages with
\* the same file: do_claim_attachments, check_attachment_reference_change,
\* move_message_to_archive and do_delete_old_unclaimed_attachments together.
THEOREM FilesDoSurvive == AttachSpec => []FilesSurvive
<1>1. AttachSpec => []AttachInv
  BY AttachStarts, AttachStep, PTL DEF AttachSpec
<1> QED
  BY <1>1, AttachInvSuffices, PTL

\* fill_edit_history_entries rebuilds the versions of a chained message: the versions satisfy
\* its recursion, and by induction nothing else does.
LEMMA RebuildsAll ==
  ASSUME NEW row \in PostRecs, Chained(row)
  PROVE  fill_edit_history_entries(row) = row.versions
<1> DEFINE n == Len(row.history)
           Rebuilt(f) == [i \in 0..n |-> IF i = 0 THEN [text |-> row.text, title |-> row.title] ELSE Undo(row.history[i], f[i - 1])]
           was == CHOOSE f : f = Rebuilt(f)
           seen == [i \in 0..n |-> row.versions[i + 1]]
<1>1. fill_edit_history_entries(row) = [i \in 1..n + 1 |-> was[i - 1]]
  BY Zenon DEF fill_edit_history_entries
<1>2. n \in Nat /\ row.versions \in Seq([text : SUBSET Paths, title : TitleSet]) /\ Len(row.versions) = n + 1
  <2>1. row.history \in Histories /\ row.versions \in Versions
    BY DEF PostRecs
  <2> QED
    BY <2>1 DEF Histories, Versions, Chained
<1>3. seen = Rebuilt(seen)
  <2>1. \A i \in 1..n : seen[i] = Undo(row.history[i], seen[i - 1])
    BY <1>2 DEF Chained
  <2>2. seen[0] = [text |-> row.text, title |-> row.title]
    BY <1>2 DEF Chained
  <2>3. \A i \in 0..n : i = 0 \/ i \in 1..n
    BY <1>2
  <2> QED
    BY <2>1, <2>2, <2>3
<1>4. was = Rebuilt(was)
  BY <1>3, Zenon
<1>5. was[0] = [text |-> row.text, title |-> row.title] /\ \A i \in 1..n : was[i] = Undo(row.history[i], was[i - 1])
  <2> HIDE DEF was
  <2>1. PICK k \in Nat : k = n
    BY <1>2
  <2>2. PICK history, now : history = row.history /\ now = [text |-> row.text, title |-> row.title]
    OBVIOUS
  <2>3. was = [i \in 0..k |-> IF i = 0 THEN now ELSE Undo(history[i], was[i - 1])]
    BY <1>4, <2>1, <2>2
  <2>4. was[0] = now /\ \A i \in 1..k : was[i] = Undo(history[i], was[i - 1])
    BY <2>3
  <2> QED
    BY <2>1, <2>2, <2>4
<1>6. \A i \in 0..n : was[i] = seen[i]
  <2> HIDE DEF was
  <2>0. PICK T : T = {i \in 0..n : was[i] # seen[i]}
    OBVIOUS
  <2> SUFFICES ASSUME T # {} PROVE FALSE
    BY <2>0
  <2>1. PICK i \in T : \A j \in T : i <= j
    <3>1. T \subseteq Nat
      BY <2>0, <1>2
    <3> QED
      BY <3>1, LeastExists
  <2>2. i \in 0..n /\ was[i] # seen[i]
    BY <2>0, <2>1
  <2>3. i # 0
    BY <2>2, <1>5, <1>2 DEF Chained
  <2>4. i - 1 \in 0..n /\ i - 1 \notin T /\ i \in 1..n
    BY <2>1, <2>2, <2>3, <1>2
  <2>5. was[i - 1] = seen[i - 1]
    BY <2>0, <2>4
  <2>6. seen[i] = Undo(row.history[i], seen[i - 1])
    BY <2>4, <1>2 DEF Chained
  <2> QED
    BY <2>2, <2>4, <2>5, <2>6, <1>5
<1>7. \A i \in 1..n + 1 : was[i - 1] = row.versions[i]
  <2> HIDE DEF was
  <2> TAKE i \in 1..n + 1
  <2>1. i - 1 \in 0..n /\ i - 1 + 1 = i
    BY <1>2
  <2>2. was[i - 1] = seen[i - 1]
    BY <2>1, <1>6
  <2> QED
    BY <2>1, <2>2
<1>8. row.versions = [i \in 1..n + 1 |-> row.versions[i]]
  BY <1>2
<1> HIDE DEF was
<1> QED
  BY <1>1, <1>7, <1>8

\* The history rebuilds what the message was, however many edits it had: do_update_message
\* and fill_edit_history_entries agree unless edits overlapped or the topic came from another.
THEOREM HistoriesAreTruthful == AttachSpec => []HistoryTruthful
<1>1. AttachSpec => []AttachInv
  BY AttachStarts, AttachStep, PTL DEF AttachSpec
<1>2. AttachInv => HistoryTruthful
  <2> SUFFICES ASSUME AttachInv, NEW m \in DOMAIN posts, ~posts[m].mixed, ~posts[m].moved
               PROVE  fill_edit_history_entries(posts[m]) = posts[m].versions
    BY DEF HistoryTruthful
  <2>1. posts[m] \in PostRecs /\ Chained(posts[m])
    BY DEF AttachInv, AttachType, HistoriesChained
  <2> QED
    BY <2>1, RebuildsAll
<1> QED
  BY <1>1, <1>2, PTL

-----------------------------------------------------------------------------
\* Rendering

\* What rows, cached dictionaries and the jobs of workers are.
Names == UNION {Mentioning[x] : x \in Wordings}
Threads == Seq(SUBSET Names)
RowRecs == [content : Wordings, html : Wordings, version : Nat, mentioned : SUBSET Names]
Shown == [shows : Wordings \cup {"nothing"}, reacted : BOOLEAN]
Kept == {"dict", "cache", "commit"}
Made == {"render", "rendering", "rendered"}
JobRecs == [kind : {"none", "edit", "react", "fetch"},
            step : {"idle", "react", "save"} \cup Kept \cup Made,
            row : RowRecs \cup {<<>>}, text : Wordings, found : SUBSET Names, form : Forms,
            reacted : BOOLEAN, stale : SUBSET {"row", "reactions"}]

\* The variables of Rendering.
RenderType ==
  /\ message \in RowRecs /\ reacted \in BOOLEAN /\ dicts \in [Forms -> Shown]
  /\ bugdown \in Nat /\ lock \in Workers \cup {"none"}
  /\ job \in [Workers -> JobRecs] /\ threads \in [Workers -> Threads]
  /\ survived \in BOOLEAN

\* Which steps a job of each kind goes through, and that an edit has the row locked from its save on.
Routes(w) ==
  /\ job[w].step # "idle" => job[w].row \in RowRecs /\ job[w].kind # "none"
  /\ job[w].step \in {"save", "commit"} => job[w].kind = "edit"
  /\ job[w].step = "rendered" => job[w].kind # "edit"
  /\ job[w].step = "react" => job[w].kind = "react"
  /\ lock = w <=> job[w].kind = "edit" /\ job[w].step \in Kept

\* What an edit that holds the lock has cached and will commit.
Holds(w) ==
  lock = w =>
    /\ job[w].row.version = bugdown /\ job[w].row.html = job[w].row.content
    /\ ~survived => job[w].row.mentioned = Mentioning[job[w].row.content]
    /\ \A form \in Forms \ stained :
         \/ dicts[form] = NotCached
         \/ job[w].step = "commit" /\ dicts[form] = build_message_dict(job[w].row, form, reacted)

\* What a reader or a reaction has read is the row of now, unless it is marked stale.
Reads(w) ==
  /\ job[w].kind \in {"react", "fetch"} /\ "row" \notin job[w].stale =>
       /\ job[w].row.content = message.content
       /\ "html" \notin stained => job[w].row.html = message.html
  /\ job[w].kind \in {"react", "fetch"} /\ job[w].step \in Made => job[w].text = job[w].row.content
  /\ \/ job[w].step = "cache"
     \/ job[w].kind # "edit" /\ job[w].step \in Made
     => ("reactions" \notin job[w].stale => job[w].reacted = reacted)

\* The thread of a rendering finds the mentions of its text, unless a thread outlived its timeout.
Renders(w) ==
  ~survived =>
    /\ job[w].step # "rendering" => threads[w] = <<>>
    /\ job[w].step = "rendering" =>
         \E rest \in SUBSET Names :
           /\ threads[w] = <<rest>>
           /\ job[w].found \cup rest = Mentioning[job[w].text]
    /\ job[w].step = "save" => job[w].found = Mentioning[job[w].text]

\* The inductive invariant of ShownAsStored.
RenderInv ==
  /\ RenderType /\ ShownAsStored
  /\ \A w \in Workers : Routes(w) /\ Holds(w) /\ Reads(w) /\ Renders(w)

\* The part of the invariant about one worker.
RInv(w) == Routes(w) /\ Holds(w) /\ Reads(w) /\ Renders(w)

\* The message is stored and nothing is cached.
LEMMA RenderStarts == RenderInit => RenderInv
<1> SUFFICES ASSUME RenderInit PROVE RenderInv
  OBVIOUS
<1>m. \A x \in Wordings : Mentioning[x] \in SUBSET Names
  BY DEF Names
<1>f. FirstWording \in Wordings /\ "none" \notin Workers
  BY RenderingConstants
<1>n. NoJob \in JobRecs
  BY <1>f DEF NoJob, JobRecs, Forms
<1>d. NotCached \in Shown
  BY DEF NotCached, Shown
<1>r. message \in RowRecs
  BY <1>m, <1>f DEF RenderInit, RowRecs
<1>s. <<>> \in Threads
  BY DEF Threads
<1>1. RenderType
  BY <1>n, <1>d, <1>r, <1>s DEF RenderInit, RenderType
<1>2. ShownAsStored
  BY DEF RenderInit, ShownAsStored, Forms
<1>3. ASSUME NEW w \in Workers PROVE Routes(w) /\ Holds(w) /\ Reads(w) /\ Renders(w)
  BY <1>f DEF RenderInit, NoJob, Routes, Holds, Reads, Renders, Kept, Made
<1> QED
  BY <1>1, <1>2, <1>3 DEF RenderInv

\* A step that changes only the job of its worker.
LEMMA LocalStep ==
  ASSUME RenderInv, NEW w \in Workers, NEW j \in JobRecs, job' = [job EXCEPT ![w] = j],
         NEW t \in Threads, threads' = [threads EXCEPT ![w] = t],
         UNCHANGED <<message, reacted, dicts, bugdown, lock, stained>>,
         survived' \in BOOLEAN, survived => survived',
         Routes(w)', Holds(w)', Reads(w)', Renders(w)'
  PROVE  RenderInv'
<1>1. RenderType'
  BY DEF RenderInv, RenderType
<1>2. ShownAsStored'
  BY DEF RenderInv, ShownAsStored, build_message_dict
<1>3. ASSUME NEW v \in Workers PROVE (Routes(v) /\ Holds(v) /\ Reads(v) /\ Renders(v))'
  <2>1. CASE v = w
    BY <2>1
  <2>2. CASE v # w
    <3>0. job'[v] = job[v] /\ threads'[v] = threads[v] /\ RInv(v)
      BY <2>2 DEF RenderInv, RenderType, RInv
    <3>1. Routes(v)'
      BY <3>0 DEF RInv, Routes
    <3>2. Holds(v)'
      BY <3>0 DEF RInv, Holds, build_message_dict
    <3>3. Reads(v)'
      BY <3>0 DEF RInv, Reads
    <3>4. Renders(v)'
      BY <3>0 DEF RInv, Renders
    <3> QED
      BY <3>1, <3>2, <3>3, <3>4
  <2> QED
    BY <2>1, <2>2
<1> QED
  BY <1>1, <1>2, <1>3 DEF RenderInv

\* A request reads the row.
LEMMA AccessKeeps ==
  ASSUME RenderInv, NEW w \in Workers, NEW kind \in {"edit", "react"}, NEW text \in Wordings,
         access_message_to(w, kind, text)
  PROVE  RenderInv'
<1>f. FirstWording \in Wordings /\ "none" \notin Workers
  BY RenderingConstants
<1>t. RenderType /\ RInv(w)
  BY DEF RenderInv, RInv
<1>0. PICK j : j = [NoJob EXCEPT !.kind = kind, !.row = message, !.text = text,
                                 !.step = IF kind = "edit" THEN "render" ELSE "react"]
  OBVIOUS
<1>1. j.kind = kind /\ j.row = message /\ j.text = text /\ j.step = (IF kind = "edit" THEN "render" ELSE "react")
      /\ j.stale = {}
  BY <1>0 DEF NoJob
<1>2. j \in JobRecs
  BY <1>0, <1>f, <1>t DEF NoJob, JobRecs, Forms, RenderType, Made
<1>3. job' = [job EXCEPT ![w] = j] /\ threads' = [threads EXCEPT ![w] = threads[w]]
  BY <1>0, <1>t DEF access_message_to, RenderType
<1>4. job'[w] = j /\ threads[w] \in Threads /\ job[w].step = "idle" /\ job[w].kind = "none" /\ threads'[w] = threads[w]
  BY <1>3, <1>t DEF RenderType, access_message_to, NoJob
<1>u. UNCHANGED <<message, reacted, dicts, bugdown, lock, stained, survived>>
  BY DEF access_message_to
<1>5. Routes(w)'
  BY <1>1, <1>4, <1>t, <1>u DEF Routes, Kept, RInv, RenderType
<1>6. Holds(w)'
  BY <1>4, <1>t, <1>u DEF Holds, Routes, RInv
<1>7. Reads(w)'
  BY <1>1, <1>4, <1>u DEF Reads, Made
<1>8. Renders(w)'
  BY <1>1, <1>4, <1>t, <1>u DEF Renders, RInv
<1> QED
  BY <1>2, <1>3, <1>4, <1>5, <1>6, <1>7, <1>8, <1>t, <1>u, LocalStep DEF RenderType

\* A dictionary is taken from the cache or is to be built.
LEMMA DictKeeps ==
  ASSUME RenderInv, NEW w \in Workers,
         to_dict_uncached(w)
  PROVE  RenderInv'
<1>f. FirstWording \in Wordings /\ "none" \notin Workers
  BY RenderingConstants
<1>m. \A x \in Wordings : Mentioning[x] \in SUBSET Names
  BY DEF Names
<1>t. RenderType /\ RInv(w)
  BY DEF RenderInv, RInv
<1>i. job[w] \in JobRecs /\ threads[w] \in Threads
  BY <1>t DEF RenderType
<1>g. job[w].text \in Wordings /\ job[w].found \in SUBSET Names /\ job[w].stale \in SUBSET {"row", "reactions"}
      /\ job[w].form \in Forms /\ job[w].reacted \in BOOLEAN
  BY <1>i DEF JobRecs
<1>u. UNCHANGED <<message, reacted, dicts, bugdown, lock, stained, survived>>
  BY DEF to_dict_uncached
<1>b. job[w].step = "dict" => job[w].row.content \in Wordings /\ job[w].row.version \in Nat
  BY <1>t DEF RInv, Routes, RowRecs
<1>n. job[w].step = "dict" /\ lock = w => ~need_to_render_content(job[w].row)
  BY <1>t, <1>b DEF RInv, Holds, need_to_render_content, RenderType
<1>0. PICK j : j = [job[w] EXCEPT !.step = IF need_to_render_content(job[w].row) THEN "render" ELSE "cache",
                               !.text = job[w].row.content, !.reacted = reacted, !.stale = @ \ {"reactions"}]
  OBVIOUS
<1>1. j.kind = job[w].kind /\ j.row = job[w].row /\ j.text = job[w].row.content /\ j.reacted = reacted
      /\ j.stale = job[w].stale \ {"reactions"}
      /\ j.step = IF need_to_render_content(job[w].row) THEN "render" ELSE "cache"
  BY <1>0, <1>i DEF JobRecs
<1>s. job[w].step = "dict"
  BY <1>i DEF to_dict_uncached, NoJob
<1>2. j \in JobRecs
  BY <1>0, <1>i, <1>b, <1>g, <1>t, <1>s DEF NoJob, JobRecs, Forms, RenderType, Made, Kept, RInv, Routes
<1>3. job' = [job EXCEPT ![w] = j]
  BY <1>0, <1>t DEF to_dict_uncached, RenderType
<1>r. threads' = [threads EXCEPT ![w] = threads[w]]
  BY <1>t DEF to_dict_uncached, RenderType
<1>4. job'[w] = j /\ threads'[w] = threads[w]
  BY <1>3, <1>r, <1>t DEF RenderType
<1>5. Routes(w)'
  BY <1>1, <1>4, <1>t, <1>s, <1>u, <1>n DEF Routes, Kept, Made, RInv, RenderType
<1>6. Holds(w)'
  BY <1>1, <1>4, <1>t, <1>s, <1>u DEF Holds, Routes, RInv, Kept, build_message_dict
<1>7. Reads(w)'
  BY <1>1, <1>4, <1>t, <1>s, <1>u DEF Reads, Made, RInv, Routes, Kept
<1>8. Renders(w)'
  BY <1>1, <1>4, <1>t, <1>s, <1>u DEF Renders, RInv
<1> QED
  BY <1>2, <1>3, <1>4, <1>5, <1>6, <1>7, <1>8, <1>i, <1>r, <1>t, <1>u, LocalStep DEF RenderType

\* A reader reads the row and the reactions.
LEMMA FetchKeeps ==
  ASSUME RenderInv, NEW w \in Workers, NEW form \in Forms,
         generic_bulk_cached_fetch(w, form)
  PROVE  RenderInv'
<1>f. FirstWording \in Wordings /\ "none" \notin Workers
  BY RenderingConstants
<1>m. \A x \in Wordings : Mentioning[x] \in SUBSET Names
  BY DEF Names
<1>t. RenderType /\ RInv(w)
  BY DEF RenderInv, RInv
<1>i. job[w] \in JobRecs /\ threads[w] \in Threads
  BY <1>t DEF RenderType
<1>g. job[w].text \in Wordings /\ job[w].found \in SUBSET Names /\ job[w].stale \in SUBSET {"row", "reactions"}
      /\ job[w].form \in Forms /\ job[w].reacted \in BOOLEAN
  BY <1>i DEF JobRecs
<1>u. UNCHANGED <<message, reacted, dicts, bugdown, lock, stained, survived>>
  BY DEF generic_bulk_cached_fetch
<1>0. PICK j : j = build_dict_from_raw_db_row(get_raw_db_rows, form)
  OBVIOUS
<1>1. j.kind = "fetch" /\ j.row = message /\ j.text = message.content /\ j.reacted = reacted
      /\ j.stale = {} /\ j.step \in {"render", "cache"}
  BY <1>0, <1>i DEF JobRecs, NoJob, build_dict_from_raw_db_row, get_raw_db_rows
<1>s. job[w].step = "idle" /\ job[w].kind = "none"
  BY <1>i DEF generic_bulk_cached_fetch, NoJob
<1>2. j \in JobRecs
  <2>1. PICK step \in {"render", "cache"} : step = IF form = "markdown" /\ need_to_render_content(message) THEN "render" ELSE "cache"
    OBVIOUS
  <2>2. j = [kind |-> "fetch", step |-> step, row |-> message, text |-> message.content, found |-> {}, form |-> form,
             reacted |-> reacted, stale |-> {}]
    BY <1>0, <2>1 DEF NoJob, build_dict_from_raw_db_row, get_raw_db_rows
  <2>3. message \in RowRecs /\ message.content \in Wordings /\ reacted \in BOOLEAN
    BY <1>t DEF RenderType, RowRecs
  <2> QED
    BY <2>2, <2>3 DEF JobRecs, Made, Kept
<1>3. job' = [job EXCEPT ![w] = j]
  BY <1>0, <1>t DEF generic_bulk_cached_fetch, RenderType
<1>r. threads' = [threads EXCEPT ![w] = threads[w]]
  BY <1>t DEF generic_bulk_cached_fetch, RenderType
<1>4. job'[w] = j /\ threads'[w] = threads[w]
  BY <1>3, <1>r, <1>t DEF RenderType
<1>5. Routes(w)'
  BY <1>1, <1>4, <1>t, <1>s, <1>u DEF Routes, Kept, Made, RInv, RenderType
<1>6. Holds(w)'
  BY <1>1, <1>4, <1>t, <1>s, <1>u DEF Holds, Routes, RInv, Kept, build_message_dict
<1>7. Reads(w)'
  BY <1>1, <1>4, <1>t, <1>s, <1>u DEF Reads, Made, RInv, Routes, Kept
<1>8. Renders(w)'
  BY <1>1, <1>4, <1>t, <1>s, <1>u DEF Renders, RInv
<1> QED
  BY <1>2, <1>3, <1>4, <1>5, <1>6, <1>7, <1>8, <1>i, <1>r, <1>t, <1>u, LocalStep DEF RenderType

\* Without a thread that outlived its timeout, a rendering has one thread.
LEMMA OneThread ==
  ASSUME NEW x, NEW y
  PROVE  /\ Append(<<>>, x) = <<x>> /\ Len(<<x>>) = 1 /\ <<x>>[1] = x /\ Head(<<x>>) = x
         /\ [<<x>> EXCEPT ![1] = y] = <<y>> /\ SubSeq(<<x>>, 1, 0) = <<>> /\ <<x>> # <<>>
OBVIOUS

\* A rendering starts its thread.
LEMMA ConvertKeeps ==
  ASSUME RenderInv, NEW w \in Workers, do_convert(w)
  PROVE  RenderInv'
<1>m. \A x \in Wordings : Mentioning[x] \in SUBSET Names
  BY DEF Names
<1>t. RenderType /\ RInv(w)
  BY DEF RenderInv, RInv
<1>i. job[w] \in JobRecs /\ threads[w] \in Threads
  BY <1>t DEF RenderType
<1>g. job[w].text \in Wordings
  BY <1>i DEF JobRecs
<1>u. UNCHANGED <<message, reacted, dicts, bugdown, lock, stained, survived>>
  BY DEF do_convert
<1>0. PICK j : j = [job[w] EXCEPT !.step = "rendering", !.found = {}]
  OBVIOUS
<1>1. j.kind = job[w].kind /\ j.row = job[w].row /\ j.text = job[w].text /\ j.reacted = job[w].reacted
      /\ j.stale = job[w].stale /\ j.step = "rendering" /\ j.found = {}
  BY <1>0, <1>i DEF JobRecs
<1>s. job[w].step = "render"
  BY DEF do_convert
<1>2. j \in JobRecs
  BY <1>0, <1>i DEF JobRecs, Made
<1>3. job' = [job EXCEPT ![w] = j]
  BY <1>0, <1>t DEF do_convert, RenderType
<1>p. PICK t : t = Append(threads[w], Mentioning[job[w].text])
  OBVIOUS
<1>q. t \in Threads
  BY <1>p, <1>i, <1>g, <1>m DEF Threads
<1>r. threads' = [threads EXCEPT ![w] = t]
  BY <1>p, <1>t DEF do_convert, RenderType
<1>v. ~survived => t = <<Mentioning[job[w].text]>>
  BY <1>p, <1>t, <1>s, OneThread DEF RInv, Renders
<1>4. job'[w] = j /\ threads'[w] = t
  BY <1>3, <1>r, <1>t DEF RenderType
<1>5. Routes(w)'
  BY <1>1, <1>4, <1>t, <1>s, <1>u DEF Routes, Kept, RInv
<1>6. Holds(w)'
  BY <1>1, <1>4, <1>t, <1>s, <1>u DEF Holds, Routes, RInv, Kept
<1>7. Reads(w)'
  BY <1>1, <1>4, <1>t, <1>s, <1>u DEF Reads, Made, RInv
<1>8. Renders(w)'
  BY <1>1, <1>4, <1>v, <1>g, <1>m, <1>u DEF Renders
<1> QED
  BY <1>2, <1>3, <1>5, <1>6, <1>7, <1>8, <1>q, <1>r, <1>t, <1>u, LocalStep DEF RenderType

\* A thread finds a mention.
LEMMA MatchKeeps ==
  ASSUME RenderInv, NEW w \in Workers, NEW i \in 1..Len(threads[w]), NEW name \in threads[w][i],
         handleMatch(w, i, name)
  PROVE  RenderInv'
<1>t. RenderType /\ RInv(w)
  BY DEF RenderInv, RInv
<1>i. job[w] \in JobRecs /\ threads[w] \in Threads
  BY <1>t DEF RenderType
<1>n. name \in Names /\ threads[w][i] \in SUBSET Names
  BY <1>i DEF Threads
<1>u. UNCHANGED <<message, reacted, dicts, bugdown, lock, stained, survived>>
  BY DEF handleMatch
<1>0. PICK j : j = IF job[w].step = "rendering" THEN [job[w] EXCEPT !.found = @ \cup {name}] ELSE job[w]
  OBVIOUS
<1>1. j.kind = job[w].kind /\ j.row = job[w].row /\ j.text = job[w].text /\ j.reacted = job[w].reacted
      /\ j.stale = job[w].stale /\ j.step = job[w].step
      /\ j.found = IF job[w].step = "rendering" THEN job[w].found \cup {name} ELSE job[w].found
  BY <1>0, <1>i DEF JobRecs
<1>2. j \in JobRecs
  BY <1>0, <1>i, <1>n DEF JobRecs
<1>3. job' = [job EXCEPT ![w] = j]
  BY <1>0, <1>t DEF handleMatch, RenderType
<1>p. PICK t : t = [threads[w] EXCEPT ![i] = @ \ {name}]
  OBVIOUS
<1>q. t \in Threads
  BY <1>p, <1>i, <1>n DEF Threads
<1>r. threads' = [threads EXCEPT ![w] = t]
  BY <1>p, <1>t DEF handleMatch, RenderType
<1>4. job'[w] = j /\ threads'[w] = t
  BY <1>3, <1>r, <1>t DEF RenderType
<1>5. Routes(w)'
  BY <1>1, <1>4, <1>t, <1>u DEF Routes, RInv
<1>6. Holds(w)'
  BY <1>1, <1>4, <1>t, <1>u DEF Holds, RInv, build_message_dict
<1>7. Reads(w)'
  BY <1>1, <1>4, <1>t, <1>u DEF Reads, RInv
<1>8. Renders(w)'
  <2> SUFFICES ASSUME ~survived PROVE Renders(w)'
    BY <1>u DEF Renders
  <2>1. job[w].step = "rendering"
    BY <1>t DEF Renders, RInv
  <2>2. PICK rest \in SUBSET Names : threads[w] = <<rest>> /\ job[w].found \cup rest = Mentioning[job[w].text]
    BY <2>1, <1>t DEF Renders, RInv
  <2>3. i = 1 /\ name \in rest
    BY <2>2, OneThread
  <2>4. t = <<rest \ {name}>>
    BY <2>2, <2>3, <1>p, OneThread
  <2>5. j.found \cup (rest \ {name}) = Mentioning[j.text]
    BY <2>1, <2>2, <2>3, <1>1
  <2> QED
    BY <2>1, <2>4, <2>5, <1>1, <1>4 DEF Renders
<1> QED
  BY <1>2, <1>3, <1>5, <1>6, <1>7, <1>8, <1>q, <1>r, <1>t, <1>u, LocalStep DEF RenderType

\* A rendering ends in time.
LEMMA ConvertedKeeps ==
  ASSUME RenderInv, NEW w \in Workers, Converted(w)
  PROVE  RenderInv'
<1>t. RenderType /\ RInv(w)
  BY DEF RenderInv, RInv
<1>i. job[w] \in JobRecs /\ threads[w] \in Threads
  BY <1>t DEF RenderType
<1>u. UNCHANGED <<message, reacted, dicts, bugdown, lock, stained, survived>>
  BY DEF Converted
<1>0. PICK j : j = [job[w] EXCEPT !.step = IF job[w].kind = "edit" THEN "save" ELSE "rendered"]
  OBVIOUS
<1>1. j.kind = job[w].kind /\ j.row = job[w].row /\ j.text = job[w].text /\ j.reacted = job[w].reacted
      /\ j.stale = job[w].stale /\ j.found = job[w].found
      /\ j.step = IF job[w].kind = "edit" THEN "save" ELSE "rendered"
  BY <1>0, <1>i DEF JobRecs
<1>s. job[w].step = "rendering"
  BY DEF Converted
<1>2. j \in JobRecs
  BY <1>0, <1>i DEF JobRecs, Made
<1>3. job' = [job EXCEPT ![w] = j]
  BY <1>0, <1>t DEF Converted, Step, RenderType
<1>p. PICK t : t = SubSeq(threads[w], 1, Len(threads[w]) - 1)
  OBVIOUS
<1>q. t \in Threads
  BY <1>p, <1>i DEF Threads
<1>r. threads' = [threads EXCEPT ![w] = t]
  BY <1>p, <1>t DEF Converted, RenderType
<1>4. job'[w] = j /\ threads'[w] = t
  BY <1>3, <1>r, <1>t DEF RenderType
<1>5. Routes(w)'
  BY <1>1, <1>4, <1>t, <1>s, <1>u DEF Routes, RInv, Kept
<1>6. Holds(w)'
  BY <1>1, <1>4, <1>t, <1>s, <1>u DEF Holds, Routes, RInv, Kept
<1>7. Reads(w)'
  BY <1>1, <1>4, <1>t, <1>s, <1>u DEF Reads, RInv, Made
<1>8. Renders(w)'
  <2> SUFFICES ASSUME ~survived PROVE Renders(w)'
    BY <1>u DEF Renders
  <2>2. PICK rest \in SUBSET Names : threads[w] = <<rest>> /\ job[w].found \cup rest = Mentioning[job[w].text]
    BY <1>s, <1>t DEF Renders, RInv
  <2>3. t = <<>>
    BY <2>2, <1>p, OneThread
  <2>4. rest = {}
    BY <2>2, OneThread DEF Converted
  <2>5. j.found = Mentioning[j.text]
    BY <2>2, <2>4, <1>1
  <2> QED
    BY <2>3, <2>5, <1>1, <1>4 DEF Renders
<1> QED
  BY <1>2, <1>3, <1>5, <1>6, <1>7, <1>8, <1>q, <1>r, <1>t, <1>u, LocalStep DEF RenderType

\* A rendering takes too long, and its thread stays.
LEMMA TimeoutKeeps ==
  ASSUME RenderInv, NEW w \in Workers, timeout(w)
  PROVE  RenderInv'
<1>t. RenderType /\ RInv(w)
  BY DEF RenderInv, RInv
<1>f. FirstWording \in Wordings
  BY RenderingConstants
<1>i. job[w] \in JobRecs /\ threads[w] \in Threads
  BY <1>t DEF RenderType
<1>u. UNCHANGED <<message, reacted, dicts, bugdown, lock, stained>>
  BY DEF timeout
<1>s. job[w].step = "rendering"
  BY DEF timeout
<1>1. NoJob.kind = "none" /\ NoJob.step = "idle"
  BY DEF NoJob
<1>2. NoJob \in JobRecs
  BY <1>f DEF JobRecs, NoJob, Forms
<1>3. job' = [job EXCEPT ![w] = NoJob]
  BY DEF timeout, Ends
<1>p. PICK t \in Threads : /\ threads' = [threads EXCEPT ![w] = t]
                           /\ \/ t = SubSeq(threads[w], 1, Len(threads[w]) - 1) /\ survived' = survived
                              \/ survived' = TRUE
  <2>1. threads = [threads EXCEPT ![w] = threads[w]]
    BY <1>t DEF RenderType
  <2>2. SubSeq(threads[w], 1, Len(threads[w]) - 1) \in Threads
    BY <1>i DEF Threads
  <2> QED
    BY <2>1, <2>2, <1>i, <1>t DEF timeout, RenderType
<1>4. job'[w] = NoJob /\ threads'[w] = t /\ survived' \in BOOLEAN /\ (survived => survived')
  BY <1>3, <1>p, <1>t DEF RenderType
<1>5. Routes(w)'
  BY <1>1, <1>4, <1>t, <1>s, <1>u DEF Routes, RInv, Kept
<1>6. Holds(w)'
  BY <1>1, <1>4, <1>t, <1>s, <1>u DEF Holds, Routes, RInv, Kept
<1>7. Reads(w)'
  BY <1>1, <1>4 DEF Reads, Made
<1>8. Renders(w)'
  <2> SUFFICES ASSUME ~survived' PROVE Renders(w)'
    BY DEF Renders
  <2>1. ~survived /\ t = SubSeq(threads[w], 1, Len(threads[w]) - 1)
    BY <1>p, <1>4
  <2>2. PICK rest \in SUBSET Names : threads[w] = <<rest>>
    BY <2>1, <1>s, <1>t DEF Renders, RInv
  <2>3. t = <<>>
    BY <2>1, <2>2, OneThread
  <2> QED
    BY <2>3, <1>1, <1>4 DEF Renders
<1> QED
  BY <1>2, <1>3, <1>4, <1>5, <1>6, <1>7, <1>8, <1>p, <1>u, LocalStep

\* A thread that outlived its rendering ends.
LEMMA ThreadEndsKeeps ==
  ASSUME RenderInv, NEW w \in Workers, ThreadEnds(w)
  PROVE  RenderInv'
<1>t. RenderType /\ RInv(w)
  BY DEF RenderInv, RInv
<1>i. job[w] \in JobRecs /\ threads[w] \in Threads
  BY <1>t DEF RenderType
<1>u. UNCHANGED <<message, reacted, dicts, bugdown, lock, stained, survived, job>>
  BY DEF ThreadEnds
<1>3. job' = [job EXCEPT ![w] = job[w]]
  BY <1>u, <1>t DEF RenderType
<1>q. Tail(threads[w]) \in Threads
  BY <1>i DEF Threads, ThreadEnds
<1>r. threads' = [threads EXCEPT ![w] = Tail(threads[w])]
  BY <1>t DEF ThreadEnds, RenderType
<1>5. Routes(w)'
  BY <1>t, <1>u DEF Routes, RInv
<1>6. Holds(w)'
  BY <1>t, <1>u DEF Holds, RInv, build_message_dict
<1>7. Reads(w)'
  BY <1>t, <1>u DEF Reads, RInv
<1>8. Renders(w)'
  BY <1>t, <1>u DEF Renders, RInv, ThreadEnds
<1> QED
  BY <1>i, <1>3, <1>5, <1>6, <1>7, <1>8, <1>q, <1>r, <1>t, <1>u, LocalStep DEF RenderType

\* A reaction is stored.
LEMMA ReactionKeeps ==
  ASSUME RenderInv, NEW w \in Workers, do_add_reaction(w)
  PROVE  RenderInv'
<1>t. RenderType
  BY DEF RenderInv
<1>u. UNCHANGED <<message, dicts, bugdown, lock, threads, spent, survived>> /\ reacted' = ~reacted
      /\ stained' = stained \cup Forms
  BY DEF do_add_reaction
<1>1. ASSUME NEW v \in Workers
      PROVE  /\ job'[v] \in JobRecs
             /\ job'[v].kind = job[v].kind /\ job'[v].row = job[v].row /\ job'[v].text = job[v].text
             /\ job'[v].found = job[v].found
             /\ job'[v].step = IF v = w THEN "dict" ELSE job[v].step
             /\ "row" \in job[v].stale <=> "row" \in job'[v].stale
             /\ job'[v].step \in {"render", "rendering", "rendered", "cache"} => "reactions" \in job'[v].stale
  <2>1. PICK j : j = IF v = w THEN [job[w] EXCEPT !.step = "dict"]
                     ELSE IF job[v].step \in {"render", "rendering", "rendered", "cache"}
                          THEN [job[v] EXCEPT !.stale = @ \cup {"reactions"}] ELSE job[v]
    OBVIOUS
  <2>2. job'[v] = j
    BY <2>1 DEF do_add_reaction
  <2>3. job[v] \in JobRecs /\ job[w] \in JobRecs
    BY <1>t DEF RenderType
  <2>4. j \in JobRecs
    BY <2>1, <2>3 DEF JobRecs, Kept
  <2>5. j.kind = job[v].kind /\ j.row = job[v].row /\ j.text = job[v].text /\ j.found = job[v].found
        /\ j.step = IF v = w THEN "dict" ELSE job[v].step
    BY <2>1, <2>3 DEF JobRecs
  <2>6. \/ j.stale = job[v].stale
        \/ v # w /\ job[v].step \in {"render", "rendering", "rendered", "cache"} /\ j.stale = job[v].stale \cup {"reactions"}
    BY <2>1, <2>3 DEF JobRecs
  <2>7. j.step \in {"render", "rendering", "rendered", "cache"} => j.stale = job[v].stale \cup {"reactions"}
    BY <2>1, <2>3 DEF JobRecs
  <2> QED
    BY <2>2, <2>4, <2>5, <2>6, <2>7
<1>2. RenderType'
  <2>1. job' \in [Workers -> JobRecs]
    BY <1>1 DEF do_add_reaction
  <2> QED
    BY <2>1, <1>u, <1>t DEF RenderType
<1>3. ShownAsStored'
  BY <1>u DEF RenderInv, ShownAsStored
<1>4. ASSUME NEW v \in Workers PROVE RInv(v)'
  <2>0. RInv(v) /\ (v = w => job[v].step = "react") /\ lock' = lock
    BY <1>u DEF RenderInv, RInv, do_add_reaction
  <2>1. Routes(v)'
    BY <2>0, <1>1 DEF RInv, Routes, Kept
  <2>2. Holds(v)'
    BY <2>0, <1>1, <1>u DEF RInv, Holds
  <2>3. Reads(v)'
    BY <2>0, <1>1, <1>u DEF RInv, Reads, Forms, Made
  <2>4. Renders(v)'
    BY <2>0, <1>1, <1>u DEF RInv, Renders
  <2> QED
    BY <2>1, <2>2, <2>3, <2>4 DEF RInv
<1> QED
  BY <1>2, <1>3, <1>4 DEF RenderInv, RInv

\* A dictionary shows the html of the row it was built from.
LEMMA BuiltIsShown ==
  ASSUME NEW row \in RowRecs, NEW form \in Forms, NEW r \in BOOLEAN
  PROVE  build_message_dict(row, form, r) \in Shown
BY DEF RowRecs, build_message_dict, Shown

\* update_to_dict_cache stores what was built.
LEMMA UpdateCacheKeeps ==
  ASSUME RenderInv, NEW w \in Workers, update_to_dict_cache(w)
  PROVE  RenderInv'
<1>f. FirstWording \in Wordings /\ "none" \notin Workers
  BY RenderingConstants
<1>t. RenderType
  BY DEF RenderInv
<1>i. job[w] \in JobRecs /\ job[w].reacted \in BOOLEAN /\ job[w].step = "cache" /\ job[w].kind \in {"edit", "react"}
  BY <1>t DEF RenderType, JobRecs, update_to_dict_cache
<1>w. RInv(w) /\ job[w].row \in RowRecs
  BY <1>i DEF RenderInv, RInv, Routes
<1>u. UNCHANGED <<message, reacted, bugdown, lock, threads, spent, survived>>
  BY DEF update_to_dict_cache
<1>d. \A form \in Forms : dicts'[form] = build_message_dict(job[w].row, form, job[w].reacted)
  BY DEF update_to_dict_cache
<1>s. stained' = IF job[w].stale = {} /\ lock \in {"none", w} THEN stained \ Forms ELSE stained \cup Forms
  BY DEF update_to_dict_cache
<1>e. "html" \in stained' <=> "html" \in stained
  BY <1>s DEF Forms
<1>0. PICK j : j = IF job[w].kind = "edit" THEN [job[w] EXCEPT !.step = "commit"] ELSE NoJob
  OBVIOUS
<1>1. j \in JobRecs /\ job' = [job EXCEPT ![w] = j]
  BY <1>0, <1>i, <1>f, <1>t DEF JobRecs, NoJob, Forms, update_to_dict_cache, Step, Ends, Kept, RenderType
<1>2. \/ job[w].kind = "edit" /\ j.kind = "edit" /\ j.row = job[w].row /\ j.stale = job[w].stale /\ j.step = "commit"
      \/ job[w].kind = "react" /\ j.kind = "none" /\ j.step = "idle"
  BY <1>0, <1>i DEF JobRecs, NoJob
<1>3. job'[w] = j /\ \A v \in Workers : v # w => job'[v] = job[v]
  BY <1>1, <1>t DEF RenderType
<1>4. RenderType'
  <2>1. dicts' \in [Forms -> Shown]
    BY <1>i, <1>w, <1>d, BuiltIsShown DEF update_to_dict_cache
  <2> QED
    BY <2>1, <1>1, <1>u, <1>t DEF RenderType
<1>r. job[w].stale = {} => job[w].reacted = reacted
  BY <1>w, <1>i DEF RInv, Reads
<1>5. ShownAsStored'
  <2>1. ASSUME NEW form \in Forms, form \notin stained', form = "markdown" => "html" \notin stained', lock = "none"
        PROVE  dicts'[form] = build_message_dict(message, form, reacted)
    <3>1. job[w].stale = {}
      BY <1>s, <2>1
    <3>2. job[w].kind = "react"
      BY <1>f, <1>i, <1>w, <2>1 DEF RInv, Routes, Kept
    <3>3. job[w].row.content = message.content /\ ("html" \notin stained => job[w].row.html = message.html)
      BY <1>w, <3>1, <3>2 DEF RInv, Reads
    <3> QED
      BY <1>d, <1>e, <1>r, <3>1, <3>3, <2>1 DEF build_message_dict, Forms
  <2> QED
    BY <2>1, <1>e, <1>u DEF RenderInv, ShownAsStored, Forms, build_message_dict
<1>6. ASSUME NEW v \in Workers PROVE RInv(v)'
  <2>0. RInv(v) /\ lock' = lock
    BY <1>u DEF RenderInv, RInv
  <2>1. Routes(v)'
    BY <2>0, <1>2, <1>3, <1>i, <1>w DEF RInv, Routes, Kept
  <2>2. Holds(v)'
    <3> SUFFICES ASSUME lock = v PROVE Holds(v)'
      BY <1>u DEF Holds
    <3>1. CASE v = w
      <4>1. ASSUME NEW form \in Forms \ stained'
            PROVE  dicts'[form] = build_message_dict(job[w].row, form, reacted)
        BY <4>1, <1>s, <1>d, <1>r
      <4>2. j.kind = "edit" /\ j.row = job[w].row /\ j.step = "commit"
        BY <3>1, <1>2, <2>0 DEF RInv, Routes
      <4> QED
        BY <4>1, <4>2, <3>1, <1>3, <1>u, <2>0 DEF RInv, Holds, build_message_dict
    <3>2. CASE v # w
      <4>1. \A form \in Forms : form \in stained'
        BY <1>s, <1>f, <3>2
      <4> QED
        BY <4>1, <3>2, <1>3, <1>u, <2>0 DEF RInv, Holds
    <3> QED
      BY <3>1, <3>2
  <2>3. Reads(v)'
    BY <2>0, <1>2, <1>3, <1>u, <1>e DEF RInv, Reads, Made
  <2>4. Renders(v)'
    BY <2>0, <1>2, <1>3, <1>i, <1>u DEF RInv, Renders
  <2> QED
    BY <2>1, <2>2, <2>3, <2>4 DEF RInv
<1> QED
  BY <1>4, <1>5, <1>6 DEF RenderInv, RInv

\* A reader stores what it built.
LEMMA CacheSetKeeps ==
  ASSUME RenderInv, NEW w \in Workers, cache_set_many(w)
  PROVE  RenderInv'
<1>f. FirstWording \in Wordings /\ "none" \notin Workers
  BY RenderingConstants
<1>t. RenderType
  BY DEF RenderInv
<1>i. job[w] \in JobRecs /\ job[w].reacted \in BOOLEAN /\ job[w].step = "cache" /\ job[w].kind = "fetch"
      /\ job[w].form \in Forms
  BY <1>t DEF RenderType, JobRecs, cache_set_many
<1>w. RInv(w) /\ job[w].row \in RowRecs /\ lock # w
  BY <1>i DEF RenderInv, RInv, Routes
<1>u. UNCHANGED <<message, reacted, bugdown, lock, threads, spent, survived>>
  BY DEF cache_set_many
<1>0. PICK d : d = build_message_dict(job[w].row, job[w].form, job[w].reacted)
  OBVIOUS
<1>d. dicts' = [dicts EXCEPT ![job[w].form] = d] /\ d \in Shown
  BY <1>0, <1>i, <1>w, BuiltIsShown DEF cache_set_many
<1>s. stained' = IF job[w].stale = {} /\ lock = "none" THEN stained \ {job[w].form} ELSE stained \cup {job[w].form}
  BY DEF cache_set_many
<1>e. "html" \in stained' <=> "html" \in stained
  BY <1>s, <1>i DEF Forms
<1>1. NoJob \in JobRecs /\ job' = [job EXCEPT ![w] = NoJob] /\ NoJob.kind = "none" /\ NoJob.step = "idle"
  BY <1>f, <1>t DEF JobRecs, NoJob, Forms, cache_set_many, Ends
<1>3. job'[w] = NoJob /\ \A v \in Workers : v # w => job'[v] = job[v]
  BY <1>1, <1>t DEF RenderType
<1>4. RenderType'
  BY <1>d, <1>1, <1>u, <1>t DEF RenderType
<1>5. ShownAsStored'
  <2>1. ASSUME NEW form \in Forms, form \notin stained', form = "markdown" => "html" \notin stained',
               lock = "none", dicts'[form] # NotCached
        PROVE  dicts'[form] = build_message_dict(message, form, reacted)
    <3>1. CASE form = job[w].form
      <4>1. job[w].stale = {}
        BY <1>s, <2>1, <3>1
      <4>2. job[w].reacted = reacted /\ job[w].row.content = message.content
            /\ ("html" \notin stained => job[w].row.html = message.html)
        BY <1>w, <1>i, <4>1 DEF RInv, Reads
      <4>3. dicts'[form] = d
        BY <1>d, <1>t, <3>1 DEF RenderType
      <4> QED
        BY <1>0, <1>e, <4>2, <4>3, <3>1, <2>1 DEF build_message_dict, Forms
    <3>2. CASE form # job[w].form
      <4>1. dicts'[form] = dicts[form] /\ form \notin stained
        BY <1>d, <1>s, <1>t, <2>1, <3>2 DEF RenderType
      <4> QED
        BY <4>1, <2>1, <1>e DEF RenderInv, ShownAsStored
    <3> QED
      BY <3>1, <3>2
  <2> QED
    BY <2>1, <1>e, <1>u DEF RenderInv, ShownAsStored, Forms, build_message_dict
<1>6. ASSUME NEW v \in Workers PROVE RInv(v)'
  <2>0. RInv(v) /\ lock' = lock
    BY <1>u DEF RenderInv, RInv
  <2>1. Routes(v)'
    BY <2>0, <1>1, <1>3, <1>i, <1>w DEF RInv, Routes, Kept
  <2>2. Holds(v)'
    <3> SUFFICES ASSUME lock = v PROVE Holds(v)'
      BY <1>u DEF Holds
    <3>1. v # w /\ job'[v] = job[v]
      BY <1>w, <1>3
    <3>2. ASSUME NEW form \in Forms \ stained'
          PROVE  form \notin stained /\ dicts'[form] = dicts[form]
      BY <1>s, <1>d, <1>t, <1>f, <3>2 DEF RenderType
    <3> QED
      BY <3>1, <3>2, <1>u, <2>0 DEF RInv, Holds, build_message_dict
  <2>3. Reads(v)'
    BY <2>0, <1>1, <1>3, <1>u, <1>e DEF RInv, Reads, Made
  <2>4. Renders(v)'
    BY <2>0, <1>1, <1>3, <1>i, <1>u DEF RInv, Renders
  <2> QED
    BY <2>1, <2>2, <2>3, <2>4 DEF RInv
<1> QED
  BY <1>4, <1>5, <1>6 DEF RenderInv, RInv

\* A reader saves the html it rendered.
LEMMA SaveRenderedKeeps ==
  ASSUME RenderInv, NEW w \in Workers, save_rendered_content(w)
  PROVE  RenderInv'
<1>f. "none" \notin Workers
  BY RenderingConstants
<1>t. RenderType
  BY DEF RenderInv
<1>i. job[w] \in JobRecs /\ job[w].text \in Wordings /\ job[w].step = "rendered" /\ lock = "none"
      /\ job[w].kind \in {"none", "edit", "react", "fetch"}
  BY <1>t DEF RenderType, JobRecs, save_rendered_content
<1>w. RInv(w) /\ job[w].row \in RowRecs /\ job[w].kind \in {"react", "fetch"} /\ job[w].text = job[w].row.content
  BY <1>i DEF RenderInv, RInv, Routes, Reads, Made
<1>u. UNCHANGED <<reacted, bugdown, lock, threads, spent, survived>>
  BY DEF save_rendered_content
<1>d. dicts' = [form \in Forms |-> NotCached]
  BY DEF save_rendered_content, flush_message
<1>s. stained' = (stained \ Forms) \cup (IF "row" \in job[w].stale THEN {"html"} ELSE {})
  BY DEF save_rendered_content
<1>a. PICK row : row = [job[w].row EXCEPT !.html = job[w].text, !.version = bugdown]
  OBVIOUS
<1>b. row \in RowRecs /\ row.content = job[w].row.content /\ row.html = job[w].text /\ row.version = bugdown
  BY <1>a, <1>w, <1>i, <1>t DEF RowRecs, RenderType
<1>m. message' \in RowRecs /\ message'.content = message.content /\ message'.html = job[w].text
      /\ message'.mentioned = message.mentioned
  BY <1>a, <1>b, <1>i, <1>t DEF save_rendered_content, RenderType, RowRecs
<1>0. PICK j : j = [job[w] EXCEPT !.row = row, !.step = "cache"]
  OBVIOUS
<1>1. j \in JobRecs /\ job' = [job EXCEPT ![w] = j]
  BY <1>0, <1>a, <1>b, <1>i, <1>t DEF JobRecs, Kept, save_rendered_content, RenderType
<1>2. j.kind = job[w].kind /\ j.row = row /\ j.stale = job[w].stale /\ j.step = "cache" /\ j.reacted = job[w].reacted
  BY <1>0, <1>i DEF JobRecs
<1>3. job'[w] = j /\ \A v \in Workers : v # w => job'[v] = job[v]
  BY <1>1, <1>t DEF RenderType
<1>h. "html" \notin stained' => "html" \notin stained /\ job[w].text = message.content
  BY <1>s, <1>w DEF RInv, Reads, Forms
<1>4. RenderType'
  <2>1. NotCached \in Shown
    BY DEF NotCached, Shown
  <2> QED
    BY <2>1, <1>d, <1>m, <1>1, <1>u, <1>t DEF RenderType
<1>5. ShownAsStored'
  BY <1>d, <1>m, <1>h, <1>u DEF RenderInv, ShownAsStored
<1>6. ASSUME NEW v \in Workers PROVE RInv(v)'
  <2>0. RInv(v) /\ lock' = lock /\ lock # v
    BY <1>u, <1>i, <1>f DEF RenderInv, RInv
  <2>1. Routes(v)'
    BY <2>0, <1>2, <1>3, <1>b, <1>i, <1>w DEF RInv, Routes, Kept
  <2>2. Holds(v)'
    BY <2>0 DEF Holds
  <2>3. Reads(v)'
    <3>1. CASE v = w
      BY <3>1, <2>0, <1>2, <1>3, <1>b, <1>m, <1>i, <1>w, <1>u DEF RInv, Reads, Made
    <3>2. CASE v # w
      <4>1. "html" \notin stained' => message'.html = message.html
        BY <1>m, <1>h DEF RenderInv, ShownAsStored
      <4> QED
        BY <3>2, <4>1, <2>0, <1>3, <1>m, <1>h, <1>u DEF RInv, Reads
    <3> QED
      BY <3>1, <3>2
  <2>4. Renders(v)'
    BY <2>0, <1>2, <1>3, <1>i, <1>u DEF RInv, Renders
  <2> QED
    BY <2>1, <2>2, <2>3, <2>4 DEF RInv
<1> QED
  BY <1>4, <1>5, <1>6 DEF RenderInv, RInv

\* An edit saves and takes the lock.
LEMMA SaveEditKeeps ==
  ASSUME RenderInv, NEW w \in Workers, SaveEdit(w)
  PROVE  RenderInv'
<1>f. "none" \notin Workers
  BY RenderingConstants
<1>t. RenderType
  BY DEF RenderInv
<1>i. job[w] \in JobRecs /\ job[w].text \in Wordings /\ job[w].found \in SUBSET Names /\ job[w].step = "save"
      /\ lock = "none"
  BY <1>t DEF RenderType, JobRecs, SaveEdit
<1>w. RInv(w) /\ job[w].kind = "edit"
  BY <1>i DEF RenderInv, RInv, Routes
<1>u. UNCHANGED <<message, reacted, bugdown, threads, survived>> /\ lock' = w
  BY DEF SaveEdit
<1>d. dicts' = [form \in Forms |-> NotCached]
  BY DEF SaveEdit, flush_message
<1>e. "html" \in stained' <=> "html" \in stained
  BY DEF SaveEdit, Forms
<1>a. PICK row : row = [content |-> job[w].text, html |-> job[w].text, version |-> bugdown, mentioned |-> job[w].found]
  OBVIOUS
<1>b. row \in RowRecs /\ row.content = job[w].text /\ row.html = job[w].text /\ row.version = bugdown
      /\ row.mentioned = job[w].found
  BY <1>a, <1>i, <1>t DEF RowRecs, RenderType
<1>0. PICK j : j = [job[w] EXCEPT !.step = "dict", !.stale = {}, !.row = row]
  OBVIOUS
<1>1. j \in JobRecs /\ job' = [job EXCEPT ![w] = j]
  BY <1>0, <1>a, <1>b, <1>i, <1>t DEF JobRecs, Kept, SaveEdit, RenderType
<1>2. j.kind = "edit" /\ j.row = row /\ j.step = "dict"
  BY <1>0, <1>i, <1>w DEF JobRecs
<1>3. job'[w] = j /\ \A v \in Workers : v # w => job'[v] = job[v]
  BY <1>1, <1>t DEF RenderType
<1>4. RenderType'
  <2>1. NotCached \in Shown
    BY DEF NotCached, Shown
  <2> QED
    BY <2>1, <1>d, <1>1, <1>u, <1>t DEF RenderType
<1>5. ShownAsStored'
  BY <1>d, <1>e, <1>u DEF RenderInv, ShownAsStored
<1>6. ASSUME NEW v \in Workers PROVE RInv(v)'
  <2>0. RInv(v) /\ lock # v
    BY <1>i, <1>f DEF RenderInv, RInv
  <2>1. Routes(v)'
    BY <2>0, <1>2, <1>3, <1>b, <1>i, <1>u DEF RInv, Routes, Kept
  <2>2. Holds(v)'
    <3>1. ~survived => job[w].found = Mentioning[job[w].text]
      BY <1>i, <1>w DEF RInv, Renders
    <3> QED
      BY <3>1, <1>2, <1>3, <1>b, <1>d, <1>u DEF Holds
  <2>3. Reads(v)'
    BY <2>0, <1>2, <1>3, <1>e, <1>u DEF RInv, Reads, Made
  <2>4. Renders(v)'
    BY <2>0, <1>2, <1>3, <1>i, <1>u DEF RInv, Renders
  <2> QED
    BY <2>1, <2>2, <2>3, <2>4 DEF RInv
<1> QED
  BY <1>4, <1>5, <1>6 DEF RenderInv, RInv

\* An edit commits and gives the lock back.
LEMMA CommitKeeps ==
  ASSUME RenderInv, NEW w \in Workers, Commit(w)
  PROVE  RenderInv'
<1>f. FirstWording \in Wordings /\ "none" \notin Workers
  BY RenderingConstants
<1>t. RenderType
  BY DEF RenderInv
<1>w. RInv(w) /\ job[w].step = "commit" /\ lock = w /\ job[w].kind = "edit" /\ job[w].row \in RowRecs
  BY DEF RenderInv, RInv, Routes, Commit
<1>u. UNCHANGED <<reacted, dicts, bugdown, threads, survived>> /\ lock' = "none" /\ message' = job[w].row
      /\ stained' = stained \ {"html"}
  BY DEF Commit
<1>n. NoJob \in JobRecs /\ NoJob.step = "idle" /\ NoJob.kind = "none"
  BY <1>f DEF NoJob, JobRecs, Forms
<1>1. ASSUME NEW v \in Workers
      PROVE  /\ job'[v] \in JobRecs
             /\ v = w => job'[v] = NoJob
             /\ v # w => /\ job'[v].kind = job[v].kind /\ job'[v].row = job[v].row /\ job'[v].text = job[v].text
                         /\ job'[v].found = job[v].found /\ job'[v].step = job[v].step
                         /\ job'[v].reacted = job[v].reacted
                         /\ "reactions" \in job'[v].stale <=> "reactions" \in job[v].stale
                         /\ job[v].kind # "none" => "row" \in job'[v].stale
  <2>1. PICK j : j = IF v = w \/ job[v] = NoJob THEN NoJob ELSE [job[v] EXCEPT !.stale = @ \cup {"row"}]
    OBVIOUS
  <2>2. job'[v] = j
    BY <2>1 DEF Commit
  <2>3. job[v] \in JobRecs
    BY <1>t DEF RenderType
  <2>4. CASE v = w \/ job[v] = NoJob
    BY <2>1, <2>2, <2>4, <1>n
  <2>5. CASE ~(v = w \/ job[v] = NoJob)
    <3>1. j = [job[v] EXCEPT !.stale = @ \cup {"row"}]
      BY <2>1, <2>5
    <3>2. j \in JobRecs
      BY <3>1, <2>3 DEF JobRecs
    <3>3. j.kind = job[v].kind /\ j.row = job[v].row /\ j.text = job[v].text /\ j.found = job[v].found
          /\ j.step = job[v].step /\ j.reacted = job[v].reacted /\ j.stale = job[v].stale \cup {"row"}
      BY <3>1, <2>3 DEF JobRecs
    <3> QED
      BY <3>2, <3>3, <2>2, <2>5
  <2> QED
    BY <2>4, <2>5
<1>2. RenderType'
  <2>1. job' \in [Workers -> JobRecs]
    BY <1>1 DEF Commit
  <2> QED
    BY <2>1, <1>w, <1>u, <1>t DEF RenderType
<1>3. ShownAsStored'
  <2>1. \A form \in Forms \ stained' : dicts[form] # NotCached => dicts[form] = build_message_dict(job[w].row, form, reacted)
    BY <1>w, <1>u DEF RInv, Holds, Forms
  <2>2. job[w].row.html = job[w].row.content
        /\ (~survived => job[w].row.mentioned = Mentioning[job[w].row.content])
    BY <1>w DEF RInv, Holds
  <2> QED
    BY <2>1, <2>2, <1>u DEF ShownAsStored, build_message_dict
<1>4. ASSUME NEW v \in Workers PROVE RInv(v)'
  <2>0. RInv(v)
    BY DEF RenderInv, RInv
  <2>1. Routes(v)'
    BY <2>0, <1>1, <1>f, <1>n, <1>w, <1>u DEF RInv, Routes, Kept
  <2>2. Holds(v)'
    BY <1>f, <1>u DEF Holds
  <2>3. Reads(v)'
    BY <2>0, <1>1, <1>n, <1>u DEF RInv, Reads, Made
  <2>4. Renders(v)'
    BY <2>0, <1>1, <1>n, <1>w, <1>u DEF RInv, Renders
  <2> QED
    BY <2>1, <2>2, <2>3, <2>4 DEF RInv
<1> QED
  BY <1>2, <1>3, <1>4 DEF RenderInv, RInv

\* An edit fails and is undone.
LEMMA RollbackKeeps ==
  ASSUME RenderInv, NEW w \in Workers, Rollback(w)
  PROVE  RenderInv'
<1>f. FirstWording \in Wordings /\ "none" \notin Workers
  BY RenderingConstants
<1>t. RenderType
  BY DEF RenderInv
<1>w. RInv(w) /\ lock = w /\ job[w].kind = "edit" /\ job[w].step \in Kept
  BY DEF RenderInv, RInv, Routes, Rollback
<1>u. UNCHANGED <<message, reacted, dicts, bugdown, threads, survived>> /\ lock' = "none"
      /\ stained' = IF job[w].step = "commit" THEN stained \cup Forms ELSE stained
  BY DEF Rollback
<1>e. "html" \in stained' <=> "html" \in stained
  BY <1>u DEF Forms
<1>1. NoJob \in JobRecs /\ job' = [job EXCEPT ![w] = NoJob] /\ NoJob.kind = "none" /\ NoJob.step = "idle"
  BY <1>f DEF JobRecs, NoJob, Forms, Rollback, Ends
<1>3. job'[w] = NoJob /\ \A v \in Workers : v # w => job'[v] = job[v]
  BY <1>1, <1>t DEF RenderType
<1>4. RenderType'
  BY <1>1, <1>u, <1>t DEF RenderType
<1>5. ShownAsStored'
  <2>1. \A form \in Forms \ stained' : dicts[form] = NotCached
    BY <1>w, <1>u DEF RInv, Holds
  <2> QED
    BY <2>1, <1>u, <1>e DEF RenderInv, ShownAsStored
<1>6. ASSUME NEW v \in Workers PROVE RInv(v)'
  <2>0. RInv(v)
    BY DEF RenderInv, RInv
  <2>1. Routes(v)'
    BY <2>0, <1>1, <1>3, <1>f, <1>w, <1>u DEF RInv, Routes, Kept
  <2>2. Holds(v)'
    BY <1>f, <1>u DEF Holds
  <2>3. Reads(v)'
    BY <2>0, <1>1, <1>3, <1>u, <1>e DEF RInv, Reads, Made
  <2>4. Renders(v)'
    BY <2>0, <1>1, <1>3, <1>w, <1>u DEF RInv, Renders, Kept
  <2> QED
    BY <2>1, <2>2, <2>3, <2>4 DEF RInv
<1> QED
  BY <1>4, <1>5, <1>6 DEF RenderInv, RInv

\* A dictionary leaves the cache.
LEMMA ExpireKeeps ==
  ASSUME RenderInv, NEW form \in Forms, Expire(form)
  PROVE  RenderInv'
<1>t. RenderType
  BY DEF RenderInv
<1>u. UNCHANGED <<message, reacted, bugdown, lock, job, threads, survived>> /\ stained' = stained \ {form}
      /\ dicts' = [dicts EXCEPT ![form] = NotCached]
  BY DEF Expire
<1>d. \A g \in Forms : dicts'[g] = IF g = form THEN NotCached ELSE dicts[g]
  BY <1>u, <1>t DEF RenderType
<1>e. "html" \in stained' <=> "html" \in stained
  BY <1>u DEF Forms
<1>1. RenderType'
  <2>1. NotCached \in Shown
    BY DEF NotCached, Shown
  <2> QED
    BY <2>1, <1>u, <1>t DEF RenderType
<1>2. ShownAsStored'
  BY <1>d, <1>e, <1>u DEF RenderInv, ShownAsStored, build_message_dict
<1>3. ASSUME NEW v \in Workers PROVE RInv(v)'
  <2>0. RInv(v)
    BY DEF RenderInv, RInv
  <2>1. Routes(v)' /\ Renders(v)'
    BY <2>0, <1>u DEF RInv, Routes, Renders
  <2>2. Holds(v)'
    BY <2>0, <1>d, <1>u DEF RInv, Holds, build_message_dict
  <2>3. Reads(v)'
    BY <2>0, <1>u, <1>e DEF RInv, Reads
  <2> QED
    BY <2>1, <2>2, <2>3 DEF RInv
<1> QED
  BY <1>1, <1>2, <1>3 DEF RenderInv, RInv

\* The version of the renderer goes up.
LEMMA UpgradeKeeps ==
  ASSUME RenderInv, Upgrade
  PROVE  RenderInv'
<1>t. RenderType
  BY DEF RenderInv
<1>u. UNCHANGED <<message, reacted, dicts, lock, job, stained, survived>> /\ bugdown' = 2
      /\ threads' = [w \in Workers |-> <<>>]
  BY DEF Upgrade
<1>1. RenderType'
  BY <1>u, <1>t DEF RenderType, Threads
<1>2. ShownAsStored'
  BY <1>u DEF RenderInv, ShownAsStored, build_message_dict
<1>3. ASSUME NEW v \in Workers PROVE RInv(v)'
  <2>0. RInv(v) /\ job[v].step = "idle"
    BY DEF RenderInv, RInv, Upgrade, NoJob
  <2>1. Routes(v)'
    BY <2>0, <1>u DEF RInv, Routes
  <2>2. Holds(v)'
    BY <2>0, <1>u DEF RInv, Holds, Routes, Kept
  <2>3. Reads(v)' /\ Renders(v)'
    BY <2>0, <1>u DEF RInv, Reads, Renders
  <2> QED
    BY <2>1, <2>2, <2>3 DEF RInv
<1> QED
  BY <1>1, <1>2, <1>3 DEF RenderInv, RInv

\* What readers are shown is the html of the row as stored, in every cached form, and the
\* mentions stored with it are those of its text: update_to_dict_cache, to_dict_cached and
\* maybe_render_content with the row lock of an edit, except for the forms that the listed
\* races stained.
THEOREM ReadersSeeTheRow == RenderSpec => []ShownAsStored
<1>f. FirstWording \in Wordings
  BY RenderingConstants
<1>1. RenderInv /\ [RenderNext]_renderVars => RenderInv'
  <2> SUFFICES ASSUME RenderInv, [RenderNext]_renderVars PROVE RenderInv'
    OBVIOUS
  <2>1. ASSUME NEW w \in Workers, NEW text \in Wordings, access_message_to(w, "edit", text) PROVE RenderInv'
    BY <2>1, AccessKeeps
  <2>2. ASSUME NEW w \in Workers, access_message_to(w, "react", FirstWording) PROVE RenderInv'
    BY <2>2, <1>f, AccessKeeps
  <2>3. ASSUME NEW w \in Workers, NEW form \in Forms, generic_bulk_cached_fetch(w, form) PROVE RenderInv'
    BY <2>3, FetchKeeps
  <2>4. ASSUME NEW w \in Workers,
               do_add_reaction(w) \/ to_dict_uncached(w) \/ update_to_dict_cache(w) \/ cache_set_many(w)
        PROVE  RenderInv'
    BY <2>4, ReactionKeeps, DictKeeps, UpdateCacheKeeps, CacheSetKeeps
  <2>5. ASSUME NEW w \in Workers, do_convert(w) \/ Converted(w) \/ timeout(w) \/ ThreadEnds(w) PROVE RenderInv'
    BY <2>5, ConvertKeeps, ConvertedKeeps, TimeoutKeeps, ThreadEndsKeeps
  <2>6. ASSUME NEW w \in Workers, NEW i \in 1..Len(threads[w]), NEW name \in threads[w][i], handleMatch(w, i, name)
        PROVE  RenderInv'
    BY <2>6, MatchKeeps
  <2>7. ASSUME NEW w \in Workers, save_rendered_content(w) \/ SaveEdit(w) \/ Commit(w) \/ Rollback(w) PROVE RenderInv'
    BY <2>7, SaveRenderedKeeps, SaveEditKeeps, CommitKeeps, RollbackKeeps
  <2>8. ASSUME NEW form \in Forms, Expire(form) PROVE RenderInv'
    BY <2>8, ExpireKeeps
  <2>9. CASE Upgrade
    BY <2>9, UpgradeKeeps
  <2>10. CASE UNCHANGED renderVars
    BY <2>10 DEF renderVars, RenderInv, RenderType, ShownAsStored, Routes, Holds, Reads, Renders, build_message_dict
  <2> QED
    BY <2>1, <2>2, <2>3, <2>4, <2>5, <2>6, <2>7, <2>8, <2>9, <2>10 DEF RenderNext
<1>2. RenderInv => ShownAsStored
  BY DEF RenderInv
<1> QED
  BY RenderStarts, <1>1, <1>2, PTL DEF RenderSpec
=============================================================================
