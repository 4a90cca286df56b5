---------------------------- MODULE SyncMessages ----------------------------
(***************************************************************************)
(* Messages as the registration of Me sees them: sending, editing,         *)
(* deleting and flagging them, the unread_msgs and max_message_id it       *)
(* reads, what apply_event does with their events, and presence.  Of the   *)
(* UserMessage rows only those of Me are kept.                             *)
(***************************************************************************)
EXTENDS SyncState, Bags

CONSTANTS Subjects, MaxMessages

MessageIds == 1..MaxMessages
Flags == {"read", "mentioned", "starred", "historical"}
Others == Humans \ {Me}

\* A Message row and Me's UserMessage row: none, or its flags.  reopened is history: Me
\* marked the message unread again.
MessageRows ==
  [to: Streams \cup {"pm", "huddle"}, subject: Subjects, sender: Humans,
   received: BOOLEAN, flags: SUBSET Flags, reopened: BOOLEAN]

InitMessages == [msgs |-> <<>>, last_id |-> 0, presence |-> [u \in Users |-> "none"]]

Received(d) == {m \in DOMAIN d.msgs : d.msgs[m].received}
Unread(d) == {m \in Received(d) : "read" \notin d.msgs[m].flags}

\* access_message: Me received it, or it is on a public stream.
access_message(user, m) == user # Me \/ db.msgs[m].received \/ db.msgs[m].to \in Streams

\* Events about message m reach Me if Me has a row for it.
ToReaders(d, m, event) == send_event(event, IF d.msgs[m].received THEN {Me} ELSE {})

-----------------------------------------------------------------------------

\* Me's row is read at once if Me sent the message.  The event carries the message as it is now.
do_send_messages(sender, to, subject, mentioned) ==
  LET id == db.last_id + 1
      received == to \notin Streams \/ db.subs[Me][to] = "active"
      row == [to |-> to, subject |-> subject, sender |-> sender, received |-> received, reopened |-> FALSE,
              flags |-> IF ~received THEN {}
                        ELSE (IF sender = Me THEN {"read"} ELSE {}) \cup (IF mentioned THEN {"mentioned"} ELSE {})]
      rows == [db EXCEPT !.msgs = (id :> row) @@ @, !.last_id = id]
  IN /\ id \in MessageIds
     /\ Commit(rows, <<ToReaders(rows, id, [type |-> "message", id |-> id, message |-> row])>>)

\* update_user_message_flags: the mention is what the new text says it is.
Remention(flags, mentioned) == IF mentioned THEN flags \cup {"mentioned"} ELSE flags \ {"mentioned"}

UpdateMessageEvent(m, subject) ==
  [type |-> "update_message", message_id |-> m, to |-> db.msgs[m].to,
   orig_subject |-> db.msgs[m].subject, subject |-> subject]

\* The messages a change of subject reaches; those of change_all are recent ones here.
Propagated(m, mode) ==
  {n \in DOMAIN db.msgs : /\ db.msgs[n].to = db.msgs[m].to /\ db.msgs[n].subject = db.msgs[m].subject
                          /\ CASE mode = "change_one" -> n = m
                               [] mode = "change_later" -> n >= m
                               [] mode = "change_all" -> TRUE}

do_update_message(m, subject, mode, content, mentioned) ==
  LET reached == IF subject = db.msgs[m].subject THEN {m} ELSE Propagated(m, mode)
      Edited(n) == IF n \notin reached THEN db.msgs[n]
                   ELSE [db.msgs[n] EXCEPT !.subject = subject,
                           !.flags = IF n = m /\ content /\ db.msgs[n].received THEN Remention(@, mentioned) ELSE @]
      rows == [db EXCEPT !.msgs = [n \in DOMAIN @ |-> Edited(n)]]
  IN Commit(rows, <<ToReaders(rows, m, UpdateMessageEvent(m, subject))>>)

\* Own messages are edited at will; an administrator changes the subject of others' messages.
update_message_backend(editor, m, subject, mode, content, mentioned) ==
  /\ access_message(editor, m)
  /\ db.msgs[m].sender = editor \/ (~content /\ db.users[editor].admin)
  /\ content \/ subject # db.msgs[m].subject
  /\ db.msgs[m].to \notin Streams => subject = db.msgs[m].subject
  /\ do_update_message(m, subject, mode, content, mentioned)

\* The worker that adds link previews: new rendering, the flags computed again.
do_update_embedded_data(m, mentioned) ==
  LET rows == [db EXCEPT !.msgs[m].flags = IF db.msgs[m].received THEN Remention(@, mentioned) ELSE @]
  IN Commit(rows, <<ToReaders(rows, m, UpdateMessageEvent(m, db.msgs[m].subject))>>)

\* move_message_to_archive takes the message and its rows away before the event goes out.
do_delete_message(m) ==
  Commit([db EXCEPT !.msgs = Restrict(@, DOMAIN @ \ {m})],
         <<ToReaders(db, m, [type |-> "delete_message", message_id |-> m])>>)

delete_message_backend(user, m) == access_message(user, m) /\ db.users[user].admin /\ do_delete_message(m)

\* A row of Me for a message Me did not receive: read, and marked historical.
HistoricalRow(row) == IF row.received THEN row ELSE [row EXCEPT !.received = TRUE, !.flags = {"read", "historical"}]

\* Reactions and typing notices change nothing that registering reads, except for the row.
add_reaction_backend(m) ==
  LET rows == [db EXCEPT !.msgs[m] = HistoricalRow(@)]
  IN access_message(Me, m) /\ Commit(rows, <<ToReaders(rows, m, [type |-> "reaction"])>>)

do_send_typing_notification == Commit(db, <<ToMe([type |-> "typing"])>>)

FlagEvent(op, flag, ids, all) ==
  [type |-> "update_message_flags", operation |-> op, flag |-> flag, messages |-> ids, all |-> all]

Flagged(row, op, flag) ==
  CASE op = "add" -> [row EXCEPT !.flags = @ \cup {flag}]
    [] op = "remove" -> [row EXCEPT !.flags = @ \ {flag}, !.reopened = @ \/ flag = "read"]

\* Me's messages of a stream, or of a topic on it.
OfTopic(s, topic) == {m \in Received(db) : db.msgs[m].to = s /\ topic \in {"", db.msgs[m].subject}}

\* The named messages, all of a stream's or a topic's, or all.  The event of a change of all names the
\* messages the request named; that of a stream those that really change.
do_update_message_flags(op, flag, named, scope, topic) ==
  LET mine == CASE scope = "all" -> Received(db)
                [] scope \in Streams -> OfTopic(scope, topic)
                [] scope = "named" -> Received(db) \cap named
      star == scope = "named" /\ mine = {} /\ Cardinality(named) = 1 /\ flag = "starred"
      touched == {m \in IF star THEN named ELSE mine : (flag \in db.msgs[m].flags) = (op = "remove")}
      base == [m \in DOMAIN db.msgs |-> IF star /\ m \in named THEN HistoricalRow(db.msgs[m]) ELSE db.msgs[m]]
      rows == [db EXCEPT !.msgs = [m \in DOMAIN @ |-> IF m \in touched THEN Flagged(base[m], op, flag) ELSE base[m]]]
      ids == IF scope \in Streams THEN touched ELSE named
  IN /\ scope = "named" => mine # {} \/ (star /\ \A m \in named : access_message(Me, m))
     /\ Commit(rows, <<ToMe(FlagEvent(op, flag, ids, scope = "all"))>>)

\* A topic must have a message of Me.
update_message_flags(op, flag, named, scope, topic) ==
  /\ topic # "" => OfTopic(scope, topic) # {}
  /\ do_update_message_flags(op, flag, named, scope, topic)

\* For Android moving the pointer also marks the messages passed as read, without an event
\* of their own.
do_update_pointer(pointer, android) ==
  LET passed == {m \in Received(db) : m > db.own["pointer"] /\ m <= pointer}
      rows == [db EXCEPT !.own["pointer"] = pointer,
                 !.msgs = [m \in DOMAIN @ |-> IF android /\ m \in passed
                                              THEN [@[m] EXCEPT !.flags = @ \cup {"read"}] ELSE @[m]]]
  IN Commit(rows, <<ToMe([type |-> "pointer", pointer |-> pointer])>>)

\* The pointer only moves forward and onto a message of Me.
update_pointer_backend(pointer, android) ==
  pointer > db.own["pointer"] /\ pointer \in Received(db) /\ do_update_pointer(pointer, android)

\* A change from active to idle waits until the status is old; only a new or returning user is announced.
do_update_user_presence(u, status, stale) ==
  LET old == db.presence[u]
      created == old = "none"
      saved == created \/ stale \/ old = "idle" \/ status = old
      announced == created \/ (status = "active" /\ (stale \/ old = "idle"))
      rows == IF saved THEN [db EXCEPT !.presence[u] = status] ELSE db
  IN Commit(rows, IF announced THEN <<ToRealm(rows, [type |-> "presence", user |-> u])>> ELSE <<>>)

MessagesRequest ==
  /\ Request("messages")
  /\ \/ \E sender \in Humans, to \in Streams \cup {"pm", "huddle"}, subject \in Subjects, mentioned \in BOOLEAN :
          do_send_messages(sender, to, subject, mentioned)
     \/ \E editor \in Humans, m \in DOMAIN db.msgs, subject \in Subjects, content, mentioned \in BOOLEAN,
           mode \in {"change_one", "change_later", "change_all"} :
          update_message_backend(editor, m, subject, mode, content, mentioned)
     \/ \E m \in DOMAIN db.msgs, mentioned \in BOOLEAN : do_update_embedded_data(m, mentioned)
     \/ \E user \in Humans, m \in DOMAIN db.msgs : delete_message_backend(user, m)
     \/ \E m \in DOMAIN db.msgs : add_reaction_backend(m)
     \/ do_send_typing_notification
     \/ \E op \in {"add", "remove"}, flag \in {"read", "starred"}, named \in SUBSET DOMAIN db.msgs,
           scope \in Streams \cup {"all", "named"} :
          \E topic \in {""} \cup (IF scope \in Streams THEN Subjects ELSE {}) :
            update_message_flags(op, flag, named, scope, topic)
     \/ \E pointer \in DOMAIN db.msgs, android \in BOOLEAN : update_pointer_backend(pointer, android)
     \/ \E u \in Others, status \in {"active", "idle"}, stale \in BOOLEAN : do_update_user_presence(u, status, stale)

-----------------------------------------------------------------------------

ThreadKey(row) ==
  CASE row.to \in Streams -> [type |-> "streams", id |-> row.to, topic |-> row.subject]
    [] row.to = "pm" -> [type |-> "pms", id |-> row.sender, topic |-> "none"]
    [] row.to = "huddle" -> [type |-> "huddles", id |-> "all", topic |-> "none"]

One(m) == SetToBag({m})

\* Threads are objects in a list, two of which may come to have one key; ids may repeat.
get_unread_message_ids_per_recipient(d) ==
  LET keys == {ThreadKey(d.msgs[m]) : m \in Unread(d)}
  IN [threads |-> SetToSeq({[key |-> k, ids |-> SetToBag({m \in Unread(d) : ThreadKey(d.msgs[m]) = k})] : k \in keys}),
      mentions |-> SetToBag({m \in Unread(d) : "mentioned" \in d.msgs[m].flags})]

max_message_id(d) == Max(Received(d) \cup {-1})

MessagesOfProfile(p) ==
  [pointer |-> p.own["pointer"], max_message_id |-> -1, presences |-> [u \in Users |-> "none"],
   unread_msgs |-> [threads |-> <<>>, mentions |-> EmptyBag]]

MessagesQueries == <<"max_message_id", "presences", "unread_msgs">>

FetchMessages(s, query, d) ==
  CASE query = "max_message_id" -> [s EXCEPT !.max_message_id = max_message_id(d)]
    [] query = "presences" -> [s EXCEPT !.presences = d.presence]
    [] query = "unread_msgs" -> [s EXCEPT !.unread_msgs = get_unread_message_ids_per_recipient(d)]

\* Mutant: a thread that is there already is left as it is.
FirstOfThreadOnly(unread, id, row) ==
  IF \E i \in DOMAIN unread.threads : unread.threads[i].key = ThreadKey(row) THEN unread
  ELSE [unread EXCEPT !.threads = Append(@, [key |-> ThreadKey(row), ids |-> One(id)])]

\* A message of a thread that is known joins it and no more; only with a new thread are mentions kept.
apply_unread_message_event(unread, id, row) ==
  LET known == {i \in DOMAIN unread.threads : unread.threads[i].key = ThreadKey(row)}
  IN IF known # {} THEN [unread EXCEPT !.threads[Min(known)].ids = @ (+) One(id)]
     ELSE [threads |-> Append(unread.threads, [key |-> ThreadKey(row), ids |-> One(id)]),
           mentions |-> IF "mentioned" \in row.flags THEN unread.mentions (+) One(id) ELSE unread.mentions]

\* One copy of the id leaves each thread and the mentions; empty threads go.
remove_message_id_from_unread_mgs(unread, id) ==
  [threads |-> SelectSeq([i \in DOMAIN unread.threads |-> [unread.threads[i] EXCEPT !.ids = @ (-) One(id)]],
                         LAMBDA t : t.ids # EmptyBag),
   mentions |-> unread.mentions (-) One(id)]

RemoveAll(unread, ids) == FoldSet(LAMBDA id, u : remove_message_id_from_unread_mgs(u, id), unread, ids)

\* apply_event for these types; a deletion and a presence are looked up in the rows d again.
ApplyMessages(s, e, d) ==
  CASE e.type = "message" ->
         [s EXCEPT !.max_message_id = IF e.id > @ THEN e.id ELSE @,
                   !.unread_msgs = apply_unread_message_event(@, e.id, e.message)]
    [] e.type = "pointer" -> [s EXCEPT !.pointer = IF e.pointer > @ THEN e.pointer ELSE @]
    [] e.type = "update_message" ->
         [s EXCEPT !.unread_msgs.threads =
            [i \in DOMAIN @ |->
               IF @[i].key = [type |-> "streams", id |-> e.to, topic |-> e.orig_subject]
               THEN [@[i] EXCEPT !.key.topic = e.subject] ELSE @[i]]]
    [] e.type = "delete_message" ->
         [s EXCEPT !.max_message_id = max_message_id(d),
                   !.unread_msgs = remove_message_id_from_unread_mgs(@, e.message_id)]
    [] e.type \in {"reaction", "typing"} -> s
    [] e.type = "update_message_flags" ->
         IF e.flag = "read" /\ e.operation = "add" THEN [s EXCEPT !.unread_msgs = RemoveAll(@, e.messages)] ELSE s
    [] e.type = "presence" -> [s EXCEPT !.presences[e.user] = d.presence[e.user]]
=============================================================================
