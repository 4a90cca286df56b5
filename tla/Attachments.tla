---------------------------- MODULE Attachments ----------------------------
(***************************************************************************)
(* Uploaded files and the messages that link to them, with the history of  *)
(* the edits of these messages and their move to the archive: the storage, *)
(* the Attachment table and its relation to messages, the archive tables,  *)
(* and the sweep of files that no message claimed.  Everybody is of one    *)
(* realm.  A file is written and recorded in two steps, an edit loads its  *)
(* message before it saves it, and the sweep works through a list.         *)
(***************************************************************************)
EXTENDS Integers, Sequences, FiniteSets

CONSTANTS
  Members,    \* users
  Circle,     \* those who receive what is sent to the private stream
  Paths,      \* path_ids of files
  Quota,      \* files a user may have
  Titles,     \* topics
  NewTitles,  \* and those that edits give
  MaxPosts, MaxEdits,
  Edited      \* bound: the messages that are edited

ASSUME AttachmentConstants == Circle \subseteq Members /\ Quota \in Nat /\ Titles # {}

VARIABLES
  files,      \* in the storage
  attachment, \* Attachment rows by path: owner and is_realm_public
  aged,       \* paths uploaded longer ago than the sweep spares
  links,      \* pairs of a path and a message
  posts,      \* Message rows by id
  uploading,  \* an upload of each user: none, allowed or written, and its path
  edits,      \* edits that have loaded their message
  sweep,      \* paths the sweep has still to delete
  archive,    \* archived messages, of which only the files matter, attachments and their pairs
  made,       \* number of edits begun
  spoiled     \* history: paths whose owner removed them, or that the sweep took although claimed

attachVars == <<files, attachment, aged, links, posts, uploading, edits, sweep, archive, made, spoiled>>

Idle == [step |-> "none", path |-> 0]

AttachInit ==
  /\ files = {} /\ attachment = <<>> /\ aged = {} /\ links = {} /\ posts = <<>>
  /\ uploading = [u \in Members |-> Idle] /\ edits = {} /\ sweep = {}
  /\ archive = [posts |-> <<>>, paths |-> {}, links |-> {}]
  /\ made = 0 /\ spoiled = {}

Rows == DOMAIN attachment
LinkedIn(pairs, path) == {l[2] : l \in {k \in pairs : k[1] = path}}
Put(f, x, v) == [y \in DOMAIN f \cup {x} |-> IF y = x THEN v ELSE f[y]]
Drop(f, S) == [x \in DOMAIN f \ S |-> f[x]]

-----------------------------------------------------------------------------

\* The size of what is recorded, not of what is under way, counts.
within_upload_quota(u) == Cardinality({p \in Rows : attachment[p].owner = u}) < Quota

upload_file_backend(u) ==
  /\ uploading[u] = Idle /\ within_upload_quota(u)
  /\ \E p \in Paths \ (files \cup Rows \cup aged \cup spoiled \cup archive.paths \cup {uploading[v].path : v \in Members}) :
       uploading' = [uploading EXCEPT ![u] = [step |-> "allowed", path |-> p]]
  /\ UNCHANGED <<files, attachment, aged, links, posts, edits, sweep, archive, made, spoiled>>

upload_message_image(u) ==
  /\ uploading[u].step = "allowed"
  /\ files' = files \cup {uploading[u].path}
  /\ uploading' = [uploading EXCEPT ![u].step = "written"]
  /\ UNCHANGED <<attachment, aged, links, posts, edits, sweep, archive, made, spoiled>>

create_attachment(u) ==
  /\ uploading[u].step = "written"
  /\ attachment' = Put(attachment, uploading[u].path, [owner |-> u, public |-> FALSE])
  /\ uploading' = [uploading EXCEPT ![u] = Idle]
  /\ UNCHANGED <<files, aged, links, posts, edits, sweep, archive, made, spoiled>>

\* The process stops; a file that was written stays without a row.
UploadDies(u) ==
  /\ uploading[u] # Idle
  /\ uploading' = [uploading EXCEPT ![u] = Idle]
  /\ aged' = aged \cup {uploading[u].path}
  /\ UNCHANGED <<files, attachment, links, posts, edits, sweep, archive, made, spoiled>>

\* Owners, everybody for a file that was on a public stream, and who received a message
\* that links to it.
validate_attachment_request(u, p) ==
  /\ p \in Rows
  /\ \/ attachment[p].owner = u
     \/ attachment[p].public
     \/ \E m \in LinkedIn(links, p) \cap DOMAIN posts : u \in posts[m].got

serve_file_backend(u, p) == validate_attachment_request(u, p) /\ p \in files

\* The files of a text that its sender may see are claimed for message m; on a public
\* stream they become public, and stay so.
do_claim_attachments(m, sender, to, text) ==
  LET claimed == {p \in text : validate_attachment_request(sender, p)}
  IN [paths |-> claimed,
      rows |-> [p \in Rows |-> IF p \in claimed /\ to = "stream" THEN [attachment[p] EXCEPT !.public = TRUE] ELSE attachment[p]],
      links |-> {<<p, m>> : p \in claimed}]

\* One transaction writes the message, the rows of its readers and the claims.
do_send_post(u, to, text) ==
  LET m == Cardinality(DOMAIN posts) + Cardinality(DOMAIN archive.posts) + 1
      title == CHOOSE t \in Titles : TRUE
      claim == do_claim_attachments(m, u, to, text)
  IN /\ m <= MaxPosts
     /\ posts' = Put(posts, m, [sender |-> u, to |-> to, text |-> text, title |-> title, got |-> Circle, history |-> <<>>,
                                claimed |-> claim.paths, versions |-> <<[text |-> text, title |-> title]>>,
                                mixed |-> FALSE, moved |-> FALSE])
     /\ attachment' = claim.rows /\ links' = links \cup claim.links
     /\ UNCHANGED <<files, aged, uploading, edits, sweep, archive, made, spoiled>>

\* The sender's edit of text, topic or both; an empty set is what the request leaves out.
update_message_backend(m, text, title) ==
  /\ made < MaxEdits /\ made' = made + 1
  /\ ~(text = {} /\ title = {})
  /\ edits' = edits \cup {[id |-> made, post |-> m, row |-> posts[m], text |-> text, title |-> title]}
  /\ UNCHANGED <<files, attachment, aged, links, posts, uploading, sweep, archive, spoiled>>

\* check_attachment_reference_change, with the text as the edit loaded it.
check_attachment_reference_change(m, row, text) ==
  LET kept == links \ {<<p, m>> : p \in row.text \ text}
      claim == do_claim_attachments(m, row.sender, row.to, text)
  IN IF text \ row.text = {} THEN [paths |-> row.claimed \cap text, rows |-> attachment, links |-> kept]
     ELSE [paths |-> (row.claimed \cap text) \cup claim.paths, rows |-> claim.rows, links |-> kept \cup claim.links]

\* The entry of an edit keeps what was there before; the newest comes first.
MutOldestFirstHistory(row, text, title) ==
  Append(row.history, [text |-> IF text = {} THEN {} ELSE {row.text}, title |-> IF title = {} THEN {} ELSE {row.title}])

edit_history_event(row, text, title) ==
  <<[text |-> IF text = {} THEN {} ELSE {row.text}, title |-> IF title = {} THEN {} ELSE {row.title}]>> \o row.history

\* The message is saved as the edit loaded and changed it; a new topic also goes to the
\* other messages of the old one, whose histories do not tell.  A message deleted since
\* makes the save fail.
do_update_message(e, everywhere) ==
  LET row == e.row
      text == IF e.text = {} THEN row.text ELSE CHOOSE x \in e.text : TRUE
      title == IF e.title = {} THEN row.title ELSE CHOOSE x \in e.title : TRUE
      change == IF e.text = {} THEN [paths |-> row.claimed, rows |-> attachment, links |-> links]
                ELSE check_attachment_reference_change(e.post, row, text)
      stale == posts[e.post] # row
      saved == [row EXCEPT !.text = text, !.title = title, !.history = edit_history_event(row, e.text, e.title),
                           !.claimed = change.paths,
                           !.versions = <<[text |-> text, title |-> title]>> \o posts[e.post].versions,
                           !.mixed = posts[e.post].mixed \/ stale, !.moved = posts[e.post].moved]
      Follows(m) == everywhere /\ e.title # {} /\ posts[m].title = row.title /\ posts[m].to = row.to
  IN /\ edits' = edits \ {e}
     /\ IF e.post \notin DOMAIN posts THEN UNCHANGED <<posts, attachment, links>>
        ELSE /\ posts' = [m \in DOMAIN posts |->
                            IF m = e.post THEN saved
                            ELSE IF Follows(m) THEN [posts[m] EXCEPT !.title = title, !.moved = TRUE] ELSE posts[m]]
             /\ attachment' = change.rows /\ links' = change.links
     /\ UNCHANGED <<files, aged, uploading, sweep, archive, made, spoiled>>

\* A version before the edit of which the history has this entry.
Undo(entry, version) ==
  [text |-> IF entry.text = {} THEN version.text ELSE CHOOSE x \in entry.text : TRUE,
   title |-> IF entry.title = {} THEN version.title ELSE CHOOSE x \in entry.title : TRUE]

\* What the history says the message was, from now back: entry i is undone from version i.
fill_edit_history_entries(row) ==
  LET n == Len(row.history)
      was[i \in 0..n] == IF i = 0 THEN [text |-> row.text, title |-> row.title] ELSE Undo(row.history[i], was[i - 1])
  IN [i \in 1..n + 1 |-> was[i - 1]]

-----------------------------------------------------------------------------

Archived(row) == [claimed |-> row.claimed, mixed |-> row.mixed]

\* do_delete_message: one transaction copies the message, its readers' rows, its files' rows
\* and their pairs to the archive, deletes the message with what refers to it, and the file
\* rows that no other message has.
MutDropShared(m) ==
  LET mine == {p \in Rows : <<p, m>> \in links}
  IN [archive |-> [posts |-> Put(archive.posts, m, Archived(posts[m])), paths |-> archive.paths \cup mine,
                   links |-> archive.links \cup {<<p, m>> : p \in mine}],
      links |-> {l \in links : l[2] # m /\ l[1] \notin mine}, rows |-> Drop(attachment, mine)]

move_message_to_archive(m) ==
  LET mine == {p \in Rows : <<p, m>> \in links}
      left == {l \in links : l[2] # m}
      pairs == archive.links \cup {<<p, m>> : p \in mine}
  IN [archive |-> [posts |-> Put(archive.posts, m, Archived(posts[m])), paths |-> archive.paths \cup mine, links |-> pairs],
      links |-> left,
      rows |-> Drop(attachment, {p \in Rows : LinkedIn(left, p) = {} /\ <<p, m>> \in pairs})]

delete_message_backend(m) ==
  LET moved == move_message_to_archive(m)
  IN /\ archive' = moved.archive /\ links' = moved.links /\ attachment' = moved.rows
     /\ posts' = Drop(posts, {m})
     /\ UNCHANGED <<files, aged, uploading, edits, sweep, made, spoiled>>

\* The owner removes an upload, claimed or not.
remove_attachment(p) ==
  /\ files' = files \ {p} /\ attachment' = Drop(attachment, {p})
  /\ links' = {l \in links : l[1] # p}
  /\ spoiled' = spoiled \cup {p}
  /\ UNCHANGED <<aged, posts, uploading, edits, sweep, archive, made>>

\* A week passes for an upload.
Ages(p) ==
  /\ aged' = aged \cup {p}
  /\ UNCHANGED <<files, attachment, links, posts, uploading, edits, sweep, archive, made, spoiled>>

\* The sweep lists the old uploads without messages,
get_old_unclaimed_attachments ==
  /\ sweep = {}
  /\ sweep' = {p \in Rows \cap aged : LinkedIn(links, p) = {}} /\ sweep' # {}
  /\ UNCHANGED <<files, attachment, aged, links, posts, uploading, edits, archive, made, spoiled>>

\* and deletes each file and row, claimed in the meantime or not.
do_delete_old_unclaimed_attachments(p) ==
  /\ sweep' = sweep \ {p}
  /\ files' = files \ {p} /\ attachment' = Drop(attachment, {p})
  /\ links' = {l \in links : l[1] # p}
  /\ spoiled' = IF LinkedIn(links, p) # {} THEN spoiled \cup {p} ELSE spoiled
  /\ UNCHANGED <<aged, posts, uploading, edits, archive, made>>

AttachNext ==
  \/ \E u \in Members : upload_file_backend(u) \/ upload_message_image(u) \/ create_attachment(u)
  \/ \E u \in Members : UploadDies(u)
  \/ \E u \in Circle, to \in {"stream", "pm"}, text \in SUBSET Paths : do_send_post(u, to, text)
  \/ \E m \in DOMAIN posts \cap Edited, text \in {{}} \cup {{x} : x \in SUBSET Paths}, title \in {{}} \cup {{t} : t \in NewTitles} :
       update_message_backend(m, text, title)
  \/ \E e \in edits, everywhere \in BOOLEAN : do_update_message(e, everywhere)
  \/ \E m \in DOMAIN posts : delete_message_backend(m)
  \/ \E p \in Rows : remove_attachment(p)
  \/ \E p \in Rows \ aged : Ages(p)
  \/ get_old_unclaimed_attachments
  \/ \E p \in sweep : do_delete_old_unclaimed_attachments(p)

AttachSpec == AttachInit /\ [][AttachNext]_attachVars

-----------------------------------------------------------------------------

(***************************************************************************)
(* Who received a message can open the files its sender could open when    *)
(* they were put into it, whatever happens to other messages with the same *)
(* file: unless the owner removed the file, the sweep had listed it before *)
(* it was claimed, or two edits of the message overlapped.                 *)
(***************************************************************************)
FilesReadable ==
  \A m \in DOMAIN posts : ~posts[m].mixed =>
    \A p \in posts[m].claimed \ spoiled : \A u \in posts[m].got : serve_file_backend(u, p)

(***************************************************************************)
(* A deleted message goes to the archive with the rows of all files it     *)
(* has and its pairs with them, and nothing is both archived and live:     *)
(* move_message_to_archive copies before the deletion cascades.            *)
(***************************************************************************)
ArchiveWhole ==
  /\ DOMAIN posts \cap DOMAIN archive.posts = {}
  /\ \A l \in links : l[1] \in Rows /\ l[2] \in DOMAIN posts
  /\ \A m \in DOMAIN archive.posts : ~archive.posts[m].mixed =>
       \A p \in archive.posts[m].claimed \ spoiled : p \in archive.paths /\ <<p, m>> \in archive.links

(***************************************************************************)
(* Files live as long as the messages that link to them: a link in a       *)
(* message leads to a file whose row and contents are there, and the       *)
(* archive of a deleted message is whole.                                  *)
(***************************************************************************)
FilesSurvive == FilesReadable /\ ArchiveWhole

(***************************************************************************)
(* The edit history of a message, from which fill_edit_history_entries     *)
(* rebuilds its versions, is what the message was, unless two of its edits *)
(* overlapped or the topic came with the edit of another message.          *)
(***************************************************************************)
HistoryTruthful ==
  \A m \in DOMAIN posts :
    ~posts[m].mixed /\ ~posts[m].moved => fill_edit_history_entries(posts[m]) = posts[m].versions
=============================================================================
