----------------------------- MODULE RealmExport -----------------------------
(***************************************************************************)
(* do_export_realm beside a server at work, and do_import_realm of what it *)
(* wrote on another server. The export reads table after table while users *)
(* join, streams are made and messages sent; processes add the UserMessage *)
(* rows to the numbered files of messages; the import keeps ids, except of *)
(* clients and of the bots every server has.                               *)
(***************************************************************************)
EXTENDS Integers, FiniteSets, FiniteSetsExt, Functions, Sequences, SequencesExt

CONSTANTS
  Staff,        \* users there from the start
  Dummies,      \* mirror dummies of the realm
  Joiner,       \* the user who may join during the export
  HomeStream,   \* the stream of Staff
  LateStream,   \* the stream that may be made during the export
  Traffic,      \* what may be sent: [sender, to, client, file]
  Threads,      \* processes of export_usermessage_batch
  MaxSent,      \* bound: messages
  MaxFailures   \* bound: processes that fail or are killed

\* Ids: a user's is the same on both servers; the system bot's and the clients' differ.
BotHere == "bot1"
BotThere == "bot2"
ClientThere == [website |-> "c1", mobile |-> "c2", api |-> "c4"]
FirstClients == [website |-> "c2", mobile |-> "c1"]
NewClientId == "c3"

Personal(u) == [type |-> "personal", who |-> {u}]
Huddle(us) == [type |-> "huddle", who |-> us]
InStream(s) == [type |-> "stream", who |-> {s}]

\* A private message has a person of the realm on one side: dummies and system
\* bots do not write to each other.
ASSUME RealmExportAssumption ==
  /\ MaxSent \in Nat /\ MaxFailures \in Nat /\ Threads # {}
  /\ (Staff \union {Joiner}) \intersect (Dummies \union {BotHere}) = {}
  /\ \A t \in Traffic :
       /\ t.client \in DOMAIN ClientThere
       /\ \/ t.to \in {InStream(HomeStream), InStream(LateStream)}
          \/ t.to = Huddle(t.to.who) /\ t.to.who \intersect (Staff \union {Joiner}) # {}
          \/ \E u \in Staff \union Dummies \union {Joiner, BotHere} :
               t.to = Personal(u) /\ {t.sender, u} \intersect (Staff \union {Joiner}) # {}

VARIABLES
  people, clients, streams, sent, files,  \* the server that is exported
  stage,        \* where the export or the import is
  dump,         \* what was written
  shards,       \* the numbered files: [msg, state, rows]
  globbed,      \* thread -> the .partial files it saw and has not tried
  claimed,      \* thread -> the file it works on, 0 none
  failures,
  target        \* the server of the import

sourceVars == <<people, clients, streams, sent, files>>
exportVars == <<sourceVars, stage, dump, shards, globbed, claimed, failures, target>>

NoDump == [clients |-> <<>>, users |-> {}, dummies |-> {}, personal |-> {}, streamSubs |-> {},
           streams |-> {}, huddles |-> {}, uploads |-> {}, min |-> 0, attachments |-> <<>>]
NoTarget == [clientMap |-> <<>>, userMap |-> <<>>, users |-> {}, recipients |-> {},
             msgs |-> <<>>, rows |-> {}, files |-> {}, attachments |-> <<>>]
Exporting == stage \notin {"import", "links", "imported", "failed"}
-----------------------------------------------------------------------------
(* The server at work *)
Receivers(t) ==
  IF t.to.type = "stream" THEN UNION {streams[s] : s \in t.to.who}
  ELSE (t.to.who \union {t.sender}) \intersect people

Sends(t) ==
  /\ Exporting /\ Len(sent) < MaxSent
  /\ t.sender \in people \union Dummies \union {BotHere}
  /\ Joiner \in t.to.who => Joiner \in people
  /\ t.to.type = "stream" => t.to.who \subseteq DOMAIN streams
  /\ clients' = IF t.client \in DOMAIN clients THEN clients
                ELSE [n \in DOMAIN clients \union {t.client} |->
                        IF n = t.client THEN NewClientId ELSE clients[n]]
  /\ sent' = Append(sent, [sender |-> t.sender, to |-> t.to, client |-> clients'[t.client],
                           clientName |-> t.client, early |-> stage = "clients",
                           file |-> t.file, rows |-> Receivers(t)])
  /\ files' = files \union (IF t.file = "" THEN {} ELSE {t.file})
  /\ UNCHANGED <<people, streams, stage, dump, shards, globbed, claimed, failures, target>>

Joins ==
  /\ Exporting /\ Joiner \notin people
  /\ people' = people \union {Joiner}
  /\ streams' = [streams EXCEPT ![HomeStream] = @ \union {Joiner}]
  /\ UNCHANGED <<clients, sent, files, stage, dump, shards, globbed, claimed, failures, target>>

MakesStream(subscribers) ==
  /\ Exporting /\ LateStream \notin DOMAIN streams
  /\ streams' = [s \in DOMAIN streams \union {LateStream} |->
                   IF s = LateStream THEN subscribers ELSE streams[s]]
  /\ UNCHANGED <<people, clients, sent, files, stage, dump, shards, globbed, claimed, failures, target>>
-----------------------------------------------------------------------------
(* export_from_config: one table after the other *)
Export(table, next, value) ==
  /\ dump' = [dump EXCEPT ![table] = value]
  /\ stage' = next
  /\ UNCHANGED <<sourceVars, shards, globbed, claimed, failures, target>>

ExportClients == stage = "clients" /\ Export("clients", "users", clients)

fetch_user_profile ==
  /\ stage = "users"
  /\ dump' = [dump EXCEPT !.users = people, !.dummies = Dummies]
  /\ stage' = "personal"
  /\ UNCHANGED <<sourceVars, shards, globbed, claimed, failures, target>>

\* _user_subscription and _user_recipient.
ExportPersonal == stage = "personal" /\ Export("personal", "subscriptions", {Personal(u) : u \in dump.users})

ExportStreamSubs ==
  /\ stage = "subscriptions"
  /\ Export("streamSubs", "streams", {s \in DOMAIN streams : streams[s] \intersect dump.users # {}})

\* sanity_check_stream_data: the streams that were found are the streams there are.
ExportStreams ==
  /\ stage = "streams"
  /\ IF dump.streamSubs = DOMAIN streams
     THEN Export("streams", "huddles", {InStream(s) : s \in dump.streamSubs})
     ELSE stage' = "failed" /\ UNCHANGED <<sourceVars, dump, shards, globbed, claimed, failures, target>>

\* fetch_huddle_objects: only those whose every member is of the realm.
HuddlesOf(us) == {h \in {sent[i].to : i \in DOMAIN sent} : h.type = "huddle" /\ h.who \intersect us # {}}
fetch_huddle_objects ==
  /\ stage = "huddles"
  /\ Export("huddles", "uploads", {h \in HuddlesOf(dump.users) : h.who \subseteq people \union Dummies})

\* export_uploads_and_avatars: a copy of every attachment's file.
ExportUploads == stage = "uploads" /\ Export("uploads", "received", files)
-----------------------------------------------------------------------------
(* export_partial_message_files *)
PossibleSenders == dump.users \union dump.dummies \union {BotHere}
OurRecipients == dump.personal \union dump.streams \union dump.huddles
TheirRecipients == {Personal(u) : u \in PossibleSenders \ dump.users}

messages_we_received == {i \in DOMAIN sent : sent[i].sender \in PossibleSenders /\ sent[i].to \in OurRecipients}
messages_we_sent_to_them == {i \in DOMAIN sent : sent[i].sender \in dump.users /\ sent[i].to \in TheirRecipients}

\* write_message_partial_for_query, with a chunk of one message: the next id of
\* the query goes to the next file, an empty chunk ends the query.
WritePartial(query, wanted, next) ==
  /\ stage = query
  /\ LET rest == {i \in wanted : i > dump.min} IN
     IF rest = {}
     THEN stage' = next /\ dump' = [dump EXCEPT !.min = 0] /\ UNCHANGED shards
     ELSE /\ shards' = Append(shards, [msg |-> Min(rest), state |-> "partial", rows |-> {}])
          /\ dump' = [dump EXCEPT !.min = Min(rest)]
          /\ UNCHANGED stage
  /\ UNCHANGED <<sourceVars, globbed, claimed, failures, target>>

Exported == {shards[n].msg : n \in DOMAIN shards}

\* The slip of keeping the links to messages that are not exported.
MutAllLinks(f) == {i \in DOMAIN sent : sent[i].file = f}
LinkedMessages(f) == {i \in DOMAIN sent : sent[i].file = f} \intersect Exported

\* Links to exported messages, and the files with such a link.
fetch_attachment_data ==
  /\ stage = "attachments"
  /\ Export("attachments", "launch",
            [f \in {g \in files : LinkedMessages(g) # {}} |-> LinkedMessages(f)])
-----------------------------------------------------------------------------
(* launch_user_message_subprocesses and export_usermessage_batch *)
LaunchThreads ==
  /\ stage = "launch" /\ stage' = "batches"
  /\ globbed' = [t \in Threads |-> {n \in DOMAIN shards : shards[n].state = "partial"}]
  /\ UNCHANGED <<sourceVars, dump, shards, claimed, failures, target>>

\* The move fails for a file another process has taken.
ClaimFile(t, n) ==
  /\ stage = "batches" /\ claimed[t] = 0 /\ n \in globbed[t]
  /\ globbed' = [globbed EXCEPT ![t] = @ \ {n}]
  /\ IF shards[n].state = "partial"
     THEN shards' = [shards EXCEPT ![n].state = "locked"] /\ claimed' = [claimed EXCEPT ![t] = n]
     ELSE UNCHANGED <<shards, claimed>>
  /\ UNCHANGED <<sourceVars, stage, dump, failures, target>>

export_usermessages_batch(t) ==
  /\ claimed[t] # 0
  /\ shards' = [shards EXCEPT ![claimed[t]].state = "json",
                               ![claimed[t]].rows = sent[shards[claimed[t]].msg].rows \intersect dump.users]
  /\ claimed' = [claimed EXCEPT ![t] = 0]
  /\ UNCHANGED <<sourceVars, stage, dump, globbed, failures, target>>

\* An exception puts the file back and ends the process; a kill leaves it locked.
BatchFails(t, state) ==
  /\ claimed[t] # 0 /\ failures < MaxFailures /\ failures' = failures + 1
  /\ shards' = [shards EXCEPT ![claimed[t]].state = state]
  /\ claimed' = [claimed EXCEPT ![t] = 0] /\ globbed' = [globbed EXCEPT ![t] = {}]
  /\ UNCHANGED <<sourceVars, stage, dump, target>>

\* run_job answers 0 whatever the process said: the export is called finished.
ExportEnds ==
  /\ stage = "batches" /\ \A t \in Threads : globbed[t] = {} /\ claimed[t] = 0
  /\ stage' = "import"
  /\ UNCHANGED <<sourceVars, dump, shards, globbed, claimed, failures, target>>
-----------------------------------------------------------------------------
(* do_import_realm *)
re_map_foreign_keys(map, id) == IF id \in DOMAIN map THEN map[id] ELSE id

\* bulk_import_client by name; the cross-realm bots by address.
ClientMap == [c \in Range(dump.clients) |->
                ClientThere[CHOOSE n \in DOMAIN dump.clients : dump.clients[n] = c]]
UserMap == [u \in {BotHere} |-> BotThere]

\* realm.json, the files, then the messages up to the first number missing.
ImportRealm ==
  /\ stage = "import" /\ target = NoTarget
  /\ target' = [NoTarget EXCEPT !.clientMap = ClientMap, !.userMap = UserMap,
                  !.users = dump.users \union dump.dummies \union {BotThere},
                  !.recipients = OurRecipients, !.files = dump.uploads]
  /\ UNCHANGED <<sourceVars, stage, dump, shards, globbed, claimed, failures>>

ImportedMessage(i) ==
  [id |-> i, sender |-> re_map_foreign_keys(target.userMap, sent[i].sender), to |-> sent[i].to,
   client |-> re_map_foreign_keys(target.clientMap, sent[i].client)]

NextFile == Cardinality(DOMAIN target.msgs) + 1

import_message_data ==
  /\ stage = "import" /\ target # NoTarget
  /\ IF NextFile \in DOMAIN shards /\ shards[NextFile].state = "json"
     THEN LET s == shards[NextFile] IN
          /\ target' = [target EXCEPT !.msgs = Append(@, ImportedMessage(s.msg)),
                                      !.rows = @ \union {[user |-> u, msg |-> s.msg] : u \in s.rows}]
          /\ UNCHANGED stage
     ELSE stage' = "links" /\ UNCHANGED target
  /\ UNCHANGED <<sourceVars, dump, shards, globbed, claimed, failures>>

ImportedIds == {m.id : m \in Range(target.msgs)}

\* A link to a message that was not imported ends the import.
import_attachments ==
  /\ stage = "links"
  /\ IF UNION Range(dump.attachments) \subseteq ImportedIds
     THEN stage' = "imported" /\ target' = [target EXCEPT !.attachments = dump.attachments]
     ELSE stage' = "failed" /\ UNCHANGED target
  /\ UNCHANGED <<sourceVars, dump, shards, globbed, claimed, failures>>
-----------------------------------------------------------------------------
ExportInit ==
  /\ people = Staff /\ clients = FirstClients /\ streams = [s \in {HomeStream} |-> Staff]
  /\ sent = <<>> /\ files = {}
  /\ stage = "clients" /\ dump = NoDump /\ shards = <<>>
  /\ globbed = [t \in Threads |-> {}] /\ claimed = [t \in Threads |-> 0]
  /\ failures = 0 /\ target = NoTarget

ExportNext ==
  \/ \E t \in Traffic : Sends(t)
  \/ Joins \/ \E us \in {{}, Staff} : MakesStream(us)
  \/ ExportClients \/ fetch_user_profile \/ ExportPersonal \/ ExportStreamSubs \/ ExportStreams
  \/ fetch_huddle_objects \/ ExportUploads \/ fetch_attachment_data
  \/ WritePartial("received", messages_we_received, "sent")
  \/ WritePartial("sent", messages_we_sent_to_them, "attachments")
  \/ LaunchThreads \/ ExportEnds
  \/ \E t \in Threads : \/ \E n \in globbed[t] : ClaimFile(t, n)
                        \/ export_usermessages_batch(t)
                        \/ \E state \in {"partial", "locked"} : BatchFails(t, state)
  \/ ImportRealm \/ import_message_data \/ import_attachments

ExportSpec == ExportInit /\ [][ExportNext]_exportVars
-----------------------------------------------------------------------------
PersonThere(u) == IF u = BotHere THEN BotThere ELSE u
NotExported == {Personal(u) : u \in Dummies \union {BotHere}}

(***************************************************************************)
(* An import says what the realm said: every message that came over has    *)
(* its sender, a recipient that came over too (unless it was written to a  *)
(* dummy or a system bot), and its client, if that client was known when   *)
(* the export began; the rows and links that were written are of users and *)
(* messages that were.  When no process failed, all messages of the realm  *)
(* that were there at the beginning came over, however the export and the  *)
(* server's work interleave (re_map_foreign_keys, the order of the tables, *)
(* the claims of export_usermessage_batch).                                *)
(***************************************************************************)
ImportFaithful ==
  /\ \A m \in Range(target.msgs) :
       LET o == sent[m.id] IN
       /\ m.sender = PersonThere(o.sender) /\ m.sender \in target.users
       /\ m.to \in target.recipients \/ m.to \in NotExported
       /\ o.clientName \in DOMAIN dump.clients => m.client = ClientThere[o.clientName]
  /\ \A r \in target.rows : r.user \in target.users /\ r.msg \in ImportedIds
  /\ \A f \in DOMAIN dump.attachments : dump.attachments[f] \subseteq Exported
  /\ \A f \in DOMAIN target.attachments : target.attachments[f] \subseteq ImportedIds
  /\ stage = "imported" /\ failures = 0 =>
       \A i \in DOMAIN sent :
         sent[i].early /\ (sent[i].to.type = "huddle" => sent[i].to.who \subseteq people \union Dummies)
           => i \in ImportedIds
=============================================================================
