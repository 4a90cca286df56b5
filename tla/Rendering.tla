----------------------------- MODULE Rendering ------------------------------
(***************************************************************************)
(* What readers see of a message: the HTML that bugdown makes of its       *)
(* content, kept in the row, and the dictionary of the message, kept in    *)
(* memcached with and without markdown.  The processes of the web server   *)
(* edit it, react to it and fetch it.  Each renders in a thread with a     *)
(* time limit, and the thread finds the message through a global.          *)
(***************************************************************************)
EXTENDS Naturals, Sequences

CONSTANTS
  Workers,        \* processes of the web server
  Wordings,       \* what the content may be
  FirstWording,
  Mentioning,     \* the users whom each wording mentions or alerts
  MaxRewrites,    \* bound: edits and reactions
  MaxSlow,        \* bound: renderings that reach the time limit
  MaxRollbacks    \* bound: transactions that are not committed

ASSUME RenderingConstants ==
  /\ "none" \notin Workers
  /\ FirstWording \in Wordings /\ DOMAIN Mentioning = Wordings
  /\ MaxRewrites \in Nat /\ MaxSlow \in Nat /\ MaxRollbacks \in Nat

VARIABLES
  message,    \* the Message row, and the flags of its UserMessage rows
  reacted,    \* whether there is a Reaction row
  dicts,      \* memcached, by apply_markdown
  bugdown,    \* the version of bugdown
  lock,       \* the process whose transaction has the row
  job,        \* the request that each process serves
  threads,    \* rendering threads of each process, the current one last
  spent,      \* how much of the bounds is used up
  stained,    \* history: what a process wrote that the database has overtaken since it read
  survived    \* history: a thread has outlived its time limit

renderVars == <<message, reacted, dicts, bugdown, lock, job, threads, spent, stained, survived>>

Forms == {"markdown", "plain"}     \* apply_markdown or not
NotCached == [shows |-> "nothing", reacted |-> FALSE]
NoJob == [kind |-> "none", step |-> "idle", row |-> <<>>, text |-> FirstWording, found |-> {},
          form |-> "plain", reacted |-> FALSE, stale |-> {}]

RenderInit ==
  /\ message = [content |-> FirstWording, html |-> FirstWording, version |-> 1, mentioned |-> Mentioning[FirstWording]]
  /\ reacted = FALSE
  /\ dicts = [form \in Forms |-> NotCached]
  /\ bugdown = 1 /\ lock = "none"
  /\ job = [w \in Workers |-> NoJob]
  /\ threads = [w \in Workers |-> <<>>]
  /\ spent = [rewrites |-> 0, slow |-> 0, rollbacks |-> 0]
  /\ stained = {} /\ survived = FALSE

need_to_render_content(row) == row.version < bugdown

\* build_message_dict: the content as it is shown, and the reactions.
build_message_dict(row, form, reactions) ==
  [shows |-> IF form = "markdown" THEN row.html ELSE row.content, reacted |-> reactions]

Step(w, step) == job' = [job EXCEPT ![w].step = step]

\* The request fails, or it is answered.
Ends(w) == job' = [job EXCEPT ![w] = NoJob]

-----------------------------------------------------------------------------

\* access_message: an edit, a reaction or its removal starts from the row.
access_message_to(w, kind, text) ==
  /\ job[w] = NoJob /\ spent.rewrites < MaxRewrites
  /\ job' = [job EXCEPT ![w] = [NoJob EXCEPT !.kind = kind, !.row = message, !.text = text,
                                             !.step = IF kind = "edit" THEN "render" ELSE "react"]]
  /\ spent' = [spent EXCEPT !.rewrites = @ + 1]
  /\ UNCHANGED <<message, reacted, dicts, bugdown, lock, threads, stained, survived>>

\* The others that have read the reactions have read what is no longer so.
do_add_reaction(w) ==
  /\ job[w].step = "react"
  /\ reacted' = ~reacted
  /\ job' = [v \in Workers |-> IF v = w THEN [job[w] EXCEPT !.step = "dict"]
                               ELSE IF job[v].step \in {"render", "rendering", "rendered", "cache"}
                                    THEN [job[v] EXCEPT !.stale = @ \cup {"reactions"}] ELSE job[v]]
  /\ stained' = stained \cup Forms
  /\ UNCHANGED <<message, dicts, bugdown, lock, threads, spent, survived>>

\* update_to_dict_cache makes the dictionaries from the row that the request has; one whose
\* HTML is of an older version is rendered first.  The reactions are read now.
to_dict_uncached(w) ==
  /\ job[w].step = "dict"
  /\ job' = [job EXCEPT ![w].step = IF need_to_render_content(job[w].row) THEN "render" ELSE "cache",
                        ![w].text = job[w].row.content, ![w].reacted = reacted, ![w].stale = @ \ {"reactions"}]
  /\ UNCHANGED <<message, reacted, dicts, bugdown, lock, threads, spent, stained, survived>>

\* Mutant: a reaction leaves the dictionaries as they are.
MutNotForReactions(w) ==
  /\ job[w].step = "cache" /\ job[w].kind \in {"edit", "react"}
  /\ dicts' = IF job[w].kind = "react" THEN dicts
              ELSE [form \in Forms |-> build_message_dict(job[w].row, form, job[w].reacted)]
  /\ stained' = IF job[w].stale = {} /\ lock \in {"none", w} THEN stained \ Forms ELSE stained \cup Forms
  /\ IF job[w].kind = "edit" THEN Step(w, "commit") ELSE Ends(w)
  /\ UNCHANGED <<message, reacted, bugdown, lock, threads, spent, survived>>

update_to_dict_cache(w) ==
  /\ job[w].step = "cache" /\ job[w].kind \in {"edit", "react"}
  /\ dicts' = [form \in Forms |-> build_message_dict(job[w].row, form, job[w].reacted)]
  /\ stained' = IF job[w].stale = {} /\ lock \in {"none", w} THEN stained \ Forms ELSE stained \cup Forms
  /\ IF job[w].kind = "edit" THEN Step(w, "commit") ELSE Ends(w)
  /\ UNCHANGED <<message, reacted, bugdown, lock, threads, spent, survived>>

-----------------------------------------------------------------------------

\* The row, and the reactions sewn to it.
get_raw_db_rows == [row |-> message, reactions |-> reacted]

\* build_dict_from_raw_db_row: only the form with markdown needs HTML of this version.
build_dict_from_raw_db_row(raw, form) ==
  [NoJob EXCEPT !.kind = "fetch", !.row = raw.row, !.text = raw.row.content, !.form = form, !.reacted = raw.reactions,
                !.step = IF form = "markdown" /\ need_to_render_content(raw.row) THEN "render" ELSE "cache"]

\* What is in memcached is answered; the rest is read and made.
generic_bulk_cached_fetch(w, form) ==
  /\ job[w] = NoJob /\ dicts[form] = NotCached
  /\ job' = [job EXCEPT ![w] = build_dict_from_raw_db_row(get_raw_db_rows, form)]
  /\ UNCHANGED <<message, reacted, dicts, bugdown, lock, threads, spent, stained, survived>>

cache_set_many(w) ==
  LET j == job[w]
  IN /\ j.step = "cache" /\ j.kind = "fetch"
     /\ dicts' = [dicts EXCEPT ![j.form] = build_message_dict(j.row, j.form, j.reacted)]
     /\ stained' = IF j.stale = {} /\ lock = "none" THEN stained \ {j.form} ELSE stained \cup {j.form}
     /\ Ends(w)
     /\ UNCHANGED <<message, reacted, bugdown, lock, threads, spent, survived>>

-----------------------------------------------------------------------------

\* do_convert: the globals are set and a thread converts the text; current_message is the
\* message of the request while its step is "rendering".
do_convert(w) ==
  /\ job[w].step = "render"
  /\ job' = [job EXCEPT ![w].step = "rendering", ![w].found = {}]
  /\ threads' = [threads EXCEPT ![w] = Append(@, Mentioning[job[w].text])]
  /\ UNCHANGED <<message, reacted, dicts, bugdown, lock, spent, stained, survived>>

\* A thread comes to a mention or an alert word and adds it to current_message, if there is one.
handleMatch(w, i, name) ==
  /\ name \in threads[w][i]
  /\ threads' = [threads EXCEPT ![w][i] = @ \ {name}]
  /\ job' = IF job[w].step = "rendering" THEN [job EXCEPT ![w].found = @ \cup {name}] ELSE job
  /\ UNCHANGED <<message, reacted, dicts, bugdown, lock, spent, stained, survived>>

\* The thread has ended in time.
Converted(w) ==
  LET last == Len(threads[w])
  IN /\ job[w].step = "rendering" /\ threads[w][last] = {}
     /\ threads' = [threads EXCEPT ![w] = SubSeq(@, 1, last - 1)]
     /\ Step(w, IF job[w].kind = "edit" THEN "save" ELSE "rendered")
     /\ UNCHANGED <<message, reacted, dicts, bugdown, lock, spent, stained, survived>>

\* It has not: the exception that should end it may not reach it, and the request fails, with
\* its reaction saved.
timeout(w) ==
  LET last == Len(threads[w])
  IN /\ job[w].step = "rendering" /\ spent.slow < MaxSlow
     /\ spent' = [spent EXCEPT !.slow = @ + 1]
     /\ \/ threads' = [threads EXCEPT ![w] = SubSeq(@, 1, last - 1)] /\ UNCHANGED survived
        \/ UNCHANGED threads /\ survived' = TRUE
     /\ Ends(w)
     /\ UNCHANGED <<message, reacted, dicts, bugdown, lock, stained>>

\* A thread that lives on ends when it is through.
ThreadEnds(w) ==
  /\ threads[w] # <<>> /\ job[w].step # "rendering" /\ Head(threads[w]) = {}
  /\ threads' = [threads EXCEPT ![w] = Tail(@)]
  /\ UNCHANGED <<message, reacted, dicts, bugdown, lock, job, spent, stained, survived>>

-----------------------------------------------------------------------------

flush_message == [form \in Forms |-> NotCached]

\* The HTML is saved alone, beside whatever content the row has by now.
save_rendered_content(w) ==
  LET row == [job[w].row EXCEPT !.html = job[w].text, !.version = bugdown]
  IN /\ job[w].step = "rendered" /\ lock = "none"
     /\ message' = [message EXCEPT !.html = row.html, !.version = row.version]
     /\ dicts' = flush_message
     /\ job' = [job EXCEPT ![w].row = row, ![w].step = "cache"]
     /\ stained' = (stained \ Forms) \cup (IF "row" \in job[w].stale THEN {"html"} ELSE {})
     /\ UNCHANGED <<reacted, bugdown, lock, threads, spent, survived>>

\* do_update_message is one transaction: saving the row takes its lock and flushes, the
\* dictionaries are stored before it commits.
SaveEdit(w) ==
  /\ job[w].step = "save" /\ lock = "none"
  /\ lock' = w
  /\ dicts' = flush_message
  /\ job' = [job EXCEPT ![w].step = "dict", ![w].stale = {},
               ![w].row = [content |-> job[w].text, html |-> job[w].text, version |-> bugdown,
                           mentioned |-> job[w].found]]
  /\ stained' = stained \ Forms
  /\ UNCHANGED <<message, reacted, bugdown, threads, spent, survived>>

Commit(w) ==
  /\ job[w].step = "commit" /\ lock = w
  /\ message' = job[w].row /\ lock' = "none"
  /\ job' = [v \in Workers |-> IF v = w \/ job[v] = NoJob THEN NoJob ELSE [job[v] EXCEPT !.stale = @ \cup {"row"}]]
  /\ stained' = stained \ {"html"}
  /\ UNCHANGED <<reacted, dicts, bugdown, threads, spent, survived>>

\* An exception after the dictionaries were stored, or the process dies.
Rollback(w) ==
  /\ lock = w /\ spent.rollbacks < MaxRollbacks
  /\ spent' = [spent EXCEPT !.rollbacks = @ + 1]
  /\ lock' = "none" /\ Ends(w)
  /\ stained' = IF job[w].step = "commit" THEN stained \cup Forms ELSE stained
  /\ UNCHANGED <<message, reacted, dicts, bugdown, threads, survived>>

\* memcached drops an entry, after a day at the latest.
Expire(form) ==
  /\ dicts[form] # NotCached
  /\ dicts' = [dicts EXCEPT ![form] = NotCached]
  /\ stained' = stained \ {form}
  /\ UNCHANGED <<message, reacted, bugdown, lock, job, threads, spent, survived>>

\* A deployment restarts the processes with another bugdown.
Upgrade ==
  /\ bugdown = 1 /\ bugdown' = 2
  /\ \A w \in Workers : job[w] = NoJob
  /\ threads' = [w \in Workers |-> <<>>]
  /\ UNCHANGED <<message, reacted, dicts, lock, job, spent, stained, survived>>

RenderNext ==
  \/ \E w \in Workers :
       \/ \E text \in Wordings : access_message_to(w, "edit", text)
       \/ access_message_to(w, "react", FirstWording)
       \/ \E form \in Forms : generic_bulk_cached_fetch(w, form)
       \/ do_add_reaction(w) \/ to_dict_uncached(w) \/ update_to_dict_cache(w) \/ cache_set_many(w)
       \/ do_convert(w) \/ Converted(w) \/ timeout(w) \/ ThreadEnds(w)
       \/ \E i \in 1..Len(threads[w]) : \E name \in threads[w][i] : handleMatch(w, i, name)
       \/ save_rendered_content(w) \/ SaveEdit(w) \/ Commit(w) \/ Rollback(w)
  \/ \E form \in Forms : Expire(form)
  \/ Upgrade

RenderSpec == RenderInit /\ [][RenderNext]_renderVars

-----------------------------------------------------------------------------

(***************************************************************************)
(* Edits, reactions, readers that fill the cache and re-rendering after an *)
(* upgrade leave the HTML that belongs to the content, dictionaries that   *)
(* show the row with its reactions, and the flags of those who are         *)
(* mentioned.  The exceptions: a process that read before another's change *)
(* was there and writes after it, a dictionary stored by a transaction     *)
(* that was rolled back, a reaction whose request failed before it stored  *)
(* the dictionaries, and a rendering thread that lived on and met the next *)
(* message in current_message.                                             *)
(***************************************************************************)
ShownAsStored ==
  /\ "html" \notin stained => message.html = message.content
  /\ \A form \in Forms \ (stained \cup IF "html" \in stained THEN {"markdown"} ELSE {}) :
       lock = "none" /\ dicts[form] # NotCached => dicts[form] = build_message_dict(message, form, reacted)
  /\ ~survived => message.mentioned = Mentioning[message.content]
=============================================================================
