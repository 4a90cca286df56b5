--------------------------- MODULE MessageWorkers ---------------------------
(***************************************************************************)
(* What is left to do after a message is stored: the worker embed_links    *)
(* renders it again with previews of its links, while its sender may edit  *)
(* it, and the workers outgoing_webhooks and embedded_bots call the        *)
(* services of a bot that it mentions, with retries, and send their        *)
(* replies.  A worker that stops gets its event again.                     *)
(***************************************************************************)
EXTENDS Naturals, Sequences, SequencesExt, FiniteSets

CONSTANTS
  Contents,            \* texts of the message; all have links
  Services,            \* services a bot may have
  MAX_REQUEST_RETRIES,
  MaxEdits,            \* bound: edits of the message
  MaxStops             \* bound: workers stopped or failing in their work

ASSUME RetriesAreNatural == MAX_REQUEST_RETRIES \in Nat /\ MaxEdits \in Nat /\ MaxStops \in Nat
ASSUME ServicesAreFinite == IsFiniteSet(Services)

VARIABLES
  row,       \* the Message row: its text, the text rendered_content was made from, with previews or not
  edit,      \* an edit request between reading the row and saving it
  edits,     \* texts of the edits saved
  embeds,    \* queue embed_links
  embedder,  \* FetchLinksEmbedData
  bot,       \* type and services of the bot that the message mentions
  hooks,     \* queue outgoing_webhooks or embedded_bots: failed_tries of each event
  hooker,    \* its worker: the event and the services left to call
  calls,     \* calls made to each service
  replies,   \* number of messages the bot sent
  stops, spoiled   \* workers stopped; history: a rendering was given up

embedVars == <<row, edit, edits, embeds, embedder, spoiled>>
hookVars == <<bot, hooks, hooker, calls, replies>>
workerVars == <<row, edit, edits, embeds, embedder, bot, hooks, hooker, calls, replies, stops, spoiled>>

NoText == "no text"
NoJob == [step |-> "idle", text |-> NoText]
NoHook == [step |-> "idle", tries |-> 0, first |-> 0, left |-> <<>>]

\* OutgoingWebhookWorker or EmbeddedBotWorker; get_bot_services lists one service or two.
Bots == [type : {"outgoing_webhooks", "embedded_bots"}, services : {SetToSeq(S) : S \in SUBSET Services \ {{}}}]

WorkersInit ==
  /\ row = [present |-> FALSE, content |-> NoText, rendered |-> NoText, preview |-> FALSE]
  /\ edit = NoText /\ edits = <<>>
  /\ embeds = <<>> /\ embedder = NoJob
  /\ bot \in Bots
  /\ hooks = <<>> /\ hooker = NoHook
  /\ calls = [s \in Services |-> 0] /\ replies = 0
  /\ stops = 0 /\ spoiled = FALSE

-----------------------------------------------------------------------------

\* Bots' messages trigger no services, so that bots do not talk to each other without end.
MutBotsTrigger(sender_is_bot, triggered) == IF triggered THEN <<0>> ELSE <<>>
ServiceQueueEvents(sender_is_bot, triggered) == IF sender_is_bot \/ ~triggered THEN <<>> ELSE <<0>>

\* The part of do_send_messages after the rows are stored.
do_send_messages(text) ==
  /\ ~row.present /\ edits = <<>>
  /\ row' = [present |-> TRUE, content |-> text, rendered |-> text, preview |-> FALSE]
  /\ embeds' = <<text>>
  /\ hooks' = ServiceQueueEvents(FALSE, TRUE)
  /\ edits' = <<text>>
  /\ UNCHANGED <<edit, embedder, bot, hooker, calls, replies, stops, spoiled>>

\* update_message_backend reads the row and renders the new text ...
StartEdit(text) ==
  /\ row.present /\ edit = NoText /\ Len(edits) <= MaxEdits
  /\ edit' = text
  /\ UNCHANGED <<row, edits, embeds, embedder, hookVars, stops, spoiled>>

\* ... do_update_message saves it, and embed_links hears of it.  A row deleted meanwhile cannot be saved.
do_update_message ==
  /\ edit # NoText
  /\ edit' = NoText
  /\ IF row.present
     THEN /\ row' = [row EXCEPT !.content = edit, !.rendered = edit, !.preview = FALSE]
          /\ edits' = Append(edits, edit)
          /\ embeds' = Append(embeds, edit)
     ELSE UNCHANGED <<row, edits, embeds>>
  /\ UNCHANGED <<embedder, hookVars, stops, spoiled>>

do_delete_message ==
  /\ row.present
  /\ row' = [row EXCEPT !.present = FALSE]
  /\ UNCHANGED <<edit, edits, embeds, embedder, hookVars, stops, spoiled>>

-----------------------------------------------------------------------------
(* FetchLinksEmbedData.                                                      *)

\* get_link_embed_data for every link, which takes its time.
FetchLinks ==
  /\ embedder.step = "idle" /\ embeds # <<>>
  /\ embedder' = [step |-> "fetched", text |-> Head(embeds)]
  /\ embeds' = Tail(embeds)
  /\ UNCHANGED <<row, edit, edits, hookVars, stops, spoiled>>

\* An event for a text the message no longer has is left to the event of the new text.
CheckContent ==
  /\ embedder.step = "fetched"
  /\ embedder' = IF row.present /\ row.content = embedder.text THEN [embedder EXCEPT !.step = "checked"] ELSE NoJob
  /\ UNCHANGED <<row, edit, edits, embeds, hookVars, stops, spoiled>>

\* Only the rendering is saved: it may be of a text that is gone.
MutSaveRendered ==
  /\ embedder.step = "checked"
  /\ row' = [row EXCEPT !.rendered = embedder.text, !.preview = TRUE]
  /\ embedder' = NoJob
  /\ UNCHANGED <<edit, edits, embeds, hookVars, stops, spoiled>>

\* Saves the text it read too.  A deleted row cannot be saved: the event goes to the errors file.
do_update_embedded_data ==
  /\ embedder.step = "checked"
  /\ row' = IF row.present THEN [row EXCEPT !.content = embedder.text, !.rendered = embedder.text, !.preview = TRUE] ELSE row
  /\ embedder' = NoJob
  /\ UNCHANGED <<edit, edits, embeds, hookVars, stops, spoiled>>

\* Rendering raises, and the event goes to the errors file, or the worker is stopped.
EmbedderStops ==
  /\ embedder.step # "idle" /\ stops < MaxStops
  /\ stops' = stops + 1
  /\ embedder' = NoJob
  /\ \/ embeds' = <<embedder.text>> \o embeds /\ UNCHANGED spoiled
     \/ embedder.step = "checked" /\ spoiled' = TRUE /\ UNCHANGED embeds
  /\ UNCHANGED <<row, edit, edits, hookVars>>

-----------------------------------------------------------------------------
(* OutgoingWebhookWorker and EmbeddedBotWorker.                              *)

TakeHook ==
  /\ hooker.step = "idle" /\ hooks # <<>>
  /\ hooker' = [step |-> "call", tries |-> Head(hooks), first |-> Head(hooks), left |-> bot.services]
  /\ hooks' = Tail(hooks)
  /\ UNCHANGED <<embedVars, bot, calls, replies, stops>>

\* The bot answers where it was addressed, so it is among the recipients of its answer.
send_response_message ==
  /\ replies' = replies + 1
  /\ hooks' = hooks \o ServiceQueueEvents(TRUE, TRUE)

\* An embedded bot's reply goes out in the name of who wrote to it, to the others and without a mention.
send_reply ==
  /\ replies' = replies + 1
  /\ hooks' = hooks \o ServiceQueueEvents(FALSE, FALSE)

\* failed_tries is a field of the event, which the services of a bot share.
request_retry ==
  IF hooker.tries + 1 > MAX_REQUEST_RETRIES THEN send_response_message
  ELSE hooks' = Append(hooks, hooker.tries + 1) /\ UNCHANGED replies

Called(tries) ==
  /\ hooker.step = "call" /\ hooker.left # <<>>
  /\ calls' = [calls EXCEPT ![Head(hooker.left)] = @ + 1]
  /\ hooker' = [hooker EXCEPT !.left = Tail(@), !.tries = tries]
  /\ UNCHANGED <<embedVars, bot, stops>>

do_rest_call ==
  /\ bot.type = "outgoing_webhooks"
  /\ \/ Called(hooker.tries) /\ send_response_message       \* 2xx and a text
     \/ Called(hooker.tries) /\ UNCHANGED <<hooks, replies>>                 \* 2xx, response_not_required
     \/ Called(hooker.tries + 1) /\ request_retry                            \* 5xx or a timeout
     \/ Called(hooker.tries) /\ send_response_message       \* other answers and errors

\* A Slack interface cannot put a private message into words: it raises, the event goes to the
\* errors file and the services after it are not called.
process_event ==
  /\ bot.type = "outgoing_webhooks" /\ hooker.step = "call" /\ hooker.left # <<>>
  /\ hooker' = NoHook
  /\ UNCHANGED <<embedVars, bot, hooks, calls, replies, stops>>

\* A service without a handler is passed over.
handle_message ==
  /\ bot.type = "embedded_bots"
  /\ \/ Called(hooker.tries) /\ send_reply
     \/ Called(hooker.tries) /\ UNCHANGED <<hooks, replies>>

HookDone ==
  /\ hooker.step = "call" /\ hooker.left = <<>>
  /\ hooker' = NoHook
  /\ UNCHANGED <<embedVars, bot, hooks, calls, replies, stops>>

\* The event as it was published comes again, and the services called already are called again.
HookerStops ==
  /\ hooker.step # "idle" /\ stops < MaxStops
  /\ stops' = stops + 1
  /\ hooks' = <<hooker.first>> \o hooks
  /\ hooker' = NoHook
  /\ UNCHANGED <<embedVars, bot, calls, replies>>

Send == \E text \in Contents : do_send_messages(text)

PreviewNext ==
  \/ Send \/ (\E text \in Contents : StartEdit(text)) \/ do_update_message \/ do_delete_message
  \/ FetchLinks \/ CheckContent \/ do_update_embedded_data \/ EmbedderStops

HookNext == Send \/ TakeHook \/ process_event \/ do_rest_call \/ handle_message \/ HookDone \/ HookerStops

WorkersSpec == WorkersInit /\ [][PreviewNext \/ HookNext]_workerVars

-----------------------------------------------------------------------------

WorkersTypeOK ==
  /\ row \in [present : BOOLEAN, content : Contents \cup {NoText}, rendered : Contents \cup {NoText}, preview : BOOLEAN]
  /\ edit \in Contents \cup {NoText} /\ Range(edits) \cup Range(embeds) \subseteq Contents
  /\ Range(hooks) \subseteq 0..MAX_REQUEST_RETRIES /\ calls \in [Services -> Nat] /\ bot \in Bots
  /\ stops \in 0..MaxStops /\ spoiled \in BOOLEAN

EmbedsQuiet == embeds = <<>> /\ embedder = NoJob /\ edit = NoText

\* Readers see the text that the row has: edits and previews, whatever their order, save text
\* and rendering together; and when the queue is empty the present text has its previews.
PreviewsSettle ==
  row.present => /\ row.rendered = row.content
                 /\ EmbedsQuiet /\ ~spoiled => row.preview

\* A trigger of a bot with one service ends with at most one reply, after at most
\* MAX_REQUEST_RETRIES + 1 calls, as long as no worker stops; replies trigger nothing.
WebhookAnswersOnce ==
  Len(bot.services) = 1 /\ stops = 0 =>
    /\ replies <= 1
    /\ \A s \in Services : calls[s] <= MAX_REQUEST_RETRIES + 1
    /\ replies = 1 => hooks = <<>>

\* The comment in FetchLinksEmbedData: a message that was edited is left to the event of the edit.
EditsSurvive == row.present /\ EmbedsQuiet => row.content = Last(edits)
=============================================================================
