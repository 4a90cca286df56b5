--------------------------- MODULE MCMessageStore ---------------------------
(***************************************************************************)
(* Messages in the database: how a request to send is checked, how they    *)
(* are read, how they are edited and deleted with the files they link to,  *)
(* how they are rendered and cached, and how their blocks are told apart.  *)
(* A behaviour follows one of them.                                        *)
(***************************************************************************)
EXTENDS MessageCheck, MessageFetch, Attachments, Rendering, FencedBlocks

VARIABLE area

vars == <<area, checkVars, fetchVars, attachVars, renderVars, fenceVars>>

Init ==
  /\ area \in {"check", "fetch", "attachments", "rendering", "fences"}
  /\ CheckInit /\ FetchInit /\ AttachInit /\ RenderInit /\ FenceInit

Next ==
  /\ UNCHANGED area
  /\ \/ area = "check" /\ CheckNext /\ UNCHANGED <<fetchVars, attachVars, renderVars, fenceVars>>
     \/ area = "fetch" /\ FetchNext /\ UNCHANGED <<checkVars, attachVars, renderVars, fenceVars>>
     \/ area = "attachments" /\ AttachNext /\ UNCHANGED <<checkVars, fetchVars, renderVars, fenceVars>>
     \/ area = "rendering" /\ RenderNext /\ UNCHANGED <<checkVars, fetchVars, attachVars, fenceVars>>
     \/ area = "fences" /\ FenceNext /\ UNCHANGED <<checkVars, fetchVars, attachVars, renderVars>>

Spec == Init /\ [][Next]_vars

-----------------------------------------------------------------------------
\* For MessageCheck: s is a super user, z has no account, o is of another realm.
MCAccounts == [p \in People |-> CASE p = "z" -> [state |-> "none", realm |-> ""]
   [] p = "o" -> [state |-> "active", realm |-> "q"] [] p = "n" -> [state |-> "active", realm |-> "sys"]
   [] OTHER -> [state |-> "active", realm |-> "r"]]
MCDomainOf == [p \in People |-> IF p \in {"o", "n"} THEN "q" ELSE "r"]
MCBotOwner == [b \in {"b"} |-> "m"]
MCChannelRealm == [c \in Channels |-> "r"]
MCFirstMembers == [c \in Channels |-> IF c = "c" THEN {"m"} ELSE {}]
Ask(by, client, type, to) == [by |-> by, client |-> client, type |-> type, to |-> to,
                              sender |-> by, forged |-> FALSE, time |-> 0, realm |-> ""]
MirrorAsk(by, client, type, to, sender) == [Ask(by, client, type, to) EXCEPT !.sender = sender]
MCRequests ==
  {Ask(by, "web", "private", to) : by \in {"m", "o"}, to \in {{"m"}, {"o"}, {"m", "s"}, {"m", "s", "o"}, {"z"}, {"n"}}}
  \cup {Ask(by, "web", "stream", {c}) : by \in {"m", "b"}, c \in {"c", "#irc", "lost"}}
  \cup {[Ask("s", "web", "stream", {"c"}) EXCEPT !.realm = x] : x \in {"r", "q"}}
  \cup {MirrorAsk(by, "zephyr_mirror", "private", to, "z") : by \in {"m", "s"}, to \in {{"m"}, {"m", "s"}, {"s", "o"}}}
  \cup {MirrorAsk("m", client, "private", {"m", "z"}, sender) : client \in Mirrors, sender \in {"m", "o"}}
  \cup {[MirrorAsk(by, "zephyr_mirror", "stream", {"c"}, "z") EXCEPT !.forged = TRUE, !.time = 1] : by \in {"s", "m"}}
  \cup {[MirrorAsk("s", "zephyr_mirror", "private", {"m"}, "z") EXCEPT !.forged = TRUE, !.time = 1]}
  \cup {MirrorAsk("s", "irc_mirror", "stream", {c}, "z") : c \in {"c", "#irc"}}

\* For MessageFetch: streams pub, prv (invite-only) and far (of another realm).
MCPlaceRealm == [p \in Places |-> IF p = "far" THEN "q" ELSE "r"]
Msg(kind, who, sender, topic, words) ==
  [to |-> [kind |-> kind, who |-> who], sender |-> sender, topic |-> topic, words |-> words, has |-> words]
MCKinds == {Msg("stream", {"pub"}, "a", "t", {"link"}), Msg("stream", {"prv"}, "a", "t", {}),
   Msg("personal", {"me"}, "a", "", {})}
T(op, arg) == [op |-> op, arg |-> arg, neg |-> FALSE]
N(op, arg) == [op |-> op, arg |-> arg, neg |-> TRUE]
MCMutedTopics == {<<"pub", "u">>}
MCNarrows == {<<>>, <<T("stream", {"pub"})>>, <<N("stream", {"pub"}), N("in", {"home"}), T("sender", {"a"}), T("near", {"1"})>>,
   <<T("is", {"unread"}), T("pm-with", {"a"}), N("id", {"2"}), N("group-pm-with", {"a"}), N("pm-with", {"a", "b"})>>,
   <<T("search", {"link"}), T("has", {"link"}), T("stream", {"pub"}), N("topic", {"u"})>>,
   <<T("stream", {"far"})>>}

\* For Rendering: the second wording mentions u.
MCMentioning == [w \in Wordings |-> IF w = "x" THEN {} ELSE {"u"}]

\* For FencedBlocks: text, a blank line, and fences of two kinds.
Fence(fence, lang) == [fence |-> fence, lang |-> lang, blank |-> FALSE]
MCLineKinds == {Fence("", ""), [Fence("", "") EXCEPT !.blank = TRUE], Fence("ticks", ""), Fence("tildes", ""),
                Fence("ticks", "quote"), Fence("tildes", "quote"), Fence("ticks", "math"), Fence("tildes", "py")}
=============================================================================
