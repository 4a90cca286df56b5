---------------------------- MODULE FencedBlocks ----------------------------
(***************************************************************************)
(* FencedBlockPreprocessor of zerver/lib/bugdown/fenced_code.py: the lines *)
(* of a message go to the handler on top of a stack; a fence pushes the    *)
(* handler of a code, quote or TeX block, the same fence again, or the end *)
(* of the message, closes it.  Highlighting and TeX themselves are left    *)
(* out.                                                                    *)
(***************************************************************************)
EXTENDS Naturals, Sequences, SequencesExt, FiniteSets

CONSTANTS
  LineKinds,  \* a line: its fence ("" if it is none), the language after it, and whether it is blank
  MaxLines

VARIABLES
  lines,     \* the lines read so far
  handlers,  \* the stack; at is the line of the fence, 0 for the outer handler
  ended,     \* no line is left
  output

fenceVars == <<lines, handlers, ended, output>>

\* A line of output: the lines of the message it shows, the quotes around it, and the block
\* whose HTML it stands for, if it is a placeholder.
Blank == [shows |-> <<>>, quotes |-> <<>>, stash |-> 0]
Plain(n) == IF lines'[n].blank THEN Blank ELSE [Blank EXCEPT !.shows = <<n>>]

OuterHandler == [kind |-> "outer", fence |-> "", lines |-> <<>>, at |-> 0]

generic_handler(lang) ==
  CASE lang \in {"quote", "quoted"} -> "quote" [] lang \in {"math", "tex", "latex"} -> "tex" [] OTHER -> "code"

FenceInit == lines = <<>> /\ handlers = <<OuterHandler>> /\ ended = FALSE /\ output = <<>>

Top == Last(handlers)
Below(added) == [Front(handlers) EXCEPT ![Len(handlers) - 1].lines = @ \o added]

\* Mutant: the fence of any open block closes the innermost.
MutFenceOfAny(line) == line.lang = "" /\ \E i \in 1..Len(handlers) : handlers[i].at > 0 /\ line.fence = handlers[i].fence

\* line.rstrip() == self.fence
Closes(line) == Top.at > 0 /\ line.lang = "" /\ line.fence = Top.fence

\* The paragraphs of a quote stay apart; blank lines at its ends go.
format_quote(ls, at) ==
  LET quoted == [i \in 1..Len(ls) |-> IF ls[i] = Blank THEN Blank ELSE [ls[i] EXCEPT !.quotes = <<at>> \o @]]
      kept == {i \in 1..Len(ls) : ls[i] # Blank \/ (i > 1 /\ ls[i - 1] # Blank /\ \E j \in i..Len(ls) : ls[j] # Blank)}
  IN [k \in 1..Cardinality(kept) |-> quoted[CHOOSE i \in kept : Cardinality({j \in kept : j <= i}) = k]]

\* format_code and format_tex: the HTML is stored, and one line stands for it.
placeholder(ls, at) == <<[shows |-> FlattenSeq([i \in 1..Len(ls) |-> ls[i].shows]), quotes |-> <<>>, stash |-> at]>>

processed_lines == IF Top.kind = "quote" THEN format_quote(Top.lines, Top.at) ELSE placeholder(Top.lines, Top.at)

\* A block goes into the one around it, between blank lines.
done ==
  IF Top.kind = "outer" THEN output' = Top.lines /\ handlers' = <<>>
  ELSE handlers' = Below(<<Blank>> \o processed_lines \o <<Blank>>) /\ UNCHANGED output

check_for_new_fence(line) ==
  /\ handlers' = IF line.fence # ""
                 THEN Append(handlers, [kind |-> generic_handler(line.lang), fence |-> line.fence,
                                        lines |-> <<>>, at |-> Len(lines')])
                 ELSE [handlers EXCEPT ![Len(handlers)].lines = Append(@, Plain(Len(lines')))]
  /\ UNCHANGED output

\* Code takes any other line as it is.
handle_line(line) ==
  /\ ~ended /\ Len(lines) < MaxLines
  /\ lines' = Append(lines, line) /\ UNCHANGED ended
  /\ IF Closes(line) THEN done
     ELSE IF Top.kind = "code"
     THEN handlers' = [handlers EXCEPT ![Len(handlers)].lines = Append(@, Plain(Len(lines')))] /\ UNCHANGED output
     ELSE check_for_new_fence(line)

\* The message ends; what is open is closed, from the inside out.
EndOfMessage == handlers # <<>> /\ ended' = TRUE /\ done /\ UNCHANGED lines

FenceNext == (\E line \in LineKinds : handle_line(line)) \/ EndOfMessage

-----------------------------------------------------------------------------
(* The same by recursion on the whole message.                               *)

KindOf(i) == IF i = 0 THEN "outer" ELSE generic_handler(lines[i].lang)
Past == Len(lines) + 1

\* Where block i ends, from line j on: at its own fence, past the blocks inside it.
EndOf[i \in 0..MaxLines, j \in 1..(MaxLines + 1)] ==
  IF j = Past THEN Past
  ELSE IF i > 0 /\ lines[j].lang = "" /\ lines[j].fence = lines[i].fence THEN j
  ELSE IF KindOf(i) # "code" /\ lines[j].fence # ""
  THEN LET e == EndOf[j, j + 1] IN IF e = Past THEN Past ELSE EndOf[i, e + 1]
  ELSE EndOf[i, j + 1]

\* The block directly in block i, from line j on, that holds line n; 0 if there is none.
Child[i \in 0..MaxLines, j \in 1..(MaxLines + 1), n \in 1..MaxLines] ==
  IF j >= n THEN 0
  ELSE IF KindOf(i) # "code" /\ lines[j].fence # ""
  THEN LET e == EndOf[j, j + 1] IN IF e > n THEN j ELSE Child[i, e + 1, n]
  ELSE Child[i, j + 1, n]

\* The blocks inside block i that hold line n, from the outside in.
Path[i \in 0..MaxLines, n \in 1..MaxLines] ==
  LET c == Child[i, i + 1, n] IN IF c = 0 THEN <<>> ELSE <<c>> \o Path[c, n]

\* Fences in code are text; other fences open or close a block.
IsText(n) == ~lines[n].blank /\ (lines[n].fence = "" \/ KindOf(Last(<<0>> \o Path[0, n])) = "code")

(***************************************************************************)
(* What FencedBlockPreprocessor makes of a message, however its fences are *)
(* nested, crossed or left open: every line that is not a fence of a block *)
(* is shown once and in order, within the quotes and the code or TeX block *)
(* that are around it, and text of different blocks is kept apart by blank *)
(* lines.                                                                  *)
(***************************************************************************)
FencesRight ==
  handlers = <<>> =>
    /\ FlattenSeq([k \in 1..Len(output) |-> output[k].shows]) = SelectSeq([n \in 1..Len(lines) |-> n], IsText)
    /\ \A k \in 1..Len(output) : \A n \in ToSet(output[k].shows) :
         LET path == Path[0, n]
             solid == SelectInSeq(path, LAMBDA i : KindOf(i) # "quote")
         IN /\ output[k].quotes = IF solid = 0 THEN path ELSE SubSeq(path, 1, solid - 1)
            /\ output[k].stash = IF solid = 0 THEN 0 ELSE path[solid]
    /\ \A k \in 2..Len(output) :
         Blank \notin {output[k - 1], output[k]} =>
           output[k - 1].quotes = output[k].quotes /\ output[k - 1].stash = 0 /\ output[k].stash = 0
=============================================================================
