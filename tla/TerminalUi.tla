----------------------------- MODULE TerminalUi -----------------------------
(***************************************************************************)
(* The terminal of the command line client (boardswarm-cli, ui.rs).  What  *)
(* is typed is read in chunks; a chunk is sent to the console unless it    *)
(* has a command, a key after ^a.  Commands are carried out within the     *)
(* stream that the console reads, so nothing is read before one is done,   *)
(* and an error in one is a panic that ends the reading for good.  Another *)
(* task draws what the console sends, and scrolls.                         *)
(***************************************************************************)
EXTENDS Integers, Sequences, FiniteSetsExt

CONSTANTS ScrollRoom,   \* capacity of the channel of the drawing task
          Chunks,       \* what may be read at a time
          MaxChunks     \* bound: chunks read

Powers == {"on", "off", "reset"}
CommandKeys == Powers \cup {"scroll", "quit"}
Keys == CommandKeys \cup {"escape", "other"}

ASSUME TerminalAssumption ==
  ScrollRoom \in Nat \ {0} /\ Chunks \subseteq Seq(Keys) /\ MaxChunks \in Nat

VARIABLES
  chunks,      \* what was typed and read
  sawEscape,   \* InputStream: saw_escape
  doing,       \* what the stream of input is at
  calls,       \* the calls of change_mode()
  acted,       \* acted[i]: the command found in chunk i, or "none"
  forwarded,   \* the chunks sent to the console
  scrolls,     \* the channel of the drawing task
  drawing,     \* the drawing task runs
  ui           \* run_ui()

inputVars == <<chunks, sawEscape, doing, acted, forwarded>>
terminalVars == <<inputVars, calls, scrolls, drawing, ui>>

TerminalTypeOK ==
  /\ chunks \in Seq(Chunks) /\ Len(chunks) <= MaxChunks
  /\ sawEscape \in BOOLEAN
  /\ doing \in {"reading", "panicked"} \cup CommandKeys
  /\ acted \in [DOMAIN chunks -> CommandKeys \cup {"none"}]
  /\ forwarded \in Seq(DOMAIN chunks)
  /\ calls \in Seq([mode : {"on", "off"}, chunk : DOMAIN chunks, answer : {"none", "ok", "refused"}])
  /\ scrolls \in 0 .. ScrollRoom
  /\ drawing \in BOOLEAN
  /\ ui \in {"running", "left"}

TerminalInit ==
  /\ chunks = << >> /\ sawEscape = FALSE /\ doing = "reading"
  /\ acted = << >> /\ forwarded = << >> /\ calls = << >>
  /\ scrolls = 0 /\ drawing = TRUE /\ ui = "running"

-----------------------------------------------------------------------------
(* The stream of input. *)

\* A wrong EscapeAfter: ^a has to be in the same chunk.
EscapeAfterAlone(before, keys) ==
  [n \in 0 .. Len(keys) |-> n > 0 /\ \E m \in 1 .. n : keys[m] = "escape" /\ \A k \in m + 1 .. n : keys[k] \in CommandKeys]

\* check_input(): saw_escape after each key, until one is a command.  A command
\* leaves it set.
EscapeAfter(before, keys) ==
  LET escape[n \in 0 .. Len(keys)] ==
        IF n = 0 THEN before
        ELSE keys[n] = "escape" \/ (keys[n] \in CommandKeys /\ escape[n - 1])
  IN  escape

CommandsIn(before, keys) ==
  {n \in DOMAIN keys : keys[n] \in CommandKeys /\ EscapeAfter(before, keys)[n - 1]}

\* What comes after a command in its chunk is dropped.
ReadChunk(keys) ==
  LET found == CommandsIn(sawEscape, keys)
      command == IF found = {} THEN "none" ELSE keys[Min(found)]
      i == Len(chunks) + 1
  IN  /\ ui = "running" /\ doing = "reading" /\ i <= MaxChunks
      /\ chunks' = Append(chunks, keys)
      /\ sawEscape' = EscapeAfter(sawEscape, keys)[IF found = {} THEN Len(keys) ELSE Min(found)]
      /\ acted' = Append(acted, command)
      /\ doing' = IF found = {} THEN "reading" ELSE command
      /\ forwarded' = IF found = {} THEN Append(forwarded, i) ELSE forwarded
      /\ calls' = IF command \in Powers
                  THEN Append(calls, [mode |-> IF command = "on" THEN "on" ELSE "off", chunk |-> i, answer |-> "none"])
                  ELSE calls
      /\ UNCHANGED <<scrolls, drawing, ui>>

Answered(answer) == [calls EXCEPT ![Len(calls)].answer = answer]

\* A wrong ModeChanged: a reset has no second step.
ModeChangedOnce ==
  /\ ui = "running" /\ doing \in Powers
  /\ calls' = Answered("ok") /\ doing' = "reading"
  /\ UNCHANGED <<chunks, sawEscape, acted, forwarded, scrolls, drawing, ui>>

ModeChanged ==
  /\ ui = "running" /\ doing \in Powers
  /\ LET last == calls[Len(calls)]
     IN  IF doing = "reset" /\ last.mode = "off"
         THEN /\ calls' = Append(Answered("ok"), [last EXCEPT !.mode = "on"])
              /\ UNCHANGED doing
         ELSE calls' = Answered("ok") /\ doing' = "reading"
  /\ UNCHANGED <<chunks, sawEscape, acted, forwarded, scrolls, drawing, ui>>

\* unwrap() of a call that was refused or broke
ModeRefused ==
  /\ ui = "running" /\ doing \in Powers
  /\ calls' = Answered("refused") /\ doing' = "panicked"
  /\ UNCHANGED <<chunks, sawEscape, acted, forwarded, scrolls, drawing, ui>>

\* Sending waits for room, and to a task that has ended it is an error: unwrap().
SendScroll ==
  /\ ui = "running" /\ doing = "scroll"
  /\ IF drawing
     THEN scrolls < ScrollRoom /\ scrolls' = scrolls + 1 /\ doing' = "reading"
     ELSE doing' = "panicked" /\ UNCHANGED scrolls
  /\ UNCHANGED <<chunks, sawEscape, acted, forwarded, calls, drawing, ui>>

-----------------------------------------------------------------------------
(* The drawing task, and the end. *)

\* A wrong Scroll: only output of the console is drawn.
ScrollNever == FALSE /\ UNCHANGED terminalVars

Scroll ==
  /\ ui = "running" /\ drawing /\ scrolls > 0
  /\ scrolls' = scrolls - 1
  /\ UNCHANGED <<inputVars, calls, drawing, ui>>

\* The console's output ends, and with it the receiver of scrolls.
OutputEnds ==
  /\ ui = "running" /\ drawing
  /\ drawing' = FALSE /\ scrolls' = 0
  /\ UNCHANGED <<inputVars, calls, ui>>

\* The stream is at its end, and the server answers the call that read it.
Leave ==
  /\ ui = "running" /\ doing = "quit"
  /\ ui' = "left"
  /\ UNCHANGED <<inputVars, calls, scrolls, drawing>>

\* The server ends the call, or the connection breaks.
CallBreaks ==
  /\ ui = "running"
  /\ ui' = "left"
  /\ UNCHANGED <<inputVars, calls, scrolls, drawing>>

CommandStep == ModeChanged \/ SendScroll \/ Leave

TerminalNext ==
  \/ \E keys \in Chunks : ReadChunk(keys)
  \/ CommandStep \/ ModeRefused \/ Scroll \/ OutputEnds \/ CallBreaks

TerminalSpec == TerminalInit /\ [][TerminalNext]_terminalVars

\* The tasks run and the server answers.
TerminalFairness == WF_terminalVars(CommandStep) /\ WF_terminalVars(Scroll)

-----------------------------------------------------------------------------
(* Properties. *)

\* The key before the n-th of chunk i, wherever it was read.
Before(i, n) ==
  IF n > 1 THEN chunks[i][n - 1]
  ELSE LET typed == {j \in 1 .. i - 1 : chunks[j] # << >>}
       IN  IF typed = {} THEN "none" ELSE chunks[Max(typed)][Len(chunks[Max(typed)])]

\* A command key right after ^a is a command, also if the two are read apart, or it
\* comes after another command in its chunk; and every other chunk is sent, once
\* and in its turn.
CommandsAreHeard ==
  /\ \A i \in DOMAIN chunks :
       (\E n \in DOMAIN chunks[i] : chunks[i][n] \in CommandKeys /\ Before(i, n) = "escape") => acted[i] # "none"
  /\ \A i \in DOMAIN forwarded : acted[forwarded[i]] = "none"
  /\ \A i, j \in DOMAIN forwarded : i < j => forwarded[i] < forwarded[j]
  /\ \A i \in DOMAIN chunks : acted[i] = "none" => \E j \in DOMAIN forwarded : forwarded[j] = i

\* The modes that the command in chunk i asks for, in their order.
Modes(i) ==
  CASE acted[i] = "reset" -> <<"off", "on">>
    [] acted[i] \in {"on", "off"} -> <<acted[i]>>
    [] OTHER -> << >>

\* Whatever was typed meanwhile, the device has been asked for the modes that were
\* typed, in that order, one at a time; for all of them, when the terminal reads on.
PowerAsTyped ==
  /\ \A i \in 1 .. Len(calls) - 1 : calls[i].answer = "ok" /\ calls[i].chunk <= calls[i + 1].chunk
  /\ \A i \in DOMAIN chunks :
       LET made == SelectSeq(calls, LAMBDA c : c.chunk = i)
           modes == [n \in DOMAIN made |-> made[n].mode]
       IN  /\ Len(modes) <= Len(Modes(i)) /\ modes = SubSeq(Modes(i), 1, Len(modes))
           /\ i < Len(chunks) \/ doing = "reading" => modes = Modes(i)

\* Commands are found and carried out as they are typed.
TerminalInv == TerminalTypeOK /\ CommandsAreHeard /\ PowerAsTyped

\* A terminal that has not panicked comes back to reading, or is left.
TerminalGoesOn == []<>(doing \in {"reading", "panicked"} \/ ui = "left")

\* Commands are keys typed after ^a.  Does not hold: after a command the keys of
\* commands are commands without it, until another key is typed.
OnlyAfterEscape ==
  \A i \in DOMAIN chunks : acted[i] # "none" =>
    \E n \in DOMAIN chunks[i] : chunks[i][n] = acted[i] /\ Before(i, n) = "escape"

\* "^a q: Quit the ui".  Does not hold after a panic: nothing is read any more, and
\* the call that should read goes on.
CanBeLeft == doing = "panicked" => ui = "left"
=============================================================================
