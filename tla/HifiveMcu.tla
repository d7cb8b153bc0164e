----------------------------- MODULE HifiveMcu -----------------------------
(***************************************************************************)
(* The controller of a HiFive P550 board (hifive_p550_mcu.rs): one task    *)
(* owns its serial line and serves two actuators, the power and the boot   *)
(* selection of the board.  For each call it waits for a prompt, asks for  *)
(* the mode, and if that is not the one wanted sets it and waits to be     *)
(* told.  Each wait is limited; what comes later stays on the line, for    *)
(* the next call to read.                                                  *)
(*                                                                         *)
(* The controller answers requests in their order, each reply on lines of  *)
(* its own and followed by a prompt.  A line says what is what (the        *)
(* anchored expressions); lines that are not asked for are skipped.  That  *)
(* a caller gives up changes nothing here: its request is carried out.     *)
(***************************************************************************)
EXTENDS Naturals, Sequences

CONSTANTS SomModes,    \* SomPowerMode
          BootModes,   \* BootSelMode
          NoMode,      \* not known
          QueueCap,    \* capacity of the channel to the task
          MaxRequests  \* bound: calls of set_mode

ASSUME McuAssumption ==
  /\ QueueCap \in Nat \ {0} /\ MaxRequests \in Nat
  /\ NoMode \notin SomModes \cup BootModes

VARIABLES
  requests,    \* calls made so far
  exec,        \* the channel to the task: ChannelMessage
  step,        \* of the task: idle, or which of its three waits it is at
  current,     \* the message it processes
  work,        \* what the controller has been told and has not answered
  line,        \* what it has sent and the task has not read
  cut,         \* a line was arriving when the time ran out: its start is lost
  board,       \* board[a]: the mode the board is in
  done,        \* done[a]: the mode last answered with Ok, and not set since
  unsure       \* the actuators of which a request to set was not answered in time

mcuCallVars == <<requests, exec>>
mcuVars == <<mcuCallVars, step, current, work, line, cut, board, done, unsure>>

McuCommand == {"som-power", "boot-sel"}
ModesOf(a) == IF a = "som-power" THEN SomModes ELSE BootModes
Message(a, m) == [actuator |-> a, mode |-> m]
Messages == UNION {[actuator : {a}, mode : ModesOf(a)] : a \in McuCommand}
NoMessage == Message("none", NoMode)

PromptLine == [kind |-> "prompt", of |-> NoMessage]
Status(a, m) == [kind |-> "status", of |-> Message(a, m)]   \* "Som Power Status:", "Get:"
Told(a, m) == [kind |-> "told", of |-> Message(a, m)]       \* "POWERON", "Set:"
GetRequest(a) == [kind |-> "get", of |-> Message(a, NoMode)]
SetRequest(a, m) == [kind |-> "set", of |-> Message(a, m)]

-----------------------------------------------------------------------------
McuInit ==
  /\ requests = 0 /\ exec = << >>
  /\ step = "idle" /\ current = NoMessage
  /\ work = << >> /\ line = << >> /\ cut = FALSE
  /\ board \in {b \in [McuCommand -> SomModes \cup BootModes] :
                  \A a \in McuCommand : b[a] \in ModesOf(a)}
  /\ done = [a \in McuCommand |-> NoMode]
  /\ unsure = {}

\* set_mode: to_channel_message and send.
SetMode(a, m) ==
  /\ requests < MaxRequests /\ Len(exec) < QueueCap
  /\ requests' = requests + 1
  /\ exec' = Append(exec, Message(a, m))
  /\ UNCHANGED <<step, current, work, line, cut, board, done, unsure>>

\* process: recv, and mcu_wait_prompt sends a newline.
TakeMessage ==
  /\ step = "idle" /\ exec # << >>
  /\ current' = Head(exec) /\ exec' = Tail(exec)
  /\ step' = "prompt"
  /\ work' = Append(work, PromptLine)
  /\ UNCHANGED <<requests, line, cut, board, done, unsure>>

Answer(m) ==
  /\ step' = "idle" /\ current' = NoMessage
  /\ done' = [done EXCEPT ![current.actuator] = m]

\* mcu_wait_prompt: anything before a prompt is dropped; then the mode is asked for.
ReadPrompt ==
  /\ step = "prompt" /\ line # << >>
  /\ line' = Tail(line)
  /\ IF Head(line) = PromptLine
     THEN step' = "get" /\ work' = work \o <<GetRequest(current.actuator), PromptLine>>
     ELSE UNCHANGED <<step, work>>
  /\ UNCHANGED <<mcuCallVars, current, cut, board, done, unsure>>

\* A wrong ReadStatus: what the controller says to the request is not waited for.
ReadStatusOnly ==
  /\ step = "get" /\ line # << >>
  /\ line' = Tail(line)
  /\ LET reply == Head(line)
     IN  IF reply.kind = "status" /\ reply.of.actuator = current.actuator
         THEN /\ Answer(current.mode)
              /\ work' = IF reply.of = current THEN work
                         ELSE work \o <<SetRequest(current.actuator, current.mode), PromptLine>>
         ELSE UNCHANGED <<step, current, done, work>>
  /\ UNCHANGED <<mcuCallVars, cut, board, unsure>>

\* The reply to the first request: nothing to do, or the mode is set.
ReadStatus ==
  /\ step = "get" /\ line # << >>
  /\ line' = Tail(line)
  /\ LET reply == Head(line)
     IN  \/ /\ reply = Status(current.actuator, current.mode)
            /\ Answer(current.mode)
            /\ UNCHANGED work
         \/ /\ reply.kind = "status" /\ reply.of.actuator = current.actuator
            /\ reply.of # current
            /\ step' = "set"
            /\ work' = work \o <<SetRequest(current.actuator, current.mode), PromptLine>>
            /\ done' = [done EXCEPT ![current.actuator] = NoMode]
            /\ UNCHANGED current
         \/ /\ reply.kind # "status" \/ reply.of.actuator # current.actuator
            /\ UNCHANGED <<step, current, done, work>>
  /\ UNCHANGED <<mcuCallVars, cut, board, unsure>>

\* The reply to the second one.  That of the boot selection is looked at; that of
\* the power is only waited for.
ReadTold ==
  /\ step = "set" /\ line # << >>
  /\ line' = Tail(line)
  /\ LET reply == Head(line)
     IN  \/ reply = Told(current.actuator, current.mode) /\ Answer(current.mode)
         \/ /\ reply.kind = "told" /\ reply.of # current
            /\ reply.of.actuator = "boot-sel" /\ current.actuator = "boot-sel"
            /\ Answer(NoMode)
         \/ /\ \/ reply.kind # "told"
               \/ reply.of.actuator # current.actuator
               \/ current.actuator = "som-power" /\ reply.of # current
            /\ UNCHANGED <<step, current, done>>
  /\ UNCHANGED <<mcuCallVars, work, cut, board, unsure>>

\* MCU_RESPONSE_TIMEOUT, or the port is gone.  Of a line that was arriving, what was
\* read is lost, and the rest is no line that anyone looks for.
TimeOut ==
  /\ step # "idle" /\ line = << >>
  /\ step' = "idle" /\ current' = NoMessage
  /\ cut' \in {cut, work # << >>}
  /\ unsure' = IF step = "set" THEN unsure \cup {current.actuator} ELSE unsure
  /\ UNCHANGED <<mcuCallVars, work, line, board, done>>

\* The controller carries out the next request, or sends a prompt.
Serve ==
  /\ work # << >>
  /\ work' = Tail(work)
  /\ LET request == Head(work)
         a == request.of.actuator
         reply == CASE request.kind = "get" -> Status(a, board[a])
                    [] request.kind = "set" -> Told(a, request.of.mode)
                    [] request.kind = "prompt" -> PromptLine
     IN  /\ line' = IF cut THEN line ELSE Append(line, reply)
         /\ board' = IF request.kind = "set"
                     THEN [board EXCEPT ![a] = request.of.mode] ELSE board
  /\ cut' = FALSE
  /\ UNCHANGED <<mcuCallVars, step, current, done, unsure>>

McuNext ==
  \/ \E a \in McuCommand : \E m \in ModesOf(a) : SetMode(a, m)
  \/ TakeMessage \/ ReadPrompt \/ ReadStatus \/ ReadTold \/ TimeOut
  \/ Serve

McuSpec == McuInit /\ [][McuNext]_mcuVars

-----------------------------------------------------------------------------
(* Properties. *)

McuTypeOK ==
  /\ requests \in 0 .. MaxRequests
  /\ exec \in Seq(Messages) /\ Len(exec) <= QueueCap
  /\ step \in {"idle", "prompt", "get", "set"}
  /\ current \in Messages \cup {NoMessage}
  /\ step = "idle" <=> current = NoMessage
  /\ cut \in BOOLEAN
  /\ \A a \in McuCommand : board[a] \in ModesOf(a) /\ done[a] \in ModesOf(a) \cup {NoMode}
  /\ unsure \subseteq McuCommand

\* An actuator that was answered with Ok has the mode that was asked for, until
\* another one is asked for: whatever replies came too late for the calls before, as
\* long as they were replies to the first request.
DoneIsSet ==
  \A a \in McuCommand \ unsure : done[a] \in {NoMode, board[a]}

\* What the task says of the board, by whatever is left on the line.
McuInv == McuTypeOK /\ DoneIsSet

\* The same without the exception: the mode that is answered with Ok is that of
\* the board.  Does not hold: the reply to a request to set that comes too late is
\* taken for that to the next, and a mode that was told before for the present one.
DoneIsAlwaysSet == \A a \in McuCommand : done[a] \in {NoMode, board[a]}
=============================================================================
