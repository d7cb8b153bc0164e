--------------------------- MODULE RockusbLoader ---------------------------
(***************************************************************************)
(* The storage of a rockusb device in loader mode (rockusb.rs).  One task  *)
(* owns the device.  To open a target is a command to it, which lasts      *)
(* until the target is closed: the target holds the sender of a channel of *)
(* operations, and the task serves that channel until it ends.  A call of  *)
(* open() may be dropped while it waits.                                   *)
(***************************************************************************)
EXTENDS Integers, Sequences, FiniteSets

CONSTANTS Sectors,       \* the places of the storage
          MaxSessions,   \* bound: calls of open()
          MaxOps,        \* bound: operations of all targets
          MaxErrors      \* bound: operations and openings of the device that fail

ASSUME LoaderAssumption ==
  /\ Sectors \subseteq Nat
  /\ MaxSessions \in Nat /\ MaxOps \in Nat /\ MaxErrors \in Nat

VARIABLES
  session,     \* the calls of open(), and the targets they returned
  made,         \* made[s]: the operations of target s, each with its answer
  opened,      \* opened[s]: where the command of call s is
  commands,    \* Rockusb: the channel of commands
  operations,  \* operations[s]: the channel of target s
  position,    \* position[s]: where the next byte of the task's io would go
  dirty,       \* dirty[s]: what the io has been given and has not stored yet
  storage,     \* the storage: who wrote each sector
  errors       \* failures so far

userVars == <<session, made>>
ioVars == <<position, dirty>>
loaderVars == <<userVars, opened, commands, operations, ioVars, storage, errors>>

Sessions == DOMAIN session
Written == ((1 .. MaxSessions) \X (1 .. MaxOps)) \cup {<<0, 0>>}
Blank == <<0, 0>>
Kept == <<0, 1>>   \* a place of dirty that holds nothing
Operations == [op : {"read", "write"}, at : Sectors, answer : {"none", "ok", "failed"}, value : Written]
                \cup [op : {"flush"}, answer : {"none", "ok", "failed"}]

LoaderTypeOK ==
  /\ session \in Seq({"calling", "queued", "open", "failed", "gone", "closed"})
  /\ Len(session) <= MaxSessions
  /\ made \in [Sessions -> Seq(Operations)] /\ \A s \in Sessions : Len(made[s]) <= MaxOps
  /\ opened \in [Sessions -> {"none", "queued", "serving", "ended"}]
  /\ commands \in Seq(Sessions) /\ Len(commands) <= 1
  /\ operations \in [Sessions -> Seq(1 .. MaxOps)] /\ \A s \in Sessions : Len(operations[s]) <= 1
  /\ position \in [Sessions -> Nat]
  /\ dirty \in [Sessions -> [Sectors -> Written \cup {Kept}]]
  /\ storage \in [Sectors -> Written] /\ errors \in 0 .. MaxErrors

LoaderInit ==
  /\ session = << >> /\ made = << >> /\ opened = << >>
  /\ commands = << >> /\ operations = << >>
  /\ position = << >> /\ dirty = << >>
  /\ storage = [a \in Sectors |-> Blank] /\ errors = 0

-----------------------------------------------------------------------------
(* Calls of open(), and the targets. *)

Clean == [a \in Sectors |-> Kept]

CallOpen ==
  /\ Len(session) < MaxSessions
  /\ session' = Append(session, "calling")
  /\ made' = Append(made, << >>)
  /\ opened' = Append(opened, "none")
  /\ operations' = Append(operations, << >>)
  /\ position' = Append(position, 0)
  /\ dirty' = Append(dirty, Clean)
  /\ UNCHANGED <<commands, storage, errors>>

\* Of those who wait for the place in the channel, the first gets it.
SendOpen(s) ==
  /\ session[s] = "calling" /\ commands = << >>
  /\ \A r \in 1 .. s - 1 : session[r] # "calling"
  /\ commands' = <<s>>
  /\ session' = [session EXCEPT ![s] = "queued"]
  /\ opened' = [opened EXCEPT ![s] = "queued"]
  /\ UNCHANGED <<made, operations, ioVars, storage, errors>>

\* The call is dropped; the command stays where it is.
DropCall(s) ==
  /\ session[s] \in {"calling", "queued"}
  /\ session' = [session EXCEPT ![s] = "gone"]
  /\ UNCHANGED <<made, opened, commands, operations, ioVars, storage, errors>>

OpsMade == Cardinality({o \in Sessions \X (1 .. MaxOps) : o[2] \in DOMAIN made[o[1]]})

Waits(s) == made[s] # << >> /\ made[s][Len(made[s])].answer = "none"

\* One operation after another; that the task has ended is not possible while the
\* target has the sender.
Request(s, operation) ==
  /\ session[s] = "open" /\ ~ Waits(s) /\ OpsMade < MaxOps
  /\ operations[s] = << >>
  /\ made' = [made EXCEPT ![s] = Append(@, operation)]
  /\ operations' = [operations EXCEPT ![s] = <<Len(made[s]) + 1>>]
  /\ UNCHANGED <<session, opened, commands, ioVars, storage, errors>>

DoRead(s) == \E a \in Sectors : Request(s, [op |-> "read", at |-> a, answer |-> "none", value |-> Blank])

DoWrite(s) ==
  \E a \in Sectors :
    Request(s, [op |-> "write", at |-> a, answer |-> "none", value |-> <<s, Len(made[s]) + 1>>])

\* A wrong DoFlush: that of a target that keeps nothing.
FlushNothing(s) ==
  /\ session[s] = "open" /\ ~ Waits(s) /\ OpsMade < MaxOps
  /\ made' = [made EXCEPT ![s] = Append(@, [op |-> "flush", answer |-> "ok"])]
  /\ UNCHANGED <<session, opened, commands, operations, ioVars, storage, errors>>

\* flush(), and shutdown(), which is a flush.
DoFlush(s) == Request(s, [op |-> "flush", answer |-> "none"])

\* The target is dropped, and with it the sender.
CloseTarget(s) ==
  /\ session[s] = "open" /\ ~ Waits(s)
  /\ session' = [session EXCEPT ![s] = "closed"]
  /\ UNCHANGED <<made, opened, commands, operations, ioVars, storage, errors>>

-----------------------------------------------------------------------------
(* rockusb_task() and handle_io() *)

\* A wrong TakeOpen: the task spawns handle_io and goes on.
TakeAndSpawn ==
  /\ commands # << >>
  /\ LET s == Head(commands)
     IN  /\ opened' = [opened EXCEPT ![s] = "serving"]
         /\ session' = [session EXCEPT ![s] = IF @ = "gone" THEN "gone" ELSE "open"]
         /\ UNCHANGED errors
  /\ commands' = Tail(commands)
  /\ UNCHANGED <<made, operations, ioVars, storage>>

\* The device is opened, or it is not.  If the call was dropped, so is the sender.
TakeOpen ==
  /\ commands # << >> /\ \A s \in Sessions : opened[s] # "serving"
  /\ LET s == Head(commands)
     IN  \/ /\ opened' = [opened EXCEPT ![s] = "serving"]
            /\ session' = [session EXCEPT ![s] = IF @ = "gone" THEN "gone" ELSE "open"]
            /\ UNCHANGED errors
         \/ /\ errors < MaxErrors /\ errors' = errors + 1
            /\ opened' = [opened EXCEPT ![s] = "ended"]
            /\ session' = [session EXCEPT ![s] = IF @ = "gone" THEN "gone" ELSE "failed"]
  /\ commands' = Tail(commands)
  /\ UNCHANGED <<made, operations, ioVars, storage>>

Holds(s, a) == IF dirty[s][a] = Kept THEN storage[a] ELSE dirty[s][a]

Answer(s, n, answer, value) ==
  made' = [made EXCEPT ![s][n].answer = answer, ![s][n].value = value]

\* What the io is given may stay in it.
Put(s, a, value) ==
  \/ /\ storage' = [storage EXCEPT ![a] = value]
     /\ dirty' = [dirty EXCEPT ![s][a] = Kept]
  \/ /\ dirty' = [dirty EXCEPT ![s][a] = value]
     /\ UNCHANGED storage

\* A wrong SeekTo: as far as the io is.
SeekNowhere(s, at) == position[s]

\* Where an operation reads or writes: it seeks first.
SeekTo(s, at) == at

\* A failed write may have written.
ServeOk(s) ==
  /\ opened[s] = "serving" /\ operations[s] # << >>
  /\ LET n == Head(operations[s])
         o == made[s][n]
         at == IF o.op = "flush" THEN position[s] ELSE SeekTo(s, o.at)
     IN  /\ \/ /\ o.op = "write" /\ at \in Sectors
               /\ Put(s, at, o.value)
               /\ Answer(s, n, "ok", o.value)
            \/ /\ o.op = "read" /\ at \in Sectors
               /\ Answer(s, n, "ok", Holds(s, at))
               /\ UNCHANGED <<dirty, storage>>
            \/ /\ o.op = "flush"
               /\ storage' = [a \in Sectors |-> Holds(s, a)]
               /\ dirty' = [dirty EXCEPT ![s] = Clean]
               /\ made' = [made EXCEPT ![s][n].answer = "ok"]
         /\ position' = [position EXCEPT ![s] = IF o.op = "flush" THEN @ ELSE at + 1]
  /\ operations' = [operations EXCEPT ![s] = << >>]
  /\ UNCHANGED <<session, opened, commands, errors>>

ServeFails(s) ==
  /\ opened[s] = "serving" /\ operations[s] # << >>
  /\ errors < MaxErrors /\ errors' = errors + 1
  /\ LET n == Head(operations[s])
         o == made[s][n]
     IN  /\ made' = [made EXCEPT ![s][n].answer = "failed"]
         /\ \/ o.op = "write" /\ Put(s, o.at, o.value)
            \/ UNCHANGED <<dirty, storage>>
  /\ operations' = [operations EXCEPT ![s] = << >>]
  /\ UNCHANGED <<session, opened, commands, position>>

\* A wrong ServeEnds: the task has kept a sender.
ServeEndsNever(s) == FALSE /\ UNCHANGED loaderVars

\* No sender is left and the channel is empty; the io is dropped with what it holds.
ServeEnds(s) ==
  /\ opened[s] = "serving" /\ session[s] \in {"gone", "closed"} /\ operations[s] = << >>
  /\ opened' = [opened EXCEPT ![s] = "ended"]
  /\ dirty' = [dirty EXCEPT ![s] = Clean]
  /\ UNCHANGED <<userVars, commands, operations, position, storage, errors>>

LoaderStep == TakeOpen \/ \E s \in Sessions : ServeOk(s) \/ ServeFails(s) \/ ServeEnds(s)

LoaderNext ==
  \/ CallOpen \/ LoaderStep
  \/ \E s \in Sessions :
       SendOpen(s) \/ DropCall(s) \/ DoRead(s) \/ DoWrite(s) \/ DoFlush(s) \/ CloseTarget(s)

LoaderSpec == LoaderInit /\ [][LoaderNext]_loaderVars

\* The task runs and the device answers; users close their targets; places in the
\* channel of commands are given in the order in which they were made for.
LoaderFairness ==
  /\ WF_loaderVars(LoaderStep)
  /\ \A s \in 1 .. MaxSessions :
       /\ SF_loaderVars(s \in Sessions /\ SendOpen(s))
       /\ WF_loaderVars(s \in Sessions /\ CloseTarget(s))

-----------------------------------------------------------------------------
(* Properties. *)

\* The last operation of target s before its n-th that may have written sector a,
\* or none (0).
LastWrite(s, n, a) ==
  LET writes == {i \in 1 .. n - 1 : made[s][i].op = "write" /\ made[s][i].at = a}
  IN  IF writes = {} THEN 0 ELSE CHOOSE i \in writes : \A j \in writes : j <= i

\* What a target reads is what it has written last, as long as it is open: neither
\* another target nor its own operations at other places come in between.
ReadsOwnWrites ==
  \A s \in Sessions : \A n \in DOMAIN made[s] :
    (made[s][n].op = "read" /\ made[s][n].answer = "ok") =>
      LET w == LastWrite(s, n, made[s][n].at)
      IN  w # 0 /\ made[s][w].answer = "ok" => made[s][n].value = made[s][w].value

\* Once a flush is answered with Ok, and until the target is used again, what it has
\* written is on the storage, whatever the io keeps back.
FlushedIsStored ==
  \A s \in Sessions :
    LET n == Len(made[s])
    IN  (n > 0 /\ opened[s] = "serving" /\ made[s][n].op = "flush" /\ made[s][n].answer = "ok") =>
          \A a \in Sectors : LET w == LastWrite(s, n, a)
                             IN  w # 0 /\ made[s][w].answer = "ok" => storage[a] = made[s][w].value

\* What a target reads and stores is its own.
LoaderInv == LoaderTypeOK /\ ReadsOwnWrites /\ FlushedIsStored

\* The turns of the calls of open(): waiting until the task serves them.
Turn(s) ==
  IF s \notin Sessions THEN "away"
  ELSE IF opened[s] = "serving" THEN "using"
  ELSE IF opened[s] = "ended" \/ (session[s] = "gone" /\ opened[s] = "none") THEN "done"
  ELSE "waiting"

LoaderUse == INSTANCE ExclusiveUse WITH
  Users <- 1 .. MaxSessions,
  turn  <- [s \in 1 .. MaxSessions |-> Turn(s)]

\* One target at a time has the device, whoever opens, drops and closes.
OneTargetAtATime == LoaderUse!Spec

\* Whoever opens a target gets an answer when those before close theirs, also if
\* some of them gave up.  Calls are limited in number, so it is enough that again
\* and again nobody waits.
OpensReturn == []<>(\A s \in Sessions : session[s] \notin {"calling", "queued"})

\* Data that was written is stored when the target is closed.  Does not hold: to
\* close a target that was not flushed drops what the io holds.
ClosedIsStored ==
  \A s \in Sessions : opened[s] = "ended" =>
    \A n \in DOMAIN made[s] : LET o == made[s][n] IN
      (o.op = "write" /\ o.answer = "ok" /\ LastWrite(s, Len(made[s]) + 1, o.at) = n) =>
        \/ storage[o.at] = o.value
        \/ storage[o.at] # Blank /\ storage[o.at][1] > s
=============================================================================
