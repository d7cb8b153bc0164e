--------------------------- MODULE FastbootVolume ---------------------------
(***************************************************************************)
(* All callers of a fastboot device (FastbootVolume, FastbootDevice and    *)
(* process() of fastboot.rs): several targets at once, probes of targets   *)
(* that are not known, commits and erasures, through one channel to one    *)
(* task.  What a target buffers is a sequence of writes here; Fastboot     *)
(* says what becomes of their bytes.                                       *)
(***************************************************************************)
EXTENDS Integers, Sequences, SequencesExt, FiniteSets

CONSTANTS Names,       \* the targets that a client may ask for
          Known,       \* those found when the volume was set up
          Stage,       \* TARGET_STAGE, which is downloaded and not flashed
          MaxHandles,  \* bound: targets opened
          MaxItems,    \* bound: writes
          MaxCommands, \* bound: commands to the device
          MaxRefusals  \* bound: commands that the board fails

ASSUME FastbootVolumeAssumption ==
  /\ Known \subseteq Names /\ Stage \in Names
  /\ {MaxHandles, MaxItems, MaxCommands, MaxRefusals} \subseteq Nat

VARIABLES
  handle,     \* the targets opened, by name
  busy,       \* busy[h]: the command that handle h waits for, Ready, or Lost
  pending,    \* pending[h]: writes in the buffer of h
  items,      \* the writes: [of, flash], the handle and the command that they wait for
  asked,      \* the commands: [op, of, name, data, state]
  line,       \* the command the task executes, and the one in the channel
  partition,  \* partition[n]: the writes that the board has in target n
  erased,     \* history: writes that an erasure has removed
  loaded,     \* the board's download buffer
  booted,     \* the board has left fastboot
  refusals    \* commands that failed so far, not counting those after the boot

clientVars == <<handle, busy, pending, items>>
fastbootBoardVars == <<partition, erased, loaded, booted, refusals>>
volumeVars == <<clientVars, asked, line, fastbootBoardVars>>

Ready == 0
Lost == -1
Handles == DOMAIN handle
Ids == DOMAIN asked
Ended(i) == asked[i].state \in {"ok", "failed"}

VolumeTypeOK ==
  /\ handle \in Seq(Names) /\ Len(handle) <= MaxHandles
  /\ busy \in [Handles -> {Ready, Lost} \cup Ids]
  /\ items \in Seq([of : Handles, flash : {0} \cup Ids]) /\ Len(items) <= MaxItems
  /\ pending \in [Handles -> Seq(DOMAIN items)]
  /\ \A i \in Ids :
       /\ asked[i].op \in {"flash", "ping", "probe", "erase", "continue"}
       /\ asked[i].of \in {0} \cup Handles /\ asked[i].name \in Names
       /\ asked[i].data \in Seq(DOMAIN items)
       /\ asked[i].state \in {"calling", "queued", "ok", "failed"}
  /\ line \in Seq(Ids) /\ Len(line) <= 2
  /\ partition \in [Names -> Seq(DOMAIN items)] /\ erased \subseteq DOMAIN items
  /\ loaded \in Seq(DOMAIN items) /\ booted \in BOOLEAN /\ refusals \in 0 .. MaxRefusals

VolumeInit ==
  /\ handle = << >> /\ busy = << >> /\ pending = << >> /\ items = << >>
  /\ asked = << >> /\ line = << >>
  /\ partition = [n \in Names |-> << >>] /\ erased = {} /\ loaded = << >>
  /\ booted = FALSE /\ refusals = 0

-----------------------------------------------------------------------------
(* Callers. *)

Command(op, of, name, data) == [op |-> op, of |-> of, name |-> name, data |-> data, state |-> "calling"]

Ask(command) == Len(asked) < MaxCommands /\ asked' = Append(asked, command)

\* open(): a target that is not known is probed, and opened whatever comes of it.
OpenHandle ==
  \E n \in Names :
    /\ Len(handle) < MaxHandles
    /\ handle' = Append(handle, n)
    /\ pending' = Append(pending, << >>)
    /\ IF n \in Known
       THEN busy' = Append(busy, Ready) /\ UNCHANGED asked
       ELSE /\ busy' = Append(busy, Len(asked) + 1)
            /\ Ask(Command("probe", Len(handle) + 1, n, << >>))
    /\ UNCHANGED <<items, line, fastbootBoardVars>>

\* write(): what is buffered, with or without the new data, is flashed when there is
\* enough of it; the write then waits for that flash, and the handle only until
\* the command is sent.
WriteItem(h) ==
  /\ busy[h] = Ready /\ Len(items) < MaxItems
  /\ LET w == Len(items) + 1
     IN  \/ /\ pending' = [pending EXCEPT ![h] = Append(@, w)]
            /\ items' = Append(items, [of |-> h, flash |-> 0])
            /\ UNCHANGED <<busy, asked>>
         \/ \E whole \in BOOLEAN :
              /\ whole \/ pending[h] # << >>
              /\ pending' = [pending EXCEPT ![h] = IF whole THEN << >> ELSE <<w>>]
              /\ items' = Append(items, [of |-> h, flash |-> Len(asked) + 1])
              /\ busy' = [busy EXCEPT ![h] = Len(asked) + 1]
              /\ Ask(Command("flash", h, handle[h], IF whole THEN Append(pending[h], w) ELSE pending[h]))
  /\ UNCHANGED <<handle, line, fastbootBoardVars>>

\* A wrong FlushItems: with nothing buffered there is nothing to do.
FlushWithoutPing(h) ==
  /\ busy[h] = Ready /\ Len(asked) < MaxCommands
  /\ LET c == Command(IF pending[h] = << >> THEN "ping" ELSE "flash", h, handle[h], pending[h])
     IN  asked' = Append(asked, IF c.op = "ping" THEN [c EXCEPT !.state = "ok"] ELSE c)
  /\ busy' = [busy EXCEPT ![h] = IF pending[h] = << >> THEN Ready ELSE Len(asked) + 1]
  /\ pending' = [pending EXCEPT ![h] = << >>]
  /\ UNCHANGED <<handle, items, line, fastbootBoardVars>>

\* flush(), and shutdown(): flash what is buffered, or a ping to the task.
FlushItems(h) ==
  /\ busy[h] = Ready
  /\ Ask(Command(IF pending[h] = << >> THEN "ping" ELSE "flash", h, handle[h], pending[h]))
  /\ busy' = [busy EXCEPT ![h] = Len(asked) + 1]
  /\ pending' = [pending EXCEPT ![h] = << >>]
  /\ UNCHANGED <<handle, items, line, fastbootBoardVars>>

\* The connection ends, and what is buffered is gone.
DropHandle(h) ==
  /\ busy[h] = Ready
  /\ busy' = [busy EXCEPT ![h] = Lost]
  /\ pending' = [pending EXCEPT ![h] = << >>]
  /\ UNCHANGED <<handle, items, asked, line, fastbootBoardVars>>

\* commit() and erase()
ContinueOrErase ==
  /\ \E n \in Names, op \in {"erase", "continue"} :
       /\ op = "continue" => n = Stage
       /\ Ask(Command(op, 0, n, << >>))
  /\ UNCHANGED <<clientVars, line, fastbootBoardVars>>

\* Sending to the channel, which holds one command besides that of the task; who
\* has waited longest for a place gets it.
SendCommand(i) ==
  /\ asked[i].state = "calling" /\ Len(line) < 2
  /\ \A j \in 1 .. i - 1 : asked[j].state # "calling"
  /\ asked' = [asked EXCEPT ![i].state = "queued"]
  /\ line' = Append(line, i)
  /\ busy' = [h \in Handles |->
                IF busy[h] = i /\ \E w \in DOMAIN items : items[w].flash = i THEN Ready ELSE busy[h]]
  /\ UNCHANGED <<handle, pending, items, fastbootBoardVars>>

-----------------------------------------------------------------------------
(* process() *)

\* The answer to a flush or a probe lets the handle go on.
Settle(i, state) ==
  /\ asked' = [asked EXCEPT ![i].state = state]
  /\ line' = Tail(line)
  /\ busy' = [h \in Handles |-> IF busy[h] = i THEN Ready ELSE busy[h]]
  /\ UNCHANGED <<handle, pending, items>>

Succeeds(op) == line # << >> /\ asked[Head(line)].op = op

FlashDone ==
  /\ Succeeds("flash") /\ ~ booted
  /\ LET c == asked[Head(line)]
     IN  IF c.data = << >> THEN UNCHANGED <<loaded, partition>>
         ELSE /\ loaded' = c.data
              /\ partition' = IF c.name = Stage THEN partition ELSE [partition EXCEPT ![c.name] = @ \o c.data]
  /\ Settle(Head(line), "ok")
  /\ UNCHANGED <<erased, booted, refusals>>

\* The answer to a ping does not need the board.
PingDone ==
  /\ Succeeds("ping")
  /\ Settle(Head(line), "ok")
  /\ UNCHANGED fastbootBoardVars

\* The board tells the size of the target, or an empty download is flashed to it.
ProbeDone ==
  /\ Succeeds("probe") /\ ~ booted
  /\ loaded' \in {loaded, << >>}
  /\ Settle(Head(line), "ok")
  /\ UNCHANGED <<partition, erased, booted, refusals>>

EraseDone ==
  /\ Succeeds("erase") /\ ~ booted
  /\ LET n == asked[Head(line)].name
     IN  /\ partition' = [partition EXCEPT ![n] = << >>]
         /\ erased' = erased \cup ToSet(partition[n])
  /\ Settle(Head(line), "ok")
  /\ UNCHANGED <<loaded, booted, refusals>>

ContinueDone ==
  /\ Succeeds("continue") /\ ~ booted
  /\ booted' = TRUE
  /\ Settle(Head(line), "ok")
  /\ UNCHANGED <<partition, erased, loaded, refusals>>

\* The board refuses, or the download fails, after some of it has been stored or not;
\* a board that has booted does not answer.
CommandFails ==
  /\ line # << >> /\ asked[Head(line)].op # "ping"
  /\ IF booted THEN UNCHANGED refusals ELSE refusals < MaxRefusals /\ refusals' = refusals + 1
  /\ loaded' \in IF asked[Head(line)].op \in {"flash", "probe"} /\ ~ booted THEN {loaded, << >>} ELSE {loaded}
  /\ Settle(Head(line), "failed")
  /\ UNCHANGED <<partition, erased, booted>>

ProcessStep == FlashDone \/ PingDone \/ ProbeDone \/ EraseDone \/ ContinueDone \/ CommandFails

VolumeNext ==
  \/ OpenHandle \/ ContinueOrErase \/ ProcessStep
  \/ \E h \in Handles : WriteItem(h) \/ FlushItems(h) \/ DropHandle(h)
  \/ \E i \in Ids : SendCommand(i)

VolumeSpec == VolumeInit /\ [][VolumeNext]_volumeVars

\* The task runs and the board answers; those who wait for a place are woken.
VolumeFairness == WF_volumeVars(ProcessStep) /\ WF_volumeVars(\E i \in Ids : SendCommand(i))

-----------------------------------------------------------------------------
(* Properties. *)

ItemsOf(h) == {w \in DOMAIN items : items[w].of = h}

\* The commands that flushes sent, and not writes.
IsFlush(i) ==
  asked[i].op = "ping" \/ (asked[i].op = "flash" /\ \A w \in DOMAIN items : items[w].flash # i)

\* When a flush has succeeded and nothing was written since, every earlier flash of
\* the handle is over, too, also those whose writes are not answered yet; and the
\* data of those that succeeded is on the board unless it was erased, whatever
\* other handles, probes, erasures and a boot did in between.
FlushSettles ==
  \A i \in Ids :
    (IsFlush(i) /\ asked[i].state = "ok") =>
      \A j \in 1 .. i - 1 : (asked[j].op = "flash" /\ asked[j].of = asked[i].of) =>
        /\ Ended(j)
        /\ asked[j].state = "ok" /\ asked[j].name # Stage =>
             ToSet(asked[j].data) \subseteq ToSet(partition[asked[j].name]) \cup erased

\* The writes of a handle reach its target in their order, none twice.
InOrder ==
  \A n \in Names :
    \A i, j \in DOMAIN partition[n] :
      i < j /\ items[partition[n][i]].of = items[partition[n][j]].of =>
        partition[n][i] < partition[n][j]

\* Several users of one board do not take data from each other.
VolumeInv == VolumeTypeOK /\ FlushSettles /\ InOrder

\* Every command comes to an end, also after the board has left fastboot.
CommandsReturn == []<>(\A i \in Ids : Ended(i))

\* A commit boots what the targets have been given.  Does not hold: what open
\* targets buffer is not flashed, and nobody is told.
BootsWithEverything == booted => \A h \in Handles : pending[h] = << >>

\* What was staged is what the board boots with.  Does not hold: any other download,
\* and the probe of a target that is not known, replaces it.
StagedIsKept ==
  booted => \A i \in Ids :
    (asked[i].op = "flash" /\ asked[i].name = Stage /\ asked[i].state = "ok" /\ asked[i].data # << >>) =>
      \E j \in Ids : asked[j].name = Stage /\ asked[j].data = loaded
=============================================================================
