------------------------------ MODULE Fastboot ------------------------------
(***************************************************************************)
(* A target of a fastboot volume (FastbootVolumeTarget and process() of    *)
(* fastboot.rs): writes are buffered and flashed when enough is there, a   *)
(* write is answered when the flashes it caused have been, and a flush     *)
(* flashes the rest.  One task executes the commands for the board, from a *)
(* channel of one.                                                         *)
(***************************************************************************)
EXTENDS FastbootData, FiniteSets

CONSTANTS Writes,           \* the writes made: [at, len]
          Positions,        \* the bytes of the volume that are observed
          MaxDownload,      \* max-download-size of the board
          FlashThreshold,   \* FLASH_THRESHOLD
          MaxRequests,      \* bound: requests made
          MaxFailures       \* bound: commands the board fails

ASSUME FastbootAssumption ==
  /\ Positions \subseteq Nat
  /\ MaxDownload \in Nat /\ MaxDownload >= 2 * Block + FileHeader
  /\ \A w \in Writes : w.at \in Nat /\ w.len \in Nat \ {0}

VARIABLES
  requests,   \* what was asked of the target: writes, and flushes
  replies,    \* the answer to each request
  buffered,   \* FastbootVolumeTarget: buffered
  inHand,     \* the part of the current write that is not yet buffered, or none
  split,      \* history: append() has taken a part of a write and left the rest
  sending,    \* data taken from the buffer, to be sent to the task
  flashes,    \* flashes[r]: commands that the answer to request r waits for
  channel,    \* FastbootDevice: commands sent and not yet taken by the task
  results,    \* the result of each command
  failures,   \* commands that failed so far
  volume      \* the board's memory

targetVars == <<buffered, inHand, sending, split>>
boardVars == <<channel, results, failures, volume>>
vars == <<requests, replies, flashes, targetVars, boardVars>>

None == << >>
Current == Len(requests)

Threshold == Least(FlashThreshold, MaxDownload - 2 * Block)

TypeOK ==
  /\ requests \in Seq([op : {"flush"}] \cup {[op |-> "write", at |-> w.at, len |-> w.len] : w \in Writes})
  /\ replies \in [1 .. Len(requests) -> {"none", "waiting", "ok", "error"}]
  /\ \A i \in DOMAIN buffered : buffered[i].offset \in Nat /\ EndBytes(buffered[i]) \in Nat
  /\ flashes \in [1 .. Len(requests) -> Seq(1 .. Len(results))]
  /\ split \in BOOLEAN
  /\ Len(channel) <= 2
  /\ results \in Seq({"waiting", "ok", "failed"}) /\ failures \in 0 .. MaxFailures
  /\ volume \in [Positions -> (0 .. MaxRequests) \X Nat]

Init ==
  /\ requests = << >> /\ replies = << >> /\ flashes = << >>
  /\ buffered = << >> /\ inHand = None /\ sending = None /\ split = FALSE
  /\ channel = << >> /\ results = << >> /\ failures = 0
  /\ volume = [p \in Positions |-> <<Padding, 0>>]

-----------------------------------------------------------------------------
(* The target: one request at a time, until write() or flush() returns.    *)

Returned == Current > 0 => replies[Current] # "none"

Receive(request) ==
  /\ Returned /\ Current < MaxRequests
  /\ requests' = Append(requests, request)
  /\ replies' = Append(replies, "none")
  /\ flashes' = Append(flashes, << >>)

Write ==
  \E w \in Writes :
    /\ Receive([op |-> "write", at |-> w.at, len |-> w.len])
    /\ inHand' = [write |-> Current + 1, at |-> w.at, len |-> w.len]
    /\ UNCHANGED <<buffered, sending, split, boardVars>>

\* A wrong Buffer: it flashes only when there is enough.
BufferUntilFull ==
  /\ inHand # None /\ inHand.len > 0 /\ sending = None
  /\ LET a == AppendTo(buffered, requests[Current].at, inHand, MaxDownload)
     IN  /\ inHand' = a.rest
         /\ split' = (split \/ a.rest.len \in 1 .. inHand.len - 1)
         /\ IF FlashSize(a.chunks) > Threshold
            THEN buffered' = << >> /\ sending' = <<a.chunks>>
            ELSE buffered' = a.chunks /\ UNCHANGED sending
  /\ UNCHANGED <<requests, replies, flashes, boardVars>>

\* The loop of write(): the offset given to append() is that of the write, also
\* for the rest of it.
Buffer ==
  /\ inHand # None /\ inHand.len > 0 /\ sending = None
  /\ LET a == AppendTo(buffered, requests[Current].at, inHand, MaxDownload)
     IN  /\ inHand' = a.rest
         /\ split' = (split \/ a.rest.len \in 1 .. inHand.len - 1)
         /\ IF ~ a.appended \/ FlashSize(a.chunks) > Threshold
            THEN buffered' = << >> /\ sending' = <<a.chunks>>
            ELSE buffered' = a.chunks /\ UNCHANGED sending
  /\ UNCHANGED <<requests, replies, flashes, boardVars>>

\* do_flush(): with nothing buffered, a ping, which like flashing nothing does
\* nothing to the board.
Flush ==
  /\ Receive([op |-> "flush"])
  /\ sending' = <<buffered>>
  /\ buffered' = << >>
  /\ UNCHANGED <<inHand, split, boardVars>>

\* FastbootDevice::flash: the channel holds one command, and the task another.
Send ==
  /\ sending # None /\ Len(channel) < 2
  /\ channel' = Append(channel, [id |-> Len(results) + 1, chunks |-> sending[1]])
  /\ results' = Append(results, "waiting")
  /\ flashes' = [flashes EXCEPT ![Current] = Append(@, Len(results) + 1)]
  /\ sending' = None
  /\ UNCHANGED <<requests, replies, buffered, inHand, split, failures, volume>>

Reply(r, answer) == replies' = [replies EXCEPT ![r] = answer]

\* A wrong WriteReturns: the results of its flashes are not awaited.
ReturnsUnawaited ==
  /\ inHand # None /\ inHand.len = 0 /\ sending = None
  /\ Reply(Current, "ok")
  /\ inHand' = None
  /\ UNCHANGED <<requests, flashes, buffered, sending, split, boardVars>>

\* A write returns when all of it is buffered; the answer may come later.
WriteReturns ==
  /\ inHand # None /\ inHand.len = 0 /\ sending = None
  /\ Reply(Current, IF flashes[Current] = << >> THEN "ok" ELSE "waiting")
  /\ inHand' = None
  /\ UNCHANGED <<requests, flashes, buffered, sending, split, boardVars>>

\* The task spawned by write(), and flush() itself.
Awaits(r) ==
  \/ replies[r] = "waiting"
  \/ r = Current /\ replies[r] = "none" /\ requests[r].op = "flush" /\ flashes[r] # << >>

\* A failed flash is the answer, whatever comes after it.
Answered(r) ==
  /\ Awaits(r)
  /\ \/ /\ \A i \in DOMAIN flashes[r] : results[flashes[r][i]] = "ok"
        /\ Reply(r, "ok")
     \/ /\ \E i \in DOMAIN flashes[r] :
             /\ results[flashes[r][i]] = "failed"
             /\ \A j \in 1 .. i - 1 : results[flashes[r][j]] = "ok"
        /\ Reply(r, "error")
  /\ UNCHANGED <<requests, flashes, targetVars, boardVars>>

TargetStep ==
  \/ Buffer \/ Send \/ WriteReturns
  \/ \E r \in 1 .. Current : Answered(r)

-----------------------------------------------------------------------------
(* process(): the commands one after another. *)

Finish(result) ==
  /\ channel' = Tail(channel)
  /\ results' = [results EXCEPT ![Head(channel).id] = result]
  /\ UNCHANGED <<requests, replies, flashes, targetVars>>

FlashOk ==
  /\ channel # << >>
  /\ LET chunks == Head(channel).chunks
     IN  IF chunks = << >>
         THEN UNCHANGED volume
         ELSE WellFormed(chunks) /\ volume' = Flashed(volume, chunks)
  /\ Finish("ok")
  /\ UNCHANGED failures

\* The download of a wrong number of bytes fails, as does anything the board
\* does not like.
FlashFails ==
  /\ channel # << >> /\ Head(channel).chunks # << >>
  /\ IF WellFormed(Head(channel).chunks)
     THEN failures < MaxFailures /\ failures' = failures + 1
     ELSE UNCHANGED failures
  /\ Finish("failed")
  /\ UNCHANGED volume

BoardStep == FlashOk \/ FlashFails

Next == Write \/ Flush \/ TargetStep \/ BoardStep

Spec == Init /\ [][Next]_vars

\* Both tasks run, and the board answers.
Fairness == WF_vars(TargetStep) /\ WF_vars(BoardStep)

-----------------------------------------------------------------------------
(* Properties. *)

WritesTo(p) == {r \in DOMAIN requests :
                  /\ requests[r].op = "write"
                  /\ requests[r].at <= p /\ p < requests[r].at + requests[r].len}

\* The volume has, at every position written to, the byte of the last write.
AllOnVolume ==
  \A p \in Positions : WritesTo(p) # {} =>
    volume[p] = <<CHOOSE r \in WritesTo(p) : \A q \in WritesTo(p) : q <= r, p>>

Made == {requests[r] : r \in {q \in DOMAIN requests : requests[q].op = "write"}}

\* The writes of the client are of whole blocks, but for the last one of the image.
WholeBlocks ==
  \A w \in Made :
    /\ w.at % Block = 0
    /\ w.len % Block = 0 \/ \A v \in Made : v.at + v.len <= w.at + w.len

\* When a flush has succeeded, and no write before it has failed, everything
\* written is on the volume: across flashes between writes, failures that are
\* reported to another write than the one whose data is lost, and writes to what
\* is still buffered.  It does not hold for writes that are split, whose rest is
\* appended at the offset of the write again, nor for writes that begin within a
\* block, whose padding overwrites what is there.
FlushedIsWritten ==
  (/\ Current > 0 /\ requests[Current].op = "flush"
   /\ \A r \in DOMAIN replies : replies[r] = "ok"
   /\ WholeBlocks /\ ~ split) => AllOnVolume

\* flash_size and flash_chunks are "the size required for flashing" and the
\* number of chunks: what is sent is what was declared.  It does not hold for
\* pieces that are not of whole blocks, of which each counts as rounded up.
ImagesAreWellFormed ==
  WholeBlocks =>
    \A i \in DOMAIN channel : channel[i].chunks # << >> => WellFormed(channel[i].chunks)

\* No download is larger than the board takes.
FitsDownload ==
  \A i \in DOMAIN channel : channel[i].chunks # << >> => SentSize(channel[i].chunks) <= MaxDownload

\* The room left in the buffer, computed without a sign, is never negative when
\* something is appended.
RoomIsPositive == FlashSize(buffered) <= MaxDownload

\* Every command for the board is part of the answer to one request: no failure is
\* passed over, and what is told to have failed has.  The answer to a write comes when
\* the target has gone on to others.
AnswersTellResults ==
  /\ \A i \in DOMAIN results : \E r \in DOMAIN requests : i \in Range(flashes[r])
  /\ \A r \in DOMAIN requests :
       /\ replies[r] = "ok" => \A i \in Range(flashes[r]) : results[i] = "ok"
       /\ replies[r] = "error" => \E i \in Range(flashes[r]) : results[i] = "failed"

\* The buffer of a target, and the sparse images made of it, are such that the
\* board can take them, what was flushed with success is on the volume, and what was
\* not is told.
BufferInv ==
  /\ TypeOK /\ AnswersTellResults
  /\ ImagesAreWellFormed /\ FitsDownload /\ RoomIsPositive /\ FlushedIsWritten

\* Every request is answered: the loop of write() ends although it may append
\* nothing in a turn.  Requests are limited in number, so it is enough that again
\* and again none is without an answer.
EveryRequestAnswered == []<>(\A r \in DOMAIN replies : replies[r] \in {"ok", "error"})
=============================================================================
