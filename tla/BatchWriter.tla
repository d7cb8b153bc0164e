---------------------------- MODULE BatchWriter ----------------------------
(***************************************************************************)
(* The writer of the command line client (boardswarm-cli, utils.rs), which *)
(* gathers small writes into batches for a volume.  An action is a poll;   *)
(* its user may give an operation up after any poll, and poll another one. *)
(* The volume underneath (VolumeIoRW) may not be ready, fail, or take what *)
(* it is given up to its limit.                                            *)
(***************************************************************************)
EXTENDS Integers, Sequences, SequencesExt

CONSTANTS MaxWrite,    \* VolumeIoRW::MAX_WRITE_SIZE
          BlockSize,   \* blocksize of the target, or 4096
          Lengths,     \* lengths of writes
          Seeks,       \* SeekFrom, of which nobody here uses End
          NoSeek,      \* None for a seek
          MaxBytes,    \* bound: bytes written
          MaxPlace     \* bound: positions sought

ASSUME BatchWriterAssumption ==
  /\ MaxWrite \in Nat /\ BlockSize \in 1 .. MaxWrite
  /\ Lengths \subseteq Nat \ {0} /\ MaxBytes \in Nat /\ MaxPlace \in Nat
  /\ Seeks \subseteq [from : {"start", "current"}, by : Int] /\ NoSeek \notin Seeks

VARIABLES
  batch,         \* state: the bytes batched
  pendingSeek,   \* pending_seek
  discard,       \* discard_flush, fixed when the writer is made
  pos,           \* VolumeIoRW: its position
  posAsked,      \* VolumeIoRW: its pending seek
  sent,          \* bytes given to the volume, with their positions
  accepted,      \* bytes taken from the user, with the positions they are meant for
  userPos,       \* the position as the user knows it
  seeking,       \* the seek the user asked for last, until one has completed
  polled         \* the last poll and its result

writerVars == <<batch, pendingSeek>>
volumeVars == <<pos, posAsked, sent>>
userVars == <<accepted, userPos, seeking, polled>>
batchWriterVars == <<writerVars, volumeVars, userVars, discard>>

BufferSize == MaxWrite - (MaxWrite % BlockSize)

WriterTypeOK ==
  /\ batch \in Seq(1 .. MaxBytes) /\ Len(batch) < BufferSize
  /\ discard \in BOOLEAN
  /\ {pendingSeek, posAsked, seeking} \subseteq Seeks \cup {NoSeek}
  /\ pos \in Nat /\ userPos \in Nat
  /\ sent \in Seq(Nat \X (1 .. MaxBytes)) /\ accepted \in Seq(Nat \X (1 .. MaxBytes))
  /\ polled \in {"write", "flush", "shutdown", "seek"} \X {"ok", "pending", "error"}

WriterInit ==
  /\ batch = << >> /\ pendingSeek = NoSeek /\ discard \in BOOLEAN
  /\ pos = 0 /\ posAsked = NoSeek /\ sent = << >>
  /\ accepted = << >> /\ userPos = 0 /\ seeking = NoSeek
  /\ polled = <<"write", "pending">>

At(start, bytes) == [i \in DOMAIN bytes |-> <<start + i - 1, bytes[i]>>]

-----------------------------------------------------------------------------
(* The volume. *)

\* poll_write of VolumeIoRW, when it is ready.
Send(bytes) ==
  LET n == Len(bytes)
  IN  /\ sent' = sent \o At(pos, bytes)
      /\ pos' = pos + n
      /\ UNCHANGED posAsked

Upto(n, bytes) == SubSeq(bytes, 1, IF n < Len(bytes) THEN n ELSE Len(bytes))

-----------------------------------------------------------------------------
(* poll_write *)

Bytes(n) == [i \in 1 .. n |-> Len(accepted) + i]

Accept(bytes) ==
  /\ accepted' = accepted \o At(userPos, bytes)
  /\ userPos' = userPos + Len(bytes)
  /\ polled' = <<"write", "ok">>
  /\ UNCHANGED seeking

\* Large writes go straight to the volume when nothing is batched.
WriteThrough(n) ==
  /\ batch = << >> /\ n >= BufferSize
  /\ Send(Upto(MaxWrite, Bytes(n)))
  /\ Accept(Upto(MaxWrite, Bytes(n)))
  /\ UNCHANGED writerVars

WriteBatched(n) ==
  /\ Len(batch) + n < BufferSize
  /\ batch' = batch \o Bytes(n)
  /\ Accept(Bytes(n))
  /\ UNCHANGED <<pendingSeek, volumeVars>>

\* The batch is filled up with the start of the write, and goes.
WriteFilled(n) ==
  /\ batch # << >> /\ Len(batch) + n >= BufferSize
  /\ LET start == Upto(BufferSize - Len(batch), Bytes(n))
     IN  Send(batch \o start) /\ Accept(start)
  /\ batch' = << >>
  /\ UNCHANGED pendingSeek

\* The volume is not ready or reports an error: the batch is what it was.
WriteStopped(n) ==
  /\ Len(batch) + n >= BufferSize
  /\ \E result \in {"pending", "error"} : polled' = <<"write", result>>
  /\ UNCHANGED <<writerVars, volumeVars, accepted, userPos, seeking>>

PollWrite ==
  \E n \in Lengths :
    /\ Len(accepted) + n <= MaxBytes
    /\ WriteThrough(n) \/ WriteBatched(n) \/ WriteFilled(n) \/ WriteStopped(n)

-----------------------------------------------------------------------------
(* poll_flush, poll_shutdown and the seeks *)

\* poll_flush_data, when the volume takes the batch
FlushData ==
  /\ IF batch = << >> THEN UNCHANGED volumeVars ELSE Send(batch)
  /\ batch' = << >>

\* The volume is not ready, or fails, before the batch has gone or after it: then
\* it is the flush or shutdown of the volume that does.
Stopped(op) ==
  /\ \E result \in {"pending", "error"} : polled' = <<op, result>>
  /\ \/ batch # << >> /\ UNCHANGED <<batch, volumeVars>>
     \/ op # "seek" /\ FlushData
  /\ UNCHANGED <<pendingSeek, accepted, userPos, seeking>>

FlushDiscarded ==
  /\ discard
  /\ polled' = <<"flush", "ok">>
  /\ UNCHANGED <<writerVars, volumeVars, accepted, userPos, seeking>>

PollFlush ==
  \/ FlushDiscarded
  \/ /\ ~ discard
     /\ \/ /\ FlushData
           /\ polled' = <<"flush", "ok">>
           /\ UNCHANGED <<pendingSeek, accepted, userPos, seeking>>
        \/ Stopped("flush")

PollShutdown ==
  \/ /\ FlushData
     /\ polled' = <<"shutdown", "ok">>
     /\ UNCHANGED <<pendingSeek, accepted, userPos, seeking>>
  \/ Stopped("shutdown")

\* Where a seek leads from a position, which is never before the start.
Destination(seek, from) ==
  IF seek = NoSeek THEN from
  ELSE LET to == (IF seek.from = "current" THEN from ELSE 0) + seek.by
       IN  IF to < 0 THEN 0 ELSE to

\* start_seek: it waits for the batch, which an earlier one may still do.  Without a
\* batch it is the volume's, where it replaces an earlier one.
StartSeek ==
  /\ \E s \in Seeks :
       \/ /\ batch = << >>
          /\ posAsked' = s /\ seeking' = s
          /\ UNCHANGED <<pendingSeek, polled>>
       \/ /\ batch # << >> /\ pendingSeek = NoSeek
          /\ pendingSeek' = s /\ seeking' = s
          /\ UNCHANGED <<posAsked, polled>>
       \/ /\ batch # << >> /\ pendingSeek # NoSeek
          /\ polled' = <<"seek", "error">>
          /\ UNCHANGED <<pendingSeek, posAsked, seeking>>
  /\ UNCHANGED <<batch, pos, sent, accepted, userPos>>

\* The seek that poll_complete carries out.
Due == IF pendingSeek = NoSeek THEN posAsked ELSE pendingSeek

\* The seek is over, and the user is where it leads from where it was.
Arrive ==
  /\ posAsked' = NoSeek /\ pendingSeek' = NoSeek /\ seeking' = NoSeek
  /\ userPos' = Destination(Due, userPos) /\ userPos' <= MaxPlace
  /\ polled' = <<"seek", "ok">>

\* A wrong PollComplete: it seeks before the batch has gone.
CompleteUnflushed ==
  /\ Arrive
  /\ pos' = Destination(Due, pos)
  /\ UNCHANGED <<batch, sent, accepted>>

\* poll_complete: the batch first, then a seek that waited for it.
PollComplete ==
  \/ /\ Arrive
     /\ sent' = sent \o At(pos, batch)
     /\ pos' = Destination(Due, pos + Len(batch))
     /\ batch' = << >>
     /\ UNCHANGED accepted
  \/ Stopped("seek")

WriterNext ==
  /\ PollWrite \/ PollFlush \/ PollShutdown \/ StartSeek \/ PollComplete
  /\ UNCHANGED discard

WriterSpec == WriterInit /\ [][WriterNext]_batchWriterVars

-----------------------------------------------------------------------------
(* Properties. *)

\* Every byte taken from the user has gone to the position it was meant for, once
\* and in order, or is in the batch and will: whatever polls were given up.
NothingLostOrMoved == sent \o At(pos, batch) = accepted

\* What a successful shutdown, or a flush that is not discarded, leaves behind
\* is nothing.
SyncedIsSent ==
  polled = <<"shutdown", "ok">> \/ (polled = <<"flush", "ok">> /\ ~ discard) => sent = accepted

\* The seek asked for last is the one that will be carried out, unless an earlier one
\* that was given up still waits for a batch, which has gone since.
SeekIsDue == seeking = Due \/ (pendingSeek # NoSeek /\ seeking = posAsked)

\* What is written through the batch arrives, whichever polls are given up.
WriterInv == WriterTypeOK /\ NothingLostOrMoved /\ SyncedIsSent /\ SeekIsDue

\* A seek that start_seek has taken is the one that poll_complete carries out.  Does not
\* hold for a user who gives one up, flushes, and starts another one without polling the
\* first to its end, as tokio's seek() would.
LastSeekCounts == seeking = Due

=============================================================================
