----------------------------- MODULE VolumeIoRW -----------------------------
(***************************************************************************)
(* VolumeIoRW, the client's view of an opened volume as a file: the poll   *)
(* functions of AsyncRead, AsyncWrite and AsyncSeek over the requests of a *)
(* VolumeIo, of which it knows what IoAnswers promises.  Each poll is one  *)
(* step.  A caller may give up an operation that is pending and start      *)
(* another one, as tokio's select! and timeout do, so any poll may follow  *)
(* any other.  Data is modelled by where and by which request it was read. *)
(*                                                                         *)
(* The volume is readable and writable; the other cases return at once.    *)
(***************************************************************************)
EXTENDS IoAnswers, Sequences

CONSTANTS Top,             \* a bound on positions
          Lengths,         \* lengths of the caller's buffers
          Seekable         \* the target's `seekable`

ASSUME RWAssumption == Top \in Nat /\ Lengths \subseteq Nat \ {0} /\ Seekable \in BOOLEAN

VARIABLES
  what,          \* what[r]: the kind, position and length of request r
  closed,        \* the VolumeIo takes no more requests
  pos,           \* `pos`: the position as the user sees it
  state,         \* `state`, where "Spent" is a ReserveRequest that has failed
  reading,       \* the request of state "Read"
  pending,       \* `pending_requests`
  buffered,      \* `buffered_read`: `len` bytes from `at` on, read by request `of`
  outcome,       \* what the last poll returned: data is as in `buffered`
  told,          \* the requests whose error a poll has returned
  overtaken      \* history: a seek came over the read that is pending or buffered

rwVars == <<pos, state, reading, pending, buffered, outcome, told, overtaken>>
answerVars == <<issued, calls>>
fileVars == <<answerVars, what, closed, rwVars>>

Positions == 0 .. Top
Amounts == {0} \cup Lengths
NoRequest == [kind |-> "none", at |-> 0, len |-> 0]
RequestKinds == [kind : {"write", "read", "flush", "shutdown"}, at : Positions, len : Amounts]
Bytes == [at : Positions, len : Nat, of : Requests \cup {0}]
NoBytes == [at |-> 0, len |-> 0, of |-> 0]
Outcomes == [op : {"none", "write", "read", "flush", "shutdown", "seek"},
             result : {"ok", "pending", "error", "panic"}, data : Bytes]
Returned(op, result) == [op |-> op, result |-> result, data |-> NoBytes]

RWTypeOK ==
  /\ AnswersTypeOK
  /\ what \in [Requests -> RequestKinds \cup {NoRequest}]
  /\ closed \in BOOLEAN
  /\ pos \in Positions
  /\ state \in {"Idle", "Reserve", "Spent", "Flush", "Shutdown", "Read"}
  /\ reading \in Requests \cup {0} /\ (state = "Read" <=> reading # 0)
  /\ pending \in Seq(Requests)
  /\ buffered \in Bytes
  /\ outcome \in Outcomes
  /\ told \subseteq Requests
  /\ overtaken \in BOOLEAN

RWInit ==
  /\ AnswersInit
  /\ what = [r \in Requests |-> NoRequest]
  /\ closed = FALSE
  /\ pos = 0 /\ state = "Idle" /\ reading = 0
  /\ pending = << >> /\ buffered = NoBytes
  /\ outcome = Returned("none", "ok")
  /\ told = {}
  /\ overtaken = FALSE

-----------------------------------------------------------------------------
(* The requests under it. *)

PipeStep ==
  /\ \/ \E r \in Requests : Succeed(r)
     \/ \E set \in SUBSET Requests \ {{}} : Fail(set)
  /\ UNCHANGED <<what, closed, rwVars>>

\* The request stream has ended.
CloseRequests ==
  /\ ~ closed
  /\ closed' = TRUE
  /\ UNCHANGED <<answerVars, what, rwVars>>

\* A permit of the channel is used to make a request.
SendRequest(kind, at, len) ==
  /\ ~ closed
  /\ Ask
  /\ what' = [what EXCEPT ![issued + 1] = [kind |-> kind, at |-> at, len |-> len]]
  /\ UNCHANGED closed

NoSend == UNCHANGED <<answerVars, what, closed>>

\* cleanup_pending_requests takes the requests answered so far from the front,
\* up to the first that failed, whose error it returns.
Answered == CHOOSE n \in 0 .. Len(pending) :
  /\ \A i \in 1 .. n : calls[pending[i]] \notin {Waiting, Failed}
  /\ n < Len(pending) => calls[pending[n + 1]] \in {Waiting, Failed}
CleanupFails == Answered < Len(pending) /\ calls[pending[Answered + 1]] = Failed
Told == IF CleanupFails THEN told \cup {pending[Answered + 1]} ELSE told
\* A wrong CleanedUp: an error clears the queue.
ClearedOnError == SubSeq(pending, IF CleanupFails THEN Len(pending) + 1 ELSE Answered + 1,
                         Len(pending))

CleanedUp == SubSeq(pending, IF CleanupFails THEN Answered + 2 ELSE Answered + 1, Len(pending))

-----------------------------------------------------------------------------
(* The polls.  Each state a poll does not wait in itself is given up for a   *)
(* new reservation; a reservation is shared by whoever polls next.           *)

\* The reservation is polled: there is no room in the channel, it is closed,
\* or the future has returned before.
Reserving(op) ==
  /\ NoSend
  /\ \/ state # "Spent" /\ ~ closed
          /\ state' = "Reserve" /\ outcome' = Returned(op, "pending")
     \/ state # "Spent" /\ closed
          /\ state' = "Spent" /\ outcome' = Returned(op, "error")
     \/ state = "Spent" /\ UNCHANGED state /\ outcome' = Returned(op, "panic")
  /\ reading' = 0

\* invalidate_read_buffer
InvalidatedBuffer == NoBytes

PollWrite(len) ==
  /\ buffered' = InvalidatedBuffer
  /\ told' = Told
  /\ \/ /\ CleanupFails
        /\ pending' = CleanedUp
        /\ outcome' = Returned("write", "error")
        /\ NoSend /\ UNCHANGED <<pos, state, reading>>
     \/ /\ ~ CleanupFails
        /\ pending' = CleanedUp
        /\ Reserving("write")
        /\ UNCHANGED pos
     \/ /\ ~ CleanupFails /\ state # "Spent"
        /\ pos + len <= Top
        /\ SendRequest("write", pos, len)
        /\ pending' = Append(CleanedUp, issued + 1)
        /\ pos' = pos + len
        /\ state' = "Idle"
        /\ outcome' = Returned("write", "ok")
        /\ reading' = 0

\* poll_flush and poll_shutdown: they return when every request up to their
\* own has been answered.
PollDone(op, own) ==
  /\ UNCHANGED <<pos, buffered>>
  /\ told' = Told
  /\ \/ /\ CleanupFails
        /\ pending' = CleanedUp
        /\ state' = "Idle" /\ reading' = 0
        /\ outcome' = Returned(op, "error")
        /\ NoSend
     \/ /\ ~ CleanupFails /\ state = own
        /\ pending' = CleanedUp
        /\ IF CleanedUp = << >> THEN state' = "Idle" /\ outcome' = Returned(op, "ok")
           ELSE UNCHANGED state /\ outcome' = Returned(op, "pending")
        /\ NoSend /\ UNCHANGED reading
     \/ /\ ~ CleanupFails /\ state = "Shutdown" /\ op = "flush"
        /\ pending' = CleanedUp
        /\ outcome' = Returned(op, "error")
        /\ NoSend /\ UNCHANGED <<state, reading>>
     \/ /\ ~ CleanupFails /\ state \notin {own, "Shutdown"}
        /\ pending' = CleanedUp
        /\ Reserving(op)
     \/ /\ ~ CleanupFails /\ state \notin {own, "Shutdown", "Spent"}
        /\ SendRequest(op, 0, 0)
        /\ pending' = Append(CleanedUp, issued + 1)
        /\ state' = own /\ reading' = 0
        /\ outcome' = Returned(op, "pending")

\* A wrong CopyBuffered: the position does not move.
CopyHoldsPosition(bytes, len) ==
  LET n == IF bytes.len < len THEN bytes.len ELSE len
  IN  /\ buffered' = IF n = bytes.len THEN NoBytes
                      ELSE [bytes EXCEPT !.at = @ + n, !.len = @ - n]
      /\ pos' = pos
      /\ outcome' = [op |-> "read", result |-> "ok", data |-> [bytes EXCEPT !.len = n]]

\* copy_buffered_read: as much as there is and as fits.
CopyBuffered(bytes, len) ==
  LET n == IF bytes.len < len THEN bytes.len ELSE len
  IN  /\ buffered' = IF n = bytes.len THEN NoBytes
                      ELSE [bytes EXCEPT !.at = @ + n, !.len = @ - n]
      /\ pos' = pos + n
      /\ outcome' = [op |-> "read", result |-> "ok", data |-> [bytes EXCEPT !.len = n]]

PollRead(len) ==
  /\ UNCHANGED <<pending, told>>
  /\ \/ /\ buffered.len > 0
        /\ pos + buffered.len <= Top
        /\ CopyBuffered(buffered, len)
        /\ NoSend /\ UNCHANGED <<state, reading>>
     \/ /\ buffered.len = 0 /\ state # "Read"
        /\ Reserving("read")
        /\ UNCHANGED <<pos, buffered>>
     \/ /\ buffered.len = 0 /\ state \notin {"Read", "Spent"}
        /\ pos + len <= Top
        /\ SendRequest("read", pos, len)
        /\ state' = "Read" /\ reading' = issued + 1
        /\ outcome' = Returned("read", "pending")
        /\ UNCHANGED <<pos, buffered>>
     \/ /\ buffered.len = 0 /\ state = "Read" /\ calls[reading] = Waiting
        /\ outcome' = Returned("read", "pending")
        /\ NoSend /\ UNCHANGED <<pos, state, reading, buffered>>
     \/ /\ buffered.len = 0 /\ state = "Read" /\ calls[reading] = Failed
        /\ state' = "Idle" /\ reading' = 0
        /\ outcome' = Returned("read", "error")
        /\ NoSend /\ UNCHANGED <<pos, buffered>>
     \/ /\ buffered.len = 0 /\ state = "Read" /\ calls[reading] \notin {Waiting, Failed}
        /\ state' = "Idle" /\ reading' = 0
        /\ \E n \in 0 .. what[reading].len :     \* the volume may have less
             /\ pos + n <= Top
             /\ CopyBuffered([at |-> what[reading].at, len |-> n, of |-> reading], len)
        /\ NoSend

\* start_seek and the poll_complete that follows it, to any position.
Seek ==
  /\ Seekable
  /\ \E p \in Positions : pos' = p
  /\ outcome' = Returned("seek", "ok")
  /\ NoSend /\ UNCHANGED <<state, reading, pending, buffered, told>>

UserStep ==
  /\ outcome.result # "panic"
  /\ \/ \E len \in Lengths : PollWrite(len) \/ PollRead(len)
     \/ PollDone("flush", "Flush")
     \/ PollDone("shutdown", "Shutdown")
     \/ Seek
  /\ overtaken' = (/\ outcome'.op = "seek" \/ overtaken
                   /\ state' = "Read" \/ buffered'.len > 0)

RWNext == UserStep \/ PipeStep \/ CloseRequests

RWSpec == RWInit /\ [][RWNext]_fileVars

-----------------------------------------------------------------------------
(* Properties. *)

\* When a flush or a shutdown returns, every write accepted before it has been
\* carried out, or its error has been returned: none is lost in silence, even
\* if earlier polls were given up halfway.
FlushedMeansWritten ==
  outcome.op \in {"flush", "shutdown"} /\ outcome.result = "ok" =>
    \A r \in 1 .. issued : what[r].kind = "write" => calls[r] = Ok(r) \/ r \in told

\* What a read returns was read after all the writes the user has made: data
\* that was asked for or buffered before a write is not given out after it.
ReadsSeeWrites ==
  outcome.data.len > 0 =>
    \A r \in 1 .. issued : what[r].kind = "write" => r < outcome.data.of

\* Neither writes nor their errors are lost, and reads see them.
RWInv == RWTypeOK /\ FlushedMeansWritten /\ ReadsSeeWrites

\* `pos` is the "Position in the volume as seen by the user": what a read
\* returns comes from there, unless the user sought while that data was pending
\* or buffered: poll_complete moves pos and keeps both.
ReadsFromPosition ==
  [][outcome' # outcome /\ outcome'.data.len > 0 /\ ~ overtaken => outcome'.data.at = pos]_fileVars

\* The same without the exception, which does not hold.
ReadsFollowSeeks ==
  [][outcome' # outcome /\ outcome'.data.len > 0 => outcome'.data.at = pos]_fileVars

\* The error of a write "will be retrieved by next writes": the polls after a
\* failed one return errors and do not panic.  Does not hold: a reservation that
\* has failed is polled again.
PollsReturnErrors == outcome.result # "panic"
=============================================================================
