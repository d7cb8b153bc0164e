--------------------------- MODULE UploadTargets ---------------------------
(***************************************************************************)
(* Targets that only keep what is written to them and send it to the       *)
(* device when they are shut down: those of a rockusb device in maskrom    *)
(* mode (rockusb.rs) and of a MediaTek boot ROM (mediatek_brom.rs).  One   *)
(* task per device carries out uploads and executions one after another.   *)
(* The two differ in the size of the buffer, in what a shutdown leaves of  *)
(* it and in what a commit does.                                           *)
(***************************************************************************)
EXTENDS Integers, Sequences, FiniteSets, SequencesExt

CONSTANTS Hints,             \* the lengths that clients announce
          NoHint,            \* one that announces none
          DefaultCapacity,   \* 1024 * 1024
          MostCapacity,      \* 8 * 1024 * 1024
          Room,              \* Room[kind]: capacity of the channel to the task
          Lengths,           \* the lengths of writes
          MaxTargets,        \* bound: targets opened
          MaxUploads,        \* bound: shutdowns
          MaxExecutes,       \* bound: commits
          MaxFaults          \* bound: commands that the device fails

Kinds == {"maskrom", "brom"}

ASSUME UploadAssumption ==
  /\ Hints \subseteq Nat /\ NoHint \notin Nat
  /\ MostCapacity \in Nat /\ DefaultCapacity \in 0 .. MostCapacity
  /\ Room \in [Kinds -> Nat \ {0}]
  /\ Lengths \subseteq Nat \ {0}
  /\ {MaxTargets, MaxUploads, MaxExecutes, MaxFaults} \subseteq Nat

VARIABLES
  kind,       \* what the device is
  buffer,     \* buffer[t]: what target t has of its image, and how much it may have
  serving,    \* serving[t]: the upload its shutdown waits for, Idle, or Dropped
  accepted,   \* history: accepted[t]: bytes answered with Ok since the last shutdown
  uploads,    \* the shutdowns: [image, accepted, result]
  executes,   \* the commits: [result, ran, after]
  queue,      \* the channel to the task
  inTask,     \* the command it executes, or none
  received,   \* the uploads the device has got, in order; Damaged for a part of one
  faults      \* commands that failed so far

targetsVars == <<buffer, serving, accepted>>
callVars == <<uploads, executes>>
taskVars == <<queue, inTask>>
uploadVars == <<kind, targetsVars, callVars, taskVars, received, faults>>

Damaged == 0
Idle == 0
Dropped == -1
NoCommand == [op |-> "none"]
Targets == DOMAIN buffer
Commands == [op : {"upload"}, id : DOMAIN uploads] \cup [op : {"execute"}, id : DOMAIN executes]
Results == {"waiting", "queued", "ok", "failed"}

UploadTypeOK ==
  /\ kind \in Kinds
  /\ Len(buffer) <= MaxTargets
  /\ \A t \in Targets :
       /\ buffer[t].data \in Seq(Nat) /\ buffer[t].capacity \in 0 .. MostCapacity
       /\ Len(buffer[t].data) <= buffer[t].capacity
  /\ serving \in [Targets -> {Idle, Dropped} \cup DOMAIN uploads]
  /\ accepted \in [Targets -> Nat]
  /\ \A u \in DOMAIN uploads : uploads[u].result \in Results
  /\ \A c \in DOMAIN executes : executes[c].result \in Results /\ executes[c].ran \in {Damaged} \cup DOMAIN uploads
  /\ queue \in Seq(Commands) /\ Len(queue) <= Room[kind]
  /\ inTask \in Commands \cup {NoCommand}
  /\ received \in Seq({Damaged} \cup DOMAIN uploads) /\ faults \in 0 .. MaxFaults

UploadInit ==
  /\ kind \in Kinds
  /\ buffer = << >> /\ serving = << >> /\ accepted = << >>
  /\ uploads = << >> /\ executes = << >>
  /\ queue = << >> /\ inTask = NoCommand
  /\ received = << >> /\ faults = 0

-----------------------------------------------------------------------------
(* Targets and commits. *)

Smaller(m, n) == IF m < n THEN m ELSE n

\* The capacity of a new buffer, and of the buffer after a shutdown has taken
\* what is in it: split() leaves the rest of the capacity, and a maskrom target
\* then makes an empty buffer of it.
Granted(hint) ==
  IF kind = "maskrom" \/ hint = NoHint THEN DefaultCapacity ELSE Smaller(hint, MostCapacity)
Left(b) == IF kind = "maskrom" THEN 0 ELSE b.capacity - Len(b.data)

OpenTarget ==
  \E hint \in Hints \cup {NoHint} :
    /\ Len(buffer) < MaxTargets
    /\ buffer' = Append(buffer, [data |-> << >>, capacity |-> Granted(hint)])
    /\ serving' = Append(serving, Idle)
    /\ accepted' = Append(accepted, 0)
    /\ UNCHANGED <<kind, callVars, taskVars, received, faults>>

\* A byte of an image is the position it was written to.
Bytes(at, len) == [i \in 1 .. len |-> at + i - 1]

\* A wrong Fits: wherever it is written to.
FitsAnywhere(b, at, len) == Len(b.data) + len <= b.capacity

Fits(b, at, len) == at = Len(b.data) /\ Len(b.data) + len <= b.capacity

\* A write that does not fit is refused and changes nothing.
WriteBytes(t) ==
  \E at \in 0 .. MostCapacity, len \in Lengths :
    /\ serving[t] = Idle
    /\ Fits(buffer[t], at, len)
    /\ buffer' = [buffer EXCEPT ![t].data = @ \o Bytes(at, len)]
    /\ accepted' = [accepted EXCEPT ![t] = @ + len]
    /\ UNCHANGED <<kind, serving, callVars, taskVars, received, faults>>

\* A wrong Shutdown: the buffer keeps what it has.
ShutdownKeepsData(t) ==
  /\ serving[t] = Idle /\ Len(uploads) < MaxUploads
  /\ uploads' = Append(uploads, [image |-> buffer[t].data, accepted |-> accepted[t], result |-> "waiting"])
  /\ serving' = [serving EXCEPT ![t] = Len(uploads) + 1]
  /\ accepted' = [accepted EXCEPT ![t] = 0]
  /\ UNCHANGED <<kind, buffer, executes, taskVars, received, faults>>

Shutdown(t) ==
  /\ serving[t] = Idle /\ Len(uploads) < MaxUploads
  /\ uploads' = Append(uploads, [image |-> buffer[t].data, accepted |-> accepted[t], result |-> "waiting"])
  /\ buffer' = [buffer EXCEPT ![t] = [data |-> << >>, capacity |-> Left(@)]]
  /\ serving' = [serving EXCEPT ![t] = Len(uploads) + 1]
  /\ accepted' = [accepted EXCEPT ![t] = 0]
  /\ UNCHANGED <<kind, executes, taskVars, received, faults>>

\* The connection ends: what was not sent is gone.
Drop(t) ==
  /\ serving[t] = Idle
  /\ serving' = [serving EXCEPT ![t] = Dropped]
  /\ buffer' = [buffer EXCEPT ![t] = [data |-> << >>, capacity |-> 0]]
  /\ UNCHANGED <<kind, accepted, callVars, taskVars, received, faults>>

AnsweredUploads == {u \in DOMAIN uploads : uploads[u].result = "ok"}

\* The commit of a boot ROM; that of a maskrom device does nothing.
Execute ==
  /\ kind = "brom" /\ Len(executes) < MaxExecutes
  /\ executes' = Append(executes, [result |-> "waiting", ran |-> Damaged, after |-> AnsweredUploads])
  /\ UNCHANGED <<kind, targetsVars, uploads, taskVars, received, faults>>

\* The channel to the task; with one place, who has waited longest for it gets it.
Enqueue(command) ==
  /\ Len(queue) < Room[kind]
  /\ queue' = Append(queue, command)

\* A wrong SendUpload: it does not wait for the device's answer.
SendUploadAndReturn(u) ==
  /\ uploads[u].result = "waiting"
  /\ Enqueue([op |-> "upload", id |-> u])
  /\ uploads' = [uploads EXCEPT ![u].result = "ok"]
  /\ UNCHANGED <<kind, targetsVars, executes, inTask, received, faults>>

SendUpload(u) ==
  /\ uploads[u].result = "waiting"
  /\ kind = "maskrom" => \A v \in 1 .. u - 1 : uploads[v].result # "waiting"
  /\ Enqueue([op |-> "upload", id |-> u])
  /\ uploads' = [uploads EXCEPT ![u].result = "queued"]
  /\ UNCHANGED <<kind, targetsVars, executes, inTask, received, faults>>

SendExecute(c) ==
  /\ executes[c].result = "waiting"
  /\ Enqueue([op |-> "execute", id |-> c])
  /\ executes' = [executes EXCEPT ![c].result = "queued"]
  /\ UNCHANGED <<kind, targetsVars, uploads, inTask, received, faults>>

-----------------------------------------------------------------------------
(* process() and rockusb_task(): one command after another. *)

TakeCommand ==
  /\ inTask = NoCommand /\ queue # << >>
  /\ inTask' = Head(queue)
  /\ queue' = Tail(queue)
  /\ UNCHANGED <<kind, targetsVars, callVars, received, faults>>

\* The answer to a shutdown lets its target go on.
Upload ==
  /\ inTask.op = "upload"
  /\ \/ /\ uploads' = [uploads EXCEPT ![inTask.id].result = "ok"]
        /\ received' = Append(received, inTask.id)
        /\ UNCHANGED faults
     \/ /\ faults < MaxFaults /\ faults' = faults + 1
        /\ uploads' = [uploads EXCEPT ![inTask.id].result = "failed"]
        /\ received' \in {received, Append(received, Damaged)}
  /\ serving' = [t \in Targets |-> IF serving[t] = inTask.id THEN Idle ELSE serving[t]]
  /\ inTask' = NoCommand
  /\ UNCHANGED <<kind, buffer, accepted, executes, queue>>

\* jump_da64: what is in the memory of the device is run, if anything is there.
Run ==
  /\ inTask.op = "execute"
  /\ \/ /\ received # << >>
        /\ executes' = [executes EXCEPT ![inTask.id].result = "ok", ![inTask.id].ran = Last(received)]
        /\ UNCHANGED faults
     \/ /\ \/ received = << >> /\ UNCHANGED faults
           \/ faults < MaxFaults /\ faults' = faults + 1
        /\ executes' = [executes EXCEPT ![inTask.id].result = "failed"]
  /\ inTask' = NoCommand
  /\ UNCHANGED <<kind, targetsVars, uploads, queue, received>>

SendUploadStep ==
  \/ \E u \in DOMAIN uploads : SendUpload(u)
  \/ \E c \in DOMAIN executes : SendExecute(c)

UploadStep == TakeCommand \/ Upload \/ Run

UploadNext ==
  \/ OpenTarget \/ Execute \/ SendUploadStep \/ UploadStep
  \/ \E t \in Targets : WriteBytes(t) \/ Shutdown(t) \/ Drop(t)

UploadSpec == UploadInit /\ [][UploadNext]_uploadVars

\* The task runs and the device answers; those who wait for a place are woken.
UploadFairness == WF_uploadVars(UploadStep) /\ WF_uploadVars(SendUploadStep)

-----------------------------------------------------------------------------
(* Properties. *)

\* What a shutdown sends is one image: every byte at the position at which it was
\* written, all that were accepted since the shutdown before, and no other.
ImagesAreWhole ==
  \A u \in DOMAIN uploads : uploads[u].image = Bytes(0, uploads[u].accepted)

\* A shutdown answered with Ok has brought its image to the device, once, and one
\* that was not asked for, or not carried out, has not.
OkIsReceived ==
  \A u \in DOMAIN uploads :
    Cardinality({i \in DOMAIN received : received[i] = u}) = IF uploads[u].result = "ok" THEN 1 ELSE 0

\* What a commit executes is no older than any image whose shutdown was answered
\* before the commit was called.
ExecutesNoOlder ==
  \A c \in DOMAIN executes : executes[c].result = "ok" =>
    \A u \in executes[c].after :
      \E i, j \in DOMAIN received : i <= j /\ received[i] = u /\ received[j] = executes[c].ran

\* Uploads are whole, arrive when they are said to, and are what is executed.
UploadInv == UploadTypeOK /\ ImagesAreWhole /\ OkIsReceived /\ ExecutesNoOlder

\* Whoever shuts a target down or commits gets an answer.  Their number is limited,
\* so it is enough that again and again nobody waits.
UploadsReturn ==
  []<>(/\ \A u \in DOMAIN uploads : uploads[u].result \in {"ok", "failed"}
       /\ \A c \in DOMAIN executes : executes[c].result \in {"ok", "failed"})

\* "Expect 1MB as the maximum size": a buffer with nothing in it takes an image of
\* that size.  Does not hold after a shutdown, which leaves a maskrom target no
\* capacity, and a boot ROM's what the image before did not need.
EmptyTakesAnImage ==
  \A t \in Targets : serving[t] # Dropped /\ buffer[t].data = << >> => buffer[t].capacity > 0

\* A commit executes what the client has last uploaded.  Does not hold when
\* another client uploads in between, or its upload breaks off.
ExecutesOwn ==
  \A c \in DOMAIN executes : executes[c].result = "ok" =>
    \/ executes[c].after = {}
    \/ executes[c].ran \in executes[c].after
=============================================================================
