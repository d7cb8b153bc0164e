-------------------------------- MODULE Dfu --------------------------------
(***************************************************************************)
(* A DFU volume (dfu.rs): one task owns the device and executes one        *)
(* command after another, from a channel of one.  A download is a command  *)
(* that lasts until its target is closed; its data comes through a channel *)
(* of one of its own.  A commit is the command to reset the device.        *)
(***************************************************************************)
EXTENDS Integers, Sequences, SequencesExt

CONSTANTS MaxOpens,     \* bound: targets opened
          MaxWrites,    \* bound: writes to each of them
          MaxCommits,   \* bound: commits
          MaxFailed     \* bound: downloads that fail

ASSUME DfuAssumption ==
  MaxOpens \in Nat /\ MaxWrites \in Nat /\ MaxCommits \in Nat /\ MaxFailed \in Nat

VARIABLES
  target,      \* the targets opened: what their users see of them
  writing,     \* writing[d]: the write that has not returned, or 0
  acked,       \* acked[d]: writes answered with Ok
  data,        \* data[d]: the channel of the download
  download,    \* download[d]: where its command is
  delivered,   \* delivered[d]: writes the device has
  control,     \* DfuDevice: the channel of commands
  current,     \* what dfu_task executes
  commits,     \* the calls of commit
  before       \* before[c]: downloads opened when commit c was called

openVars == <<target, writing, acked>>
deviceVars == <<download, delivered>>
commitVars == <<commits, before>>
dfuVars == <<openVars, data, deviceVars, control, current, commitVars>>

Nothing == [op |-> "none"]
Downloads == DOMAIN target

DfuTypeOK ==
  /\ target \in Seq({"opening", "open", "closed"}) /\ Len(target) <= MaxOpens
  /\ writing \in [Downloads -> 0 .. MaxWrites]
  /\ acked \in [Downloads -> Seq(1 .. MaxWrites)]
  /\ data \in [Downloads -> Seq(1 .. MaxWrites)] /\ \A d \in Downloads : Len(data[d]) <= 1
  /\ download \in [Downloads -> {"waiting", "running", "ended", "failed"}]
  /\ delivered \in [Downloads -> Seq(1 .. MaxWrites)]
  /\ Len(control) <= 1
  /\ current \in {Nothing} \cup [op : {"download"}, of : Downloads] \cup [op : {"reset"}, of : DOMAIN commits]
  /\ commits \in Seq({"calling", "sent", "done"}) /\ Len(commits) <= MaxCommits
  /\ before \in [DOMAIN commits -> SUBSET Downloads]

DfuInit ==
  /\ target = << >> /\ writing = << >> /\ acked = << >> /\ data = << >>
  /\ download = << >> /\ delivered = << >>
  /\ control = << >> /\ current = Nothing
  /\ commits = << >> /\ before = << >>

-----------------------------------------------------------------------------
(* Users of targets. *)

\* open() has found the target.
Open ==
  /\ Len(target) < MaxOpens
  /\ target' = Append(target, "opening")
  /\ writing' = Append(writing, 0)
  /\ acked' = Append(acked, << >>)
  /\ data' = Append(data, << >>)
  /\ download' = Append(download, "waiting")
  /\ delivered' = Append(delivered, << >>)
  /\ UNCHANGED <<control, current, commitVars>>

\* start_download
StartDownload(d) ==
  /\ target[d] = "opening" /\ control = << >>
  /\ control' = <<[op |-> "download", of |-> d]>>
  /\ target' = [target EXCEPT ![d] = "open"]
  /\ UNCHANGED <<writing, acked, data, deviceVars, current, commitVars>>

WriteTo(d) ==
  /\ target[d] = "open" /\ writing[d] = 0 /\ Len(acked[d]) < MaxWrites
  /\ writing' = [writing EXCEPT ![d] = Len(acked[d]) + 1]
  /\ UNCHANGED <<target, acked, data, deviceVars, control, current, commitVars>>

\* The data has gone into the channel, or nobody will ever take it; the answer
\* is the same.
WriteTaken(d) ==
  /\ writing[d] # 0
  /\ \/ /\ download[d] \in {"ended", "failed"}
        /\ UNCHANGED data
     \/ /\ download[d] \in {"waiting", "running"} /\ data[d] = << >>
        /\ data' = [data EXCEPT ![d] = <<writing[d]>>]
  /\ acked' = [acked EXCEPT ![d] = Append(@, writing[d])]
  /\ writing' = [writing EXCEPT ![d] = 0]
  /\ UNCHANGED <<target, deviceVars, control, current, commitVars>>

Close(d) ==
  /\ target[d] = "open" /\ writing[d] = 0
  /\ target' = [target EXCEPT ![d] = "closed"]
  /\ UNCHANGED <<writing, acked, data, deviceVars, control, current, commitVars>>

\* commit(), which waits until the reset is done
Commit ==
  /\ Len(commits) < MaxCommits
  /\ commits' = Append(commits, "calling")
  /\ before' = Append(before, {d \in Downloads : target[d] # "opening"})
  /\ UNCHANGED <<openVars, data, deviceVars, control, current>>

\* A wrong SendReset: the reset does not wait for the task to be free.
ResetAtOnce(c) ==
  /\ commits[c] = "calling"
  /\ commits' = [commits EXCEPT ![c] = "done"]
  /\ UNCHANGED <<openVars, data, deviceVars, control, current, before>>

SendReset(c) ==
  /\ commits[c] = "calling" /\ control = << >>
  /\ control' = <<[op |-> "reset", of |-> c]>>
  /\ commits' = [commits EXCEPT ![c] = "sent"]
  /\ UNCHANGED <<openVars, data, deviceVars, current, before>>

-----------------------------------------------------------------------------
(* dfu_task *)

Take ==
  /\ current = Nothing /\ control # << >>
  /\ current' = Head(control)
  /\ control' = Tail(control)
  /\ IF current'.op = "download"
     THEN download' = [download EXCEPT ![current'.of] = "running"]
     ELSE UNCHANGED download
  /\ UNCHANGED <<openVars, data, delivered, commitVars>>

Running(d) == current = [op |-> "download", of |-> d]

Deliver(d) ==
  /\ Running(d) /\ data[d] # << >>
  /\ delivered' = [delivered EXCEPT ![d] = @ \o data[d]]
  /\ data' = [data EXCEPT ![d] = << >>]
  /\ UNCHANGED <<openVars, download, control, current, commitVars>>

\* The data ends when the target is closed and the channel empty.
EndDownload(d) ==
  /\ Running(d) /\ target[d] = "closed" /\ data[d] = << >>
  /\ download' = [download EXCEPT ![d] = "ended"]
  /\ current' = Nothing
  /\ UNCHANGED <<openVars, data, delivered, control, commitVars>>

\* A failed download is a warning in the log; what is in the channel is lost.
FailDownload(d) ==
  /\ Running(d)
  /\ Len(SelectSeq(download, LAMBDA s : s = "failed")) < MaxFailed
  /\ download' = [download EXCEPT ![d] = "failed"]
  /\ data' = [data EXCEPT ![d] = << >>]
  /\ current' = Nothing
  /\ UNCHANGED <<openVars, delivered, control, commitVars>>

\* A wrong Reset: nobody is told.
ResetSilently ==
  /\ current.op = "reset"
  /\ current' = Nothing
  /\ UNCHANGED <<openVars, data, deviceVars, control, commitVars>>

Reset ==
  /\ current.op = "reset"
  /\ commits' = [commits EXCEPT ![current.of] = "done"]
  /\ current' = Nothing
  /\ UNCHANGED <<openVars, data, deviceVars, control, before>>

SendStep ==
  \/ \E d \in Downloads : StartDownload(d) \/ WriteTaken(d)
  \/ \E c \in DOMAIN commits : SendReset(c)
TaskStep == Take \/ Reset \/ \E d \in Downloads : Deliver(d) \/ EndDownload(d) \/ FailDownload(d)

DfuNext ==
  \/ Open \/ Commit \/ TaskStep \/ SendStep
  \/ \E d \in Downloads : WriteTo(d) \/ Close(d)

DfuSpec == DfuInit /\ [][DfuNext]_dfuVars

\* The task runs and the device answers; those who wait for a place in a channel are
\* woken; users do not keep targets open for ever.  Calls are limited in number, so
\* that nobody is passed over for ever.
DfuFairness ==
  /\ WF_dfuVars(TaskStep)
  /\ WF_dfuVars(SendStep)
  /\ WF_dfuVars(\E d \in Downloads : Close(d))

-----------------------------------------------------------------------------
(* Properties. *)

\* The device gets the writes in their order, and a download that has ended
\* without failing has got all that were answered.
DeliveredAreAcked ==
  \A d \in Downloads :
    /\ IsPrefix(delivered[d], Append(acked[d], writing[d]))
    /\ download[d] = "ended" => delivered[d] = acked[d]

\* A commit resets the device only when the downloads of all targets that were
\* open when it was called have ended, and all their data is on the device.
CommitWaitsForDownloads ==
  \A c \in DOMAIN commits : commits[c] = "done" =>
    \A d \in before[c] : download[d] \in {"ended", "failed"}

\* The order of downloads, their ends and resets is that of the calls.
DfuInv == DfuTypeOK /\ DeliveredAreAcked /\ CommitWaitsForDownloads

\* The turns of the downloads: waiting until the task takes their command.
DownloadTurn(d) ==
  IF d \notin Downloads THEN "away"
  ELSE IF download[d] = "waiting" THEN "waiting"
  ELSE IF download[d] = "running" THEN "using"
  ELSE "done"

DownloadUse == INSTANCE ExclusiveUse WITH
  Users <- 1 .. MaxOpens,
  turn  <- [d \in 1 .. MaxOpens |-> DownloadTurn(d)]

\* One download at a time has the device.
OneDownloadAtATime == DownloadUse!Spec

\* Everybody who waits for the task, through two channels of one and one open
\* target at a time, gets on in the end.  Commits and writes are limited in number,
\* so it is enough that again and again nobody waits.
EveryoneReturns ==
  /\ []<>(\A c \in DOMAIN commits : commits[c] = "done")
  /\ []<>(\A d \in Downloads : writing[d] = 0)

\* The answer to a write is how much was "written": when a target is closed and
\* its download over, what was answered is on the device.  Does not hold: write() does not
\* look at whether the download goes on.
WrittenIsDelivered ==
  \A d \in Downloads :
    target[d] = "closed" /\ download[d] \in {"ended", "failed"} => delivered[d] = acked[d]
=============================================================================
