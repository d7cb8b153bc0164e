-------------------------- MODULE MCVolumeTargets --------------------------
(***************************************************************************)
(* The volumes of this server's devices, for TLC: a fastboot target with   *)
(* blocks of four bytes and all callers of a fastboot device, a DFU        *)
(* device, devices that take uploads and a rockusb storage.  They share    *)
(* nothing, so their behaviours are those of each: only one of them leaves *)
(* its initial state.                                                      *)
(***************************************************************************)
EXTENDS Fastboot, FastbootVolume, Dfu, UploadTargets, RockusbLoader, TLC

W(at, len) == [at |-> at, len |-> len]

\* Whole blocks in order, with a gap and over one another; the end of the image;
\* one that begins within a block and has to be split.
SomeWrites == {W(0, 4), W(0, 8), W(8, 3), W(7, 13)}

Observed == {0, 3, 4, 7, 8, 10}

\* The channels of rockusb and of the boot ROM.
SomeRoom == [maskrom |-> 1, brom |-> 16]

fastbootVars == <<vars, volumeVars>>
otherVars == <<dfuVars, uploadVars, loaderVars>>

FastbootInit == Init /\ VolumeInit
TasksInit == DfuInit /\ UploadInit /\ LoaderInit
TargetsInit == FastbootInit /\ TasksInit

\* Which kind of device takes uploads matters to its own part only.
TargetsNext ==
  \/ /\ TasksInit /\ kind = "brom" /\ UNCHANGED otherVars
     /\ \/ VolumeInit /\ Next /\ UNCHANGED volumeVars
        \/ Init /\ VolumeNext /\ UNCHANGED vars
  \/ /\ FastbootInit /\ UNCHANGED fastbootVars
     /\ \/ UploadInit /\ kind = "brom" /\ LoaderInit /\ DfuNext /\ UNCHANGED <<uploadVars, loaderVars>>
        \/ DfuInit /\ LoaderInit /\ UploadNext /\ UNCHANGED <<dfuVars, loaderVars>>
        \/ DfuInit /\ UploadInit /\ kind = "brom" /\ LoaderNext /\ UNCHANGED <<dfuVars, uploadVars>>

TargetsSpec ==
  /\ TargetsInit /\ [][TargetsNext]_<<fastbootVars, otherVars>>
  /\ Fairness /\ VolumeFairness /\ DfuFairness /\ UploadFairness /\ LoaderFairness

\* The devices of which users take turns.
ImplementsExclusiveUse == OneDownloadAtATime /\ OneTargetAtATime

\* Whoever waits for the task of a device gets on.
EveryoneGetsOn ==
  EveryRequestAnswered /\ CommandsReturn /\ EveryoneReturns /\ UploadsReturn /\ OpensReturn

\* What a device of one user at a time promises: they take turns, and each gets one.
UsersTakeTurns == ImplementsExclusiveUse /\ EveryoneGetsOn
=============================================================================
