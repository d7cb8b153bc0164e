----------------------------- MODULE UdevEvents -----------------------------
(***************************************************************************)
(* What a provider learns from udev about the machine's ports and USB      *)
(* devices (DeviceStream in udev.rs): it starts to listen to the kernel's  *)
(* events, then scans the devices that are there, and is given the scanned *)
(* ones first.  A device that appears in between is given twice.           *)
(*                                                                         *)
(* A device is known by its path, which it has again when it is plugged in *)
(* again; each appearance has a sequence number, and the scan numbers what *)
(* it finds from 0.  Numbers are only compared for the same path, so the   *)
(* scanned ones are all 0 here, and those of the kernel start at 1.        *)
(***************************************************************************)
EXTENDS Naturals, Sequences

CONSTANTS Paths,       \* syspaths a provider is interested in
          MaxSeq       \* bound: events sent by the kernel

ASSUME UdevAssumption == MaxSeq \in Nat

VARIABLES plugged,     \* the paths at which there is a device
          seqnum,      \* the number of the kernel's last event
          phase,       \* of the stream: "off", "listening", "ready"
          existing,    \* DeviceStream.existing
          queue        \* the events in the monitor's socket

udevVars == <<plugged, seqnum, phase, existing, queue>>

Event(op, p, s) == [op |-> op, path |-> p, seq |-> s]
Events == [op : {"add", "remove"}, path : Paths, seq : 1 .. MaxSeq]

-----------------------------------------------------------------------------
UdevInit ==
  /\ plugged \in SUBSET Paths
  /\ seqnum = 0
  /\ phase = "off"
  /\ existing = {}
  /\ queue = <<>>

\* The kernel sends an event, which the stream gets if it listens.
Uevent(op, p) ==
  /\ seqnum < MaxSeq
  /\ seqnum' = seqnum + 1
  /\ queue' = IF phase = "off" THEN queue ELSE Append(queue, Event(op, p, seqnum + 1))
  /\ UNCHANGED <<phase, existing>>

Plug(p) == p \notin plugged /\ plugged' = plugged \cup {p} /\ Uevent("add", p)
Unplug(p) == p \in plugged /\ plugged' = plugged \ {p} /\ Uevent("remove", p)

\* udevadm trigger --action=add, as at boot: the event of a device that is
\* there already
Trigger(p) == p \in plugged /\ UNCHANGED plugged /\ Uevent("add", p)

KernelStep == \E p \in Paths : Plug(p) \/ Unplug(p) \/ Trigger(p)

\* DeviceStream::new: MonitorBuilder::listen()...
Listen ==
  /\ phase = "off"
  /\ phase' = "listening"
  /\ UNCHANGED <<plugged, seqnum, existing, queue>>

\* ... and then Enumerator::scan_devices().
Scan ==
  /\ phase = "listening"
  /\ phase' = "ready"
  /\ existing' = plugged
  /\ UNCHANGED <<plugged, seqnum, queue>>

\* DeviceStream::poll_next: the stream gives the next scanned device, in an
\* order that is left open, or else the next event.
GiveAdd(p, s) ==
  /\ phase = "ready"
  /\ \/ p \in existing /\ s = 0 /\ existing' = existing \ {p} /\ UNCHANGED queue
     \/ /\ existing = {}
        /\ queue # <<>>
        /\ Head(queue) = Event("add", p, s)
        /\ queue' = Tail(queue)
        /\ UNCHANGED existing
  /\ UNCHANGED <<plugged, seqnum, phase>>

GiveRemove(p) ==
  /\ phase = "ready"
  /\ existing = {}
  /\ queue # <<>>
  /\ Head(queue).op = "remove" /\ Head(queue).path = p
  /\ queue' = Tail(queue)
  /\ UNCHANGED <<plugged, seqnum, phase, existing>>

-----------------------------------------------------------------------------
UdevTypeOK ==
  /\ plugged \subseteq Paths
  /\ seqnum \in 0 .. MaxSeq
  /\ phase \in {"off", "listening", "ready"}
  /\ existing \subseteq Paths
  /\ queue \in Seq(Events)

\* The provider has been given everything.
AllGiven == phase = "ready" /\ existing = {} /\ queue = <<>>
=============================================================================
