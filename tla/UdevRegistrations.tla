------------------------- MODULE UdevRegistrations -------------------------
(***************************************************************************)
(* How the providers that have to talk to a device before they can offer   *)
(* it (fastboot, mediatek-brom, eswin-eic7700-storage, hifive-p550-mcu)    *)
(* keep their registrations right (DeviceRegistrations in udev.rs): the    *)
(* event loop marks the path as pending with the number of its appearance  *)
(* and spawns a task that prepares the device; when the task is done it    *)
(* registers its items if its number is still the one that is pending.     *)
(*                                                                         *)
(* Each operation holds the lock on the registrations throughout, so each  *)
(* is one step; that the items of a batch enter the server's registries    *)
(* one after the other is left out.                                        *)
(***************************************************************************)
EXTENDS UdevEvents

CONSTANTS Parts,       \* what a device is registered as
          None         \* no appearance

ASSUME NoneAssumption == None \notin 0 .. MaxSeq

VARIABLES registrations,  \* registrations[p]: the RegistrationState of p
          tasks,       \* preparations that run, each with its PreRegistration
          items,       \* what is in the server's registries
          latest       \* latest[p]: the appearance the event loop was told of

regVars == <<registrations, tasks, items, latest>>
vars == <<plugged, seqnum, phase, existing, queue, registrations, tasks, items, latest>>

Numbers == 0 .. MaxSeq
Batch(p, s) == [path : {p}, seq : {s}, part : Parts]

\* RegistrationState, and a path that is not in the map
Absent == [state |-> "absent", seq |-> None, items |-> {}]

Pending(s) == [state |-> "pending", seq |-> s, items |-> {}]
Registered(batch) == [state |-> "registered", seq |-> None, items |-> batch]

-----------------------------------------------------------------------------
Init ==
  /\ UdevInit
  /\ registrations = [p \in Paths |-> Absent]
  /\ tasks = {}
  /\ items = {}
  /\ latest = [p \in Paths |-> None]

\* A wrong PreRegister: what was registered for the path is only replaced in
\* the map.
PreRegisterLeaks(p, s) ==
  /\ GiveAdd(p, s)
  /\ registrations' = [registrations EXCEPT ![p] = Pending(s)]
  /\ tasks' = tasks \cup {[path |-> p, seq |-> s]}
  /\ latest' = [latest EXCEPT ![p] = s]
  /\ UNCHANGED items

\* The event loop: DeviceEvent::Add, then pre_register and spawn.
PreRegister(p, s) ==
  /\ GiveAdd(p, s)
  /\ registrations' = [registrations EXCEPT ![p] = Pending(s)]
  /\ items' = items \ registrations[p].items
  /\ tasks' = tasks \cup {[path |-> p, seq |-> s]}
  /\ latest' = [latest EXCEPT ![p] = s]

\* The event loop: DeviceEvent::Add of a device that has gone and whose
\* properties can no longer be read.
Overlook(p, s) ==
  /\ GiveAdd(p, s)
  /\ p \notin plugged
  /\ UNCHANGED regVars

\* The event loop: DeviceEvent::Remove
RemoveDevice(p) ==
  /\ GiveRemove(p)
  /\ registrations' = [registrations EXCEPT ![p] = Absent]
  /\ items' = items \ registrations[p].items
  /\ latest' = [latest EXCEPT ![p] = None]
  /\ UNCHANGED tasks

\* A wrong RegisterBatch: any pending appearance of the path will do.
RegisterAnyPending(t) ==
  /\ t \in tasks
  /\ tasks' = tasks \ {t}
  /\ IF registrations[t.path].state = "pending"
     THEN /\ registrations' =
               [registrations EXCEPT ![t.path] = Registered(Batch(t.path, t.seq))]
          /\ items' = items \cup Batch(t.path, t.seq)
     ELSE UNCHANGED <<registrations, items>>
  /\ UNCHANGED <<plugged, seqnum, phase, existing, queue, latest>>

\* A wrong RegisterBatch: the number is not looked at.
RegisterAlways(t) ==
  /\ t \in tasks
  /\ tasks' = tasks \ {t}
  /\ registrations' = [registrations EXCEPT ![t.path] = Registered(Batch(t.path, t.seq))]
  /\ items' = items \cup Batch(t.path, t.seq)
  /\ UNCHANGED <<plugged, seqnum, phase, existing, queue, latest>>

\* A task has prepared its device: register_batch.
RegisterBatch(t) ==
  /\ t \in tasks
  /\ tasks' = tasks \ {t}
  /\ IF registrations[t.path] = Pending(t.seq)
     THEN /\ registrations' =
               [registrations EXCEPT ![t.path] = Registered(Batch(t.path, t.seq))]
          /\ items' = items \cup Batch(t.path, t.seq)
     ELSE UNCHANGED <<registrations, items>>
  /\ UNCHANGED <<plugged, seqnum, phase, existing, queue, latest>>

\* A task fails or gives up: its PreRegistration is dropped.
DropPreRegistration(t) ==
  /\ t \in tasks
  /\ tasks' = tasks \ {t}
  /\ registrations' =
       IF registrations[t.path] = Pending(t.seq)
       THEN [registrations EXCEPT ![t.path] = Absent] ELSE registrations
  /\ UNCHANGED <<plugged, seqnum, phase, existing, queue, items, latest>>

StreamStep == (KernelStep \/ Listen \/ Scan) /\ UNCHANGED regVars

LoopStep ==
  \E p \in Paths :
    \/ \E s \in Numbers : PreRegister(p, s) \/ Overlook(p, s)
    \/ RemoveDevice(p)

TaskStep == \E t \in tasks : RegisterBatch(t) \/ DropPreRegistration(t)

Next == StreamStep \/ LoopStep \/ TaskStep

Spec == Init /\ [][Next]_vars

\* The provider starts and its loop runs.  Nothing is asked of the tasks: a
\* preparation may hang for good.
Fairness ==
  /\ WF_vars((Listen \/ Scan) /\ UNCHANGED regVars)
  /\ WF_vars(LoopStep)

FairSpec == Spec /\ Fairness

-----------------------------------------------------------------------------
ItemsOf(p) == {i \in items : i.path = p}

TypeOK ==
  /\ UdevTypeOK
  /\ registrations \in [Paths -> [state : {"absent", "pending", "registered"},
                                  seq : Numbers \cup {None},
                                  items : SUBSET [path : Paths, seq : Numbers, part : Parts]]]
  /\ tasks \subseteq [path : Paths, seq : Numbers]
  /\ items \subseteq [path : Paths, seq : Numbers, part : Parts]
  /\ latest \in [Paths -> Numbers \cup {None}]

\* A preparation that outlives the appearance it was started for never gets to
\* register anything, and nothing that was registered is left behind.
Inventory ==
  INSTANCE DeviceInventory WITH shown <- [p \in Paths |-> ItemsOf(p)]

ImplementsInventory == Inventory!InventorySpec

\* The inductive strengthening: what the map says of a path is what the
\* registries hold for it, and is about its latest appearance.
RegistrationIsLatest(p) ==
  \/ registrations[p] = Absent /\ ItemsOf(p) = {}
  \/ registrations[p] = Pending(latest[p]) /\ latest[p] # None /\ ItemsOf(p) = {}
  \/ /\ registrations[p] = Registered(Batch(p, latest[p]))
     /\ latest[p] # None
     /\ ItemsOf(p) = Batch(p, latest[p])

RegistrationsInv == \A p \in Paths : RegistrationIsLatest(p)

\* What DeviceRegistrations has, and what the registries hold for it, is at any
\* time that of the latest appearance of each device.
LatestInv == TypeOK /\ RegistrationsInv

\* When the loop has been given everything, nothing is registered for a device
\* that is not there, wherever its appearances and removals fell around the
\* scan and whatever its preparations still do.
QuietIsTrue ==
  AllGiven => \A i \in items : i.path \in plugged

\* A device that stays away is gone from the registries in the end.
GoneInTheEnd ==
  \A p \in Paths : <>[](p \notin plugged) => <>[](ItemsOf(p) = {})
=============================================================================
