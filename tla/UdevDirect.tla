----------------------------- MODULE UdevDirect -----------------------------
(***************************************************************************)
(* The providers that register a device from their event loop and keep     *)
(* its id in a map of their own (serial, dfu, rockusb): the loop waits     *)
(* while a device is set up, then registers it and inserts its id; a       *)
(* removal unregisters the id that is in the map.                          *)
(***************************************************************************)
EXTENDS UdevEvents

CONSTANT NoId         \* no id in the map

VARIABLES ids,         \* ids[p]: the id in the provider's map
          busy,        \* the appearance whose set-up the loop awaits
          offered,     \* what is in the server's registry
          displaced    \* items whose id an insertion has replaced in the map

directVars == <<ids, busy, offered, displaced>>

Appearances == [path : Paths, seq : 0 .. MaxSeq]

ASSUME DirectAssumption == NoId \notin Appearances

Item(p, s) == [path |-> p, seq |-> s]
Free == busy = NoId

-----------------------------------------------------------------------------
DirectInit ==
  /\ UdevInit
  /\ ids = [p \in Paths |-> NoId]
  /\ busy = NoId
  /\ offered = {}
  /\ displaced = {}

\* DeviceEvent::Add, up to the set-up of the device
Add(p, s) ==
  /\ Free
  /\ GiveAdd(p, s)
  /\ busy' = Item(p, s)
  /\ UNCHANGED <<ids, offered, displaced>>

\* register_*, and registrations.insert: the id that it replaces is dropped.
Register ==
  /\ ~ Free
  /\ busy' = NoId
  /\ offered' = offered \cup {busy}
  /\ ids' = [ids EXCEPT ![busy.path] = busy]
  /\ displaced' = displaced \cup ({ids[busy.path]} \ {NoId})
  /\ UNCHANGED udevVars

\* The properties cannot be read, or the set-up fails: the event is skipped.
Skip ==
  /\ ~ Free
  /\ busy' = NoId
  /\ UNCHANGED <<ids, offered, displaced>>
  /\ UNCHANGED udevVars

\* A wrong Withdraw: the id is taken from the map and not unregistered.
RemoveFromMapOnly(p) ==
  /\ Free
  /\ GiveRemove(p)
  /\ ids' = [ids EXCEPT ![p] = NoId]
  /\ UNCHANGED <<busy, offered, displaced>>

\* DeviceEvent::Remove
Withdraw(p) ==
  /\ Free
  /\ GiveRemove(p)
  /\ ids' = [ids EXCEPT ![p] = NoId]
  /\ offered' = offered \ {ids[p]}
  /\ UNCHANGED <<busy, displaced>>

DirectStreamStep == (KernelStep \/ Listen \/ Scan) /\ UNCHANGED directVars

DirectLoopStep ==
  \/ \E p \in Paths, s \in 0 .. MaxSeq : Add(p, s)
  \/ Register
  \/ Skip
  \/ \E p \in Paths : Withdraw(p)

DirectNext == DirectStreamStep \/ DirectLoopStep

DirectSpec == DirectInit /\ [][DirectNext]_<<udevVars, directVars>>

-----------------------------------------------------------------------------
DirectTypeOK ==
  /\ UdevTypeOK
  /\ ids \in [Paths -> Appearances \cup {NoId}]
  /\ busy \in Appearances \cup {NoId}
  /\ offered \subseteq Appearances
  /\ displaced \subseteq Appearances

\* Whatever a provider has been given, an item of a device that is not there
\* is left only if a second appearance of the device displaced it.
LeftoversWereDisplaced ==
  AllGiven /\ Free => \A i \in offered : i.path \in plugged \/ i \in displaced

\* A provider that registers from its loop keeps the ids of all that it offers,
\* but for what it displaced itself.
DirectInv == DirectTypeOK /\ LeftoversWereDisplaced

\* A provider that has been given everything offers only what is there: "the
\* serial provider creates consoles from local serial ports".  Does not hold: the
\* id of an item that was displaced is lost, and the item stays.
OffersWhatIsThere ==
  AllGiven /\ Free => \A i \in offered : i.path \in plugged
=============================================================================
