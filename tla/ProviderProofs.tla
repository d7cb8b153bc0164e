-------------------------- MODULE ProviderProofs --------------------------
(***************************************************************************)
(* Proofs about the providers of a server, for any paths, parts, chips and *)
(* number of events: what they register goes by what udev tells them,      *)
(* DeviceRegistrations implements the inventory of DeviceInventory, and    *)
(* serial ports and the controller of a P550 keep what they promise.       *)
(***************************************************************************)
EXTENDS UdevProviders, HifiveMcu, SerialPort, FiniteSetTheorems, TLAPS

\* What the steps below need to know of the types.
RegTypes ==
  /\ registrations \in [Paths -> [state : {"absent", "pending", "registered"},
                                  seq : Numbers \cup {None},
                                  items : SUBSET [path : Paths, seq : Numbers, part : Parts]]]
  /\ tasks \subseteq [path : Paths, seq : Numbers]
  /\ items \subseteq [path : Paths, seq : Numbers, part : Parts]
  /\ latest \in [Paths -> Numbers \cup {None}]

RegIInv == RegTypes /\ RegistrationsInv

\* The map knows exactly the registered items of a path.
LEMMA MapKnowsItems ==
  ASSUME RegistrationsInv, NEW p \in Paths
  PROVE  registrations[p].items = ItemsOf(p)
  <1>1. RegistrationIsLatest(p)
    BY DEF RegistrationsInv
  <1>2. Absent.items = {} /\ Pending(latest[p]).items = {}
        /\ Registered(Batch(p, latest[p])).items = Batch(p, latest[p])
    BY DEF Absent, Pending, Registered
  <1>3. QED
    BY <1>1, <1>2, Zenon DEF RegistrationIsLatest

\* A path that is pending is so for its latest appearance, and has no items.
LEMMA PendingIsLatest ==
  ASSUME RegistrationsInv, NEW p \in Paths, NEW s, registrations[p] = Pending(s)
  PROVE  latest[p] = s /\ latest[p] # None /\ ItemsOf(p) = {}
  <1>1. RegistrationIsLatest(p)
    BY DEF RegistrationsInv
  <1>2. registrations[p] # Absent
    BY DEF Absent, Pending
  <1>3. registrations[p] # Registered(Batch(p, latest[p]))
    BY DEF Registered, Pending
  <1>4. ASSUME NEW u, Pending(s) = Pending(u) PROVE u = s
    BY <1>4 DEF Pending
  <1>5. QED
    BY <1>1, <1>2, <1>3, <1>4, Zenon DEF RegistrationIsLatest

\* Unregistering what the map knows of a path leaves nothing of that path and
\* everything of the others.
LEMMA UnregisterEffect ==
  ASSUME RegistrationsInv, NEW p \in Paths, items' = items \ registrations[p].items
  PROVE  \A q \in Paths : ItemsOf(q)' = IF q = p THEN {} ELSE ItemsOf(q)
  <1>1. registrations[p].items = ItemsOf(p)
    BY MapKnowsItems
  <1>2. QED
    BY <1>1 DEF ItemsOf

\* Registering a batch for a path of which nothing is registered.
LEMMA RegisterEffect ==
  ASSUME NEW p \in Paths, NEW s, ItemsOf(p) = {}, items' = items \cup Batch(p, s)
  PROVE  \A q \in Paths : ItemsOf(q)' = IF q = p THEN Batch(p, s) ELSE ItemsOf(q)
  BY DEF ItemsOf, Batch

\* Nothing is registered before the provider starts.
LEMMA RegInitInv == Init => RegIInv
  BY DEF Init, RegIInv, RegTypes, RegistrationsInv, RegistrationIsLatest, Absent, ItemsOf, Numbers

\* pre_register keeps the invariant and is an announcement.
LEMMA PreRegisterStep ==
  ASSUME RegIInv, NEW p \in Paths, NEW s \in Numbers, PreRegister(p, s)
  PROVE  RegIInv' /\ Inventory!Announce(p, s)
  <1>1. \A q \in Paths : ItemsOf(q)' = IF q = p THEN {} ELSE ItemsOf(q)
    BY UnregisterEffect DEF PreRegister, RegIInv
  <1>2. RegTypes'
    BY DEF RegIInv, RegTypes, PreRegister, Pending
  <1>3. RegistrationsInv'
    <2> SUFFICES ASSUME NEW q \in Paths PROVE RegistrationIsLatest(q)'
      BY DEF RegistrationsInv
    <2>1. CASE q = p
      BY <2>1, <1>1, NoneAssumption
      DEF RegistrationIsLatest, PreRegister, Pending, RegIInv, RegTypes, Numbers
    <2>2. CASE q # p
      BY <2>2, <1>1
      DEF RegistrationIsLatest, PreRegister, RegIInv, RegTypes, RegistrationsInv,
          Absent, Pending, Registered, Batch
    <2>3. QED
      BY <2>1, <2>2
  <1>4. Inventory!Announce(p, s)
    BY <1>1 DEF Inventory!Announce, PreRegister, RegIInv, RegTypes
  <1>5. QED
    BY <1>2, <1>3, <1>4 DEF RegIInv

\* remove keeps the invariant and is a withdrawal.
LEMMA RemoveStep ==
  ASSUME RegIInv, NEW p \in Paths, RemoveDevice(p)
  PROVE  RegIInv' /\ Inventory!Withdraw(p)
  <1>1. \A q \in Paths : ItemsOf(q)' = IF q = p THEN {} ELSE ItemsOf(q)
    BY UnregisterEffect DEF RemoveDevice, RegIInv
  <1>2. RegTypes'
    BY DEF RegIInv, RegTypes, RemoveDevice, Absent
  <1>3. RegistrationsInv'
    <2> SUFFICES ASSUME NEW q \in Paths PROVE RegistrationIsLatest(q)'
      BY DEF RegistrationsInv
    <2>1. CASE q = p
      BY <2>1, <1>1 DEF RegistrationIsLatest, RemoveDevice, RegIInv, RegTypes
    <2>2. CASE q # p
      BY <2>2, <1>1
      DEF RegistrationIsLatest, RemoveDevice, RegIInv, RegTypes, RegistrationsInv,
          Absent, Pending, Registered, Batch
    <2>3. QED
      BY <2>1, <2>2
  <1>4. Inventory!Withdraw(p)
    BY <1>1 DEF Inventory!Withdraw, RemoveDevice, RegIInv, RegTypes
  <1>5. QED
    BY <1>2, <1>3, <1>4 DEF RegIInv

\* register_batch of the pending appearance publishes the path; any other
\* changes nothing that can be seen.
LEMMA RegisterStep ==
  ASSUME RegIInv, NEW t \in tasks, RegisterBatch(t)
  PROVE  /\ RegIInv'
         /\ Inventory!Publish(t.path) \/ UNCHANGED <<latest, items>>
  <1>1. t.path \in Paths /\ t.seq \in Numbers
    BY DEF RegIInv, RegTypes
  <1>2. CASE registrations[t.path] = Pending(t.seq)
    <2>1. latest[t.path] = t.seq /\ latest[t.path] # None /\ ItemsOf(t.path) = {}
      BY <1>1, <1>2, PendingIsLatest DEF RegIInv
    <2>2. \A q \in Paths : ItemsOf(q)' = IF q = t.path THEN Batch(q, t.seq) ELSE ItemsOf(q)
      BY <1>1, <1>2, <2>1, RegisterEffect DEF RegisterBatch
    <2>3. RegTypes'
      <3>1. Batch(t.path, t.seq) \subseteq [path : Paths, seq : Numbers, part : Parts]
        BY <1>1 DEF Batch
      <3>2. Registered(Batch(t.path, t.seq)) \in
              [state : {"absent", "pending", "registered"}, seq : Numbers \cup {None},
               items : SUBSET [path : Paths, seq : Numbers, part : Parts]]
        BY <3>1 DEF Registered
      <3>3. QED
        BY <1>1, <1>2, <3>1, <3>2 DEF RegIInv, RegTypes, RegisterBatch
    <2>4. RegistrationsInv'
      <3> SUFFICES ASSUME NEW q \in Paths PROVE RegistrationIsLatest(q)'
        BY DEF RegistrationsInv
      <3>1. CASE q = t.path
        BY <3>1, <1>1, <1>2, <2>1, <2>2
        DEF RegistrationIsLatest, RegisterBatch, RegIInv, RegTypes, Registered, Batch
      <3>2. CASE q # t.path
        BY <3>2, <1>1, <1>2, <2>2
        DEF RegistrationIsLatest, RegisterBatch, RegIInv, RegTypes, RegistrationsInv,
            Absent, Pending, Registered, Batch
      <3>3. QED
        BY <3>1, <3>2
    <2>5. Inventory!Publish(t.path)
      BY <1>1, <1>2, <2>1, <2>2
      DEF Inventory!Publish, Inventory!Batch, Batch, RegisterBatch, RegIInv, RegTypes
    <2>6. QED
      BY <2>3, <2>4, <2>5 DEF RegIInv
  <1>3. CASE registrations[t.path] # Pending(t.seq)
    BY <1>3
    DEF RegisterBatch, RegIInv, RegTypes, RegistrationsInv, RegistrationIsLatest, ItemsOf
  <1>4. QED
    BY <1>2, <1>3

\* The drop of a PreRegistration changes nothing that can be seen.
LEMMA DropStep ==
  ASSUME RegIInv, NEW t \in tasks, DropPreRegistration(t)
  PROVE  RegIInv' /\ UNCHANGED <<latest, items>>
  <1>1. t.path \in Paths /\ t.seq \in Numbers
    BY DEF RegIInv, RegTypes
  <1>2. \A q \in Paths : ItemsOf(q)' = ItemsOf(q)
    BY DEF ItemsOf, DropPreRegistration
  <1>3. RegTypes'
    BY <1>1 DEF RegIInv, RegTypes, DropPreRegistration, Absent
  <1>4. RegistrationsInv'
    <2> SUFFICES ASSUME NEW q \in Paths PROVE RegistrationIsLatest(q)'
      BY DEF RegistrationsInv
    <2>1. CASE registrations[q]' = registrations[q]
      BY <2>1, <1>2
      DEF RegistrationIsLatest, DropPreRegistration, RegIInv, RegistrationsInv,
          Absent, Pending, Registered, Batch
    <2>2. CASE registrations[q]' # registrations[q]
      <3>1. q = t.path /\ registrations[q] = Pending(t.seq) /\ registrations'[q] = Absent
        BY <2>2, <1>1 DEF DropPreRegistration, RegIInv, RegTypes
      <3>2. ItemsOf(q) = {}
        BY <3>1, PendingIsLatest DEF RegIInv
      <3>3. QED
        BY <3>1, <3>2, <1>2 DEF RegistrationIsLatest
    <2>3. QED
      BY <2>1, <2>2
  <1>5. QED
    BY <1>3, <1>4 DEF RegIInv, DropPreRegistration

\* Every step keeps the invariant and is a step of the inventory, or a stutter.
LEMMA StepImplements ==
  RegIInv /\ [Next]_vars =>
    RegIInv' /\ [Inventory!InventoryNext]_<<latest, [p \in Paths |-> ItemsOf(p)]>>
  <1> SUFFICES ASSUME RegIInv, [Next]_vars
               PROVE  RegIInv' /\ [Inventory!InventoryNext]_<<latest, [p \in Paths |-> ItemsOf(p)]>>
    OBVIOUS
  <1>1. ASSUME UNCHANGED <<registrations, tasks, items, latest>>
        PROVE  RegIInv' /\ UNCHANGED <<latest, items>>
    BY <1>1 DEF RegIInv, RegTypes, RegistrationsInv, RegistrationIsLatest, ItemsOf
  <1>2. ASSUME UNCHANGED <<latest, items>>
        PROVE  UNCHANGED <<latest, [p \in Paths |-> ItemsOf(p)]>>
    BY <1>2 DEF ItemsOf
  <1>3. ASSUME NEW p \in Paths, NEW s \in Numbers, PreRegister(p, s)
        PROVE  RegIInv' /\ Inventory!InventoryNext
    BY <1>3, PreRegisterStep DEF Inventory!InventoryNext
  <1>4. ASSUME NEW p \in Paths, RemoveDevice(p)
        PROVE  RegIInv' /\ Inventory!InventoryNext
    BY <1>4, RemoveStep DEF Inventory!InventoryNext
  <1>5. ASSUME NEW t \in tasks, RegisterBatch(t)
        PROVE  RegIInv' /\ (Inventory!InventoryNext \/ UNCHANGED <<latest, items>>)
    <2>1. t.path \in Paths
      BY DEF RegIInv, RegTypes
    <2>2. QED
      BY <1>5, <2>1, RegisterStep DEF Inventory!InventoryNext
  <1>6. ASSUME NEW t \in tasks, DropPreRegistration(t)
        PROVE  RegIInv' /\ UNCHANGED <<latest, items>>
    BY <1>6, DropStep
  <1>7. CASE StreamStep
    BY <1>7, <1>1, <1>2 DEF StreamStep, regVars
  <1>8. CASE LoopStep
    <2>1. ASSUME NEW p \in Paths, NEW s \in Numbers, Overlook(p, s)
          PROVE  RegIInv' /\ UNCHANGED <<latest, [q \in Paths |-> ItemsOf(q)]>>
      BY <2>1, <1>1, <1>2 DEF Overlook, regVars
    <2>2. QED
      BY <1>8, <1>3, <1>4, <2>1 DEF LoopStep
  <1>9. CASE TaskStep
    BY <1>9, <1>2, <1>5, <1>6 DEF TaskStep
  <1>10. CASE UNCHANGED vars
    BY <1>10, <1>1, <1>2 DEF vars
  <1>11. QED
    BY <1>7, <1>8, <1>9, <1>10 DEF Next

\* The stream gives what the scan found and what the kernel sent, in range.
LEMMA UdevTypesStep ==
  ASSUME UdevTypeOK, RegIInv, [Next]_vars
  PROVE  UdevTypeOK'
  <1> USE UdevAssumption DEF UdevTypeOK
  <1>1. CASE KernelStep
    <2>1. PICK p \in Paths, op \in {"add", "remove"} :
            /\ Uevent(op, p)
            /\ plugged' \in {plugged \cup {p}, plugged \ {p}, plugged}
      BY <1>1 DEF KernelStep, Plug, Unplug, Trigger
    <2>2. seqnum' \in 1 .. MaxSeq
      BY <2>1 DEF Uevent
    <2>3. Event(op, p, seqnum + 1) \in Events
      BY <2>1, <2>2 DEF Uevent, Event, Events
    <2>4. queue' \in Seq(Events)
      BY <2>1, <2>3 DEF Uevent
    <2>5. QED
      BY <2>1, <2>2, <2>4 DEF Uevent
  <1>2. CASE Listen \/ Scan
    BY <1>2 DEF Listen, Scan
  <1>3. CASE LoopStep
    <2>1. PICK p \in Paths : (\E s \in Numbers : GiveAdd(p, s)) \/ GiveRemove(p)
      BY <1>3 DEF LoopStep, PreRegister, Overlook, RemoveDevice
    <2>2. queue # <<>> => Tail(queue) \in Seq(Events)
      OBVIOUS
    <2>3. QED
      BY <2>1, <2>2 DEF GiveAdd, GiveRemove
  <1>4. CASE UNCHANGED <<plugged, seqnum, phase, existing, queue>>
    BY <1>4
  <1>5. QED
    BY <1>1, <1>2, <1>3, <1>4
    DEF Next, StreamStep, TaskStep, RegisterBatch, DropPreRegistration, vars

\* What the registrations say of a path, and what the registries hold for it, is
\* what became of its latest appearance, however many preparations of earlier
\* ones still run (RegistrationState, and the checks of DeviceRegistrations).
THEOREM RegistrationsAreLatest == Spec => []LatestInv
  <1>1. Init => UdevTypeOK /\ RegIInv
    BY RegInitInv, UdevAssumption DEF Init, UdevInit, UdevTypeOK
  <1>2. UdevTypeOK /\ RegIInv /\ [Next]_vars => UdevTypeOK' /\ RegIInv'
    BY UdevTypesStep, StepImplements
  <1>3. UdevTypeOK /\ RegIInv => LatestInv
    BY DEF RegIInv, RegTypes, LatestInv, TypeOK
  <1>4. QED
    BY <1>1, <1>2, <1>3, PTL DEF Spec

\* DeviceRegistrations implements the inventory: a preparation that outlives
\* the appearance it was started for registers nothing, and what is registered
\* of a device is always the whole batch of its latest appearance, or nothing
\* (the comment on DeviceRegistrations::pre_register).
THEOREM RegistrationsImplementInventory == Spec => ImplementsInventory
  <1>1. Init => Inventory!InventoryInit
    BY DEF Init, Inventory!InventoryInit, ItemsOf
  <1>2. QED
    BY <1>1, RegInitInv, StepImplements, PTL
    DEF Spec, ImplementsInventory, Inventory!InventorySpec
-----------------------------------------------------------------------------
(* What is still to be given of a path tells whether there is a device. *)

\* The event at i is the last that the stream has for its path.
LastOfPath(i) ==
  i \in 1 .. Len(queue) /\ \A j \in i + 1 .. Len(queue) : queue[j].path # queue[i].path

NoEvent(p) == \A i \in 1 .. Len(queue) : queue[i].path # p

\* The last event for a path, or else what the scan found, is true of the path.
Backlog ==
  /\ UdevTypeOK
  /\ phase = "off" => queue = << >>
  /\ phase # "ready" => existing = {}
  /\ \A i \in 1 .. Len(queue) :
       LastOfPath(i) => (queue[i].op = "add" <=> queue[i].path \in plugged)
  /\ \A p \in existing : NoEvent(p) => p \in plugged

\* There is no device, and the provider has been told.
Gone(p) == p \notin plugged /\ p \notin existing /\ NoEvent(p)

\* What a provider that registers from its loop has.
IdsInv ==
  /\ ids \in [Paths -> Appearances \cup {NoId}] /\ busy \in Appearances \cup {NoId}
  /\ offered \subseteq Appearances /\ displaced \subseteq Appearances
  /\ \A i \in offered : ids[i.path] = i \/ i \in displaced
  /\ phase = "off" => busy = NoId /\ offered = {} /\ \A p \in Paths : ids[p] = NoId
  /\ \A p \in Paths : Gone(p) => ids[p] = NoId /\ (busy # NoId => busy.path # p)

\* The chip of which a provider has lines, or sets them up.
TheChip == IF setup # NoChip THEN setup ELSE registration

\* The lines of a chip that are set up are those that are not left to be.
ChipInv ==
  /\ registration \in Chips \cup {NoChip} /\ setup \in Chips \cup {NoChip}
  /\ left \in Seq(Nat) /\ at \in Nat \ {0} /\ panicked \in BOOLEAN
  /\ actuators \subseteq [chip : Chips, line : 0 .. NumLines - 1]
  /\ IsFiniteSet(actuators)
  /\ registration = NoChip \/ setup = NoChip
  /\ \A a \in actuators : a.chip = TheChip
  /\ TheChip = NoChip => actuators = {}
  /\ phase = "off" => TheChip = NoChip
  /\ TheChip # NoChip =>
       Cardinality(actuators) + Len(left)
         = Len(ByNumber) + Cardinality({l \in NamedLines : l < at})
  /\ left # << >> => at = 1
  /\ registration # NoChip => left = << >> /\ (ByName # {} => at >= NumLines)
  /\ ~ panicked => \A p \in Paths : Gone(p) /\ TheChip # NoChip => TheChip.path # p

\* What a provider that prepares its devices was told of is there, or is still to go.
ToldInv ==
  /\ phase = "off" => \A p \in Paths : latest[p] = None
  /\ \A p \in Paths : Gone(p) => latest[p] = None

\* What is left of a queue when its first event has been taken.
LEMMA TailOfQueue ==
  ASSUME queue \in Seq(Events), queue # << >>, queue' = Tail(queue)
  PROVE  /\ queue' \in Seq(Events) /\ Len(queue) \in Nat \ {0} /\ Len(queue') = Len(queue) - 1
         /\ \A i \in 1 .. Len(queue') : i + 1 \in 1 .. Len(queue) /\ queue'[i] = queue[i + 1]
         /\ Head(queue) = queue[1]
  OBVIOUS

\* The events that are left are the last of their paths when they were before.
LEMMA TailLast ==
  ASSUME queue \in Seq(Events), queue # << >>, queue' = Tail(queue),
         NEW i \in 1 .. Len(queue'), LastOfPath(i)'
  PROVE  LastOfPath(i + 1)
<1>1. PICK n \in Nat \ {0} : n = Len(queue) /\ n - 1 = Len(queue')
  BY TailOfQueue
<1>2. \A j \in i + 1 .. n - 1 : queue'[j].path # queue'[i].path
  BY <1>1 DEF LastOfPath
<1>3. \A j \in 1 .. n - 1 : queue'[j] = queue[j + 1]
  BY <1>1, TailOfQueue
<1>4. i \in 1 .. n - 1
  BY <1>1
<1>5. ASSUME NEW j \in (i + 1) + 1 .. n PROVE queue[j].path # queue[i + 1].path
  <2>1. j - 1 \in i + 1 .. n - 1 /\ j - 1 \in 1 .. n - 1 /\ (j - 1) + 1 = j
    BY <1>4
  <2> QED
    BY <2>1, <1>2, <1>3, <1>4
<1>6. i + 1 \in 1 .. n
  BY <1>4
<1> QED
  BY <1>1, <1>5, <1>6 DEF LastOfPath

\* When nothing is left for the path of the first event, it was the last of its path.
LEMMA HeadLast ==
  ASSUME queue \in Seq(Events), queue # << >>, queue' = Tail(queue), NEW p,
         NoEvent(p)', Head(queue).path = p
  PROVE  LastOfPath(1) /\ 1 \in 1 .. Len(queue)
<1>1. PICK n \in Nat \ {0} : n = Len(queue) /\ n - 1 = Len(queue')
  BY TailOfQueue
<1>2. \A j \in 1 .. n - 1 : queue'[j].path # p
  BY <1>1 DEF NoEvent
<1>3. \A j \in 1 .. n - 1 : queue'[j] = queue[j + 1]
  BY <1>1, TailOfQueue
<1>4. ASSUME NEW j \in 1 + 1 .. n PROVE queue[j].path # p
  <2>1. j - 1 \in 1 .. n - 1 /\ (j - 1) + 1 = j
    OBVIOUS
  <2> QED
    BY <2>1, <1>2, <1>3
<1> QED
  BY <1>1, <1>4, TailOfQueue DEF LastOfPath

\* A path that has no event in what is left had none, unless the first was its own.
LEMMA TailNoEvent ==
  ASSUME queue \in Seq(Events), queue # << >>, queue' = Tail(queue), NEW p,
         NoEvent(p)', Head(queue).path # p
  PROVE  NoEvent(p)
<1>1. PICK n \in Nat \ {0} : n = Len(queue) /\ n - 1 = Len(queue')
  BY TailOfQueue
<1>2. \A j \in 1 .. n - 1 : queue'[j].path # p
  BY <1>1 DEF NoEvent
<1>3. \A j \in 1 .. n - 1 : queue'[j] = queue[j + 1]
  BY <1>1, TailOfQueue
<1>4. ASSUME NEW j \in 1 .. n PROVE queue[j].path # p
  <2>1. CASE j = 1
    BY <2>1, TailOfQueue
  <2>2. CASE j # 1
    <3>1. j - 1 \in 1 .. n - 1 /\ (j - 1) + 1 = j
      BY <2>2
    <3> QED
      BY <3>1, <1>2, <1>3
  <2> QED
    BY <2>1, <2>2
<1> QED
  BY <1>1, <1>4 DEF NoEvent

\* Taking the first event, which is for p, leaves what is said of the rest.
LEMMA TakeFirst ==
  ASSUME Backlog, phase = "ready", existing = {}, queue # << >>, queue' = Tail(queue),
         UNCHANGED <<plugged, seqnum, phase, existing>>, NEW p, Head(queue).path = p
  PROVE  /\ Backlog'
         /\ \A q \in Paths \ {p} : Gone(q)' => Gone(q)
         /\ NoEvent(p)' => (Head(queue).op = "add" <=> p \in plugged)
<1>1. queue \in Seq(Events) /\ queue' \in Seq(Events) /\ UdevTypeOK'
  BY TailOfQueue DEF Backlog, UdevTypeOK
<1>2. ASSUME NEW i \in 1 .. Len(queue'), LastOfPath(i)'
      PROVE  queue'[i].op = "add" <=> queue'[i].path \in plugged'
  BY <1>1, <1>2, TailLast, TailOfQueue DEF Backlog
<1>3. Backlog'
  BY <1>1, <1>2 DEF Backlog
<1>4. \A q \in Paths \ {p} : Gone(q)' => Gone(q)
  BY <1>1, TailNoEvent DEF Gone
<1>5. NoEvent(p)' => (Head(queue).op = "add" <=> p \in plugged)
  BY <1>1, HeadLast, TailOfQueue DEF Backlog
<1> QED
  BY <1>3, <1>4, <1>5

\* A path of which the provider has just been told that there is a device is not gone.
LEMMA AddGiven ==
  ASSUME Backlog, NEW p \in Paths, NEW s, GiveAdd(p, s)
  PROVE  /\ Backlog' /\ phase' = "ready"
         /\ \A q \in Paths : Gone(q)' => q # p /\ Gone(q)
<1>1. CASE p \in existing /\ existing' = existing \ {p} /\ UNCHANGED queue
  <2>1. UNCHANGED <<plugged, seqnum, phase, queue>> /\ phase = "ready"
    BY <1>1 DEF GiveAdd
  <2>2. UdevTypeOK'
    BY <1>1, <2>1 DEF Backlog, UdevTypeOK
  <2>3. \A i : LastOfPath(i)' = LastOfPath(i)
    BY <2>1 DEF LastOfPath
  <2>4. \A q : NoEvent(q)' = NoEvent(q)
    BY <2>1 DEF NoEvent
  <2>5. Backlog'
    BY <1>1, <2>1, <2>2, <2>3, <2>4 DEF Backlog
  <2>6. ASSUME NEW q \in Paths, Gone(q)' PROVE q # p /\ Gone(q)
    BY <1>1, <2>1, <2>4, <2>6 DEF Gone, Backlog
  <2> QED
    BY <2>1, <2>5, <2>6
<1>2. CASE existing = {} /\ queue # << >> /\ Head(queue) = Event("add", p, s) /\ queue' = Tail(queue)
           /\ UNCHANGED existing
  <2>1. UNCHANGED <<plugged, seqnum, phase>> /\ phase = "ready"
    BY <1>2 DEF GiveAdd
  <2>2. Head(queue).path = p /\ Head(queue).op = "add"
    BY <1>2 DEF Event
  <2>3. /\ Backlog' /\ \A q \in Paths \ {p} : Gone(q)' => Gone(q)
        /\ NoEvent(p)' => p \in plugged
    BY <1>2, <2>1, <2>2, TakeFirst
  <2> QED
    BY <2>1, <2>3 DEF Gone
<1> QED
  BY <1>1, <1>2 DEF GiveAdd

\* Only the path of a removal can have become one of which everything was told.
LEMMA RemoveGiven ==
  ASSUME Backlog, NEW p \in Paths, GiveRemove(p)
  PROVE  /\ Backlog' /\ phase' = "ready"
         /\ \A q \in Paths \ {p} : Gone(q)' => Gone(q)
  BY TakeFirst DEF GiveRemove

\* What the queue is when an event has come in.
LEMMA QueueGrows ==
  ASSUME queue \in Seq(Events), NEW e \in Events, queue' = Append(queue, e)
  PROVE  /\ queue' \in Seq(Events) /\ Len(queue) \in Nat /\ Len(queue') = Len(queue) + 1
         /\ \A i \in 1 .. Len(queue) : queue'[i] = queue[i]
         /\ queue'[Len(queue) + 1] = e
  OBVIOUS

\* Nothing has been given of a path when the kernel has just sent an event for it, and
\* that event is true.
LEMMA EventSent ==
  ASSUME Backlog, phase # "off", NEW p \in Paths, NEW op \in {"add", "remove"}, Uevent(op, p),
         \A q \in Paths \ {p} : q \in plugged' <=> q \in plugged, plugged' \subseteq Paths,
         op = "add" <=> p \in plugged'
  PROVE  /\ Backlog'
         /\ \A q \in Paths : Gone(q)' => Gone(q)
<1> DEFINE e == Event(op, p, seqnum + 1)
<1>1. /\ seqnum' = seqnum + 1 /\ seqnum' \in 1 .. MaxSeq /\ seqnum' \in 0 .. MaxSeq
      /\ queue' = Append(queue, e) /\ UNCHANGED <<phase, existing>>
  BY UdevAssumption DEF Uevent, Backlog, UdevTypeOK
<1>2. queue \in Seq(Events) /\ e \in Events /\ e.op = op /\ e.path = p
  BY <1>1 DEF Backlog, UdevTypeOK, Event, Events
<1> HIDE DEF e
<1>3. PICK n \in Nat : n = Len(queue) /\ n + 1 = Len(queue') /\ queue' \in Seq(Events)
                       /\ queue'[n + 1] = e /\ \A i \in 1 .. n : queue'[i] = queue[i]
  BY <1>1, <1>2, QueueGrows
<1>4. UdevTypeOK'
  BY <1>1, <1>3 DEF Backlog, UdevTypeOK
<1>5. ~ NoEvent(p)'
  <2>1. n + 1 \in 1 .. n + 1
    OBVIOUS
  <2> QED
    BY <2>1, <1>2, <1>3 DEF NoEvent
<1>6. ASSUME NEW q \in Paths \ {p}, NoEvent(q)' PROVE NoEvent(q)
  <2>1. \A i \in 1 .. n : i \in 1 .. n + 1
    OBVIOUS
  <2> QED
    BY <1>3, <1>6, <2>1 DEF NoEvent
<1>7. ASSUME NEW i \in 1 .. n + 1, LastOfPath(i)'
      PROVE  queue'[i].op = "add" <=> queue'[i].path \in plugged'
  <2>1. CASE i = n + 1
    BY <2>1, <1>2, <1>3
  <2>2. CASE i # n + 1
    <3>1. i \in 1 .. n /\ n + 1 \in i + 1 .. n + 1 /\ \A j \in i + 1 .. n : j \in i + 1 .. n + 1 /\ j \in 1 .. n
      BY <2>2
    <3>2. queue'[i] = queue[i] /\ queue[i].path # p /\ queue[i] \in Events
      BY <1>2, <1>3, <1>7, <3>1 DEF LastOfPath
    <3>3. LastOfPath(i)
      <4>1. \A j \in i + 1 .. n : queue'[j].path # queue'[i].path /\ queue'[j] = queue[j]
        BY <1>3, <1>7, <3>1 DEF LastOfPath
      <4> QED
        BY <4>1, <3>1, <3>2, <1>3 DEF LastOfPath
    <3>4. queue[i].path \in Paths \ {p}
      BY <3>2 DEF Events
    <3>5. queue[i].op = "add" <=> queue[i].path \in plugged
      BY <1>3, <3>1, <3>3 DEF Backlog
    <3> QED
      BY <3>2, <3>4, <3>5
  <2> QED
    BY <2>1, <2>2
<1>8. Backlog'
  <2>1. phase' # "off" /\ (phase' # "ready" => existing' = {})
    BY <1>1 DEF Backlog
  <2>2. ASSUME NEW q \in existing', NoEvent(q)' PROVE q \in plugged'
    <3>1. q \in Paths \ {p} /\ q \in existing
      BY <1>1, <1>5, <2>2 DEF Backlog, UdevTypeOK
    <3> QED
      BY <3>1, <1>6, <2>2 DEF Backlog
  <2> QED
    BY <1>3, <1>4, <1>7, <2>1, <2>2 DEF Backlog
<1>9. ASSUME NEW q \in Paths, Gone(q)' PROVE Gone(q)
  BY <1>1, <1>5, <1>6, <1>9 DEF Gone
<1> QED
  BY <1>8, <1>9

\* What happens to the devices, and the start of the stream.  Nothing is gone that was
\* not, but before the stream listens, when nothing has been told.
LEMMA StreamStepBacklog ==
  ASSUME Backlog, KernelStep \/ Listen \/ Scan
  PROVE  /\ Backlog'
         /\ phase # "off" => /\ phase' # "off"
                             /\ \A q \in Paths : Gone(q)' => Gone(q)
<1>1. CASE KernelStep
  <2>1. PICK p \in Paths, op \in {"add", "remove"} :
          /\ Uevent(op, p) /\ plugged' \subseteq Paths
          /\ \A q \in Paths \ {p} : q \in plugged' <=> q \in plugged
          /\ op = "add" <=> p \in plugged'
    <3>1. PICK p \in Paths : Plug(p) \/ Unplug(p) \/ Trigger(p)
      BY <1>1 DEF KernelStep
    <3>2. plugged \subseteq Paths
      BY DEF Backlog, UdevTypeOK
    <3>3. CASE Plug(p) \/ Trigger(p)
      <4>1. Uevent("add", p) /\ plugged' \subseteq Paths /\ p \in plugged'
            /\ \A q \in Paths \ {p} : q \in plugged' <=> q \in plugged
        BY <3>2, <3>3 DEF Plug, Trigger
      <4> QED
        BY <4>1
    <3>4. CASE Unplug(p)
      <4>1. Uevent("remove", p) /\ plugged' \subseteq Paths /\ p \notin plugged'
            /\ \A q \in Paths \ {p} : q \in plugged' <=> q \in plugged
        BY <3>2, <3>4 DEF Unplug
      <4> QED
        BY <4>1
    <3> QED
      BY <3>1, <3>3, <3>4
  <2>2. CASE phase = "off"
    <3>1. UNCHANGED <<queue, phase, existing>> /\ queue = << >> /\ existing = {}
          /\ seqnum' \in 0 .. MaxSeq
      BY <2>1, <2>2, UdevAssumption DEF Uevent, Backlog, UdevTypeOK
    <3>2. UdevTypeOK'
      BY <2>1, <3>1 DEF Backlog, UdevTypeOK
    <3>3. Len(queue') = 0
      BY <3>1
    <3> QED
      BY <2>2, <3>1, <3>2, <3>3 DEF Backlog
  <2>3. CASE phase # "off"
    BY <2>1, <2>3, EventSent DEF Uevent
  <2> QED
    BY <2>2, <2>3
<1>2. CASE Listen
  <2>1. UNCHANGED <<plugged, seqnum, existing, queue>> /\ phase = "off" /\ phase' = "listening"
        /\ queue = << >> /\ existing = {}
    BY <1>2 DEF Listen, Backlog
  <2>2. Len(queue') = 0 /\ UdevTypeOK'
    BY <2>1 DEF Backlog, UdevTypeOK
  <2> QED
    BY <2>1, <2>2 DEF Backlog
<1>3. CASE Scan
  <2>1. UNCHANGED <<plugged, seqnum, queue>> /\ phase' = "ready" /\ existing' = plugged
        /\ existing = {}
    BY <1>3 DEF Scan, Backlog
  <2>2. UdevTypeOK' /\ (\A i : LastOfPath(i)' = LastOfPath(i)) /\ \A q : NoEvent(q)' = NoEvent(q)
    BY <2>1 DEF Backlog, UdevTypeOK, LastOfPath, NoEvent
  <2> QED
    BY <2>1, <2>2 DEF Backlog, Gone
<1> QED
  BY <1>1, <1>2, <1>3

\* Nothing has come in before the stream listens.
LEMMA BacklogInit == UdevInit => Backlog
<1> SUFFICES ASSUME UdevInit PROVE Backlog
  OBVIOUS
<1>1. queue \in Seq(Events) /\ Len(queue) = 0 /\ queue = << >>
  BY DEF UdevInit
<1>2. seqnum \in 0 .. MaxSeq
  BY UdevAssumption DEF UdevInit
<1> QED
  BY <1>1, <1>2 DEF UdevInit, Backlog, UdevTypeOK

\* A provider that has been given everything has been told of what has gone.
LEMMA AllGivenGone ==
  ASSUME AllGiven, NEW p \in Paths, p \notin plugged
  PROVE  Gone(p)
<1>1. Len(queue) = 0 /\ existing = {}
  BY DEF AllGiven
<1> QED
  BY <1>1 DEF Gone, NoEvent

-----------------------------------------------------------------------------
(* Providers that register from their loop. *)

\* What the stream and the kernel do leaves what such a provider has.
LEMMA IdsStream ==
  ASSUME IdsInv, UNCHANGED directVars,
         phase # "off" => phase' # "off" /\ \A q \in Paths : Gone(q)' => Gone(q)
  PROVE  IdsInv'
<1>1. UNCHANGED <<ids, busy, offered, displaced>>
  BY DEF directVars
<1>2. CASE phase = "off"
  BY <1>1, <1>2 DEF IdsInv
<1>3. CASE phase # "off"
  BY <1>1, <1>3 DEF IdsInv
<1> QED
  BY <1>2, <1>3

\* What the loop does keeps the ids of all that is offered and not displaced.
LEMMA IdsLoop ==
  ASSUME Backlog, IdsInv, DirectLoopStep
  PROVE  Backlog' /\ IdsInv'
<1>0. /\ ids \in [Paths -> Appearances \cup {NoId}] /\ busy \in Appearances \cup {NoId}
      /\ NoId \notin Appearances
  BY DirectAssumption DEF IdsInv, DirectAssumption
<1>1. ASSUME NEW p \in Paths, NEW s \in 0 .. MaxSeq, Add(p, s) PROVE Backlog' /\ IdsInv'
  <2>1. /\ Backlog' /\ phase' = "ready"
        /\ \A q \in Paths : Gone(q)' => q # p /\ Gone(q)
    BY <1>1, AddGiven DEF Add
  <2>2. UNCHANGED <<ids, offered, displaced>> /\ busy' \in Appearances /\ busy'.path = p
    BY <1>1 DEF Add, Item, Appearances
  <2>3. IdsInv'
    BY <2>1, <2>2 DEF IdsInv
  <2> QED
    BY <2>1, <2>3
<1>2. CASE Register
  <2>1. /\ busy \in Appearances /\ busy.path \in Paths /\ busy' = NoId
        /\ offered' = offered \cup {busy}
        /\ displaced' = displaced \cup ({ids[busy.path]} \ {NoId})
        /\ ids' = [ids EXCEPT ![busy.path] = busy]
    BY <1>0, <1>2 DEF Register, Free, Appearances
  <2>2. UNCHANGED <<plugged, seqnum, phase, existing, queue>>
    BY <1>2 DEF Register, udevVars
  <2>3. Backlog' /\ (\A q \in Paths : Gone(q)' = Gone(q))
    BY <2>2 DEF Backlog, UdevTypeOK, LastOfPath, NoEvent, Gone
  <2>4. /\ ids' \in [Paths -> Appearances \cup {NoId}] /\ ids'[busy.path] = busy
        /\ \A q \in Paths : q # busy.path => ids'[q] = ids[q]
    BY <1>0, <2>1
  <2>5. /\ offered' \subseteq Appearances /\ displaced' \subseteq Appearances
    BY <1>0, <2>1 DEF IdsInv
  <2>6. ASSUME NEW i \in offered' PROVE ids'[i.path] = i \/ i \in displaced'
    <3>1. i.path \in Paths /\ i # NoId
      BY <1>0, <2>5 DEF Appearances
    <3> QED
      BY <1>0, <2>1, <2>4, <3>1 DEF IdsInv
  <2>7. phase' # "off"
    BY <1>0, <2>1, <2>2 DEF IdsInv
  <2>8. \A q \in Paths : Gone(q)' => ids'[q] = NoId
    BY <1>0, <2>1, <2>3, <2>4 DEF IdsInv
  <2> QED
    BY <2>1, <2>3, <2>4, <2>5, <2>6, <2>7, <2>8 DEF IdsInv
<1>3. CASE Skip
  <2>1. UNCHANGED <<plugged, seqnum, phase, existing, queue, ids, offered, displaced>> /\ busy' = NoId
    BY <1>3 DEF Skip, udevVars
  <2>2. Backlog' /\ (\A q \in Paths : Gone(q)' = Gone(q))
    BY <2>1 DEF Backlog, UdevTypeOK, LastOfPath, NoEvent, Gone
  <2> QED
    BY <2>1, <2>2 DEF IdsInv
<1>4. ASSUME NEW p \in Paths, Withdraw(p) PROVE Backlog' /\ IdsInv'
  <2>1. /\ Backlog' /\ phase' = "ready"
        /\ \A q \in Paths \ {p} : Gone(q)' => Gone(q)
    BY <1>4, RemoveGiven DEF Withdraw
  <2>2. /\ ids' = [ids EXCEPT ![p] = NoId] /\ offered' = offered \ {ids[p]}
        /\ UNCHANGED <<busy, displaced>> /\ busy = NoId
    BY <1>4 DEF Withdraw, Free
  <2>3. /\ ids' \in [Paths -> Appearances \cup {NoId}] /\ ids'[p] = NoId
        /\ \A q \in Paths : q # p => ids'[q] = ids[q]
    BY <1>0, <2>2
  <2>4. ASSUME NEW i \in offered' PROVE ids'[i.path] = i \/ i \in displaced'
    <3>1. i \in offered /\ i # ids[p] /\ i.path \in Paths
      BY <2>2 DEF IdsInv, Appearances
    <3> QED
      BY <2>2, <2>3, <3>1 DEF IdsInv
  <2> QED
    BY <2>1, <2>2, <2>3, <2>4 DEF IdsInv
<1> QED
  BY <1>1, <1>2, <1>3, <1>4 DEF DirectLoopStep

\* What follows for what is offered.
LEMMA IdsEnough == Backlog /\ IdsInv => DirectInv
<1> SUFFICES ASSUME Backlog, IdsInv PROVE DirectInv
  OBVIOUS
<1>1. DirectTypeOK
  BY DEF Backlog, IdsInv, DirectTypeOK
<1>2. ASSUME AllGiven, NEW i \in offered, i.path \notin plugged PROVE i \in displaced
  <2>1. i \in Appearances /\ i.path \in Paths /\ i # NoId
    BY DirectAssumption DEF IdsInv, Appearances, DirectAssumption
  <2>2. ids[i.path] = NoId
    BY <1>2, <2>1, AllGivenGone DEF IdsInv
  <2> QED
    BY <2>1, <2>2 DEF IdsInv
<1> QED
  BY <1>1, <1>2 DEF DirectInv, LeftoversWereDisplaced

\* Nothing is offered before the provider starts.
LEMMA IdsInit == DirectInit => Backlog /\ IdsInv
  BY BacklogInit DEF DirectInit, IdsInv

\* For any paths and any events of the kernel around the start of the provider: when it
\* has been given everything, an item of a device that is not there is left only if a
\* second appearance displaced it in the provider's map (the loops of the serial, dfu
\* and rockusb providers).
THEOREM DirectSafe == DirectSpec => []DirectInv
<1> DEFINE I == Backlog /\ IdsInv
<1>1. DirectInit => I
  BY IdsInit
<1>2. I /\ [DirectNext]_<<udevVars, directVars>> => I'
  <2> SUFFICES ASSUME I, [DirectNext]_<<udevVars, directVars>> PROVE I'
    OBVIOUS
  <2>1. CASE DirectStreamStep
    BY <2>1, StreamStepBacklog, IdsStream DEF DirectStreamStep
  <2>2. CASE DirectLoopStep
    BY <2>2, IdsLoop
  <2>3. CASE UNCHANGED <<udevVars, directVars>>
    <3>1. UNCHANGED <<plugged, seqnum, phase, existing, queue, ids, busy, offered, displaced>>
      BY <2>3 DEF udevVars, directVars
    <3>2. Backlog' /\ (\A q \in Paths : Gone(q)' = Gone(q))
      BY <3>1 DEF Backlog, UdevTypeOK, LastOfPath, NoEvent, Gone
    <3> QED
      BY <3>1, <3>2 DEF IdsInv
  <2> QED
    BY <2>1, <2>2, <2>3 DEF DirectNext
<1>3. I => DirectInv
  BY IdsEnough
<1> QED
  BY <1>1, <1>2, <1>3, PTL DEF DirectSpec

-----------------------------------------------------------------------------
(* The provider of GPIO actuators. *)

\* What the stream and the kernel do leaves what the provider has.
LEMMA ChipStream ==
  ASSUME ChipInv, UNCHANGED gpioVars,
         phase # "off" => phase' # "off" /\ \A q \in Paths : Gone(q)' => Gone(q)
  PROVE  ChipInv'
<1>1. UNCHANGED <<registration, setup, left, at, actuators, panicked>> /\ TheChip' = TheChip
  BY DEF gpioVars, TheChip
<1>2. CASE phase = "off"
  BY <1>1, <1>2 DEF ChipInv
<1>3. CASE phase # "off"
  BY <1>1, <1>3 DEF ChipInv
<1> QED
  BY <1>2, <1>3

\* A line that has been set up is one more, of the same chip.
LEMMA LineIsSetUp ==
  ASSUME ChipInv, NEW l, setup # NoChip, Request(l)
  PROVE  /\ actuators' \subseteq [chip : Chips, line : 0 .. NumLines - 1]
         /\ IsFiniteSet(actuators') /\ \A a \in actuators' : a.chip = setup
         /\ Cardinality(actuators) \in Nat /\ Cardinality(actuators') = Cardinality(actuators) + 1
<1>1. /\ actuators' = actuators \cup {Line(setup, l)} /\ Line(setup, l) \notin actuators
      /\ setup \in Chips /\ l \in 0 .. NumLines - 1
  BY DEF ChipInv, Request
<1>2. IsFiniteSet(actuators) /\ \A a \in actuators : a.chip = setup
  BY DEF ChipInv, TheChip
<1>3. Line(setup, l) \in [chip : Chips, line : 0 .. NumLines - 1] /\ Line(setup, l).chip = setup
  BY <1>1 DEF Line
<1>4. /\ IsFiniteSet(actuators') /\ Cardinality(actuators) \in Nat
      /\ Cardinality(actuators') = Cardinality(actuators) + 1
  BY <1>1, <1>2, FS_AddElement, FS_CardinalityType
<1> QED
  BY <1>1, <1>2, <1>3, <1>4 DEF ChipInv

\* Of the lines with a name, those the search has passed.
LEMMA SearchCounts ==
  ASSUME NEW n \in Nat \ {0}, ByName \subseteq Nat, NumLines \in Nat
  PROVE  /\ IsFiniteSet(NamedLines)
         /\ Cardinality({l \in NamedLines : l < n}) \in Nat
         /\ n = 1 => Cardinality({l \in NamedLines : l < n}) = 0
         /\ n < NumLines => Cardinality({l \in NamedLines : l < n + 1})
               = IF n \in ByName THEN Cardinality({l \in NamedLines : l < n}) + 1
                                 ELSE Cardinality({l \in NamedLines : l < n})
         /\ n >= NumLines \/ ByName = {} => {l \in NamedLines : l < n} = NamedLines
<1> DEFINE passed == {l \in NamedLines : l < n}
<1>1. IsFiniteSet(NamedLines)
  <2>1. IsFiniteSet(1 .. NumLines - 1)
    BY FS_Interval
  <2> QED
    BY <2>1, FS_Subset DEF NamedLines
<1>2. IsFiniteSet(passed) /\ Cardinality(passed) \in Nat
  BY <1>1, FS_Subset, FS_CardinalityType
<1>3. ASSUME n = 1 PROVE Cardinality(passed) = 0
  <2>1. passed = {}
    BY <1>3 DEF NamedLines
  <2> QED
    BY <2>1, FS_EmptySet
<1>4. ASSUME n < NumLines
      PROVE  Cardinality({l \in NamedLines : l < n + 1})
               = IF n \in ByName THEN Cardinality(passed) + 1 ELSE Cardinality(passed)
  <2>1. n \notin passed /\ n \in 1 .. NumLines - 1
    BY <1>4
  <2>2. CASE n \in ByName
    <3>1. {l \in NamedLines : l < n + 1} = passed \cup {n}
      BY <2>1, <2>2 DEF NamedLines
    <3> HIDE DEF passed
    <3> QED
      BY <1>2, <2>1, <2>2, <3>1, FS_AddElement
  <2>3. CASE n \notin ByName
    <3>1. {l \in NamedLines : l < n + 1} = passed
      BY <2>1, <2>3 DEF NamedLines
    <3> QED
      BY <2>3, <3>1
  <2> QED
    BY <2>2, <2>3
<1>5. ASSUME n >= NumLines \/ ByName = {} PROVE passed = NamedLines
  BY <1>5 DEF NamedLines
<1> QED
  BY <1>1, <1>2, <1>3, <1>4, <1>5

\* Setting up a chip and losing it keeps the count of its lines.
LEMMA ChipStep ==
  ASSUME Backlog, ChipInv, GpioStep
  PROVE  Backlog' /\ ChipInv'
<1>0. /\ NumLines \in Nat /\ ByNumber \in Seq(Nat) /\ ByName \subseteq Nat /\ NoChip \notin Chips
      /\ left \in Seq(Nat) /\ at \in Nat \ {0}
  BY GpioAssumption DEF GpioAssumption, ChipInv
<1> DEFINE passed(n) == Cardinality({l \in NamedLines : l < n})
<1>01. ASSUME UNCHANGED udevVars PROVE Backlog' /\ phase' = phase /\ \A q \in Paths : Gone(q)' = Gone(q)
  BY <1>01 DEF udevVars, Backlog, UdevTypeOK, LastOfPath, NoEvent, Gone
<1>1. ASSUME NEW p \in Paths, NEW s \in 0 .. MaxSeq, AddChip(p, s) PROVE Backlog' /\ ChipInv'
  <2>1. /\ Backlog' /\ phase' = "ready"
        /\ \A q \in Paths : Gone(q)' => q # p /\ Gone(q)
    BY <1>1, AddGiven DEF AddChip
  <2>2. CASE UNCHANGED <<setup, left, at>>
    <3>1. UNCHANGED <<registration, setup, left, at, actuators, panicked>> /\ TheChip' = TheChip
      BY <1>1, <2>2 DEF AddChip, TheChip
    <3> QED
      BY <2>1, <3>1 DEF ChipInv
  <2>3. CASE registration = NoChip /\ setup' = Chip(p, s) /\ left' = ByNumber /\ at' = 1
    <3>1. /\ UNCHANGED <<registration, actuators, panicked>> /\ setup' \in Chips /\ setup'.path = p
          /\ setup = NoChip /\ TheChip = NoChip /\ TheChip' = setup'
      BY <1>0, <1>1, <2>3 DEF AddChip, Waiting, Chip, Chips, TheChip
    <3>2. actuators = {} /\ Cardinality(actuators) = 0 /\ setup' # NoChip
      BY <1>0, <3>1, FS_EmptySet DEF ChipInv
    <3>3. passed(1) = 0
      <4>1. 1 \in Nat \ {0}
        OBVIOUS
      <4> QED
        BY <1>0, <4>1, SearchCounts
    <3>4. Cardinality(actuators') + Len(left') = Len(ByNumber) + Cardinality({l \in NamedLines : l < at'})
      BY <1>0, <2>3, <3>1, <3>2, <3>3
    <3> QED
      BY <1>0, <2>1, <2>3, <3>1, <3>2, <3>4 DEF ChipInv
  <2> QED
    BY <1>1, <2>2, <2>3 DEF AddChip
<1>2. CASE SetupLine
  <2>1. /\ setup # NoChip /\ left # << >> /\ Request(Head(left)) /\ left' = Tail(left)
        /\ UNCHANGED <<registration, setup, at, panicked>> /\ UNCHANGED udevVars
    BY <1>2 DEF SetupLine
  <2>2. TheChip = setup /\ TheChip' = setup /\ at = 1
    BY <2>1 DEF TheChip, ChipInv
  <2>3. /\ left' \in Seq(Nat) /\ Len(left) \in Nat \ {0} /\ Len(left') = Len(left) - 1
    BY <1>0, <2>1
  <2>4. Cardinality(actuators) + Len(left) = Len(ByNumber) + passed(at)
    BY <2>1, <2>2 DEF ChipInv
  <2>5. Len(ByNumber) \in Nat /\ passed(at) \in Nat
    <3>1. passed(at) \in Nat
      BY <1>0, SearchCounts
    <3> QED
      BY <1>0, <3>1
  <2>6. /\ actuators' \subseteq [chip : Chips, line : 0 .. NumLines - 1]
        /\ IsFiniteSet(actuators') /\ \A a \in actuators' : a.chip = setup
        /\ Cardinality(actuators) \in Nat /\ Cardinality(actuators') = Cardinality(actuators) + 1
    BY <2>1, LineIsSetUp
  <2>7. Cardinality(actuators') + Len(left') = Len(ByNumber) + passed(at)
    BY <2>3, <2>4, <2>5, <2>6
  <2> QED
    BY <1>01, <2>1, <2>2, <2>3, <2>6, <2>7 DEF ChipInv
<1>3. CASE SearchLine
  <2>1. /\ setup # NoChip /\ left = << >> /\ ByName # {} /\ at < NumLines /\ at' = at + 1
        /\ UNCHANGED <<registration, setup, left, panicked>> /\ UNCHANGED udevVars
    BY <1>3 DEF SearchLine, Searching
  <2>2. TheChip = setup /\ TheChip' = setup
    BY <2>1 DEF TheChip, ChipInv
  <2>3. Cardinality(actuators) + Len(left) = Len(ByNumber) + passed(at)
    BY <2>1, <2>2 DEF ChipInv
  <2>4. /\ Len(ByNumber) \in Nat /\ passed(at) \in Nat /\ Len(left) = 0
        /\ passed(at + 1) = IF at \in ByName THEN passed(at) + 1 ELSE passed(at)
    <3>1. /\ passed(at) \in Nat
          /\ passed(at + 1) = IF at \in ByName THEN passed(at) + 1 ELSE passed(at)
      <4>1. NumLines \in Nat /\ ByName \subseteq Nat /\ at \in Nat \ {0} /\ at < NumLines
        BY <1>0, <2>1
      <4> QED
        BY <4>1, SearchCounts
    <3>2. Len(ByNumber) \in Nat /\ Len(left) = 0
      <4> HIDE DEF passed
      <4> QED
        BY <1>0, <2>1
    <3> QED
      BY <3>1, <3>2
  <2>5. /\ actuators' \subseteq [chip : Chips, line : 0 .. NumLines - 1]
        /\ IsFiniteSet(actuators') /\ \A a \in actuators' : a.chip = setup
        /\ Cardinality(actuators) \in Nat
        /\ Cardinality(actuators') = IF at \in ByName THEN Cardinality(actuators) + 1 ELSE Cardinality(actuators)
    <3>1. CASE at \in ByName
      BY <1>3, <2>1, <3>1, LineIsSetUp DEF SearchLine
    <3>2. CASE at \notin ByName
      <4>1. actuators' = actuators
        BY <1>3, <3>2 DEF SearchLine
      <4> QED
        BY <2>2, <3>2, <4>1, FS_CardinalityType DEF ChipInv
    <3> QED
      BY <3>1, <3>2
  <2> HIDE DEF passed
  <2>6. Cardinality(actuators') + Len(left') = Len(ByNumber) + passed(at')
    BY <2>1, <2>3, <2>4, <2>5
  <2>7. left' = << >> /\ at' \in Nat \ {0} /\ registration = NoChip
    BY <1>0, <2>1 DEF ChipInv
  <2> QED
    BY <1>01, <2>1, <2>2, <2>5, <2>6, <2>7 DEF ChipInv, passed
<1>4. CASE SetupPanics
  <2>1. UNCHANGED <<registration, setup, left, at, actuators>> /\ UNCHANGED udevVars /\ panicked' = TRUE
        /\ TheChip' = TheChip
    BY <1>4 DEF SetupPanics, TheChip
  <2> QED
    BY <1>01, <2>1 DEF ChipInv
<1>5. CASE ChipIsSet
  <2>1. /\ setup # NoChip /\ left = << >> /\ (ByName = {} \/ ~ at < NumLines)
        /\ registration' = setup /\ setup' = NoChip
        /\ UNCHANGED <<left, at, actuators, panicked>> /\ UNCHANGED udevVars
    BY <1>5 DEF ChipIsSet, Searching
  <2>2. TheChip' = TheChip
    BY <2>1 DEF TheChip
  <2>3. ByName # {} => at >= NumLines
    <3>1. \A m, n \in Nat : ~ m < n => m >= n
      OBVIOUS
    <3>2. at \in Nat /\ NumLines \in Nat
      BY <1>0
    <3> QED
      BY <2>1, <3>1, <3>2
  <2> QED
    BY <1>01, <2>1, <2>2, <2>3 DEF ChipInv
<1>6. ASSUME NEW p \in Paths, RemoveChip(p) PROVE Backlog' /\ ChipInv'
  <2>1. /\ Backlog' /\ phase' = "ready"
        /\ \A q \in Paths \ {p} : Gone(q)' => Gone(q)
    BY <1>6, RemoveGiven DEF RemoveChip
  <2>2. UNCHANGED <<setup, left, at, panicked>> /\ setup = NoChip /\ TheChip = registration
        /\ TheChip' = registration'
    BY <1>6 DEF RemoveChip, Waiting, TheChip
  <2>3. CASE registration # NoChip /\ registration.path = p
    <3>1. registration' = NoChip /\ actuators' = actuators \ LinesOf(registration)
      BY <1>6, <2>3 DEF RemoveChip
    <3>2. actuators' = {}
      BY <2>2, <3>1 DEF LinesOf, ChipInv
    <3> QED
      BY <2>1, <2>2, <3>1, <3>2, FS_EmptySet DEF ChipInv
  <2>4. CASE ~ (registration # NoChip /\ registration.path = p)
    <3>1. UNCHANGED <<registration, actuators>>
      BY <1>6, <2>4 DEF RemoveChip
    <3> QED
      BY <2>1, <2>2, <2>4, <3>1 DEF ChipInv
  <2> QED
    BY <2>3, <2>4
<1> QED
  BY <1>1, <1>2, <1>3, <1>4, <1>5, <1>6 DEF GpioStep

\* What follows for what is offered.
LEMMA ChipEnough == Backlog /\ ChipInv => GpioInv
<1> SUFFICES ASSUME Backlog, ChipInv PROVE GpioInv
  OBVIOUS
<1>0. /\ NumLines \in Nat /\ ByNumber \in Seq(Nat) /\ ByName \subseteq Nat /\ NoChip \notin Chips
      /\ at \in Nat \ {0}
  BY GpioAssumption DEF GpioAssumption, ChipInv
<1>1. GpioTypeOK /\ OneChip
  BY DEF Backlog, ChipInv, GpioTypeOK, OneChip
<1>2. ASSUME Waiting
      PROVE  /\ actuators = LinesOf(registration)
             /\ Cardinality(actuators) = IF registration = NoChip THEN 0
                                         ELSE Len(ByNumber) + Cardinality(NamedLines)
  <2>1. setup = NoChip /\ TheChip = registration /\ \A a \in actuators : a.chip = registration
    BY <1>2 DEF Waiting, TheChip, ChipInv
  <2>2. CASE registration = NoChip
    BY <2>1, <2>2, FS_EmptySet DEF LinesOf, ChipInv
  <2>3. CASE registration # NoChip
    <3>1. left = << >> /\ (ByName # {} => at >= NumLines)
      BY <2>3 DEF ChipInv
    <3>2. Len(left) = 0 /\ {l \in NamedLines : l < at} = NamedLines
      BY <1>0, <3>1, SearchCounts
    <3>3. Cardinality(actuators) \in Nat
      BY FS_CardinalityType DEF ChipInv
    <3>4. Cardinality(actuators) + 0 = Len(ByNumber) + Cardinality(NamedLines)
      BY <2>1, <2>3, <3>2 DEF ChipInv
    <3> QED
      BY <2>1, <2>3, <3>3, <3>4 DEF LinesOf
  <2> QED
    BY <2>2, <2>3
<1>3. ASSUME Waiting, AllGiven, NEW a \in actuators PROVE a.chip.path \in plugged
  <2>1. a.chip = TheChip /\ TheChip # NoChip /\ TheChip \in Chips /\ ~ panicked
    BY <1>3 DEF ChipInv, Waiting, TheChip
  <2>2. TheChip.path \in Paths
    BY <2>1 DEF Chips
  <2> QED
    BY <1>3, <2>1, <2>2, AllGivenGone DEF ChipInv
<1> QED
  BY <1>1, <1>2, <1>3 DEF GpioInv, WholeChipOrNone

\* There is no chip before the provider starts.
LEMMA ChipInit == GpioInit => Backlog /\ ChipInv
<1> SUFFICES ASSUME GpioInit PROVE Backlog /\ ChipInv
  OBVIOUS
<1>1. /\ registration = NoChip /\ setup = NoChip /\ left = << >> /\ at = 1
      /\ actuators = {} /\ panicked = FALSE
  BY DEF GpioInit
<1>2. TheChip = NoChip /\ left \in Seq(Nat) /\ at \in Nat \ {0}
  BY <1>1 DEF TheChip
<1>3. IsFiniteSet(actuators) /\ Backlog
  BY <1>1, BacklogInit, FS_EmptySet DEF GpioInit
<1> QED
  BY <1>1, <1>2, <1>3 DEF ChipInv

\* For any chips, lines and events of the kernel, with a second appearance of a chip and
\* a removal at any time: the lines offered are those of one appearance of one chip, and
\* unless the provider has panicked all that are configured, of a chip that is there
\* (setup_gpio_chip, and the loop of the gpio provider).
THEOREM GpioSafe == GpioSpec => []GpioInv
<1> DEFINE I == Backlog /\ ChipInv
<1>1. GpioInit => I
  BY ChipInit
<1>2. I /\ [GpioNext]_<<udevVars, gpioVars>> => I'
  <2> SUFFICES ASSUME I, [GpioNext]_<<udevVars, gpioVars>> PROVE I'
    OBVIOUS
  <2>1. CASE (KernelStep \/ Listen \/ Scan) /\ UNCHANGED gpioVars
    BY <2>1, StreamStepBacklog, ChipStream
  <2>2. CASE GpioStep
    BY <2>2, ChipStep
  <2>3. CASE UNCHANGED <<udevVars, gpioVars>>
    <3>1. Backlog' /\ phase' = phase /\ (\A q \in Paths : Gone(q)' = Gone(q))
      BY <2>3 DEF udevVars, Backlog, UdevTypeOK, LastOfPath, NoEvent, Gone
    <3> QED
      BY <2>3, <3>1, ChipStream
  <2> QED
    BY <2>1, <2>2, <2>3 DEF GpioNext
<1>3. I => GpioInv
  BY ChipEnough
<1> QED
  BY <1>1, <1>2, <1>3, PTL DEF GpioSpec

-----------------------------------------------------------------------------
(* All of them. *)

\* What the stream and the kernel do is not a withdrawal.
LEMMA ToldStream ==
  ASSUME ToldInv, UNCHANGED latest,
         phase # "off" => phase' # "off" /\ \A q \in Paths : Gone(q)' => Gone(q)
  PROVE  ToldInv'
<1>1. CASE phase = "off"
  BY <1>1 DEF ToldInv
<1>2. CASE phase # "off"
  BY <1>2 DEF ToldInv
<1> QED
  BY <1>1, <1>2

\* The loop knows of a device that there is one until it is told that it has gone.
LEMMA ToldStep ==
  ASSUME Backlog, ToldInv, RegIInv, LoopStep \/ TaskStep
  PROVE  Backlog' /\ ToldInv'
<1>0. latest \in [Paths -> Numbers \cup {None}]
  BY DEF RegIInv, RegTypes
<1>1. ASSUME NEW p \in Paths, NEW s \in Numbers, PreRegister(p, s) PROVE Backlog' /\ ToldInv'
  <2>1. /\ Backlog' /\ phase' = "ready"
        /\ \A q \in Paths : Gone(q)' => q # p /\ Gone(q)
    BY <1>1, AddGiven DEF PreRegister
  <2>2. \A q \in Paths : q # p => latest'[q] = latest[q]
    BY <1>0, <1>1 DEF PreRegister
  <2> QED
    BY <2>1, <2>2 DEF ToldInv
<1>2. ASSUME NEW p \in Paths, NEW s \in Numbers, Overlook(p, s) PROVE Backlog' /\ ToldInv'
  <2>1. /\ Backlog' /\ phase' = "ready"
        /\ \A q \in Paths : Gone(q)' => q # p /\ Gone(q)
    BY <1>2, AddGiven DEF Overlook
  <2> QED
    BY <1>2, <2>1 DEF Overlook, regVars, ToldInv
<1>3. ASSUME NEW p \in Paths, RemoveDevice(p) PROVE Backlog' /\ ToldInv'
  <2>1. /\ Backlog' /\ phase' = "ready"
        /\ \A q \in Paths \ {p} : Gone(q)' => Gone(q)
    BY <1>3, RemoveGiven DEF RemoveDevice
  <2>2. latest'[p] = None /\ \A q \in Paths : q # p => latest'[q] = latest[q]
    BY <1>0, <1>3 DEF RemoveDevice
  <2> QED
    BY <2>1, <2>2 DEF ToldInv
<1>4. CASE TaskStep
  <2>1. UNCHANGED <<plugged, seqnum, phase, existing, queue, latest>>
    BY <1>4 DEF TaskStep, RegisterBatch, DropPreRegistration
  <2>2. Backlog' /\ \A q \in Paths : Gone(q)' = Gone(q)
    BY <2>1 DEF Backlog, UdevTypeOK, LastOfPath, NoEvent, Gone
  <2> QED
    BY <2>1, <2>2 DEF ToldInv
<1> QED
  BY <1>1, <1>2, <1>3, <1>4 DEF LoopStep

\* What is registered is of a device that was there when the loop was last told of it.
LEMMA ToldEnough == Backlog /\ ToldInv /\ RegIInv => QuietIsTrue
<1> SUFFICES ASSUME Backlog, ToldInv, RegIInv, AllGiven, NEW i \in items PROVE i.path \in plugged
  BY DEF QuietIsTrue
<1>1. i.path \in Paths /\ i \in ItemsOf(i.path)
  BY DEF RegIInv, RegTypes, ItemsOf
<1>2. latest[i.path] # None
  BY <1>1 DEF RegIInv, RegistrationsInv, RegistrationIsLatest
<1> QED
  BY <1>1, <1>2, AllGivenGone DEF ToldInv

\* What a provider of one kind has is as at the start while the provider is of another.
OffersIInv ==
  /\ Backlog
  /\ RegIInv /\ ToldInv /\ (provider # "tracked" => \A p \in Paths : latest[p] = None)
  /\ IdsInv /\ (provider # "direct" =>
                  busy = NoId /\ offered = {} /\ \A p \in Paths : ids[p] = NoId)
  /\ ChipInv /\ (provider # "gpio" => TheChip = NoChip)

LEMMA OffersInit == ProviderInit => OffersIInv
<1> SUFFICES ASSUME ProviderInit PROVE OffersIInv
  OBVIOUS
<1>1. ToldInv /\ RegIInv /\ \A p \in Paths : latest[p] = None
  BY RegInitInv DEF ProviderInit, Init, UdevInit, ToldInv
<1>2. Backlog /\ IdsInv /\ busy = NoId /\ offered = {} /\ \A p \in Paths : ids[p] = NoId
  BY IdsInit DEF ProviderInit, DirectInit
<1>3. ChipInv /\ TheChip = NoChip
  BY ChipInit DEF ProviderInit, GpioInit, TheChip
<1> QED
  BY <1>1, <1>2, <1>3 DEF OffersIInv

\* A provider that is not of a kind leaves what is so of that kind.
LEMMA OffersIdle ==
  ASSUME OffersIInv, UNCHANGED provider
  PROVE  /\ provider # "tracked" /\ UNCHANGED regVars =>
              RegIInv' /\ ToldInv' /\ \A p \in Paths : latest'[p] = None
         /\ provider # "direct" /\ UNCHANGED directVars =>
              IdsInv' /\ busy' = NoId /\ offered' = {} /\ \A p \in Paths : ids'[p] = NoId
         /\ provider # "gpio" /\ UNCHANGED gpioVars => ChipInv' /\ TheChip' = NoChip
<1>1. ASSUME provider # "tracked", UNCHANGED regVars
      PROVE  RegIInv' /\ ToldInv' /\ \A p \in Paths : latest'[p] = None
  BY <1>1 DEF OffersIInv, regVars, ToldInv,
              RegIInv, RegTypes, RegistrationsInv, RegistrationIsLatest, ItemsOf
<1>2. ASSUME provider # "direct", UNCHANGED directVars
      PROVE  IdsInv' /\ busy' = NoId /\ offered' = {} /\ \A p \in Paths : ids'[p] = NoId
  BY <1>2 DEF OffersIInv, directVars, IdsInv
<1>3. ASSUME provider # "gpio", UNCHANGED gpioVars
      PROVE  ChipInv' /\ TheChip' = NoChip
  <2>1. UNCHANGED <<registration, setup, left, at, actuators, panicked>>
    BY <1>3 DEF gpioVars
  <2>2. TheChip' = TheChip /\ TheChip = NoChip
    BY <1>3, <2>1 DEF OffersIInv, TheChip
  <2> QED
    BY <2>1, <2>2 DEF OffersIInv, ChipInv
<1> QED
  BY <1>1, <1>2, <1>3

\* Whatever kind of provider it is, a step keeps what is so of all of them.
LEMMA OffersStep == OffersIInv /\ [ProviderNext]_providerVars => OffersIInv'
<1> SUFFICES ASSUME OffersIInv, [ProviderNext]_providerVars PROVE OffersIInv'
  OBVIOUS
<1>1. /\ Backlog /\ RegIInv /\ ToldInv /\ IdsInv /\ ChipInv
      /\ provider' = provider
  BY DEF OffersIInv, ProviderNext, providerVars
<1>2. CASE provider = "tracked" /\ Next /\ UNCHANGED <<directVars, gpioVars, provider>>
  <2>1. RegIInv'
    BY <1>1, <1>2, StepImplements
  <2>2. Backlog' /\ ToldInv'
    <3>1. CASE StreamStep
      BY <1>1, <3>1, StreamStepBacklog, ToldStream DEF StreamStep, regVars
    <3>2. CASE LoopStep \/ TaskStep
      BY <1>1, <3>2, ToldStep
    <3> QED
      BY <1>2, <3>1, <3>2 DEF Next
  <2>3. /\ IdsInv' /\ busy' = NoId /\ offered' = {} /\ \A p \in Paths : ids'[p] = NoId
        /\ ChipInv' /\ TheChip' = NoChip
    BY <1>2, OffersIdle
  <2> QED
    BY <1>1, <1>2, <2>1, <2>2, <2>3 DEF OffersIInv
<1>3. CASE provider = "direct" /\ DirectNext /\ UNCHANGED <<regVars, gpioVars, provider>>
  <2>1. Backlog' /\ IdsInv'
    <3>1. CASE DirectStreamStep
      BY <1>1, <3>1, StreamStepBacklog, IdsStream DEF DirectStreamStep
    <3>2. CASE DirectLoopStep
      BY <1>1, <3>2, IdsLoop
    <3> QED
      BY <1>3, <3>1, <3>2 DEF DirectNext
  <2>2. /\ RegIInv' /\ ToldInv' /\ (\A p \in Paths : latest'[p] = None)
        /\ ChipInv' /\ TheChip' = NoChip
    BY <1>3, OffersIdle
  <2> QED
    BY <1>1, <1>3, <2>1, <2>2 DEF OffersIInv
<1>4. CASE provider = "gpio" /\ GpioNext /\ UNCHANGED <<regVars, directVars, provider>>
  <2>1. Backlog' /\ ChipInv'
    <3>1. CASE (KernelStep \/ Listen \/ Scan) /\ UNCHANGED gpioVars
      BY <1>1, <3>1, StreamStepBacklog, ChipStream
    <3>2. CASE GpioStep
      BY <1>1, <3>2, ChipStep
    <3> QED
      BY <1>4, <3>1, <3>2 DEF GpioNext
  <2>2. /\ RegIInv' /\ ToldInv' /\ (\A p \in Paths : latest'[p] = None)
        /\ IdsInv' /\ busy' = NoId /\ offered' = {} /\ \A p \in Paths : ids'[p] = NoId
    BY <1>4, OffersIdle
  <2> QED
    BY <1>1, <1>4, <2>1, <2>2 DEF OffersIInv
<1>5. CASE UNCHANGED providerVars
  <2>1. /\ UNCHANGED <<plugged, seqnum, phase, existing, queue>> /\ UNCHANGED regVars
        /\ UNCHANGED directVars /\ UNCHANGED gpioVars /\ UNCHANGED provider
    BY <1>5 DEF providerVars, vars, regVars
  <2>2. Backlog' /\ phase' = phase /\ (\A q \in Paths : Gone(q)' = Gone(q))
    BY <1>1, <2>1 DEF Backlog, UdevTypeOK, LastOfPath, NoEvent, Gone
  <2>3. RegIInv' /\ ToldInv' /\ IdsInv' /\ ChipInv'
    <3>1. RegIInv'
      BY <1>1, <2>1 DEF regVars, RegIInv, RegTypes, RegistrationsInv, RegistrationIsLatest, ItemsOf
    <3> QED
      BY <1>1, <2>1, <2>2, <3>1, ToldStream, IdsStream, ChipStream DEF regVars
  <2>4. UNCHANGED <<latest, busy, offered, ids, TheChip>>
    BY <2>1 DEF regVars, directVars, gpioVars, TheChip
  <2> QED
    BY <2>1, <2>2, <2>3, <2>4 DEF OffersIInv
<1> QED
  BY <1>2, <1>3, <1>4, <1>5 DEF ProviderNext

\* Whatever the kernel reports around the start of a provider, and whichever way it keeps
\* its registrations: once it has been given everything, what it offers is of devices
\* that are there, but for what it displaced itself or left when it panicked
\* (DeviceRegistrations, the loops of the serial, dfu, rockusb and gpio providers).
THEOREM OffersSafe == ProviderSpec => []OfferedInv
<1>1. OffersIInv => OfferedInv
  BY ToldEnough, IdsEnough, ChipEnough DEF OffersIInv, OfferedInv
<1> QED
  BY <1>1, OffersInit, OffersStep, PTL DEF ProviderSpec

-----------------------------------------------------------------------------
(* The controller of a HiFive P550 board. *)

McuRequests ==
  {PromptLine} \cup {GetRequest(a) : a \in McuCommand} \cup [kind : {"set"}, of : Messages]

McuLines == {PromptLine} \cup [kind : {"status", "told"}, of : Messages]

IsSet(r, a) == r.kind = "set" /\ r.of.actuator = a
IsTold(l, a) == l.kind = "told" /\ l.of.actuator = a
IsStatus(l, a) == l.kind = "status" /\ l.of.actuator = a

NoSets(a) == \A i \in 1 .. Len(work) : ~ IsSet(work[i], a)
NoTold(a) == \A i \in 1 .. Len(line) : ~ IsTold(line[i], a)

\* What the lines after the n-th say of the mode is so.
TrueAfter(a, n) ==
  \A i \in 1 .. Len(line) : i > n /\ IsStatus(line[i], a) => line[i].of.mode = board[a]

\* Nothing that would change the mode of the actuator is on its way, or is reported late.
Answered(a) == NoSets(a) /\ NoTold(a) /\ TrueAfter(a, 0)

\* The request to set the mode has been sent: it is still to be carried out, or has been.
SetSent(a) ==
  /\ NoTold(a)
  /\ \A i, j \in 1 .. Len(work) :
       IsSet(work[i], a) /\ IsSet(work[j], a) => i = j /\ work[i].of.mode = current.mode
SetTold(a) ==
  /\ NoSets(a) /\ board[a] = current.mode
  /\ \A i, j \in 1 .. Len(line) :
       IsTold(line[i], a) /\ IsTold(line[j], a) =>
         i = j /\ line[i].of.mode = current.mode /\ TrueAfter(a, i)

Setting(a) == step = "set" /\ current.actuator = a

McuTypes ==
  /\ McuTypeOK
  /\ DOMAIN board = McuCommand /\ DOMAIN done = McuCommand
  /\ work \in Seq(McuRequests) /\ line \in Seq(McuLines)

\* An actuator that no request in doubt was made for: what is on the line agrees with the
\* board, or its own request is under way.
McuSettled(a) ==
  /\ ~ Setting(a) => Answered(a)
  /\ Setting(a) => done[a] = NoMode /\ (SetSent(a) \/ SetTold(a))

McuIInv ==
  /\ McuTypes
  /\ \A a \in McuCommand \ unsure : McuSettled(a) /\ done[a] \in {NoMode, board[a]}

\* What is left of a queue, and a queue that something has come in to.
LEMMA TailFacts ==
  ASSUME NEW S, NEW s \in Seq(S), s # << >>
  PROVE  /\ Tail(s) \in Seq(S) /\ Head(s) = s[1] /\ s[1] \in S
         /\ Len(s) \in Nat \ {0} /\ Len(Tail(s)) = Len(s) - 1
         /\ \A i \in 1 .. Len(s) - 1 : Tail(s)[i] = s[i + 1]
  OBVIOUS

LEMMA AppendFacts ==
  ASSUME NEW S, NEW s \in Seq(S), NEW e \in S
  PROVE  /\ Append(s, e) \in Seq(S) /\ Len(s) \in Nat /\ Len(Append(s, e)) = Len(s) + 1
         /\ Append(s, e)[Len(s) + 1] = e
         /\ \A i \in 1 .. Len(s) : Append(s, e)[i] = s[i]
  OBVIOUS

LEMMA AppendTwoFacts ==
  ASSUME NEW S, NEW s \in Seq(S), NEW d \in S, NEW e \in S
  PROVE  /\ s \o <<d, e>> \in Seq(S) /\ Len(s) \in Nat /\ Len(s \o <<d, e>>) = Len(s) + 2
         /\ (s \o <<d, e>>)[Len(s) + 1] = d /\ (s \o <<d, e>>)[Len(s) + 2] = e
         /\ \A i \in 1 .. Len(s) : (s \o <<d, e>>)[i] = s[i]
<1>1. <<d, e>> \in Seq(S) /\ Len(<<d, e>>) = 2 /\ <<d, e>>[1] = d /\ <<d, e>>[2] = e
  OBVIOUS
<1>2. s \o <<d, e>> \in Seq(S) /\ Len(s \o <<d, e>>) = Len(s) + 2
  BY <1>1
<1> QED
  BY <1>1, <1>2

\* A line has been read: what was so of the lines is so of those that are left, and after
\* the reply to a request to set there is none that could be taken for one.
LEMMA LineRead ==
  ASSUME line \in Seq(McuLines), line # << >>, line' = Tail(line),
         UNCHANGED <<work, board>>, NEW a
  PROVE  /\ line' \in Seq(McuLines) /\ Head(line) \in McuLines
         /\ Answered(a) => Answered(a)' /\ ~ IsTold(Head(line), a)
                           /\ (IsStatus(Head(line), a) => Head(line).of.mode = board[a])
         /\ SetSent(a) => ~ IsTold(Head(line), a) /\ (UNCHANGED current => SetSent(a)')
         /\ SetTold(a) /\ IsTold(Head(line), a) => Answered(a)' /\ Head(line).of.mode = current.mode
         /\ SetTold(a) /\ UNCHANGED current => SetTold(a)'
<1>1. PICK n \in Nat \ {0} : n = Len(line) /\ n - 1 = Len(line')
  BY TailFacts
<1>2. /\ line' \in Seq(McuLines) /\ Head(line) \in McuLines /\ Head(line) = line[1]
      /\ \A i \in 1 .. n - 1 : line'[i] = line[i + 1]
  BY <1>1, TailFacts
<1>3. /\ 1 \in 1 .. n /\ 1 > 0
      /\ \A i \in 1 .. n - 1 : i + 1 \in 1 .. n /\ i + 1 > 0 /\ i + 1 > 1
      /\ \A i, j \in 1 .. n - 1 : i > j => i + 1 > j + 1
      /\ \A i, j \in 1 .. n - 1 : i + 1 = j + 1 => i = j
      /\ \A i \in 1 .. n - 1 : i + 1 # 1
  OBVIOUS
<1>4. NoSets(a)' = NoSets(a)
  BY DEF NoSets
<1>5. NoTold(a) => NoTold(a)' /\ ~ IsTold(Head(line), a)
  BY <1>1, <1>2, <1>3 DEF NoTold
<1>6. TrueAfter(a, 0) => TrueAfter(a, 0)' /\ (IsStatus(Head(line), a) => Head(line).of.mode = board[a])
  BY <1>1, <1>2, <1>3 DEF TrueAfter
<1>7. ASSUME NEW i \in 1 .. n - 1, TrueAfter(a, i + 1) PROVE TrueAfter(a, i)'
  BY <1>1, <1>2, <1>3, <1>7 DEF TrueAfter
<1>8. ASSUME TrueAfter(a, 1) PROVE TrueAfter(a, 0)'
  BY <1>1, <1>2, <1>3, <1>8 DEF TrueAfter
<1>9. ASSUME SetSent(a), UNCHANGED current PROVE SetSent(a)'
  BY <1>5, <1>9 DEF SetSent
<1>10. ASSUME SetTold(a), IsTold(Head(line), a)
       PROVE  Answered(a)' /\ Head(line).of.mode = current.mode
  <2>1. TrueAfter(a, 1) /\ Head(line).of.mode = current.mode
    BY <1>1, <1>2, <1>3, <1>10 DEF SetTold
  <2>2. NoTold(a)'
    BY <1>1, <1>2, <1>3, <1>10 DEF SetTold, NoTold
  <2> QED
    BY <1>4, <1>8, <1>10, <2>1, <2>2 DEF SetTold, Answered
<1>11. ASSUME SetTold(a), UNCHANGED current PROVE SetTold(a)'
  BY <1>1, <1>2, <1>3, <1>4, <1>7, <1>11 DEF SetTold
<1> QED
  BY <1>2, <1>4, <1>5, <1>6, <1>9, <1>10, <1>11 DEF Answered, SetSent

\* The controller has been told something that is not to set the mode of the actuator.
LEMMA WorkGrows ==
  ASSUME work \in Seq(McuRequests), NEW d \in McuRequests, NEW e \in McuRequests,
         work' \in {Append(work, d), work \o <<d, e>>}, UNCHANGED <<line, board>>, NEW a
  PROVE  /\ work' \in Seq(McuRequests)
         /\ ~ IsSet(d, a) /\ ~ IsSet(e, a) /\ Answered(a) => Answered(a)'
         /\ ~ IsSet(e, a) /\ d.of.mode = current'.mode /\ Answered(a) => SetSent(a)'
<1>1. PICK n \in Nat : n = Len(work)
  BY AppendFacts
<1>2. /\ work' \in Seq(McuRequests) /\ \A i \in 1 .. n : work'[i] = work[i]
      /\ \/ Len(work') = n + 1 /\ work'[n + 1] = d
         \/ Len(work') = n + 2 /\ work'[n + 1] = d /\ work'[n + 2] = e
  <2>1. CASE work' = Append(work, d)
    BY <1>1, <2>1, AppendFacts
  <2>2. CASE work' = work \o <<d, e>>
    BY <1>1, <2>2, AppendTwoFacts
  <2> QED
    BY <2>1, <2>2
<1>3. \A i \in 1 .. Len(work') : i \in 1 .. n \/ i = n + 1 \/ (i = n + 2 /\ work'[i] = e)
  BY <1>2
<1>4. NoTold(a)' = NoTold(a) /\ TrueAfter(a, 0)' = TrueAfter(a, 0)
  BY DEF NoTold, TrueAfter
<1>5. ASSUME ~ IsSet(d, a), ~ IsSet(e, a), NoSets(a) PROVE NoSets(a)'
  BY <1>1, <1>2, <1>3, <1>5 DEF NoSets
<1>6. ASSUME ~ IsSet(e, a), d.of.mode = current'.mode, Answered(a) PROVE SetSent(a)'
  <2>1. \A i \in 1 .. Len(work') : IsSet(work'[i], a) => i = n + 1
    BY <1>1, <1>2, <1>3, <1>6 DEF Answered, NoSets
  <2>2. work'[n + 1] = d
    BY <1>2
  <2> QED
    BY <1>4, <1>6, <2>1, <2>2 DEF SetSent, Answered
<1> QED
  BY <1>2, <1>4, <1>5, <1>6 DEF Answered

\* What messages, requests and lines consist of.
LEMMA McuKinds ==
  /\ \A a \in McuCommand : \A m \in ModesOf(a) :
       /\ Message(a, m) \in Messages /\ Message(a, m) # NoMessage
       /\ GetRequest(a) \in McuRequests /\ SetRequest(a, m) \in McuRequests
       /\ Status(a, m) \in McuLines /\ Told(a, m) \in McuLines
  /\ PromptLine \in McuRequests /\ PromptLine \in McuLines
  /\ \A c \in Messages : /\ c.actuator \in McuCommand /\ c.mode \in ModesOf(c.actuator)
                         /\ c = Message(c.actuator, c.mode) /\ c # NoMessage
  /\ \A r \in McuRequests :
       /\ r.kind \in {"prompt", "get", "set"}
       /\ r.kind \in {"get", "set"} => r.of.actuator \in McuCommand
       /\ r.kind = "set" => r.of.mode \in ModesOf(r.of.actuator)
  /\ \A l \in McuLines :
       /\ l.kind \in {"status", "told"} => l.of = Message(l.of.actuator, l.of.mode)
       /\ l.kind = "status" => l.of.actuator \in McuCommand /\ l.of.mode \in ModesOf(l.of.actuator)
<1>1. /\ \A a \in McuCommand : \A m \in ModesOf(a) : Message(a, m) \in Messages
      /\ \A c \in Messages : /\ c.actuator \in McuCommand /\ c.mode \in ModesOf(c.actuator)
                             /\ c = Message(c.actuator, c.mode)
  BY DEF Messages, Message
<1>2. "none" \notin McuCommand /\ \A a, m : Message(a, m) = NoMessage => a = "none"
  BY DEF McuCommand, Message, NoMessage
<1>3. \A a \in McuCommand : \A m \in ModesOf(a) :
        /\ GetRequest(a) \in McuRequests /\ SetRequest(a, m) \in McuRequests
        /\ Status(a, m) \in McuLines /\ Told(a, m) \in McuLines
  BY <1>1 DEF McuRequests, McuLines, SetRequest, Status, Told
<1>4. PromptLine \in McuRequests /\ PromptLine \in McuLines
  BY DEF McuRequests, McuLines
<1>5. ASSUME NEW r \in McuRequests
      PROVE  /\ r.kind \in {"prompt", "get", "set"}
             /\ r.kind \in {"get", "set"} => r.of.actuator \in McuCommand
             /\ r.kind = "set" => r.of.mode \in ModesOf(r.of.actuator)
  <2>1. CASE r = PromptLine
    BY <2>1 DEF PromptLine
  <2>2. ASSUME NEW a \in McuCommand, r = GetRequest(a)
        PROVE  r.kind = "get" /\ r.of.actuator = a
    BY <2>2 DEF GetRequest, Message
  <2>3. CASE r \in [kind : {"set"}, of : Messages]
    BY <2>3, <1>1
  <2> QED
    BY <2>1, <2>2, <2>3 DEF McuRequests
<1>6. ASSUME NEW l \in McuLines
      PROVE  /\ l.kind \in {"status", "told"} => l.of = Message(l.of.actuator, l.of.mode)
             /\ l.kind = "status" => l.of.actuator \in McuCommand /\ l.of.mode \in ModesOf(l.of.actuator)
  <2>1. CASE l = PromptLine
    BY <2>1 DEF PromptLine
  <2>2. CASE l \in [kind : {"status", "told"}, of : Messages]
    BY <2>2, <1>1
  <2> QED
    BY <2>1, <2>2 DEF McuLines
<1> QED
  BY <1>1, <1>2, <1>3, <1>4, <1>5, <1>6

\* A call comes in, and the task takes it up.
LEMMA McuCall ==
  ASSUME McuIInv, NEW a \in McuCommand, NEW m \in ModesOf(a), SetMode(a, m)
  PROVE  McuIInv'
<1>1. /\ requests' = requests + 1 /\ requests < MaxRequests /\ Len(exec) < QueueCap
      /\ exec' = Append(exec, Message(a, m))
      /\ UNCHANGED <<step, current, work, line, cut, board, done, unsure>>
  BY DEF SetMode
<1>2. McuTypeOK'
  <2>1. exec' \in Seq(Messages) /\ Len(exec') = Len(exec) + 1 /\ Len(exec) \in Nat
    BY <1>1, McuKinds, AppendFacts DEF McuIInv, McuTypes, McuTypeOK
  <2>2. requests' \in 0 .. MaxRequests /\ Len(exec') <= QueueCap
    BY <1>1, <2>1, McuAssumption DEF McuAssumption, McuIInv, McuTypes, McuTypeOK
  <2> QED
    BY <1>1, <2>1, <2>2 DEF McuIInv, McuTypes, McuTypeOK
<1> QED
  BY <1>1, <1>2 DEF McuIInv, McuTypes, McuSettled, Setting, Answered, SetSent, SetTold,
                    NoSets, NoTold, TrueAfter

LEMMA McuTake ==
  ASSUME McuIInv, TakeMessage
  PROVE  McuIInv'
<1>1. /\ step = "idle" /\ exec # << >> /\ current' = Head(exec) /\ exec' = Tail(exec)
      /\ step' = "prompt" /\ work' = Append(work, PromptLine)
      /\ UNCHANGED <<requests, line, cut, board, done, unsure>>
  BY DEF TakeMessage
<1>2. /\ current' \in Messages /\ exec' \in Seq(Messages) /\ Len(exec') <= QueueCap
  <2>1. PICK n \in Nat \ {0} : n = Len(exec) /\ Len(exec') = n - 1 /\ n <= QueueCap
                               /\ exec' \in Seq(Messages) /\ current' \in Messages
    BY <1>1, TailFacts DEF McuIInv, McuTypes, McuTypeOK
  <2>2. QueueCap \in Nat
    BY McuAssumption DEF McuAssumption
  <2> QED
    BY <2>1, <2>2
<1>3. McuTypeOK'
  <2>1. current' # NoMessage
    BY <1>2, McuKinds
  <2> QED
    BY <1>1, <1>2, <2>1 DEF McuIInv, McuTypes, McuTypeOK
<1>4. work' \in Seq(McuRequests) /\ \A b \in McuCommand : Answered(b) => Answered(b)'
  <2>1. \A b : ~ IsSet(PromptLine, b)
    BY DEF IsSet, PromptLine
  <2> QED
    BY <1>1, <2>1, McuKinds, WorkGrows DEF McuIInv, McuTypes
<1>5. \A b \in McuCommand : ~ Setting(b) /\ ~ Setting(b)'
  BY <1>1 DEF Setting
<1> QED
  BY <1>1, <1>3, <1>4, <1>5 DEF McuIInv, McuTypes, McuSettled

\* Before a prompt nothing counts; then the mode is asked for.
LEMMA McuPrompt ==
  ASSUME McuIInv, ReadPrompt
  PROVE  McuIInv'
<1>1. /\ step = "prompt" /\ line # << >> /\ line' = Tail(line)
      /\ UNCHANGED <<requests, exec, current, cut, board, done, unsure>>
      /\ \/ step' = "get" /\ work' = work \o <<GetRequest(current.actuator), PromptLine>>
         \/ UNCHANGED <<step, work>>
  BY DEF ReadPrompt, mcuCallVars
<1>2. /\ work \in Seq(McuRequests) /\ line \in Seq(McuLines) /\ current \in Messages
      /\ current.actuator \in McuCommand /\ GetRequest(current.actuator) \in McuRequests
      /\ PromptLine \in McuRequests
  BY <1>1, McuKinds DEF McuIInv, McuTypes, McuTypeOK
<1>3. McuTypeOK'
  BY <1>1 DEF McuIInv, McuTypes, McuTypeOK
<1>4. \A b \in McuCommand : ~ Setting(b) /\ ~ Setting(b)'
  BY <1>1 DEF Setting
<1>5. line' \in Seq(McuLines) /\ work' \in Seq(McuRequests)
      /\ \A b \in McuCommand : Answered(b) => Answered(b)'
  <2>1. CASE UNCHANGED work
    BY <1>1, <1>2, <2>1, LineRead
  <2>2. CASE work' = work \o <<GetRequest(current.actuator), PromptLine>>
    <3>1. line' \in Seq(McuLines)
      BY <1>1, <1>2, TailFacts
    <3>2. work' \in Seq(McuRequests)
      BY <1>2, <2>2, AppendTwoFacts
    <3>3. ASSUME NEW b \in McuCommand, Answered(b) PROVE Answered(b)'
      <4>1. NoTold(b)' /\ TrueAfter(b, 0)'
        <5>1. PICK n \in Nat \ {0} : n = Len(line) /\ n - 1 = Len(line')
          BY <1>1, <1>2, TailFacts
        <5>2. \A i \in 1 .. n - 1 : line'[i] = line[i + 1] /\ i + 1 \in 1 .. n /\ i + 1 > 0
          BY <1>1, <1>2, <5>1, TailFacts
        <5> QED
          BY <1>1, <3>3, <5>1, <5>2 DEF Answered, NoTold, TrueAfter
      <4>2. NoSets(b)'
        <5>0. /\ Len(work) \in Nat /\ Len(work') = Len(work) + 2
              /\ work'[Len(work) + 1] = GetRequest(current.actuator)
              /\ work'[Len(work) + 2] = PromptLine
              /\ \A i \in 1 .. Len(work) : work'[i] = work[i]
          BY <1>2, <2>2, AppendTwoFacts
        <5>1. PICK n \in Nat : n = Len(work) /\ Len(work') = n + 2
                /\ work'[n + 1] = GetRequest(current.actuator) /\ work'[n + 2] = PromptLine
                /\ \A i \in 1 .. n : work'[i] = work[i]
          BY <5>0
        <5>2. \A i \in 1 .. n + 2 : i \in 1 .. n \/ i = n + 1 \/ i = n + 2
          OBVIOUS
        <5>3. ~ IsSet(GetRequest(current.actuator), b) /\ ~ IsSet(PromptLine, b)
          BY DEF IsSet, GetRequest, PromptLine
        <5> QED
          BY <3>3, <5>1, <5>2, <5>3 DEF Answered, NoSets
      <4> QED
        BY <4>1, <4>2 DEF Answered
    <3> QED
      BY <3>1, <3>2, <3>3
  <2> QED
    BY <1>1, <2>1, <2>2
<1> QED
  BY <1>1, <1>3, <1>4, <1>5 DEF McuIInv, McuTypes, McuSettled

\* Time runs out: a request to set leaves its actuator in doubt.
LEMMA McuTimeOut ==
  ASSUME McuIInv, TimeOut
  PROVE  McuIInv'
<1>1. /\ step' = "idle" /\ current' = NoMessage /\ cut' \in BOOLEAN
      /\ unsure' = IF step = "set" THEN unsure \cup {current.actuator} ELSE unsure
      /\ step \in {"prompt", "get", "set"}
      /\ UNCHANGED <<requests, exec, work, line, board, done>>
  BY DEF TimeOut, mcuCallVars, McuIInv, McuTypes, McuTypeOK
<1>2. current \in Messages /\ current.actuator \in McuCommand
  BY <1>1, McuKinds DEF McuIInv, McuTypes, McuTypeOK
<1>3. McuTypeOK'
  BY <1>1, <1>2 DEF McuIInv, McuTypes, McuTypeOK
<1>4. \A b \in McuCommand \ unsure' : ~ Setting(b) /\ ~ Setting(b)' /\ b \notin unsure
  BY <1>1 DEF Setting
<1> QED
  BY <1>1, <1>3, <1>4 DEF McuIInv, McuTypes, McuSettled, Answered, NoSets, NoTold, TrueAfter

\* The reply to the request for the mode: while no request to set is in doubt, it is that
\* of the board, however old it is.
LEMMA McuStatus ==
  ASSUME McuIInv, ReadStatus
  PROVE  McuIInv'
<1> DEFINE reply == Head(line)
           own == current.actuator
<1>1. /\ step = "get" /\ line # << >> /\ line' = Tail(line)
      /\ UNCHANGED <<requests, exec, cut, board, unsure>>
  BY DEF ReadStatus, mcuCallVars
<1>2. /\ work \in Seq(McuRequests) /\ line \in Seq(McuLines) /\ current \in Messages
      /\ own \in McuCommand /\ current.mode \in ModesOf(own) /\ current = Message(own, current.mode)
      /\ SetRequest(own, current.mode) \in McuRequests /\ PromptLine \in McuRequests
  BY <1>1, McuKinds DEF McuIInv, McuTypes, McuTypeOK
<1>3. \A b \in McuCommand : ~ Setting(b)
  BY <1>1 DEF Setting
<1>4. line' \in Seq(McuLines) /\ reply \in McuLines
  BY <1>1, <1>2, TailFacts
<1>5. ASSUME UNCHANGED work, NEW b \in McuCommand, Answered(b)
      PROVE  Answered(b)' /\ (IsStatus(reply, b) => reply.of.mode = board[b])
  BY <1>1, <1>2, <1>5, LineRead
<1>6. CASE reply = Status(own, current.mode) /\ Answer(current.mode) /\ UNCHANGED work
  <2>1. /\ step' = "idle" /\ current' = NoMessage
        /\ done' = [done EXCEPT ![own] = current.mode] /\ UNCHANGED work
    BY <1>6 DEF Answer
  <2>2. IsStatus(reply, own) /\ reply.of.mode = current.mode
    BY <1>6 DEF IsStatus, Status, Message
  <2>3. DOMAIN done' = McuCommand /\ done'[own] = current.mode
        /\ \A b \in McuCommand : b # own => done'[b] = done[b]
    BY <1>2, <2>1 DEF McuIInv, McuTypes
  <2>4. McuTypes'
    BY <1>1, <1>2, <1>4, <2>1, <2>3 DEF McuIInv, McuTypes, McuTypeOK
  <2>5. ASSUME NEW b \in McuCommand \ unsure PROVE Answered(b)' /\ done'[b] \in {NoMode, board[b]}
    <3>1. Answered(b)
      BY <1>3 DEF McuIInv, McuSettled
    <3> QED
      BY <1>5, <2>1, <2>2, <2>3, <3>1 DEF McuIInv
  <2>6. \A b \in McuCommand : ~ Setting(b)'
    BY <2>1 DEF Setting
  <2> QED
    BY <1>1, <2>4, <2>5, <2>6 DEF McuIInv, McuSettled
<1>7. CASE /\ step' = "set" /\ work' = work \o <<SetRequest(own, current.mode), PromptLine>>
           /\ done' = [done EXCEPT ![own] = NoMode] /\ UNCHANGED current
  <2>1. DOMAIN done' = McuCommand /\ done'[own] = NoMode
        /\ \A b \in McuCommand : b # own => done'[b] = done[b]
    BY <1>2, <1>7 DEF McuIInv, McuTypes
  <2>2. work' \in Seq(McuRequests)
    BY <1>2, <1>7, AppendTwoFacts
  <2>3. McuTypes'
    BY <1>1, <1>2, <1>4, <1>7, <2>1, <2>2 DEF McuIInv, McuTypes, McuTypeOK
  <2>4. \A b : IsSet(SetRequest(own, current.mode), b) => b = own
    BY DEF IsSet, SetRequest, Message
  <2>5. SetRequest(own, current.mode).of.mode = current.mode /\ \A b : ~ IsSet(PromptLine, b)
    BY DEF SetRequest, Message, IsSet, PromptLine
  <2>60. /\ Len(work) \in Nat /\ Len(work') = Len(work) + 2
         /\ work'[Len(work) + 1] = SetRequest(own, current.mode)
         /\ work'[Len(work) + 2] = PromptLine
         /\ \A i \in 1 .. Len(work) : work'[i] = work[i]
    BY <1>2, <1>7, AppendTwoFacts
  <2>6. PICK n \in Nat : n = Len(work) /\ Len(work') = n + 2
          /\ work'[n + 1] = SetRequest(own, current.mode) /\ work'[n + 2] = PromptLine
          /\ \A i \in 1 .. n : work'[i] = work[i]
    BY <2>60
  <2>7. \A i \in 1 .. n + 2 : i \in 1 .. n \/ i = n + 1 \/ i = n + 2
    OBVIOUS
  <2>8. ASSUME NEW b \in McuCommand \ unsure
        PROVE  /\ NoTold(b)' /\ TrueAfter(b, 0)'
               /\ b # own => NoSets(b)'
               /\ b = own => \A i \in 1 .. n + 2 : IsSet(work'[i], b) => i = n + 1
    <3>1. Answered(b)
      BY <1>3 DEF McuIInv, McuSettled
    <3>2. NoTold(b)' /\ TrueAfter(b, 0)'
      <4>1. PICK k \in Nat \ {0} : k = Len(line) /\ k - 1 = Len(line')
        BY <1>1, <1>2, TailFacts
      <4>2. \A i \in 1 .. k - 1 : line'[i] = line[i + 1] /\ i + 1 \in 1 .. k /\ i + 1 > 0
        BY <1>1, <1>2, <4>1, TailFacts
      <4> QED
        BY <1>1, <3>1, <4>1, <4>2 DEF Answered, NoTold, TrueAfter
    <3>3. \A i \in 1 .. n : ~ IsSet(work'[i], b)
      BY <2>6, <3>1 DEF Answered, NoSets
    <3>4. b # own => NoSets(b)'
      BY <2>4, <2>5, <2>6, <2>7, <3>3 DEF NoSets
    <3>5. \A i \in 1 .. n + 2 : IsSet(work'[i], b) => i = n + 1
      BY <2>5, <2>6, <2>7, <3>3
    <3> QED
      BY <3>2, <3>4, <3>5
  <2>9. ASSUME NEW b \in McuCommand \ unsure PROVE McuSettled(b)' /\ done'[b] \in {NoMode, board[b]}
    <3>1. CASE b = own
      <4>1. SetSent(b)'
        BY <1>7, <2>5, <2>6, <2>8, <3>1 DEF SetSent
      <4>2. Setting(b)'
        BY <1>7, <3>1 DEF Setting
      <4> QED
        BY <2>1, <3>1, <4>1, <4>2 DEF McuSettled
    <3>2. CASE b # own
      <4>1. ~ Setting(b)' /\ Answered(b)'
        BY <1>7, <2>8, <3>2 DEF Setting, Answered
      <4> QED
        BY <2>1, <3>2, <4>1 DEF McuSettled, McuIInv
    <3> QED
      BY <3>1, <3>2
  <2> QED
    BY <1>1, <2>3, <2>9 DEF McuIInv
<1>8. CASE UNCHANGED <<step, current, done, work>>
  <2>1. McuTypes'
    BY <1>1, <1>4, <1>8 DEF McuIInv, McuTypes, McuTypeOK
  <2>2. \A b \in McuCommand : ~ Setting(b)'
    BY <1>1, <1>8 DEF Setting
  <2> QED
    BY <1>1, <1>3, <1>5, <1>8, <2>1, <2>2 DEF McuIInv, McuSettled
<1> QED
  BY <1>6, <1>7, <1>8 DEF ReadStatus

\* The reply to the request to set: there is no other one that it could be.
LEMMA McuTold ==
  ASSUME McuIInv, ReadTold
  PROVE  McuIInv'
<1> DEFINE reply == Head(line)
<1>0. PICK own : own = current.actuator
  OBVIOUS
<1>1. /\ step = "set" /\ line # << >> /\ line' = Tail(line)
      /\ UNCHANGED <<requests, exec, work, cut, board, unsure>>
  BY DEF ReadTold, mcuCallVars
<1>2. /\ work \in Seq(McuRequests) /\ line \in Seq(McuLines) /\ current \in Messages
      /\ own \in McuCommand /\ current.mode \in ModesOf(own) /\ current = Message(own, current.mode)
  BY <1>0, <1>1, McuKinds DEF McuIInv, McuTypes, McuTypeOK
<1>3. line' \in Seq(McuLines) /\ reply \in McuLines
  BY <1>1, <1>2, TailFacts
<1>4. ASSUME NEW b \in McuCommand \ unsure, b # own
      PROVE  Answered(b)'
  <2>1. Answered(b)
    BY <1>0, <1>4 DEF McuIInv, McuSettled, Setting
  <2> QED
    BY <1>1, <1>2, <2>1, LineRead
<1>5. own \notin unsure => done[own] = NoMode /\ (SetSent(own) \/ SetTold(own))
  BY <1>0, <1>1, <1>2 DEF McuIInv, McuSettled, Setting
<1>6. ASSUME own \notin unsure, IsTold(reply, own)
      PROVE  Answered(own)' /\ reply.of.mode = current.mode /\ board[own] = current.mode
  <2>1. SetTold(own)
    BY <1>1, <1>2, <1>5, <1>6, LineRead
  <2>2. Answered(own)' /\ reply.of.mode = current.mode
    BY <1>1, <1>2, <1>6, <2>1, LineRead
  <2> QED
    BY <2>1, <2>2 DEF SetTold
<1>7. ASSUME NEW m \in {current.mode, NoMode}, Answer(m), IsTold(reply, own),
             m = NoMode => own \in unsure \/ current.mode = NoMode
      PROVE  McuIInv'
  <2>1. /\ step' = "idle" /\ current' = NoMessage /\ done' = [done EXCEPT ![own] = m]
    BY <1>0, <1>7 DEF Answer
  <2>2. DOMAIN done' = McuCommand /\ done'[own] = m
        /\ \A b \in McuCommand : b # own => done'[b] = done[b]
    BY <1>2, <2>1 DEF McuIInv, McuTypes
  <2>3. McuTypes'
    BY <1>1, <1>2, <1>3, <2>1, <2>2 DEF McuIInv, McuTypes, McuTypeOK
  <2>4. ASSUME NEW b \in McuCommand \ unsure PROVE Answered(b)' /\ done'[b] \in {NoMode, board[b]}
    <3>1. CASE b = own
      BY <1>6, <1>7, <2>2, <3>1
    <3>2. CASE b # own
      BY <1>4, <2>2, <3>2 DEF McuIInv
    <3> QED
      BY <3>1, <3>2
  <2>5. \A b \in McuCommand : ~ Setting(b)'
    BY <2>1 DEF Setting
  <2> QED
    BY <1>1, <2>3, <2>4, <2>5 DEF McuIInv, McuSettled
<1>8. ASSUME reply.kind = "told", reply.of # current, reply.of.actuator = own
      PROVE  own \in unsure
  <2>1. reply.of = Message(own, reply.of.mode) /\ IsTold(reply, own)
    BY <1>3, <1>8, McuKinds DEF IsTold
  <2> QED
    BY <1>2, <1>6, <1>8, <2>1
<1>9. CASE reply = Told(own, current.mode) /\ Answer(current.mode)
  <2>1. IsTold(reply, own)
    BY <1>9 DEF IsTold, Told, Message
  <2> QED
    BY <1>7, <1>9, <2>1
<1>10. CASE /\ reply.kind = "told" /\ reply.of # current
            /\ reply.of.actuator = "boot-sel" /\ own = "boot-sel" /\ Answer(NoMode)
  <2>1. IsTold(reply, own) /\ own \in unsure
    BY <1>8, <1>10 DEF IsTold
  <2> QED
    BY <1>7, <1>10, <2>1
<1>11. CASE /\ \/ reply.kind # "told" \/ reply.of.actuator # own
               \/ own = "som-power" /\ reply.of # current
            /\ UNCHANGED <<step, current, done>>
  <2>1. own \notin unsure => ~ IsTold(reply, own)
    BY <1>8, <1>11 DEF IsTold
  <2>2. McuTypes'
    BY <1>1, <1>3, <1>11 DEF McuIInv, McuTypes, McuTypeOK
  <2>3. ASSUME own \notin unsure PROVE SetSent(own)' \/ SetTold(own)'
    BY <1>1, <1>2, <1>5, <1>11, <2>3, LineRead
  <2>4. \A b \in McuCommand : Setting(b)' <=> b = own
    BY <1>0, <1>1, <1>11 DEF Setting
  <2> QED
    BY <1>1, <1>4, <1>5, <1>11, <2>2, <2>3, <2>4 DEF McuIInv, McuSettled
<1> QED
  BY <1>0, <1>9, <1>10, <1>11 DEF ReadTold

\* What the controller says of a mode is what it is when it says it.
LEMMA McuServe ==
  ASSUME McuIInv, Serve
  PROVE  McuIInv'
<1> DEFINE request == Head(work)
           a == request.of.actuator
           said == CASE request.kind = "get" -> Status(a, board[a])
                     [] request.kind = "set" -> Told(a, request.of.mode)
                     [] request.kind = "prompt" -> PromptLine
<1>1. /\ work # << >> /\ work' = Tail(work)
      /\ line' \in {line, Append(line, said)}
      /\ board' = IF request.kind = "set" THEN [board EXCEPT ![a] = request.of.mode] ELSE board
      /\ cut' = FALSE
      /\ UNCHANGED <<requests, exec, step, current, done, unsure>>
  BY DEF Serve, mcuCallVars
<1>2. work \in Seq(McuRequests) /\ line \in Seq(McuLines)
      /\ DOMAIN board = McuCommand /\ \A b \in McuCommand : board[b] \in ModesOf(b)
  BY DEF McuIInv, McuTypes, McuTypeOK
<1>3. PICK n \in Nat \ {0} : n = Len(work) /\ Len(work') = n - 1 /\ work' \in Seq(McuRequests)
        /\ request = work[1] /\ request \in McuRequests
        /\ \A i \in 1 .. n - 1 : work'[i] = work[i + 1]
  BY <1>1, <1>2, TailFacts
<1>4. /\ request.kind \in {"prompt", "get", "set"}
      /\ request.kind \in {"get", "set"} => a \in McuCommand
      /\ request.kind = "set" => request.of.mode \in ModesOf(a)
  BY <1>3, McuKinds
<1>5. /\ said \in McuLines
      /\ \A b : IsStatus(said, b) => b = a /\ said.of.mode = board[b] /\ request.kind = "get"
      /\ \A b : IsTold(said, b) => b = a /\ said.of.mode = request.of.mode /\ request.kind = "set"
  <2>1. CASE request.kind = "get"
    <3>1. said = Status(a, board[a]) /\ said \in McuLines
      BY <1>2, <1>4, <2>1, McuKinds
    <3> QED
      BY <2>1, <3>1 DEF IsStatus, IsTold, Status, Message
  <2>2. CASE request.kind = "set"
    <3>1. said = Told(a, request.of.mode) /\ said \in McuLines
      BY <1>4, <2>2, McuKinds
    <3> QED
      BY <2>2, <3>1 DEF IsStatus, IsTold, Told, Message
  <2>3. CASE request.kind = "prompt"
    <3>1. said = PromptLine /\ said \in McuLines
      BY <2>3, McuKinds
    <3>2. \A b : ~ IsStatus(PromptLine, b) /\ ~ IsTold(PromptLine, b)
      BY DEF IsStatus, IsTold, PromptLine
    <3> HIDE DEF said
    <3> QED
      BY <3>1, <3>2
  <2> QED
    BY <1>4, <2>1, <2>2, <2>3
<1> HIDE DEF said
<1>6. PICK k \in Nat : k = Len(line) /\ line' \in Seq(McuLines) /\ \A i \in 1 .. k : line'[i] = line[i]
  <2>1. Len(line) \in Nat
    BY <1>2
  <2>2. line' \in Seq(McuLines) /\ \A i \in 1 .. Len(line) : line'[i] = line[i]
    <3>1. CASE line' = line
      BY <1>2, <3>1
    <3>2. CASE line' = Append(line, said)
      BY <1>2, <1>5, <3>2, AppendFacts
    <3> QED
      BY <1>1, <3>1, <3>2
  <2> QED
    BY <2>1, <2>2
<1>7. \A i \in 1 .. Len(line') : i \in 1 .. k \/ (i = k + 1 /\ line'[i] = said)
  <2>1. CASE line' = line
    BY <1>6, <2>1
  <2>2. CASE line' = Append(line, said)
    <3>1. Len(line') = k + 1 /\ line'[k + 1] = said
      BY <1>2, <1>5, <1>6, <2>2, AppendFacts
    <3>2. \A i \in 1 .. k + 1 : i \in 1 .. k \/ i = k + 1
      OBVIOUS
    <3> QED
      BY <3>1, <3>2
  <2> QED
    BY <1>1, <2>1, <2>2
<1>8. DOMAIN board' = McuCommand /\ (\A b \in McuCommand : board'[b] \in ModesOf(b))
      /\ \A b \in McuCommand : b # a \/ request.kind # "set" => board'[b] = board[b]
  BY <1>1, <1>2, <1>4
<1>9. McuTypes'
  BY <1>1, <1>3, <1>6, <1>8 DEF McuIInv, McuTypes, McuTypeOK
<1>10. \A i \in 1 .. n - 1 : i + 1 \in 1 .. n
  OBVIOUS
<1>11. ASSUME NEW b \in McuCommand, ~ IsSet(request, b)
       PROVE  /\ board'[b] = board[b]
              /\ NoSets(b) => NoSets(b)'
              /\ NoTold(b) => NoTold(b)'
              /\ TrueAfter(b, 0) => TrueAfter(b, 0)'
              /\ SetSent(b) => SetSent(b)'
              /\ SetTold(b) => SetTold(b)'
  <2>1. board'[b] = board[b]
    BY <1>8, <1>11 DEF IsSet
  <2>2. ~ IsTold(said, b)
    BY <1>5, <1>11 DEF IsSet
  <2>3. NoSets(b) => NoSets(b)'
    BY <1>3, <1>10 DEF NoSets
  <2>4. NoTold(b) => NoTold(b)'
    BY <1>6, <1>7, <2>2 DEF NoTold
  <2>5. \A j : TrueAfter(b, j) => TrueAfter(b, j)'
    BY <1>5, <1>6, <1>7, <2>1 DEF TrueAfter
  <2>6. SetSent(b) => SetSent(b)'
    <3>1. \A i, j \in 1 .. n - 1 : i + 1 = j + 1 => i = j
      OBVIOUS
    <3> QED
      BY <1>1, <1>3, <1>10, <2>4, <3>1 DEF SetSent
  <2>7. SetTold(b) => SetTold(b)'
    BY <1>1, <1>6, <1>7, <2>1, <2>2, <2>3, <2>5 DEF SetTold
  <2> QED
    BY <2>1, <2>3, <2>4, <2>5, <2>6, <2>7
<1>12. ASSUME NEW b \in McuCommand, IsSet(request, b), SetSent(b)
       PROVE  SetTold(b)'
  <2>1. 1 \in 1 .. n /\ \A i \in 1 .. n - 1 : i + 1 # 1
    OBVIOUS
  <2>2. request.of.mode = current.mode /\ NoSets(b)'
    BY <1>3, <1>10, <1>12, <2>1 DEF SetSent, NoSets
  <2>3. b = a /\ request.kind = "set" /\ board'[b] = request.of.mode
    BY <1>1, <1>2, <1>12 DEF IsSet
  <2>4. ASSUME NEW i \in 1 .. Len(line'), IsTold(line'[i], b)
        PROVE  i = k + 1 /\ line'[i].of.mode = current.mode /\ TrueAfter(b, i)'
    <3>1. i = k + 1 /\ line'[i] = said
      BY <1>6, <1>7, <1>12, <2>4 DEF SetSent, NoTold
    <3>2. \A j \in 1 .. Len(line') : ~ j > i
      <4>1. \A j \in 1 .. k : ~ j > k + 1
        OBVIOUS
      <4>2. ~ k + 1 > k + 1
        OBVIOUS
      <4> QED
        BY <1>7, <3>1, <4>1, <4>2
    <3> QED
      BY <1>5, <2>2, <2>4, <3>1, <3>2 DEF TrueAfter
  <2> QED
    BY <1>1, <2>2, <2>3, <2>4 DEF SetTold
<1>13. ASSUME NEW b \in McuCommand \ unsure
       PROVE  McuSettled(b)' /\ done'[b] \in {NoMode, board'[b]}
  <2>1. McuSettled(b) /\ done[b] \in {NoMode, board[b]} /\ (Setting(b)' <=> Setting(b))
        /\ done'[b] = done[b]
    BY <1>1 DEF McuIInv, Setting
  <2>2. CASE IsSet(request, b)
    <3>1. 1 \in 1 .. n
      OBVIOUS
    <3>2. ~ NoSets(b)
      BY <1>3, <2>2, <3>1 DEF NoSets
    <3>3. Setting(b) /\ SetSent(b) /\ done[b] = NoMode
      BY <2>1, <3>2 DEF McuSettled, Answered, SetTold
    <3> QED
      BY <1>12, <2>1, <2>2, <3>3 DEF McuSettled
  <2>3. CASE ~ IsSet(request, b)
    BY <1>11, <2>1, <2>3 DEF McuSettled, Answered
  <2> QED
    BY <2>2, <2>3
<1> QED
  BY <1>1, <1>9, <1>13 DEF McuIInv

LEMMA McuStarts == McuInit => McuIInv
<1> SUFFICES ASSUME McuInit PROVE McuIInv
  OBVIOUS
<1>1. /\ requests = 0 /\ exec = << >> /\ step = "idle" /\ current = NoMessage
      /\ work = << >> /\ line = << >> /\ cut = FALSE /\ unsure = {}
      /\ done = [a \in McuCommand |-> NoMode]
      /\ DOMAIN board = McuCommand /\ \A a \in McuCommand : board[a] \in ModesOf(a)
  BY DEF McuInit
<1>2. exec \in Seq(Messages) /\ Len(exec) <= QueueCap /\ requests \in 0 .. MaxRequests
  <2>1. Len(exec) = 0 /\ exec \in Seq(Messages)
    BY <1>1
  <2> QED
    BY <1>1, <2>1, McuAssumption DEF McuAssumption
<1>3. /\ Len(work) = 0 /\ Len(line) = 0 /\ work \in Seq(McuRequests) /\ line \in Seq(McuLines)
  BY <1>1
<1>4. McuTypes
  BY <1>1, <1>2, <1>3 DEF McuTypes, McuTypeOK
<1>5. \A a \in McuCommand : ~ Setting(a) /\ Answered(a)
  BY <1>1, <1>3 DEF Setting, Answered, NoSets, NoTold, TrueAfter
<1> QED
  BY <1>1, <1>4, <1>5 DEF McuIInv, McuSettled

\* For any number of calls and any replies that come too late, or lose their start: an
\* actuator whose call was answered with Ok has the mode that was asked for, as long as
\* none of its requests to set was given up (hifive_p550_mcu.rs, process).
THEOREM McuSafe == McuSpec => []McuInv
<1>1. McuIInv /\ [McuNext]_mcuVars => McuIInv'
  <2> SUFFICES ASSUME McuIInv, [McuNext]_mcuVars PROVE McuIInv'
    OBVIOUS
  <2>1. CASE UNCHANGED mcuVars
    BY <2>1 DEF mcuVars, mcuCallVars, McuIInv, McuTypes, McuTypeOK, McuSettled, Setting,
                Answered, SetSent, SetTold, NoSets, NoTold, TrueAfter
  <2> QED
    BY <2>1, McuCall, McuTake, McuPrompt, McuStatus, McuTold, McuTimeOut, McuServe DEF McuNext
<1>2. McuIInv => McuInv
  BY DEF McuIInv, McuTypes, McuInv, DoneIsSet
<1> QED
  BY <1>1, <1>2, McuStarts, PTL DEF McuSpec

-----------------------------------------------------------------------------
(* Serial ports as consoles. *)

\* What an opening of a port is.
Openings == [rate : Rates, reading : BOOLEAN, log : Seq(Nat), lock : Writers \cup {NoWriter}]

\* Half of a message of a writer.
Halves == Writers \X (1 .. MaxSends) \X {1, 2}

\* The types, but for how many chunks there are.
PortShapes ==
  /\ present \in BOOLEAN /\ registered \in BOOLEAN
  /\ rate \in Rates /\ rateRead \in [Callers -> Rates]
  /\ opened \in Seq(Openings) /\ open \in 0 .. Len(opened)
  /\ chunks \in 0 .. MaxChunks
  /\ pc \in [Callers -> Getting \cup {"idle", "stream", "failed", "ended"}]
  /\ using \in [Callers -> 0 .. Len(opened)]
  /\ seen \in [Readers -> 0 .. MaxChunks] /\ got \in [Readers -> Seq(Nat)]
  /\ sends \in [Writers -> 0 .. MaxSends]
  /\ wire \in Seq(Halves)

\* The port is open for whoever comes out of open(), and a stream has an opening.
StreamsHaveOne ==
  \A c \in Callers : /\ pc[c] = "fetch" => open # 0
                     /\ pc[c] = "stream" => using[c] # 0

\* No opening has said more than the port.
LogsAreChunks ==
  \A i \in 1 .. Len(opened) :
    /\ Len(opened[i].log) <= chunks
    /\ \A n \in 1 .. Len(opened[i].log) : opened[i].log[n] \in 1 .. chunks

\* A reader gets from its opening, and nothing before it has a stream.
ReaderFollows(r) ==
  /\ \A n \in 1 .. Len(got[r]) : got[r][n] \in 1 .. chunks
  /\ pc[r] \in Getting \cup {"idle"} => got[r] = << >>
  /\ pc[r] = "stream" => seen[r] <= Len(opened[using[r]].log)

\* Whoever writes has begun a message.
LockIsHeld ==
  \A i \in 1 .. Len(opened) : opened[i].lock \in Writers =>
    pc[opened[i].lock] = "stream" /\ sends[opened[i].lock] > 0

\* A port that was not opened has said nothing and was told nothing.
ClosedIsSilent == Len(opened) = 0 => chunks = 0 /\ wire = << >>

\* The one opening said all that the port did ...
LogIsAll ==
  Len(opened) = 1 => /\ Len(opened[1].log) = chunks
                     /\ \A n \in 1 .. chunks : opened[1].log[n] = n

\* ... a reader got that up to where it is ...
GotUpToSeen(r) ==
  Len(opened) = 1 =>
    /\ \A n \in DOMAIN got[r] : n > 1 => got[r][n] = got[r][n - 1] + 1
    /\ pc[r] = "stream" /\ got[r] # << >> => got[r][Len(got[r])] = seen[r]

\* ... and the lock is that of the message that is half written.
LastMessage ==
  /\ opened[1].lock \in Writers =>
       wire # << >> /\ wire[Len(wire)] = <<opened[1].lock, sends[opened[1].lock], 1>>
  /\ opened[1].lock \notin Writers /\ wire # << >> =>
       wire[Len(wire)][3] = 2 \/ pc[wire[Len(wire)][1]] = "ended"

WireInTurn == Len(opened) = 1 => LastMessage /\ MessagesStayWhole

PortIInv ==
  /\ PortShapes /\ StreamsHaveOne /\ LogsAreChunks
  /\ \A r \in Readers : ReaderFollows(r) /\ GotUpToSeen(r)
  /\ LockIsHeld /\ ClosedIsSilent /\ LogIsAll /\ WireInTurn

SameLogs == /\ Len(opened') = Len(opened)
            /\ \A i \in 1 .. Len(opened) : opened'[i].log = opened[i].log
SameLocks == /\ Len(opened') = Len(opened)
             /\ \A i \in 1 .. Len(opened) : opened'[i].lock = opened[i].lock

\* Callers go on and never back.
ReadersGoOn ==
  \A r \in Readers : /\ pc'[r] \in Getting \cup {"idle"} => pc[r] \in Getting \cup {"idle"}
                     /\ pc'[r] = "stream" => pc[r] = "stream"
WritersStay ==
  \A w \in Writers : /\ pc[w] = "stream" => pc'[w] = "stream"
                     /\ pc[w] = "ended" => pc'[w] = "ended"

\* A sequence with one opening changed.
LEMMA OpeningChanges ==
  ASSUME NEW s \in Seq(Openings), NEW t, NEW i \in 1 .. Len(s), NEW e \in Openings,
         t = [s EXCEPT ![i] = e]
  PROVE  /\ t \in Seq(Openings) /\ Len(t) = Len(s) /\ t[i] = e
         /\ \A j \in 1 .. Len(s) : j # i => t[j] = s[j]
  OBVIOUS

LEMMA OpeningIs ==
  ASSUME PortShapes, NEW i \in 1 .. Len(opened)
  PROVE  /\ opened[i] \in Openings /\ opened[i].log \in Seq(Nat) /\ Len(opened[i].log) \in Nat
         /\ opened[i].lock \in Writers \cup {NoWriter}
<1>1. opened[i] \in Openings
  BY DEF PortShapes
<1>2. opened[i].log \in Seq(Nat) /\ opened[i].lock \in Writers \cup {NoWriter}
  BY <1>1 DEF Openings
<1> QED
  BY <1>1, <1>2

LEMMA UnlockIs ==
  ASSUME PortShapes, NEW c, opened' = Unlock(c)
  PROVE  /\ opened' \in Seq(Openings) /\ SameLogs
         /\ \A i \in 1 .. Len(opened) :
              opened'[i].lock = IF opened[i].lock = c THEN NoWriter ELSE opened[i].lock
<1>1. PICK n \in Nat : n = Len(opened) /\ DOMAIN opened = 1 .. n /\ \A i \in 1 .. n : opened[i] \in Openings
  BY DEF PortShapes
<1>2. ASSUME NEW i \in 1 .. n
      PROVE  /\ opened'[i] \in Openings /\ opened'[i].log = opened[i].log
             /\ opened'[i].lock = IF opened[i].lock = c THEN NoWriter ELSE opened[i].lock
  BY <1>1 DEF Unlock, Openings
<1>3. opened' = [i \in 1 .. n |-> opened'[i]]
  BY <1>1 DEF Unlock
<1>4. opened' \in Seq(Openings) /\ Len(opened') = n
  BY <1>2, <1>3
<1> QED
  BY <1>1, <1>2, <1>4 DEF SameLogs

\* A step of the writers, or of a caller that leaves its readers where they are.
LEMMA ReadersKept ==
  ASSUME PortIInv, SameLogs, UNCHANGED <<chunks, using, seen, got>>, ReadersGoOn
  PROVE  LogsAreChunks' /\ LogIsAll' /\ \A r \in Readers : ReaderFollows(r)' /\ GotUpToSeen(r)'
<1>1. LogsAreChunks'
  BY DEF PortIInv, LogsAreChunks, SameLogs
<1>2. LogIsAll'
  BY DEF PortIInv, LogIsAll, SameLogs
<1>3. ASSUME NEW r \in Readers PROVE ReaderFollows(r)' /\ GotUpToSeen(r)'
  <2>1. pc'[r] = "stream" => using[r] \in 1 .. Len(opened)
    BY DEF PortIInv, PortShapes, StreamsHaveOne, ReadersGoOn, Callers
  <2>2. ReaderFollows(r) /\ GotUpToSeen(r)
    BY DEF PortIInv
  <2>3. ReaderFollows(r)'
    BY <2>1, <2>2 DEF ReaderFollows, SameLogs, ReadersGoOn
  <2>4. GotUpToSeen(r)'
    BY <2>2 DEF GotUpToSeen, SameLogs, ReadersGoOn
  <2> QED
    BY <2>3, <2>4
<1> QED
  BY <1>1, <1>2, <1>3

\* A step that writes nothing and takes and gives back no lock.
LEMMA WritersKept ==
  ASSUME PortIInv, SameLocks, UNCHANGED <<sends, wire>>, WritersStay
  PROVE  LockIsHeld' /\ WireInTurn'
<1>1. LockIsHeld'
  BY DEF PortIInv, LockIsHeld, SameLocks, WritersStay
<1>2. ASSUME Len(opened) = 1 PROVE LastMessage' /\ MessagesStayWhole'
  <2>1. LastMessage /\ MessagesStayWhole /\ OpenedOnce /\ opened'[1].lock = opened[1].lock
    BY <1>2 DEF PortIInv, WireInTurn, SameLocks, OpenedOnce
  <2>2. \A i \in 1 .. Len(wire) : wire[i][1] \in Writers
    BY DEF PortIInv, PortShapes, Halves
  <2>3. Len(wire) \in Nat /\ (wire # << >> => Len(wire) \in 1 .. Len(wire))
    BY DEF PortIInv, PortShapes
  <2>4. LastMessage'
    BY <2>1, <2>2, <2>3 DEF LastMessage, WritersStay
  <2>5. MessagesStayWhole'
    BY <2>1, <2>2, <2>3 DEF MessagesStayWhole, WritersStay
  <2> QED
    BY <2>4, <2>5
<1> QED
  BY <1>1, <1>2 DEF WireInTurn, SameLocks

\* The port and the configuration.
LEMMA QuietStep ==
  ASSUME PortIInv, PullOut \/ Unregister \/ Configure
  PROVE  PortIInv'
<1>1. /\ UNCHANGED <<opened, open, chunks, wire, callVars>>
      /\ present' \in BOOLEAN /\ registered' \in BOOLEAN /\ rate' \in Rates
  BY DEF PortIInv, PortShapes, PullOut, Unregister, Configure, portVars, consoleVars
<1>2. SameLogs /\ SameLocks /\ ReadersGoOn /\ WritersStay
  BY <1>1 DEF SameLogs, SameLocks, ReadersGoOn, WritersStay, callVars
<1>3. PortShapes' /\ StreamsHaveOne' /\ ClosedIsSilent'
  BY <1>1 DEF PortIInv, PortShapes, StreamsHaveOne, ClosedIsSilent, callVars
<1> QED
  BY <1>1, <1>2, <1>3, ReadersKept, WritersKept DEF PortIInv, callVars

\* Callers that neither open the port nor begin to stream.
LEMMA GoStep ==
  ASSUME PortIInv, NEW c \in Callers, NEW to \in Getting \cup {"failed"},
         pc[c] \in Getting \cup {"idle"}, to = "fetch" => open # 0,
         pc' = [pc EXCEPT ![c] = to], rateRead' \in [Callers -> Rates],
         UNCHANGED <<portVars, rate, open, opened, using, seen, got, sends>>
  PROVE  PortIInv'
<1>1. SameLogs /\ SameLocks
  BY DEF SameLogs, SameLocks
<1>2. ReadersGoOn /\ WritersStay /\ pc' \in [Callers -> Getting \cup {"idle", "stream", "failed", "ended"}]
  BY DEF PortIInv, PortShapes, ReadersGoOn, WritersStay, Getting, Callers
<1>3. PortShapes' /\ ClosedIsSilent'
  BY <1>2 DEF PortIInv, PortShapes, ClosedIsSilent, portVars
<1>4. StreamsHaveOne'
  BY DEF PortIInv, PortShapes, StreamsHaveOne, Getting
<1> QED
  BY <1>1, <1>2, <1>3, <1>4, ReadersKept, WritersKept DEF PortIInv, portVars

\* A caller that begins to stream: a reader from where the opening is.
LEMMA StartStream ==
  ASSUME PortIInv, NEW c \in Callers, pc[c] \in Getting, open # 0, Stream(c),
         UNCHANGED <<portVars, rate, open, opened, rateRead, got, sends>>
  PROVE  PortIInv'
<1>1. /\ pc' = [pc EXCEPT ![c] = "stream"] /\ using' = [using EXCEPT ![c] = open]
      /\ open \in 1 .. Len(opened)
  BY DEF Stream, Goes, PortIInv, PortShapes
<1>2. PICK n \in 0 .. MaxChunks : n = Len(opened[open].log)
  <2>1. PortShapes
    BY DEF PortIInv
  <2>2. Len(opened[open].log) \in Nat
    BY <1>1, <2>1, OpeningIs
  <2>3. Len(opened[open].log) <= chunks /\ chunks \in 0 .. MaxChunks
    BY <1>1 DEF PortIInv, PortShapes, LogsAreChunks
  <2> QED
    BY <2>2, <2>3, SerialPortAssumption
<1>3. /\ c \in Readers => seen' = [seen EXCEPT ![c] = n]
      /\ c \notin Readers => seen' = seen
  BY <1>2 DEF Stream
<1>4. PortShapes' /\ ClosedIsSilent' /\ LogsAreChunks' /\ LogIsAll'
  BY <1>1, <1>3 DEF PortIInv, PortShapes, ClosedIsSilent, LogsAreChunks, LogIsAll, portVars
<1>5. StreamsHaveOne'
  BY <1>1 DEF PortIInv, PortShapes, StreamsHaveOne
<1>6. SameLocks /\ WritersStay
  BY <1>1 DEF SameLocks, WritersStay, PortIInv, PortShapes, Callers, Getting
<1>7. ASSUME NEW r \in Readers PROVE ReaderFollows(r)' /\ GotUpToSeen(r)'
  <2>1. ReaderFollows(r) /\ GotUpToSeen(r) /\ r \in Callers
    BY DEF PortIInv, Callers
  <2>2. CASE r = c
    <3>1. got[r] = << >> /\ pc'[r] = "stream" /\ using'[r] = open /\ seen'[r] = n
      BY <1>1, <1>3, <2>1, <2>2 DEF ReaderFollows, PortIInv, PortShapes
    <3>2. ReaderFollows(r)'
      BY <1>2, <2>1, <3>1 DEF ReaderFollows, Getting, portVars
    <3>3. GotUpToSeen(r)'
      BY <2>1, <3>1 DEF GotUpToSeen
    <3> QED
      BY <3>2, <3>3
  <2>3. CASE r # c
    <3>1. pc'[r] = pc[r] /\ using'[r] = using[r] /\ seen'[r] = seen[r]
      BY <1>1, <1>3, <2>1, <2>3 DEF PortIInv, PortShapes
    <3> QED
      BY <2>1, <3>1 DEF ReaderFollows, GotUpToSeen, portVars
  <2> QED
    BY <2>2, <2>3
<1> QED
  BY <1>4, <1>5, <1>6, <1>7, WritersKept DEF PortIInv, portVars

\* One more opening: there is a promise left to keep only if it is the first.
LEMMA OpenStep ==
  ASSUME PortIInv, NEW c \in Callers, Open(c)
  PROVE  PortIInv'
<1> DEFINE one == [rate |-> rateRead[c], reading |-> TRUE, log |-> << >>, lock |-> NoWriter]
<1>1. /\ pc[c] = "open" /\ opened' = Append(opened, one) /\ open' = Len(opened')
      /\ pc' = [pc EXCEPT ![c] = "fetch"]
      /\ UNCHANGED <<portVars, rate, rateRead, using, seen, got, sends>>
  BY DEF Open, Goes
<1>2. one \in Openings /\ one.log = << >> /\ one.lock = NoWriter
  BY DEF PortIInv, PortShapes, Openings
<1> HIDE DEF one
<1>3. PICK n \in Nat : /\ n = Len(opened) /\ Len(opened') = n + 1 /\ opened' \in Seq(Openings)
                       /\ opened'[n + 1] = one /\ \A i \in 1 .. n : opened'[i] = opened[i]
  <2>1. opened \in Seq(Openings) /\ Len(opened) \in Nat
    BY DEF PortIInv, PortShapes
  <2>2. /\ Append(opened, one) \in Seq(Openings) /\ Len(Append(opened, one)) = Len(opened) + 1
        /\ Append(opened, one)[Len(opened) + 1] = one
        /\ \A i \in 1 .. Len(opened) : Append(opened, one)[i] = opened[i]
    BY <1>2, <2>1, AppendFacts
  <2> QED
    BY <1>1, <2>1, <2>2
<1>4. PortShapes'
  <2>1. open' \in 0 .. Len(opened')
    BY <1>1, <1>3
  <2>2. using' \in [Callers -> 0 .. Len(opened')]
    BY <1>1, <1>3 DEF PortIInv, PortShapes
  <2> QED
    BY <1>1, <1>3, <2>1, <2>2 DEF PortIInv, PortShapes, portVars, Getting
<1>5. StreamsHaveOne'
  BY <1>1, <1>3 DEF PortIInv, PortShapes, StreamsHaveOne
<1>6. LogsAreChunks'
  <2>1. \A i \in 1 .. n + 1 : i = n + 1 \/ i \in 1 .. n
    BY <1>3
  <2>2. chunks' = chunks /\ chunks \in Nat
    BY <1>1 DEF portVars, PortIInv, PortShapes
  <2> QED
    BY <1>2, <1>3, <2>1, <2>2 DEF PortIInv, LogsAreChunks
<1>7. LockIsHeld'
  <2>1. \A i \in 1 .. n + 1 : i = n + 1 \/ i \in 1 .. n
    BY <1>3
  <2>2. NoWriter \notin Writers /\ sends' = sends
    BY <1>1, SerialPortAssumption
  <2>3. \A w \in Writers : pc[w] = "stream" => pc'[w] = "stream"
    BY <1>1 DEF PortIInv, PortShapes, Callers
  <2> QED
    BY <1>2, <1>3, <2>1, <2>2, <2>3 DEF PortIInv, LockIsHeld
<1>8. ClosedIsSilent'
  BY <1>3 DEF ClosedIsSilent
<1>9. n # 0 => Len(opened') # 1
  BY <1>3
<1>10. n = 0 => chunks' = 0 /\ wire' = << >> /\ opened'[1] = one
  BY <1>1, <1>3 DEF PortIInv, ClosedIsSilent, portVars
<1>11. LogIsAll'
  BY <1>2, <1>9, <1>10 DEF LogIsAll
<1>12. WireInTurn'
  BY <1>2, <1>9, <1>10, SerialPortAssumption DEF WireInTurn, LastMessage, MessagesStayWhole
<1>13. ASSUME NEW r \in Readers PROVE ReaderFollows(r)' /\ GotUpToSeen(r)'
  <2>1. r \in Callers /\ ReaderFollows(r)
    BY DEF PortIInv, Callers
  <2>2. /\ pc'[r] \in Getting \cup {"idle"} => pc[r] \in Getting \cup {"idle"}
        /\ pc'[r] = "stream" => pc[r] = "stream"
    BY <1>1, <2>1 DEF PortIInv, PortShapes, Getting
  <2>3. pc'[r] = "stream" => using[r] \in 1 .. n
    BY <1>3, <2>1, <2>2 DEF PortIInv, PortShapes, StreamsHaveOne
  <2>4. ReaderFollows(r)'
    BY <1>1, <1>3, <2>1, <2>2, <2>3 DEF ReaderFollows, portVars
  <2>5. n = 0 => got[r] = << >>
    <3>1. n = 0 => \A k \in 1 .. Len(got[r]) : got[r][k] \in 1 .. 0
      BY <1>3, <2>1 DEF ReaderFollows, PortIInv, ClosedIsSilent
    <3>2. got[r] \in Seq(Nat) /\ (got[r] # << >> => 1 \in 1 .. Len(got[r]))
      BY DEF PortIInv, PortShapes
    <3> QED
      BY <3>1, <3>2
  <2>6. GotUpToSeen(r)'
    BY <1>1, <1>9, <2>5 DEF GotUpToSeen
  <2> QED
    BY <2>4, <2>6
<1> QED
  BY <1>4, <1>5, <1>6, <1>7, <1>8, <1>11, <1>12, <1>13 DEF PortIInv

\* The task of an opening ends.
LEMMA ReadEndsStep ==
  ASSUME PortIInv, NEW i \in 1 .. Len(opened), ReadEnds(i)
  PROVE  PortIInv'
<1>1. PICK e \in Openings : /\ opened' = [opened EXCEPT ![i] = e]
                            /\ e.log = opened[i].log /\ e.lock = opened[i].lock
  <2>1. opened[i] \in Openings
    BY DEF PortIInv, PortShapes
  <2>2. [opened[i] EXCEPT !.reading = FALSE] \in Openings
    BY <2>1 DEF Openings
  <2>3. opened' = [opened EXCEPT ![i] = [opened[i] EXCEPT !.reading = FALSE]]
    BY DEF ReadEnds
  <2> QED
    BY <2>1, <2>2, <2>3 DEF Openings
<1>2. opened' \in Seq(Openings) /\ SameLogs /\ SameLocks
  BY <1>1, OpeningChanges DEF PortIInv, PortShapes, SameLogs, SameLocks
<1>3. UNCHANGED <<portVars, rate, open, callVars>>
  BY DEF ReadEnds
<1>4. PortShapes' /\ StreamsHaveOne' /\ ClosedIsSilent'
  BY <1>2, <1>3 DEF PortIInv, PortShapes, StreamsHaveOne, ClosedIsSilent, SameLogs, portVars, callVars
<1>5. ReadersGoOn /\ WritersStay
  BY <1>3 DEF ReadersGoOn, WritersStay, callVars
<1> QED
  BY <1>2, <1>3, <1>4, <1>5, ReadersKept, WritersKept DEF PortIInv, portVars, callVars

\* A chunk is the next of its opening, and its number that of the port.
LEMMA ReadChunkStep ==
  ASSUME PortIInv, NEW i \in 1 .. Len(opened), ReadChunk(i)
  PROVE  PortIInv'
<1>1. /\ opened[i] \in Openings /\ opened[i].log \in Seq(Nat) /\ chunks \in Nat
      /\ chunks < MaxChunks /\ chunks' = chunks + 1 /\ chunks + 1 \in Nat
      /\ UNCHANGED <<present, registered, wire, rate, open, callVars>>
  <2>1. PortShapes
    BY DEF PortIInv
  <2> QED
    BY <2>1, OpeningIs DEF PortShapes, ReadChunk
<1>2. PICK m \in Nat : m = Len(opened[i].log) /\ m <= chunks
  <2>1. Len(opened[i].log) \in Nat /\ Len(opened[i].log) <= chunks
    BY <1>1 DEF PortIInv, LogsAreChunks
  <2> QED
    BY <2>1
<1>3. PICK l \in Seq(Nat) : /\ l = Append(opened[i].log, chunks + 1)
                            /\ Len(l) = m + 1 /\ l[m + 1] = chunks + 1
                            /\ \A k \in 1 .. m : l[k] = opened[i].log[k]
  <2> PICK s \in Seq(Nat), k \in Nat : s = opened[i].log /\ k = chunks + 1
    BY <1>1
  <2>1. Append(s, k) \in Seq(Nat) /\ Len(Append(s, k)) = Len(s) + 1 /\ Append(s, k)[Len(s) + 1] = k
        /\ \A j \in 1 .. Len(s) : Append(s, k)[j] = s[j]
    BY AppendFacts
  <2> QED
    BY <1>2, <2>1
<1>4. PICK e \in Openings : /\ opened' = [opened EXCEPT ![i] = e]
                            /\ e.log = l /\ e.lock = opened[i].lock
  <2>1. [opened[i] EXCEPT !.log = l] \in Openings
    BY <1>1 DEF Openings
  <2>2. opened' = [opened EXCEPT ![i] = [opened[i] EXCEPT !.log = l]]
    BY <1>3 DEF ReadChunk
  <2> QED
    BY <1>1, <2>1, <2>2 DEF Openings
<1>5. /\ opened' \in Seq(Openings) /\ Len(opened') = Len(opened) /\ opened'[i] = e
      /\ \A j \in 1 .. Len(opened) : j # i => opened'[j] = opened[j]
  BY <1>4, OpeningChanges DEF PortIInv, PortShapes
<1>6. SameLocks
  BY <1>4, <1>5 DEF SameLocks
<1>7. PortShapes' /\ StreamsHaveOne' /\ ClosedIsSilent'
  BY <1>1, <1>5, SerialPortAssumption DEF PortIInv, PortShapes, StreamsHaveOne, ClosedIsSilent, callVars
<1>8. LogsAreChunks'
  <2> SUFFICES ASSUME NEW j \in 1 .. Len(opened)
               PROVE  /\ Len(opened'[j].log) <= chunks + 1
                      /\ \A k \in 1 .. Len(opened'[j].log) : opened'[j].log[k] \in 1 .. chunks + 1
    BY <1>1, <1>5 DEF LogsAreChunks
  <2>1. \A k \in 1 .. chunks : k \in 1 .. chunks + 1
    BY <1>1
  <2>2. Len(opened[j].log) \in Nat
    BY OpeningIs DEF PortIInv
  <2>3. CASE j # i
    BY <1>1, <1>5, <2>1, <2>2, <2>3 DEF PortIInv, LogsAreChunks
  <2>4. CASE j = i
    <3>1. \A k \in 1 .. m + 1 : k = m + 1 \/ k \in 1 .. m
      BY <1>2
    <3>2. \A k \in 1 .. m : opened[i].log[k] \in 1 .. chunks
      BY <1>2 DEF PortIInv, LogsAreChunks
    <3>3. m + 1 <= chunks + 1 /\ chunks + 1 \in 1 .. chunks + 1
      BY <1>1, <1>2
    <3>4. opened'[j].log = l
      BY <1>4, <1>5, <2>4
    <3>5. ASSUME NEW k \in 1 .. m + 1 PROVE l[k] \in 1 .. chunks + 1
      <4>1. CASE k \in 1 .. m
        BY <1>3, <2>1, <3>2, <4>1
      <4>2. CASE k = m + 1
        BY <1>3, <3>3, <4>2
      <4> QED
        BY <3>1, <4>1, <4>2
    <3> QED
      BY <1>3, <3>3, <3>4, <3>5
  <2> QED
    BY <2>3, <2>4
<1>9. LogIsAll'
  <2> SUFFICES ASSUME Len(opened) = 1
               PROVE  /\ Len(opened'[1].log) = chunks + 1
                      /\ \A k \in 1 .. chunks + 1 : opened'[1].log[k] = k
    BY <1>1, <1>5 DEF LogIsAll
  <2>1. i = 1 /\ m = chunks /\ \A k \in 1 .. chunks : opened[1].log[k] = k
    BY <1>2 DEF PortIInv, LogIsAll
  <2>2. \A k \in 1 .. chunks + 1 : k = chunks + 1 \/ k \in 1 .. chunks
    BY <1>1
  <2>3. opened'[1].log = l /\ Len(l) = chunks + 1 /\ l[chunks + 1] = chunks + 1
    BY <1>3, <1>4, <1>5, <2>1
  <2>4. ASSUME NEW k \in 1 .. chunks + 1 PROVE l[k] = k
    <3>1. CASE k \in 1 .. chunks
      BY <1>3, <2>1, <3>1
    <3>2. CASE k = chunks + 1
      BY <2>3, <3>2
    <3> QED
      BY <2>2, <3>1, <3>2
  <2> QED
    BY <2>3, <2>4
<1>10. ASSUME NEW r \in Readers PROVE ReaderFollows(r)' /\ GotUpToSeen(r)'
  <2>1. ReaderFollows(r) /\ GotUpToSeen(r) /\ r \in Callers
    BY DEF PortIInv, Callers
  <2>2. pc[r] = "stream" => using[r] \in 1 .. Len(opened) /\ seen[r] \in Nat
    BY <2>1 DEF PortIInv, PortShapes, StreamsHaveOne
  <2>3. \A k \in 1 .. chunks : k \in 1 .. chunks + 1
    BY <1>1
  <2>4. pc[r] = "stream" => seen[r] <= Len(opened'[using[r]].log)
    BY <1>2, <1>3, <1>4, <1>5, <2>1, <2>2 DEF ReaderFollows
  <2> QED
    BY <1>1, <1>5, <2>1, <2>3, <2>4 DEF ReaderFollows, GotUpToSeen, callVars
<1>11. WritersStay
  BY <1>1 DEF WritersStay, callVars
<1> QED
  BY <1>1, <1>6, <1>7, <1>8, <1>9, <1>10, <1>11, WritersKept DEF PortIInv, callVars

\* What a reader gets is the next chunk of its opening.
LEMMA ReceiveStep ==
  ASSUME PortIInv, NEW r \in Readers, Receive(r)
  PROVE  PortIInv'
<1>1. /\ pc[r] = "stream" /\ r \in Callers /\ seen[r] \in Nat /\ got[r] \in Seq(Nat)
      /\ using[r] \in 1 .. Len(opened) /\ seen[r] \in 0 .. MaxChunks
      /\ UNCHANGED <<portVars, consoleVars, pc, rateRead, using, sends>>
  BY SerialPortAssumption DEF Receive, PortIInv, PortShapes, StreamsHaveOne, Callers
<1>2. PICK m \in Nat : m = Len(opened[using[r]].log) /\ seen[r] < m /\ m <= chunks
  <2>1. Len(opened[using[r]].log) \in Nat
    BY <1>1, OpeningIs DEF PortIInv
  <2> QED
    BY <1>1, <2>1 DEF Receive, Log, PortIInv, LogsAreChunks
<1>3. PICK s \in Nat, n \in Nat : s = seen[r] /\ n = Len(got[r])
  BY <1>1
<1>4. s + 1 \in 1 .. m /\ s + 1 \in 0 .. MaxChunks /\ s + 1 \in Nat
  BY <1>2, <1>3, SerialPortAssumption DEF PortIInv, PortShapes
<1>5. PICK e \in 1 .. chunks : e = opened[using[r]].log[s + 1]
  BY <1>1, <1>2, <1>4 DEF PortIInv, LogsAreChunks
<1>6. /\ seen' = [seen EXCEPT ![r] = s + 1]
      /\ got' = [got EXCEPT ![r] = Append(got[r], e)]
  BY <1>3, <1>5 DEF Receive, Log
<1>7. PICK g \in Seq(Nat) : /\ g = Append(got[r], e) /\ Len(g) = n + 1 /\ g[n + 1] = e
                            /\ \A k \in 1 .. n : g[k] = got[r][k]
  <2>1. e \in Nat
    BY DEF PortIInv, PortShapes
  <2> PICK q \in Seq(Nat) : q = got[r]
    BY <1>1
  <2>2. Append(q, e) \in Seq(Nat) /\ Len(Append(q, e)) = Len(q) + 1 /\ Append(q, e)[Len(q) + 1] = e
        /\ \A j \in 1 .. Len(q) : Append(q, e)[j] = q[j]
    BY <2>1, AppendFacts
  <2> QED
    BY <1>3, <2>2
<1>8. got'[r] = g /\ seen'[r] = s + 1 /\ \A o \in Readers \ {r} : got'[o] = got[o] /\ seen'[o] = seen[o]
  BY <1>6, <1>7 DEF PortIInv, PortShapes
<1>9. PortShapes'
  <2>1. got' \in [Readers -> Seq(Nat)]
    BY <1>6, <1>7 DEF PortIInv, PortShapes
  <2>2. seen' \in [Readers -> 0 .. MaxChunks]
    BY <1>4, <1>6 DEF PortIInv, PortShapes
  <2> QED
    BY <1>1, <2>1, <2>2 DEF PortIInv, PortShapes, portVars, consoleVars
<1>10. StreamsHaveOne' /\ LogsAreChunks' /\ ClosedIsSilent' /\ LogIsAll'
  BY <1>1 DEF PortIInv, StreamsHaveOne, LogsAreChunks, ClosedIsSilent, LogIsAll, portVars, consoleVars
<1>11. LockIsHeld' /\ WireInTurn'
  <2>1. SameLocks /\ WritersStay
    BY <1>1 DEF SameLocks, WritersStay, consoleVars
  <2> QED
    BY <1>1, <2>1, WritersKept DEF portVars
<1>12. ReaderFollows(r) /\ GotUpToSeen(r)
  BY DEF PortIInv
<1>13. \A k \in 1 .. n + 1 : k = n + 1 \/ k \in 1 .. n
  BY <1>3
<1>14. ReaderFollows(r)'
  <2>1. \A k \in 1 .. n + 1 : g[k] \in 1 .. chunks
    BY <1>3, <1>7, <1>12, <1>13 DEF ReaderFollows
  <2>2. s + 1 <= m
    BY <1>2, <1>3
  <2> QED
    BY <1>1, <1>2, <1>7, <1>8, <2>1, <2>2 DEF ReaderFollows, Getting, portVars, consoleVars
<1>15. GotUpToSeen(r)'
  <2> SUFFICES ASSUME Len(opened) = 1 PROVE GotUpToSeen(r)'
    BY <1>1 DEF GotUpToSeen, consoleVars
  <2>1. e = s + 1
    <3>1. using[r] = 1 /\ m = chunks /\ s + 1 \in 1 .. chunks
      BY <1>1, <1>2, <1>4 DEF PortIInv, LogIsAll
    <3> QED
      BY <1>5, <3>1 DEF PortIInv, LogIsAll
  <2>2. /\ n > 0 => got[r][n] = s
        /\ \A k \in 1 .. n : k > 1 => got[r][k] = got[r][k - 1] + 1
    <3>1. DOMAIN got[r] = 1 .. n /\ (n > 0 => got[r] # << >>)
      BY <1>1, <1>3
    <3> QED
      BY <1>1, <1>3, <1>12, <3>1 DEF GotUpToSeen
  <2>3. ASSUME NEW k \in 1 .. n + 1, k > 1 PROVE g[k] = g[k - 1] + 1
    <3>1. k - 1 \in 1 .. n
      BY <2>3, <1>3
    <3>2. CASE k \in 1 .. n
      BY <1>7, <2>2, <2>3, <3>1, <3>2
    <3>3. CASE k = n + 1
      <4>1. k - 1 = n /\ n > 0
        BY <1>3, <2>3, <3>3
      <4> QED
        BY <1>7, <2>1, <2>2, <3>1, <3>3, <4>1
    <3> QED
      BY <1>13, <3>2, <3>3
  <2>4. DOMAIN g = 1 .. n + 1 /\ g[Len(g)] = s + 1
    BY <1>7, <2>1
  <2> QED
    BY <1>8, <2>3, <2>4 DEF GotUpToSeen
<1>16. ASSUME NEW o \in Readers \ {r} PROVE ReaderFollows(o)' /\ GotUpToSeen(o)'
  <2>1. ReaderFollows(o) /\ GotUpToSeen(o)
    BY DEF PortIInv
  <2> QED
    BY <1>1, <1>8, <2>1 DEF ReaderFollows, GotUpToSeen, portVars, consoleVars
<1> QED
  BY <1>9, <1>10, <1>11, <1>14, <1>15, <1>16 DEF PortIInv

\* A call that ends gives back the lock if it has it.
LEMMA EndsStep ==
  ASSUME PortIInv, NEW c \in Callers, pc' = [pc EXCEPT ![c] = "ended"],
         opened' \in Seq(Openings), SameLogs,
         \A i \in 1 .. Len(opened) :
           opened'[i].lock = IF opened[i].lock = c THEN NoWriter ELSE opened[i].lock,
         UNCHANGED <<portVars, rate, open, rateRead, using, seen, got, sends>>
  PROVE  PortIInv'
<1>1. /\ Len(opened') = Len(opened) /\ pc'[c] = "ended"
      /\ \A d \in Callers \ {c} : pc'[d] = pc[d]
  BY DEF SameLogs, PortIInv, PortShapes
<1>2. PortShapes' /\ StreamsHaveOne' /\ ClosedIsSilent'
  BY <1>1 DEF PortIInv, PortShapes, StreamsHaveOne, ClosedIsSilent, portVars
<1>3. ReadersGoOn
  BY <1>1 DEF ReadersGoOn, Callers, Getting
<1>4. LogsAreChunks' /\ LogIsAll' /\ \A r \in Readers : ReaderFollows(r)' /\ GotUpToSeen(r)'
  BY <1>3, ReadersKept DEF portVars
<1>5. NoWriter \notin Writers /\ Writers \subseteq Callers
  BY SerialPortAssumption DEF Callers
<1>6. LockIsHeld'
  BY <1>1, <1>5 DEF PortIInv, LockIsHeld
<1>7. WireInTurn'
  <2> SUFFICES ASSUME Len(opened) = 1 PROVE LastMessage' /\ MessagesStayWhole'
    BY <1>1 DEF WireInTurn
  <2>1. LastMessage /\ MessagesStayWhole /\ wire' = wire /\ sends' = sends /\ OpenedOnce
        /\ opened'[1].lock = IF opened[1].lock = c THEN NoWriter ELSE opened[1].lock
    BY DEF PortIInv, WireInTurn, portVars, OpenedOnce
  <2>2. /\ \A i \in 1 .. Len(wire) : wire[i][1] \in Writers
        /\ Len(wire) \in Nat /\ (wire # << >> => Len(wire) \in 1 .. Len(wire))
    BY DEF PortIInv, PortShapes, Halves
  <2>3. \A w \in Writers : pc[w] = "ended" => pc'[w] = "ended"
    BY <1>1, <1>5
  <2>4. MessagesStayWhole'
    BY <2>1, <2>2, <2>3 DEF MessagesStayWhole
  <2>5. CASE opened[1].lock = c /\ c \in Writers
    <3>1. wire # << >> /\ wire[Len(wire)] = <<c, sends[c], 1>> /\ opened'[1].lock = NoWriter
      BY <2>1, <2>5 DEF LastMessage
    <3>2. wire[Len(wire)][1] = c
      BY <3>1
    <3> QED
      BY <1>1, <1>5, <2>1, <2>4, <3>1, <3>2 DEF LastMessage
  <2>6. CASE opened[1].lock # c \/ c \notin Writers
    <3>1. opened'[1].lock \in Writers \/ opened[1].lock \in Writers => opened'[1].lock = opened[1].lock
      BY <1>5, <2>1, <2>6
    <3> QED
      BY <2>1, <2>2, <2>3, <2>4, <3>1 DEF LastMessage
  <2> QED
    BY <2>5, <2>6
<1> QED
  BY <1>2, <1>4, <1>6, <1>7 DEF PortIInv

\* The first half of a message goes out with the lock.
LEMMA StartWriteStep ==
  ASSUME PortIInv, NEW w \in Writers, StartWrite(w)
  PROVE  PortIInv'
<1>1. /\ pc[w] = "stream" /\ w \in Callers /\ sends[w] \in Nat /\ sends[w] < MaxSends
      /\ using[w] \in 1 .. Len(opened) /\ opened[using[w]].lock = NoWriter
      /\ UNCHANGED <<present, registered, chunks, rate, open, pc, rateRead, using, seen, got>>
  BY SerialPortAssumption DEF StartWrite, PortIInv, PortShapes, StreamsHaveOne, Callers
<1>2. PICK s \in 1 .. MaxSends, h \in Halves : s = sends[w] + 1 /\ h = <<w, s, 1>>
  <2>1. sends[w] + 1 \in 1 .. MaxSends
    BY <1>1, SerialPortAssumption
  <2> QED
    BY <2>1 DEF Halves
<1>3. /\ sends' = [sends EXCEPT ![w] = s] /\ wire' = Append(wire, h)
      /\ opened' = [opened EXCEPT ![using[w]].lock = w]
  BY <1>2 DEF StartWrite
<1>4. PICK e \in Openings : /\ opened' = [opened EXCEPT ![using[w]] = e]
                            /\ e.log = opened[using[w]].log /\ e.lock = w
  <2>1. opened[using[w]] \in Openings
    BY <1>1, OpeningIs DEF PortIInv
  <2>2. [opened[using[w]] EXCEPT !.lock = w] \in Openings
    BY <2>1 DEF Openings
  <2>3. opened' = [opened EXCEPT ![using[w]] = [opened[using[w]] EXCEPT !.lock = w]]
    BY <1>3
  <2> QED
    BY <2>1, <2>2, <2>3 DEF Openings
<1>5. /\ opened' \in Seq(Openings) /\ SameLogs /\ opened'[using[w]].lock = w
      /\ \A j \in 1 .. Len(opened) : j # using[w] => opened'[j].lock = opened[j].lock
  BY <1>1, <1>4, OpeningChanges DEF PortIInv, PortShapes, SameLogs
<1>6. PICK n \in Nat : /\ n = Len(wire) /\ Len(wire') = n + 1 /\ wire' \in Seq(Halves)
                       /\ wire'[n + 1] = h /\ \A i \in 1 .. n : wire'[i] = wire[i]
  <2>1. wire \in Seq(Halves) /\ Len(wire) \in Nat
    BY DEF PortIInv, PortShapes
  <2>2. /\ Append(wire, h) \in Seq(Halves) /\ Len(Append(wire, h)) = Len(wire) + 1
        /\ Append(wire, h)[Len(wire) + 1] = h
        /\ \A i \in 1 .. Len(wire) : Append(wire, h)[i] = wire[i]
    BY <2>1, AppendFacts
  <2> QED
    BY <1>3, <2>1, <2>2
<1>7. /\ sends'[w] = s /\ s > 0 /\ sends' \in [Writers -> 0 .. MaxSends]
      /\ \A v \in Writers \ {w} : sends'[v] = sends[v]
  BY <1>2, <1>3 DEF PortIInv, PortShapes
<1>8. PortShapes' /\ StreamsHaveOne' /\ ClosedIsSilent'
  BY <1>1, <1>5, <1>6, <1>7 DEF PortIInv, PortShapes, StreamsHaveOne, ClosedIsSilent, SameLogs
<1>9. LogsAreChunks' /\ LogIsAll' /\ \A r \in Readers : ReaderFollows(r)' /\ GotUpToSeen(r)'
  BY <1>1, <1>5, ReadersKept DEF ReadersGoOn
<1>10. LockIsHeld'
  BY <1>1, <1>5, <1>7 DEF PortIInv, LockIsHeld, SameLogs
<1>11. WireInTurn'
  <2> SUFFICES ASSUME Len(opened) = 1 PROVE LastMessage' /\ MessagesStayWhole'
    BY <1>5 DEF WireInTurn, SameLogs
  <2>1. opened[1].lock \notin Writers /\ opened'[1].lock = w /\ LastMessage /\ MessagesStayWhole /\ OpenedOnce
    BY <1>1, <1>5, SerialPortAssumption DEF PortIInv, WireInTurn, OpenedOnce
  <2>2. LastMessage'
    BY <1>2, <1>6, <1>7, <2>1 DEF LastMessage
  <2>3. h[3] = 1
    BY <1>2
  <2>4. n > 0 => wire[n][3] = 2 \/ pc[wire[n][1]] = "ended"
    BY <1>6, <2>1 DEF LastMessage
  <2>5. \A i \in 1 .. n - 1 : /\ wire'[i] = wire[i] /\ wire'[i + 1] = wire[i + 1]
                              /\ i \in 1 .. Len(wire) - 1
    BY <1>6
  <2>6. \A i \in 1 .. (n + 1) - 1 : i \in 1 .. n - 1 \/ (i = n /\ n > 0)
    BY <1>6
  <2>7. n > 0 => wire'[n] = wire[n] /\ wire'[n + 1][3] = 1
    BY <1>6, <2>3
  <2>8. pc' = pc
    BY <1>1
  <2>9. \A i \in 1 .. n - 1 :
          IF wire'[i][3] = 1
          THEN wire'[i + 1] = <<wire'[i][1], wire'[i][2], 2>> \/ pc[wire'[i][1]] = "ended"
          ELSE wire'[i + 1][3] = 1
    BY <2>1, <2>5 DEF MessagesStayWhole
  <2>10. n > 0 =>
          IF wire'[n][3] = 1
          THEN wire'[n + 1] = <<wire'[n][1], wire'[n][2], 2>> \/ pc[wire'[n][1]] = "ended"
          ELSE wire'[n + 1][3] = 1
    BY <2>4, <2>7
  <2> QED
    BY <1>6, <2>2, <2>6, <2>8, <2>9, <2>10 DEF MessagesStayWhole
<1> QED
  BY <1>8, <1>9, <1>10, <1>11 DEF PortIInv

\* The second half follows the first, and the lock is given back.
LEMMA FinishWriteStep ==
  ASSUME PortIInv, NEW w \in Writers, FinishWrite(w)
  PROVE  PortIInv'
<1>1. /\ pc[w] = "stream" /\ w \in Callers /\ sends[w] \in 0 .. MaxSends
      /\ using[w] \in 1 .. Len(opened) /\ opened[using[w]].lock = w
      /\ UNCHANGED <<present, registered, chunks, rate, open, callVars>>
  BY SerialPortAssumption DEF FinishWrite, PortIInv, PortShapes, StreamsHaveOne, Callers
<1>2. PICK s \in 1 .. MaxSends, h \in Halves : s = sends[w] /\ h = <<w, s, 2>>
  <2>1. sends[w] \in 1 .. MaxSends
    BY <1>1, SerialPortAssumption DEF PortIInv, LockIsHeld
  <2> QED
    BY <2>1 DEF Halves
<1>3. wire' = Append(wire, h) /\ opened' = Unlock(w)
  BY <1>2 DEF FinishWrite
<1>4. /\ opened' \in Seq(Openings) /\ SameLogs
      /\ \A i \in 1 .. Len(opened) :
           opened'[i].lock = IF opened[i].lock = w THEN NoWriter ELSE opened[i].lock
  BY <1>3, UnlockIs DEF PortIInv
<1>5. PICK n \in Nat : /\ n = Len(wire) /\ Len(wire') = n + 1 /\ wire' \in Seq(Halves)
                       /\ wire'[n + 1] = h /\ \A i \in 1 .. n : wire'[i] = wire[i]
  <2>1. wire \in Seq(Halves) /\ Len(wire) \in Nat
    BY DEF PortIInv, PortShapes
  <2>2. /\ Append(wire, h) \in Seq(Halves) /\ Len(Append(wire, h)) = Len(wire) + 1
        /\ Append(wire, h)[Len(wire) + 1] = h
        /\ \A i \in 1 .. Len(wire) : Append(wire, h)[i] = wire[i]
    BY <2>1, AppendFacts
  <2> QED
    BY <1>3, <2>1, <2>2
<1>6. PortShapes' /\ StreamsHaveOne' /\ ClosedIsSilent'
  BY <1>1, <1>4, <1>5 DEF PortIInv, PortShapes, StreamsHaveOne, ClosedIsSilent, SameLogs, callVars
<1>7. LogsAreChunks' /\ LogIsAll' /\ \A r \in Readers : ReaderFollows(r)' /\ GotUpToSeen(r)'
  BY <1>1, <1>4, ReadersKept DEF ReadersGoOn, callVars
<1>8. LockIsHeld'
  BY <1>1, <1>4, SerialPortAssumption DEF PortIInv, LockIsHeld, SameLogs, callVars
<1>9. WireInTurn'
  <2> SUFFICES ASSUME Len(opened) = 1 PROVE LastMessage' /\ MessagesStayWhole'
    BY <1>4 DEF WireInTurn, SameLogs
  <2>1. /\ opened[1].lock = w /\ opened'[1].lock = NoWriter
        /\ LastMessage /\ MessagesStayWhole /\ OpenedOnce
    BY <1>1, <1>4 DEF PortIInv, WireInTurn, OpenedOnce
  <2>2. h[3] = 2
    BY <1>2
  <2>3. LastMessage'
    BY <1>5, <2>1, <2>2, SerialPortAssumption DEF LastMessage
  <2>4. n > 0 /\ wire[n] = <<w, s, 1>>
    BY <1>2, <1>5, <2>1 DEF LastMessage
  <2>5. wire'[n][1] = w /\ wire'[n][2] = s /\ wire'[n][3] = 1 /\ wire'[n + 1] = <<w, s, 2>>
    BY <1>2, <1>5, <2>4
  <2>6. \A i \in 1 .. n - 1 : /\ wire'[i] = wire[i] /\ wire'[i + 1] = wire[i + 1]
                              /\ i \in 1 .. Len(wire) - 1
    BY <1>5
  <2>7. \A i \in 1 .. (n + 1) - 1 : i \in 1 .. n - 1 \/ i = n
    BY <1>5
  <2>8. pc' = pc
    BY <1>1 DEF callVars
  <2>9. \A i \in 1 .. n - 1 :
          IF wire'[i][3] = 1
          THEN wire'[i + 1] = <<wire'[i][1], wire'[i][2], 2>> \/ pc[wire'[i][1]] = "ended"
          ELSE wire'[i + 1][3] = 1
    BY <2>1, <2>6 DEF MessagesStayWhole
  <2>10. IF wire'[n][3] = 1
         THEN wire'[n + 1] = <<wire'[n][1], wire'[n][2], 2>> \/ pc[wire'[n][1]] = "ended"
         ELSE wire'[n + 1][3] = 1
    BY <2>5
  <2> QED
    BY <1>5, <2>3, <2>7, <2>8, <2>9, <2>10 DEF MessagesStayWhole
<1> QED
  BY <1>6, <1>7, <1>8, <1>9 DEF PortIInv

LEMMA PortStarts == PortInit => PortIInv
<1> SUFFICES ASSUME PortInit PROVE PortIInv
  OBVIOUS
<1>1. << >> \in Seq(Openings) /\ << >> \in Seq(Nat) /\ << >> \in Seq(Halves)
  OBVIOUS
<1>2. PortShapes
  BY <1>1, SerialPortAssumption DEF PortInit, PortShapes
<1>3. StreamsHaveOne /\ LogsAreChunks /\ LockIsHeld /\ ClosedIsSilent /\ LogIsAll /\ WireInTurn
  BY DEF PortInit, StreamsHaveOne, LogsAreChunks, LockIsHeld, ClosedIsSilent, LogIsAll, WireInTurn
<1>4. ASSUME NEW r \in Readers PROVE ReaderFollows(r) /\ GotUpToSeen(r)
  BY DEF PortInit, ReaderFollows, GotUpToSeen, Callers
<1> QED
  BY <1>2, <1>3, <1>4 DEF PortIInv

\* Every step of the port, of its tasks and of its callers.
LEMMA PortStep == PortIInv /\ [PortNext]_serialVars => PortIInv'
<1> SUFFICES ASSUME PortIInv, [PortNext]_serialVars PROVE PortIInv'
  OBVIOUS
<1>1. CASE UNCHANGED serialVars
  <2>1. SameLogs /\ SameLocks /\ ReadersGoOn /\ WritersStay
    BY <1>1 DEF serialVars, consoleVars, callVars, SameLogs, SameLocks, ReadersGoOn, WritersStay
  <2>2. PortShapes' /\ StreamsHaveOne' /\ ClosedIsSilent'
    BY <1>1 DEF serialVars, portVars, consoleVars, callVars, PortIInv, PortShapes, StreamsHaveOne, ClosedIsSilent
  <2> QED
    BY <1>1, <2>1, <2>2, ReadersKept, WritersKept DEF serialVars, portVars, callVars, PortIInv
<1>2. CASE PullOut \/ Unregister \/ Configure
  BY <1>2, QuietStep
<1>3. CASE Task
  <2>1. DOMAIN opened = 1 .. Len(opened)
    BY DEF PortIInv, PortShapes
  <2> QED
    BY <1>3, <2>1, ReadChunkStep, ReadEndsStep DEF Task
<1>4. ASSUME NEW c \in Callers, Call(c) \/ Get(c) \/ End(c) PROVE PortIInv'
  <2>1. rateRead \in [Callers -> Rates] /\ rate \in Rates /\ pc \in [Callers -> Getting \cup {"idle", "stream", "failed", "ended"}]
    BY DEF PortIInv, PortShapes
  <2>2. CASE Call(c)
    BY <2>1, <2>2, GoStep DEF Call, Goes, Getting, consoleVars
  <2>3. CASE Check(c)
    <3>1. CASE open # 0 /\ Stream(c)
      BY <2>3, <3>1, StartStream DEF Check, Getting, consoleVars
    <3>2. CASE open = 0 /\ Goes(c, "rate") /\ UNCHANGED <<using, seen>>
      BY <2>1, <2>3, <3>2, GoStep DEF Check, Goes, Getting, consoleVars
    <3> QED
      BY <2>3, <3>1, <3>2 DEF Check
  <2>4. CASE ReadRate(c)
    <3>1. rateRead' \in [Callers -> Rates]
      BY <2>1, <2>4 DEF ReadRate
    <3> QED
      BY <2>1, <2>4, <3>1, GoStep DEF ReadRate, Goes, Getting, consoleVars
  <2>5. CASE Open(c)
    BY <2>5, OpenStep
  <2>6. CASE FailToOpen(c)
    BY <2>1, <2>6, GoStep DEF FailToOpen, Goes, Getting, consoleVars
  <2>7. CASE Fetch(c)
    <3>1. open # 0
      BY <2>7 DEF Fetch, PortIInv, StreamsHaveOne
    <3> QED
      BY <2>7, <3>1, StartStream DEF Fetch, Getting, consoleVars
  <2>8. CASE End(c)
    <3>1. /\ opened' \in Seq(Openings) /\ SameLogs
          /\ \A i \in 1 .. Len(opened) :
               opened'[i].lock = IF opened[i].lock = c THEN NoWriter ELSE opened[i].lock
      BY <2>8, UnlockIs DEF End, PortIInv
    <3> QED
      BY <2>8, <3>1, EndsStep DEF End, Goes
  <2> QED
    BY <1>4, <2>2, <2>3, <2>4, <2>5, <2>6, <2>7, <2>8 DEF Get
<1>5. ASSUME NEW r \in Readers, Output(r) PROVE PortIInv'
  <2>1. CASE Receive(r)
    BY <2>1, ReceiveStep
  <2>2. CASE ReceiveEnds(r)
    <3>1. \A i \in 1 .. Len(opened) : opened[i].lock = r => opened[i].lock = NoWriter
      BY OpeningIs, SerialPortAssumption DEF PortIInv
    <3>2. opened' = opened /\ opened \in Seq(Openings) /\ r \in Callers
      BY <2>2 DEF ReceiveEnds, consoleVars, PortIInv, PortShapes, Callers
    <3>3. SameLogs
      BY <3>2 DEF SameLogs
    <3> QED
      BY <2>2, <3>1, <3>2, <3>3, EndsStep DEF ReceiveEnds, Goes, consoleVars
  <2> QED
    BY <1>5, <2>1, <2>2 DEF Output
<1>6. ASSUME NEW w \in Writers, Input(w) PROVE PortIInv'
  BY <1>6, StartWriteStep, FinishWriteStep DEF Input
<1> QED
  BY <1>1, <1>2, <1>3, <1>4, <1>5, <1>6 DEF PortNext

\* A sequence is one of whatever its elements are in.
LEMMA OfElements ==
  ASSUME NEW S, NEW T, NEW s \in Seq(S), \A n \in 1 .. Len(s) : s[n] \in T
  PROVE  s \in Seq(T)
  OBVIOUS

\* The invariant says no more than the types do, and the promises are part of it.
LEMMA PortEnough == PortIInv => PortInv
<1> SUFFICES ASSUME PortIInv PROVE PortInv
  OBVIOUS
<1>1. chunks \in Nat /\ opened \in Seq(Openings) /\ DOMAIN opened = 1 .. Len(opened)
  BY DEF PortIInv, PortShapes
<1>2. ASSUME NEW s \in Seq(Nat), \A n \in 1 .. Len(s) : s[n] \in 1 .. chunks
      PROVE  s \in Seq(1 .. chunks)
  BY <1>2, OfElements
<1>3. ASSUME NEW i \in DOMAIN opened
      PROVE  /\ opened[i].rate \in Rates /\ opened[i].reading \in BOOLEAN
             /\ opened[i].log \in Seq(1 .. chunks) /\ opened[i].lock \in Writers \cup {NoWriter}
  <2>1. opened[i] \in Openings /\ i \in 1 .. Len(opened)
    BY <1>1
  <2>2. opened[i].log \in Seq(Nat) /\ \A n \in 1 .. Len(opened[i].log) : opened[i].log[n] \in 1 .. chunks
    BY <2>1 DEF PortIInv, LogsAreChunks, Openings
  <2>3. opened[i].log \in Seq(1 .. chunks)
    BY <1>2, <2>2
  <2> QED
    BY <2>1, <2>3 DEF Openings
<1>4. got \in [Readers -> Seq(1 .. chunks)]
  <2>1. \A r \in Readers : got[r] \in Seq(Nat) /\ \A n \in 1 .. Len(got[r]) : got[r][n] \in 1 .. chunks
    BY DEF PortIInv, PortShapes, ReaderFollows
  <2>2. \A r \in Readers : got[r] \in Seq(1 .. chunks)
    BY <1>2, <2>1
  <2> QED
    BY <2>2 DEF PortIInv, PortShapes
<1>5. PortTypeOK
  BY <1>3, <1>4 DEF PortIInv, PortShapes, PortTypeOK, Halves
<1>6. NeverUnreachable
  BY DEF NeverUnreachable, PortIInv, PortShapes, Getting
<1>7. NoSilentGap
  <2> SUFFICES ASSUME OpenedOnce, NEW r \in Readers, NEW i \in DOMAIN got[r], i > 1
               PROVE  got[r][i] = got[r][i - 1] + 1
    BY DEF NoSilentGap
  <2>1. CASE Len(opened) = 1
    BY <2>1 DEF PortIInv, GotUpToSeen
  <2>2. CASE Len(opened) # 1
    <3>1. chunks = 0
      BY <1>1, <2>2 DEF OpenedOnce, PortIInv, ClosedIsSilent
    <3>2. i \in 1 .. Len(got[r])
      BY <1>4
    <3>3. got[r][i] \in 1 .. chunks
      BY <3>2 DEF PortIInv, ReaderFollows
    <3> QED
      BY <3>1, <3>3
  <2> QED
    BY <2>1, <2>2
<1>8. MessagesStayWhole
  <2>1. CASE Len(opened) = 1
    BY <2>1 DEF PortIInv, WireInTurn
  <2>2. CASE Len(opened) # 1
    BY <1>1, <2>2 DEF OpenedOnce, PortIInv, ClosedIsSilent, MessagesStayWhole
  <2> QED
    BY <2>1, <2>2
<1> QED
  BY <1>5, <1>6, <1>7, <1>8 DEF PortInv

\* What open() leaves its callers, broadcast its readers and the mutex of the
\* write half its writers, for any number of them: a stream finds the port open, and
\* on a port that was opened once no reader misses a chunk in silence, and no two
\* messages mix.
THEOREM PortSafe == PortSpec => []PortInv
<1> QED
  BY PortStarts, PortStep, PortEnough, PTL DEF PortSpec
=============================================================================
