---------------------------- MODULE DeviceLinks ----------------------------
(***************************************************************************)
(* How a configured device finds its consoles, volumes and actuators       *)
(* (config_device.rs): every console, volume and mode step of the          *)
(* configuration is a DeviceItem that holds the id of the registry item    *)
(* that matches it, and one task per device keeps those ids up to date     *)
(* from the registries (Device::from_config, Device::monitor_items).       *)
(*                                                                         *)
(* Devices share nothing but the registries, so this is one device.        *)
(***************************************************************************)
EXTENDS Registry, FiniteSetsExt

CONSTANTS Slots,       \* the DeviceItems of the device
          SlotKind,    \* SlotKind[s]: the registry slot s looks in
          Matching,    \* Matching[s]: the items that match the config of s
          Order,       \* the order in which monitor_items takes the registries
          NoId         \* DeviceItem.id = None

ASSUME DeviceLinksAssumption ==
  /\ Kinds # {}
  /\ SlotKind \in [Slots -> Kinds]
  /\ Matching \in [Slots -> SUBSET Items]
  /\ Order \in Seq(Kinds)
  /\ \A k \in Kinds : \E n \in 1 .. Len(Order) : Order[n] = k
  /\ NoId \notin Nat

VARIABLES pc,          \* where monitor_items is
          step,        \* index in Order while it subscribes and scans
          pos,         \* pos[k]: the task's receiver of registry k
          linked,      \* linked[s]: DeviceItem.id
          changed,     \* the local variable: a link was set or unset
          announced,   \* linked as it was when the watchers were last notified
          missed       \* missed[k]: ids whose removal the task never received

taskVars == <<pc, step, pos, linked, changed, announced, missed>>
vars == <<next, contents, log, pc, step, pos, linked, changed, announced, missed>>

-----------------------------------------------------------------------------
Init ==
  /\ RegistryInit
  /\ pc = "subscribe"
  /\ step = 1
  /\ pos = [k \in Kinds |-> 0]
  /\ linked = [s \in Slots |-> NoId]
  /\ changed = FALSE
  /\ announced = linked
  /\ missed = [k \in Kinds |-> {}]

SlotsOf(k) == {s \in Slots : SlotKind[s] = k}

\* The present items a slot matches
Candidates(s) ==
  {i \in DOMAIN contents[SlotKind[s]] : contents[SlotKind[s]][i] \in Matching[s]}

RemovedIn(k, positions) ==
  {log[k][m].id : m \in {n \in positions : log[k][n].op = "removed"}}

\* One of the three calls of monitor().  The receiver that monitor_items held
\* before it was restarted is gone, with what it had not received.
MonitorRegistry ==
  /\ pc = "subscribe"
  /\ LET k == Order[step] IN
       /\ missed' = [missed EXCEPT ![k] = @ \cup RemovedIn(k, Unseen(k, pos[k]))]
       /\ pos' = [pos EXCEPT ![k] = Len(log[k])]
  /\ IF step < Len(Order)
     THEN step' = step + 1 /\ UNCHANGED pc
     ELSE step' = 1 /\ pc' = "scan"
  /\ changed' = FALSE
  /\ UNCHANGED <<next, contents, log, linked, announced>>

\* A wrong Scan: the receivers are made after the last loop.
ScanThenSubscribe ==
  /\ pc = "scan"
  /\ LET k == Order[step]
         hits == {s \in SlotsOf(k) : Candidates(s) # {}}
     IN  /\ linked' = [s \in Slots |-> IF s \in hits THEN Max(Candidates(s)) ELSE linked[s]]
         /\ changed' = (changed \/ hits # {})
  /\ IF step < Len(Order)
     THEN step' = step + 1 /\ UNCHANGED <<pc, pos>>
     ELSE /\ step' = 1
          /\ pc' = IF changed' THEN "notify" ELSE "select"
          /\ pos' = [k \in Kinds |-> Len(log[k])]
  /\ UNCHANGED <<next, contents, log, announced, missed>>

\* A wrong Scan: changed is that of the last loop alone (= instead of |=).
ScanForgetsChanged ==
  /\ pc = "scan"
  /\ LET k == Order[step]
         hits == {s \in SlotsOf(k) : Candidates(s) # {}}
     IN  /\ linked' = [s \in Slots |-> IF s \in hits THEN Max(Candidates(s)) ELSE linked[s]]
         /\ changed' = (hits # {})
  /\ IF step < Len(Order)
     THEN step' = step + 1 /\ UNCHANGED pc
     ELSE step' = 1 /\ pc' = IF changed' THEN "notify" ELSE "select"
  /\ UNCHANGED <<next, contents, log, pos, announced, missed>>

\* One of the three loops over contents(): in the order of the ids, so the
\* last match is the one kept; an item without a match is left as it is.
Scan ==
  /\ pc = "scan"
  /\ LET k == Order[step]
         hits == {s \in SlotsOf(k) : Candidates(s) # {}}
     IN  /\ linked' = [s \in Slots |-> IF s \in hits THEN Max(Candidates(s)) ELSE linked[s]]
         /\ changed' = (changed \/ hits # {})
  /\ IF step < Len(Order)
     THEN step' = step + 1 /\ UNCHANGED pc
     ELSE step' = 1 /\ pc' = IF changed' THEN "notify" ELSE "select"
  /\ UNCHANGED <<next, contents, log, pos, announced, missed>>

\* notifier.notify(), after the scan and after a change in the select loop
NotifyWatchers ==
  /\ pc = "notify"
  /\ pc' = "select"
  /\ announced' = linked
  /\ UNCHANGED <<next, contents, log, step, pos, linked, changed, missed>>

\* A wrong Touched: the slots that match what was added, whatever the change.
TouchedByAdds(k, change) ==
  {s \in SlotsOf(k) : change.op = "added" /\ change.item \in Matching[s]}

\* add_item_with and change_with: the slots a change touches and what it makes
\* of them (set_if_matches, unset_if_matches).
Touched(k, change) ==
  {s \in SlotsOf(k) :
     IF change.op = "added" THEN change.item \in Matching[s]
                            ELSE linked[s] = change.id}

Relinked(k, change) ==
  [s \in Slots |->
     IF s \notin Touched(k, change) THEN linked[s]
     ELSE IF change.op = "added" THEN change.id ELSE NoId]

\* The select loop: a change of registry k was received.
Receive(k) ==
  /\ pc = "select"
  /\ Unseen(k, pos[k]) # {}
  /\ ~ HasLagged(k, pos[k])
  /\ LET change == log[k][pos[k] + 1] IN
       /\ linked' = Relinked(k, change)
       /\ changed' = (Touched(k, change) # {})
  /\ pos' = [pos EXCEPT ![k] = @ + 1]
  /\ pc' = IF changed' THEN "notify" ELSE "select"
  /\ UNCHANGED <<next, contents, log, step, announced, missed>>

\* A wrong Restart: monitor_items goes on with the same receiver position.
RestartInPlace(k) ==
  /\ pc = "select"
  /\ HasLagged(k, pos[k])
  /\ UNCHANGED vars

\* The select loop: recv() of registry k returned Lagged, so monitor_items
\* returns and the loop in from_config calls it again.
Restart(k) ==
  /\ pc = "select"
  /\ HasLagged(k, pos[k])
  /\ pc' = "subscribe"
  /\ UNCHANGED <<next, contents, log, step, pos, linked, changed, announced, missed>>

TaskStep == MonitorRegistry \/ Scan \/ NotifyWatchers \/ \E k \in Kinds : Receive(k) \/ Restart(k)

RegistryStep == RegistryNext /\ UNCHANGED taskVars

Next == RegistryStep \/ TaskStep

Spec == Init /\ [][Next]_vars

\* The task is spawned once and never ends.
FairSpec == Spec /\ WF_vars(TaskStep)

-----------------------------------------------------------------------------
TypeOK ==
  /\ RegistryTypeOK
  /\ pc \in {"subscribe", "scan", "notify", "select"}
  /\ step \in 1 .. Len(Order)
  /\ pos \in [Kinds -> Nat]
  /\ linked \in [Slots -> Nat \cup {NoId}]
  /\ changed \in BOOLEAN
  /\ announced \in [Slots -> Nat \cup {NoId}]
  /\ missed \in [Kinds -> SUBSET Nat]

Settled == pc = "select" /\ \A k \in Kinds : Unseen(k, pos[k]) = {}

\* When the task has received everything, a device links to an item that is
\* gone only if the task never received its removal: the changes that were
\* pending on any of the three channels when one of them lagged.
DanglingOnlyIfMissed ==
  Settled => \A s \in Slots :
    linked[s] # NoId =>
      linked[s] \in Candidates(s) \cup missed[SlotKind[s]]

\* What was said about a slot so far never overlapped: an item that matches it
\* was added only after the one before had been removed.
OneMatchAtATime(s) ==
  LET k == SlotKind[s]
      matches == {m \in 1 .. Len(log[k]) :
                    log[k][m].op = "added" /\ log[k][m].item \in Matching[s]}
  IN  \A m, n \in matches :
        m < n => \E r \in m .. n : log[k][r] = Removed(log[k][m].id)

\* A present item is found, whenever it was added: before the subscription,
\* between it and the scan, during the scan of another registry, or while the
\* task restarts.
PresentIsLinked ==
  Settled => \A s \in Slots :
    OneMatchAtATime(s) /\ Candidates(s) # {} => linked[s] \in Candidates(s)

\* A task of a device has the links that its subscriptions and scans justify, and
\* those it must have.
LinksInv == TypeOK /\ DanglingOnlyIfMissed /\ PresentIsLinked

\* The watchers are told of every change of a link: what they were last told
\* is out of date only until the notification that is about to be sent.
LinksAreAnnounced ==
  announced = linked \/ (pc \in {"scan", "notify"} /\ changed)

\* However often it has to restart, the task catches up when the registries
\* stop changing.
CatchesUp == []<>Settled

\* A device stops linking to an item some time after the item is gone: what a
\* client that waits for a volume to become unavailable relies on.  Does not hold:
\* a removal that a restart of the task has skipped leaves its link for good.
GoneIsUnlinked ==
  \A s \in Slots : \A i \in 0 .. MaxId - 1 :
    (i \in RemovedIn(SlotKind[s], 1 .. Len(log[SlotKind[s]]))) ~> (linked[s] # i)
=============================================================================
