-------------------------- MODULE DeviceInventory --------------------------
(***************************************************************************)
(* What DeviceRegistrations promises (the comment on pre_register in       *)
(* udev.rs): the items of a device that are registered are those of its    *)
(* latest appearance, all of them or none, and none once it was removed.   *)
(***************************************************************************)
CONSTANTS Paths,       \* syspaths of devices
          Parts,       \* what a device is registered as: a volume, actuators...
          Numbers,     \* sequence numbers of appearances
          None         \* no appearance

VARIABLES latest,      \* latest[p]: the appearance the provider was told of
          shown        \* shown[p]: the items of p that are registered

Batch(p, s) == [path : {p}, seq : {s}, part : Parts]

InventoryInit ==
  /\ latest = [p \in Paths |-> None]
  /\ shown = [p \in Paths |-> {}]

\* A device appears, perhaps once more.
Announce(p, s) ==
  /\ latest' = [latest EXCEPT ![p] = s]
  /\ shown' = [shown EXCEPT ![p] = {}]

Withdraw(p) ==
  /\ latest' = [latest EXCEPT ![p] = None]
  /\ shown' = [shown EXCEPT ![p] = {}]

\* The device has been prepared and its items are registered together.
Publish(p) ==
  /\ latest[p] # None
  /\ shown' = [shown EXCEPT ![p] = Batch(p, latest[p])]
  /\ UNCHANGED latest

InventoryNext ==
  \E p \in Paths :
    \/ \E s \in Numbers : Announce(p, s)
    \/ Withdraw(p)
    \/ Publish(p)

InventorySpec == InventoryInit /\ [][InventoryNext]_<<latest, shown>>
=============================================================================
