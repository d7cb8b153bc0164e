--------------------------- MODULE MCDeviceLinks ---------------------------
(* An instance of DeviceLinks for TLC. *)
EXTENDS DeviceLinks, TLC

CONSTANTS a, b, vol, act

\* One slot in each of two registries; a matches both, b only the second.
MCKinds == {"actuators", "volumes"}
MCOrder == <<"actuators", "volumes">>
MCItems == {a, b}
MCSlots == {vol, act}
MCSlotKind == [s \in MCSlots |-> IF s = vol THEN "volumes" ELSE "actuators"]
MCMatching == [s \in MCSlots |-> IF s = vol THEN {a} ELSE {a, b}]
=============================================================================
