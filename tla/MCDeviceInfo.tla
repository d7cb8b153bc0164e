---------------------------- MODULE MCDeviceInfo ----------------------------
(* Two modes of the example device in boardswarm/README.md, two clients that
   switch it and one that watches it.  A watcher is told nothing of actuators, so
   stray requests and the watcher are not taken together. *)
EXTENDS DeviceInfo, Functions, TLC

CONSTANTS c1, c2, w1

MCModes == {"on", "off"}
MCDepends == [m \in MCModes |-> IF m = "off" THEN NoMode ELSE "off"]
MCActuators == {"pdu", "maskrom"}
Set(a, v) == [actuator |-> a, value |-> v]
MCSequence ==
  [m \in MCModes |->
     IF m = "on" THEN <<Set("pdu", "on")>>
     ELSE <<Set("maskrom", "false"), Set("pdu", "off")>>]
MCRequests == UNION {Range(MCSequence[m]) : m \in MCModes}
MCCallers == {c1, c2}
MCWatchers == {w1}

StraysApart ==
  \/ stray' = {} /\ touched' = {}
  \/ linkChanges' = 0 /\ \A w \in Watchers : at'[w] = "idle"

MCInfoSpec == InfoInit /\ [][InfoNext /\ StraysApart]_infoVars /\ InfoFairness
=============================================================================
