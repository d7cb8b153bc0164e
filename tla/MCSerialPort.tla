---------------------------- MODULE MCSerialPort ----------------------------
(***************************************************************************)
(* Two serial ports for TLC: that of a console, and that of a HiFive P550  *)
(* controller.  They share nothing, so their behaviours are those of each: *)
(* only one of them leaves its initial state.                              *)
(***************************************************************************)
EXTENDS SerialPort, HifiveMcu, TLC

CONSTANTS r1, w1, w2

OneReader == {r1}
TwoWriters == {w1, w2}
OneRate == {115200}
PowerModes == {"off", "on"}
BootSelections == {"hardware", "usb"}

portsVars == <<serialVars, mcuVars>>

PortsInit == PortInit /\ McuInit

\* The board the console goes with is a given one.
PlainBoard == board = [a \in McuCommand |-> IF a = "som-power" THEN "off" ELSE "hardware"]

PortsNext ==
  \/ McuInit /\ PlainBoard /\ PortNext /\ UNCHANGED mcuVars
  \/ PortInit /\ McuNext /\ UNCHANGED serialVars

PortsSpec == PortsInit /\ [][PortsNext]_portsVars /\ PortFairness
=============================================================================
