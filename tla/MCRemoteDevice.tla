--------------------------- MODULE MCRemoteDevice ---------------------------
(***************************************************************************)
(* What a server re-exports of another one, for TLC: a device, and a       *)
(* console.  They share nothing; only one of them leaves its initial       *)
(* state.                                                                  *)
(***************************************************************************)
EXTENDS RemoteDevice, ConsoleProxy, TLC

CONSTANTS uart, disk, ann, bob

TwoItems == {uart, disk}
TwoCallers == {ann, bob}

ExportInit == Init /\ ProxyInit

ExportNext ==
  \/ ProxyInit /\ Next /\ UNCHANGED proxyVars
  \/ Init /\ ProxyNext /\ UNCHANGED vars

ExportSpec == ExportInit /\ [][ExportNext]_<<vars, proxyVars>>
=============================================================================
