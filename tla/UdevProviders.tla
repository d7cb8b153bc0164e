--------------------------- MODULE UdevProviders ---------------------------
(***************************************************************************)
(* The ways in which providers keep their registrations right, over the    *)
(* same paths and events of the kernel.  A behaviour is of one provider,   *)
(* of any kind.                                                            *)
(***************************************************************************)
EXTENDS UdevRegistrations, UdevDirect, Gpio

\* For TLC: the lines by number, of which there is one.
OneNumber == <<2>>

VARIABLE provider   \* the kind of the provider

providerVars == <<vars, directVars, gpioVars, provider>>

ProviderInit == Init /\ DirectInit /\ GpioInit /\ provider \in {"tracked", "direct", "gpio"}

ProviderNext ==
  \/ provider = "tracked" /\ Next /\ UNCHANGED <<directVars, gpioVars, provider>>
  \/ provider = "direct" /\ DirectNext /\ UNCHANGED <<regVars, gpioVars, provider>>
  \/ provider = "gpio" /\ GpioNext /\ UNCHANGED <<regVars, directVars, provider>>

ProviderSpec == ProviderInit /\ [][ProviderNext]_providerVars /\ Fairness

\* What a provider of each kind offers once it has been given everything.
OfferedInv == QuietIsTrue /\ DirectInv /\ GpioInv
=============================================================================
