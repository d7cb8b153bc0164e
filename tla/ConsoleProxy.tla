---------------------------- MODULE ConsoleProxy ----------------------------
(***************************************************************************)
(* A console of another server (boardswarm_provider/console.rs).  Its      *)
(* parameters are kept here and sent to the remote console by every call   *)
(* that opens an input or an output, before it opens it.  What is typed    *)
(* into an input goes through a channel to a task that streams it to the   *)
(* remote; nothing comes back, so that nobody is told when the remote      *)
(* stops listening.                                                        *)
(***************************************************************************)
EXTENDS Integers, Sequences

CONSTANTS Callers,        \* calls of input() and output()
          Depth,          \* capacity of the channel of an input
          MaxConfigured,  \* bound: configurations
          MaxTyped        \* bound: what is typed into each input

ASSUME ConsoleProxyAssumption ==
  Depth \in Nat \ {0} /\ MaxConfigured \in Nat /\ MaxTyped \in Nat

VARIABLES
  parameters,   \* BoardswarmConsole: the number of the last configuration, 0 if none
  inForce,      \* the configuration that the remote console has
  opening,      \* opening[c]: the call, and what it has opened
  carried,      \* carried[c]: the configuration that call c has read
  requests,     \* the requests to configure that may still reach the remote
  overlapped,   \* history: a call began while such a request was on its way
  typed,        \* typed[c]: how much was typed into c
  typing,       \* typing[c]: the channel of c
  forwarder,    \* forwarder[c]: its task
  heard         \* heard[c]: what the remote console has got from c

configVars == <<parameters, inForce, carried, requests, overlapped>>
inputVars == <<typed, typing, forwarder, heard>>
proxyVars == <<configVars, opening, inputVars>>

Versions == 0 .. MaxConfigured

ProxyTypeOK ==
  /\ parameters \in Versions /\ inForce \in Versions
  /\ opening \in [Callers -> {"none", "configuring", "open", "closed", "failed"}]
  /\ carried \in [Callers -> Versions]
  /\ requests \subseteq Callers /\ overlapped \in BOOLEAN
  /\ typed \in [Callers -> 0 .. MaxTyped]
  /\ typing \in [Callers -> Seq(1 .. MaxTyped)] /\ \A c \in Callers : Len(typing[c]) <= Depth
  /\ forwarder \in [Callers -> {"none", "running", "done", "broken"}]
  /\ heard \in [Callers -> Seq(1 .. MaxTyped)]

ProxyInit ==
  /\ parameters = 0 /\ inForce = 0
  /\ opening = [c \in Callers |-> "none"] /\ carried = [c \in Callers |-> 0]
  /\ requests = {} /\ overlapped = FALSE
  /\ typed = [c \in Callers |-> 0] /\ typing = [c \in Callers |-> << >>]
  /\ forwarder = [c \in Callers |-> "none"] /\ heard = [c \in Callers |-> << >>]

-----------------------------------------------------------------------------
(* Configuring and opening. *)

\* configure() changes nothing at the remote.
ConfigureProxy ==
  /\ parameters < MaxConfigured
  /\ parameters' = parameters + 1
  /\ UNCHANGED <<inForce, opening, carried, requests, overlapped, inputVars>>

\* input() or output(), up to the first await
OpenProxy(c) ==
  /\ opening[c] = "none"
  /\ carried' = [carried EXCEPT ![c] = parameters]
  /\ overlapped' = (overlapped \/ requests # {})
  /\ IF parameters = 0
     THEN opening' = [opening EXCEPT ![c] = "open"] /\ UNCHANGED requests
     ELSE opening' = [opening EXCEPT ![c] = "configuring"] /\ requests' = requests \cup {c}
  /\ UNCHANGED <<parameters, inForce, inputVars>>

\* A wrong Apply: parameters are only sent if none are in force.
ApplyOnce(c) ==
  /\ c \in requests
  /\ requests' = requests \ {c}
  /\ inForce' = IF inForce = 0 THEN carried[c] ELSE inForce
  /\ opening' = [opening EXCEPT ![c] = IF @ = "configuring" THEN "open" ELSE @]
  /\ UNCHANGED <<parameters, carried, overlapped, inputVars>>

\* console_configure() of the remote, and its answer
Apply(c) ==
  /\ c \in requests
  /\ requests' = requests \ {c}
  /\ inForce' = carried[c]
  /\ opening' = [opening EXCEPT ![c] = IF @ = "configuring" THEN "open" ELSE @]
  /\ UNCHANGED <<parameters, carried, overlapped, inputVars>>

\* The remote does not answer, or refuses: unwrap() panics and the call fails.
OpenPanics(c) ==
  /\ opening[c] = "configuring"
  /\ opening' = [opening EXCEPT ![c] = "failed"]
  /\ requests' = requests \ {c}
  /\ UNCHANGED <<parameters, inForce, carried, overlapped, inputVars>>

\* The caller goes away; its request may have been sent.
AbandonOpen(c) ==
  /\ opening[c] = "configuring"
  /\ opening' = [opening EXCEPT ![c] = "failed"]
  /\ UNCHANGED <<configVars, inputVars>>

-----------------------------------------------------------------------------
(* An input. *)

\* The task that streams to the remote is spawned before input() returns.
StartInput(c) ==
  /\ opening[c] = "open" /\ forwarder[c] = "none"
  /\ forwarder' = [forwarder EXCEPT ![c] = "running"]
  /\ UNCHANGED <<configVars, opening, typed, typing, heard>>

Types(c) ==
  /\ opening[c] = "open" /\ forwarder[c] # "none" /\ typed[c] < MaxTyped
  /\ typed' = [typed EXCEPT ![c] = @ + 1]
  /\ UNCHANGED <<configVars, opening, forwarder, heard>>

\* A wrong Type: it does not wait for room.
TypeOrLose(c) ==
  /\ Types(c)
  /\ typing' = IF forwarder[c] = "running" /\ Len(typing[c]) < Depth
               THEN [typing EXCEPT ![c] = Append(@, typed[c] + 1)] ELSE typing

\* Sending waits for room, or fails when the task is gone, which is ignored.
Type(c) ==
  /\ Types(c)
  /\ IF forwarder[c] = "running"
     THEN Len(typing[c]) < Depth /\ typing' = [typing EXCEPT ![c] = Append(@, typed[c] + 1)]
     ELSE UNCHANGED typing

CloseInput(c) ==
  /\ opening[c] = "open"
  /\ opening' = [opening EXCEPT ![c] = "closed"]
  /\ UNCHANGED <<configVars, inputVars>>

Forward(c) ==
  /\ forwarder[c] = "running" /\ typing[c] # << >>
  /\ heard' = [heard EXCEPT ![c] = Append(@, Head(typing[c]))]
  /\ typing' = [typing EXCEPT ![c] = Tail(@)]
  /\ UNCHANGED <<configVars, opening, typed, forwarder>>

\* A wrong ForwardEnds: what is in the channel does not count.
ForwardEndsEarly(c) ==
  /\ forwarder[c] = "running" /\ opening[c] = "closed"
  /\ forwarder' = [forwarder EXCEPT ![c] = "done"]
  /\ typing' = [typing EXCEPT ![c] = << >>]
  /\ UNCHANGED <<configVars, opening, typed, heard>>

\* The stream to the remote ends when the sender is dropped and the channel empty.
ForwardEnds(c) ==
  /\ forwarder[c] = "running" /\ opening[c] = "closed" /\ typing[c] = << >>
  /\ forwarder' = [forwarder EXCEPT ![c] = "done"]
  /\ UNCHANGED <<configVars, opening, typed, typing, heard>>

\* The remote ends the call, or the connection breaks.
ForwardBreaks(c) ==
  /\ forwarder[c] = "running"
  /\ forwarder' = [forwarder EXCEPT ![c] = "broken"]
  /\ typing' = [typing EXCEPT ![c] = << >>]
  /\ UNCHANGED <<configVars, opening, typed, heard>>

ProxyNext ==
  \/ ConfigureProxy
  \/ \E c \in Callers :
       \/ OpenProxy(c) \/ Apply(c) \/ OpenPanics(c) \/ AbandonOpen(c)
       \/ StartInput(c) \/ Type(c) \/ CloseInput(c)
       \/ Forward(c) \/ ForwardEnds(c) \/ ForwardBreaks(c)

ProxySpec == ProxyInit /\ [][ProxyNext]_proxyVars

-----------------------------------------------------------------------------
(* Properties. *)

\* What the remote console hears of an input is what was typed, from its start and
\* without a gap; all of it, if the stream was not broken, although the one who
\* typed may be gone long before.
HeardInOrder ==
  \A c \in Callers :
    /\ \A i \in DOMAIN heard[c] : heard[c][i] = i
    /\ forwarder[c] = "done" => Len(heard[c]) = typed[c]

\* Once a call has opened the console with the parameters that are configured, the
\* remote console has them, unless calls overlapped: one that was given up counts,
\* as long as its request may arrive.
InForceUnlessOverlapped ==
  \A c \in Callers :
    (opening[c] \in {"open", "closed"} /\ carried[c] = parameters /\ ~ overlapped) => inForce = parameters

\* A console of another server hears what is typed, with the parameters configured.
ProxyInv == ProxyTypeOK /\ HeardInOrder /\ InForceUnlessOverlapped

\* The same without overlapped: does not hold, an older request may arrive later.
NewestInForce ==
  \A c \in Callers :
    (opening[c] \in {"open", "closed"} /\ carried[c] = parameters /\ requests = {}) => inForce = parameters

\* What is typed and taken is heard or on its way.  Does not hold: after the remote
\* has ended the stream, all that is typed is taken and dropped.
TypedIsHeard ==
  \A c \in Callers : opening[c] = "open" /\ forwarder[c] # "none" =>
    typed[c] = Len(heard[c]) + Len(typing[c])
=============================================================================
