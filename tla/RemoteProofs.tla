---------------------------- MODULE RemoteProofs ----------------------------
(***************************************************************************)
(* Proofs about what a server re-exports of another one: the items its     *)
(* provider follows, consoles and devices, for any number of callers,      *)
(* kinds, items, restarts and changes.                                     *)
(***************************************************************************)
EXTENDS RemoteDevice, ConsoleProxy, RemoteProvider, RegistryProofs, TLAPS

\* What a queue is after something has come in at its end, or gone out at its start.
LEMMA AppendFacts ==
  ASSUME NEW S, NEW s \in Seq(S), NEW e \in S
  PROVE  /\ Append(s, e) \in Seq(S) /\ Len(s) \in Nat /\ Len(Append(s, e)) = Len(s) + 1
         /\ Append(s, e)[Len(s) + 1] = e
         /\ \A i \in 1 .. Len(s) : Append(s, e)[i] = s[i]
  OBVIOUS

LEMMA TailFacts ==
  ASSUME NEW S, NEW s \in Seq(S), s # << >>
  PROVE  /\ Tail(s) \in Seq(S) /\ Head(s) = s[1] /\ s[1] \in S
         /\ Len(s) \in Nat \ {0} /\ Len(Tail(s)) = Len(s) - 1
         /\ \A i \in 1 .. Len(s) - 1 : Tail(s)[i] = s[i + 1]
  OBVIOUS

\* Two counts that add up still do when one of them grows, or passes one to the other.
LEMMA StillAddsUp ==
  ASSUME NEW sum, NEW a \in Nat, NEW b \in Nat, sum = a + b
  PROVE  /\ sum + 1 = a + (b + 1)
         /\ sum = (a + 1) + (b - 1)
  OBVIOUS

-----------------------------------------------------------------------------
(* Consoles of another server. *)

\* What is in the channel of an input follows what was heard of it; nothing is left
\* in the channel of a task that is gone, and a task that has ended properly has
\* passed on all that will ever be typed.
TypingFollowsHeard(c) ==
  /\ \A i \in 1 .. Len(heard[c]) : heard[c][i] = i
  /\ \A i \in 1 .. Len(typing[c]) : typing[c][i] = Len(heard[c]) + i
  /\ forwarder[c] \in {"none", "running"} => typed[c] = Len(heard[c]) + Len(typing[c])
  /\ forwarder[c] \in {"done", "broken"} => typing[c] = << >>
  /\ forwarder[c] = "done" => opening[c] = "closed" /\ typed[c] = Len(heard[c])

InputInv == \A c \in Callers : TypingFollowsHeard(c)

\* As long as no call began while a request was on its way, there is one request at
\* most, and what it carries is as new as all that the calls before it have read.
ConfigureInv ==
  /\ inForce <= parameters
  /\ \A c \in Callers : carried[c] <= parameters
  /\ \A c \in requests : opening[c] \in {"configuring", "failed"}
  /\ ~ overlapped =>
       /\ \A c, d \in requests : c = d
       /\ \A r \in requests, c \in Callers :
            opening[c] \in {"open", "closed"} => carried[c] <= carried[r]

ProxyIInv == ProxyTypeOK /\ InputInv /\ ConfigureInv /\ InForceUnlessOverlapped

LEMMA ProxyInitInv == ProxyInit => ProxyIInv
<1> SUFFICES ASSUME ProxyInit PROVE ProxyIInv
  OBVIOUS
<1> USE DEF ProxyInit
<1>1. ProxyTypeOK
  <2>1. 0 \in Versions /\ 0 \in 0 .. MaxTyped
    BY ConsoleProxyAssumption DEF Versions
  <2>2. << >> \in Seq(1 .. MaxTyped) /\ Len(<< >>) = 0 /\ 0 <= Depth
    BY ConsoleProxyAssumption
  <2> QED
    BY <2>1, <2>2 DEF ProxyTypeOK
<1>2. InputInv
  BY DEF InputInv, TypingFollowsHeard
<1>3. ConfigureInv /\ InForceUnlessOverlapped
  BY DEF ConfigureInv, InForceUnlessOverlapped
<1> QED
  BY <1>1, <1>2, <1>3 DEF ProxyIInv

\* Configuring, opening, giving up and closing leave the inputs alone.
LEMMA ConfigureStepInv ==
  ASSUME ProxyIInv, UNCHANGED inputVars,
         \/ ConfigureProxy
         \/ \E c \in Callers :
              OpenProxy(c) \/ Apply(c) \/ OpenPanics(c) \/ AbandonOpen(c) \/ CloseInput(c)
  PROVE  ProxyIInv'
<1> USE ConsoleProxyAssumption DEF ProxyIInv, Versions, inputVars
<1>1. parameters \in Nat /\ inForce \in Nat /\ \A c \in Callers : carried[c] \in Nat
  BY DEF ProxyTypeOK
<1>2. CASE ConfigureProxy
  BY <1>1, <1>2 DEF ConfigureProxy, ProxyTypeOK, InputInv, TypingFollowsHeard, ConfigureInv, InForceUnlessOverlapped
<1> SUFFICES ASSUME NEW c \in Callers,
                    OpenProxy(c) \/ Apply(c) \/ OpenPanics(c) \/ AbandonOpen(c) \/ CloseInput(c)
             PROVE  ProxyIInv'
  BY <1>2
<1>3. \A d \in Callers : opening[d] = "closed" => opening'[d] = "closed"
  BY DEF OpenProxy, Apply, OpenPanics, AbandonOpen, CloseInput, ProxyTypeOK
<1>4. InputInv'
  BY <1>3 DEF InputInv, TypingFollowsHeard, ProxyTypeOK
<1>5. CASE OpenProxy(c)
  <2>1. ProxyTypeOK'
    BY <1>5 DEF OpenProxy, ProxyTypeOK
  <2>2. /\ inForce' <= parameters' /\ \A d \in Callers : carried'[d] <= parameters'
        /\ carried'[c] = parameters
    BY <1>1, <1>5 DEF OpenProxy, ConfigureInv, ProxyTypeOK
  <2>3. \A d \in requests' : opening'[d] \in {"configuring", "failed"}
    <3>1. CASE parameters = 0
      BY <1>5, <3>1 DEF OpenProxy, ConfigureInv, ProxyTypeOK
    <3>2. CASE parameters # 0
      BY <1>5, <3>2 DEF OpenProxy, ConfigureInv, ProxyTypeOK
    <3> QED
      BY <3>1, <3>2
  <2>4. ASSUME ~ overlapped'
        PROVE  requests' \subseteq {c}
    <3>1. requests = {}
      BY <1>5, <2>4 DEF OpenProxy
    <3> QED
      BY <1>5, <3>1 DEF OpenProxy
  <2>5. InForceUnlessOverlapped'
    BY <1>1, <1>5 DEF OpenProxy, ProxyTypeOK, ConfigureInv, InForceUnlessOverlapped
  <2> QED
    BY <1>4, <1>5, <2>1, <2>2, <2>3, <2>4, <2>5 DEF ConfigureInv, OpenProxy
<1>6. CASE Apply(c)
  BY <1>1, <1>4, <1>6 DEF Apply, ProxyTypeOK, ConfigureInv, InForceUnlessOverlapped
<1>7. CASE OpenPanics(c)
  BY <1>1, <1>4, <1>7 DEF OpenPanics, ProxyTypeOK, ConfigureInv, InForceUnlessOverlapped
<1>8. CASE AbandonOpen(c)
  BY <1>1, <1>4, <1>8 DEF AbandonOpen, configVars, ProxyTypeOK, ConfigureInv, InForceUnlessOverlapped
<1>9. CASE CloseInput(c)
  BY <1>1, <1>4, <1>9 DEF CloseInput, configVars, ProxyTypeOK, ConfigureInv, InForceUnlessOverlapped
<1> QED
  BY <1>5, <1>6, <1>7, <1>8, <1>9

\* What is typed and forwarded leaves the configuration alone.
LEMMA InputStepInv ==
  ASSUME ProxyIInv, NEW c \in Callers, UNCHANGED <<configVars, opening>>,
         StartInput(c) \/ Type(c) \/ Forward(c) \/ ForwardEnds(c) \/ ForwardBreaks(c)
  PROVE  ProxyIInv'
<1> USE ConsoleProxyAssumption DEF ProxyIInv
<1>1. ConfigureInv' /\ InForceUnlessOverlapped'
  BY DEF ConfigureInv, InForceUnlessOverlapped, configVars
<1>2. /\ typed[c] \in 0 .. MaxTyped /\ typing[c] \in Seq(1 .. MaxTyped)
      /\ heard[c] \in Seq(1 .. MaxTyped) /\ TypingFollowsHeard(c)
  BY DEF ProxyTypeOK, InputInv
<1>3. /\ \A d \in Callers \ {c} : /\ typed'[d] = typed[d] /\ typing'[d] = typing[d]
                                  /\ forwarder'[d] = forwarder[d] /\ heard'[d] = heard[d]
      /\ opening' = opening
  BY DEF StartInput, Type, Types, Forward, ForwardEnds, ForwardBreaks, ProxyTypeOK
<1>4. ASSUME ProxyTypeOK', TypingFollowsHeard(c)' PROVE ProxyIInv'
  <2>1. ASSUME NEW d \in Callers \ {c} PROVE TypingFollowsHeard(d)'
    <3>1. TypingFollowsHeard(d) /\ opening'[d] = opening[d]
      BY <1>3 DEF InputInv
    <3> QED
      BY <1>3, <3>1 DEF TypingFollowsHeard
  <2>2. InputInv'
    BY <1>4, <2>1 DEF InputInv
  <2> QED
    BY <1>1, <1>4, <2>2
<1>5. CASE StartInput(c)
  BY <1>2, <1>4, <1>5 DEF StartInput, ProxyTypeOK, TypingFollowsHeard, configVars, Versions
<1>6. CASE Type(c) /\ forwarder[c] = "running"
  <2> DEFINE longer == Append(typing[c], typed[c] + 1)
  <2>1. /\ typed' = [typed EXCEPT ![c] = typed[c] + 1] /\ typed[c] + 1 \in 1 .. MaxTyped
        /\ typing' = [typing EXCEPT ![c] = longer] /\ Len(typing[c]) < Depth
        /\ heard' = heard /\ forwarder' = forwarder
    BY <1>2, <1>6 DEF Type, Types
  <2>2. /\ longer \in Seq(1 .. MaxTyped) /\ Len(typing[c]) \in Nat /\ Len(longer) = Len(typing[c]) + 1
        /\ longer[Len(typing[c]) + 1] = typed[c] + 1
        /\ \A i \in 1 .. Len(typing[c]) : longer[i] = typing[c][i]
    BY <1>2, <2>1, AppendFacts
  <2> HIDE DEF longer
  <2>3. typed'[c] = typed[c] + 1 /\ typing'[c] = longer /\ heard'[c] = heard[c]
    BY <2>1 DEF ProxyTypeOK
  <2>4. ProxyTypeOK'
    BY <1>3, <2>1, <2>2 DEF ProxyTypeOK, configVars
  <2>5. typed[c] = Len(heard[c]) + Len(typing[c])
    BY <1>2, <1>6 DEF TypingFollowsHeard
  <2>6. Len(heard[c]) \in Nat /\ Len(typing[c]) \in Nat /\ Len(longer) = Len(typing[c]) + 1
    BY <1>2, <2>2
  <2>7. \A i \in 1 .. Len(longer) : longer[i] = Len(heard[c]) + i
    <3> SUFFICES ASSUME NEW i \in 1 .. Len(longer) PROVE longer[i] = Len(heard[c]) + i
      OBVIOUS
    <3>1. CASE i = Len(typing[c]) + 1
      <4>1. longer[i] = typed[c] + 1
        BY <2>2, <3>1
      <4> QED
        <5>1. typed[c] + 1 = Len(heard[c]) + (Len(typing[c]) + 1)
          BY <2>5, <2>6, StillAddsUp, Zenon
        <5> QED
          BY <3>1, <4>1, <5>1
    <3>2. CASE i \in 1 .. Len(typing[c])
      BY <1>2, <2>2, <3>2 DEF TypingFollowsHeard
    <3> QED
      BY <2>2, <3>1, <3>2
  <2>8. typed[c] + 1 = Len(heard[c]) + Len(longer)
    <3>1. typed[c] + 1 = Len(heard[c]) + (Len(typing[c]) + 1)
      BY <2>5, <2>6, StillAddsUp, Zenon
    <3> QED
      BY <2>6, <3>1
  <2>9. TypingFollowsHeard(c)'
    BY <1>2, <1>6, <2>1, <2>3, <2>7, <2>8 DEF TypingFollowsHeard
  <2> QED
    BY <1>4, <2>4, <2>9
<1>7. CASE Type(c) /\ forwarder[c] # "running"
  <2>1. ProxyTypeOK'
    BY <1>2, <1>7 DEF Type, Types, ProxyTypeOK, configVars, Versions
  <2>2. TypingFollowsHeard(c)'
    BY <1>2, <1>7 DEF Type, Types, TypingFollowsHeard, ProxyTypeOK
  <2> QED
    BY <1>4, <2>1, <2>2
<1>8. CASE Forward(c)
  <2> DEFINE first == Head(typing[c])
             rest == Tail(typing[c])
             longer == Append(heard[c], first)
  <2>1. /\ typing' = [typing EXCEPT ![c] = rest] /\ heard' = [heard EXCEPT ![c] = longer]
        /\ typed' = typed /\ forwarder' = forwarder /\ forwarder[c] = "running" /\ typing[c] # << >>
    BY <1>8 DEF Forward
  <2>2. /\ rest \in Seq(1 .. MaxTyped) /\ Len(typing[c]) \in Nat \ {0} /\ Len(rest) = Len(typing[c]) - 1
        /\ first = typing[c][1] /\ first \in 1 .. MaxTyped
        /\ \A i \in 1 .. Len(rest) : rest[i] = typing[c][i + 1]
    BY <1>2, <2>1, TailFacts
  <2>3. /\ longer \in Seq(1 .. MaxTyped) /\ Len(heard[c]) \in Nat /\ Len(longer) = Len(heard[c]) + 1
        /\ longer[Len(heard[c]) + 1] = first
        /\ \A i \in 1 .. Len(heard[c]) : longer[i] = heard[c][i]
    BY <1>2, <2>2, AppendFacts
  <2> HIDE DEF first, rest, longer
  <2>4. typing'[c] = rest /\ heard'[c] = longer
    BY <2>1 DEF ProxyTypeOK
  <2>5. ProxyTypeOK'
    BY <1>3, <2>1, <2>2, <2>3 DEF ProxyTypeOK, configVars
  <2>6. first = Len(heard[c]) + 1 /\ \A i \in 1 .. Len(rest) : rest[i] = Len(longer) + i
    <3>1. \A i \in 1 .. Len(typing[c]) : typing[c][i] = Len(heard[c]) + i
      BY <1>2 DEF TypingFollowsHeard
    <3>2. first = Len(heard[c]) + 1
      BY <3>1, <2>2, <2>3
    <3>3. ASSUME NEW i \in 1 .. Len(rest) PROVE rest[i] = Len(longer) + i
      BY <3>1, <2>2, <2>3
    <3> QED BY <3>2, <3>3
  <2>7. \A i \in 1 .. Len(longer) : longer[i] = i
    <3> SUFFICES ASSUME NEW i \in 1 .. Len(longer) PROVE longer[i] = i
      OBVIOUS
    <3>1. CASE i = Len(heard[c]) + 1
      BY <2>3, <2>6, <3>1
    <3>2. CASE i \in 1 .. Len(heard[c])
      BY <1>2, <2>3, <3>2 DEF TypingFollowsHeard
    <3> QED
      BY <2>3, <3>1, <3>2
  <2>8. typed[c] = Len(longer) + Len(rest)
    <3>1. typed[c] = Len(heard[c]) + Len(typing[c])
      BY <1>2, <2>1 DEF TypingFollowsHeard
    <3>2. /\ Len(heard[c]) \in Nat /\ Len(longer) = Len(heard[c]) + 1
          /\ Len(typing[c]) \in Nat /\ Len(rest) = Len(typing[c]) - 1
      BY <2>2, <2>3
    <3>3. typed[c] = (Len(heard[c]) + 1) + (Len(typing[c]) - 1)
      <4>1. \A a, b \in Nat : a + b = (a + 1) + (b - 1)
        OBVIOUS
      <4>2. Len(heard[c]) + Len(typing[c]) = (Len(heard[c]) + 1) + (Len(typing[c]) - 1)
        BY <3>2, <4>1, Zenon
      <4> QED
        BY <3>1, <4>2
    <3> QED
      BY <3>2, <3>3
  <2>9. TypingFollowsHeard(c)'
    <3>1. /\ forwarder'[c] = "running" /\ typed'[c] = typed[c]
          /\ heard'[c] = longer /\ typing'[c] = rest
      BY <2>1, <2>4
    <3> QED
      BY <2>6, <2>7, <2>8, <3>1 DEF TypingFollowsHeard
  <2> QED
    BY <1>4, <2>5, <2>9
<1>9. CASE ForwardEnds(c)
  BY <1>2, <1>4, <1>9 DEF ForwardEnds, ProxyTypeOK, TypingFollowsHeard, configVars, Versions
<1>10. CASE ForwardBreaks(c)
  BY <1>2, <1>4, <1>10 DEF ForwardBreaks, ProxyTypeOK, TypingFollowsHeard, configVars, Versions
<1> QED
  BY <1>5, <1>6, <1>7, <1>8, <1>9, <1>10

\* What is typed into a console of another server is heard there in its order and
\* without a gap, and a call that has opened the console finds its parameters in
\* force, unless calls overlapped (input(), output() and configure() of
\* boardswarm_provider/console.rs), for any number of callers.
THEOREM ProxySafe == ProxySpec => []ProxyInv
<1>1. ProxyIInv /\ [ProxyNext]_proxyVars => ProxyIInv'
  <2> SUFFICES ASSUME ProxyIInv, [ProxyNext]_proxyVars PROVE ProxyIInv'
    OBVIOUS
  <2>1. CASE UNCHANGED proxyVars
    BY <2>1 DEF proxyVars, configVars, inputVars, ProxyIInv, ProxyTypeOK, Versions, InputInv,
                TypingFollowsHeard, ConfigureInv, InForceUnlessOverlapped
  <2>2. CASE ConfigureProxy
    BY <2>2, ConfigureStepInv DEF ConfigureProxy
  <2>3. ASSUME NEW c \in Callers,
               OpenProxy(c) \/ Apply(c) \/ OpenPanics(c) \/ AbandonOpen(c) \/ CloseInput(c)
        PROVE  ProxyIInv'
    <3>1. UNCHANGED inputVars
      BY <2>3 DEF OpenProxy, Apply, OpenPanics, AbandonOpen, CloseInput
    <3> QED
      BY <2>3, <3>1, ConfigureStepInv
  <2>4. ASSUME NEW c \in Callers,
               StartInput(c) \/ Type(c) \/ Forward(c) \/ ForwardEnds(c) \/ ForwardBreaks(c)
        PROVE  ProxyIInv'
    <3>1. UNCHANGED <<configVars, opening>>
      BY <2>4 DEF StartInput, Type, Types, Forward, ForwardEnds, ForwardBreaks
    <3> QED
      BY <2>4, <3>1, InputStepInv
  <2> QED
    BY <2>1, <2>2, <2>3, <2>4 DEF ProxyNext
<1>2. ProxyIInv => ProxyInv
  BY DEF ProxyIInv, ProxyInv, InputInv, TypingFollowsHeard, HeardInOrder, ProxyTypeOK
<1> QED
  BY <1>1, <1>2, ProxyInitInv, PTL DEF ProxySpec

-----------------------------------------------------------------------------
(* Devices of another server. *)

\* The mapping only has ids of the last info.  As long as nothing is missed it is what
\* the map of proxies gives: for a device whose task has not started, and for one
\* whose task watches and has no notice, and will have none, to look at.
MappingFollows ==
  /\ DOMAIN mapping \subseteq info
  /\ stage = "made" /\ missed = {} => Current
  /\ stage = "watching" /\ missed = {} /\ ~ notice /\ ~ owed => Current

DeviceIInv == TypeOK /\ MappingFollows /\ WatchersAreTold

\* A part of a map is a map.
LEMMA RestrictFacts ==
  ASSUME NEW f \in Mappings, NEW S
  PROVE  /\ Restrict(f, S \cap DOMAIN f) \in Mappings
         /\ DOMAIN Restrict(f, S \cap DOMAIN f) = S \cap DOMAIN f
         /\ \A r \in S \cap DOMAIN f : Restrict(f, S \cap DOMAIN f)[r] = f[r]
<1>1. PICK D \in SUBSET Remotes : f \in [D -> LocalIds]
  BY DEF Mappings
<1>2. Restrict(f, S \cap DOMAIN f) \in [S \cap D -> LocalIds] /\ S \cap D \in SUBSET Remotes
  BY <1>1 DEF Restrict
<1> QED
  BY <1>1, <1>2 DEF Mappings, Restrict

\* update_mappings() leaves the mapping current, and within the info.
LEMMA UpdateMappingsFacts ==
  ASSUME TypeOK, NEW i \in SUBSET Remotes, UpdateMappings(i)
  PROVE  /\ mapping' \in Mappings /\ DOMAIN mapping' \subseteq i
         /\ mapping' = Lookup(i) /\ missed' = {}
<1>1. proxies \in Mappings /\ mapping' = Restrict(proxies, i \cap DOMAIN proxies)
  BY DEF UpdateMappings, Lookup, TypeOK
<1>2. mapping' \in Mappings /\ DOMAIN mapping' = i \cap DOMAIN proxies
  BY <1>1, RestrictFacts
<1> QED
  BY <1>2 DEF UpdateMappings

\* What differs in nothing that the info has is current.
LEMMA NoDifference ==
  ASSUME TypeOK, DOMAIN mapping \subseteq info, \A r \in info : ~ Differs(r)
  PROVE  Current
<1> DEFINE looked == Lookup(info)
<1>1. /\ looked \in Mappings /\ DOMAIN looked = info \cap DOMAIN proxies
      /\ \A r \in info \cap DOMAIN proxies : looked[r] = proxies[r]
  BY RestrictFacts DEF TypeOK, Lookup
<1> HIDE DEF looked
<1>2. DOMAIN mapping = DOMAIN looked
  BY <1>1 DEF Differs
<1>3. \A r \in DOMAIN mapping : mapping[r] = looked[r]
  BY <1>1, <1>2 DEF Differs
<1>4. /\ mapping = [r \in DOMAIN mapping |-> mapping[r]]
      /\ looked = [r \in DOMAIN looked |-> looked[r]]
  BY <1>1 DEF TypeOK, Mappings
<1> QED
  BY <1>2, <1>3, <1>4 DEF Current, looked

\* A step that changes the map of proxies leaves the type of the state as it is, and a
\* device that has been made knows of a change to come or has missed one.
LEMMA ProviderStepInv ==
  ASSUME DeviceIInv, AddProxy \/ RemoveProxy \/ Notify \/ DrainProxies
  PROVE  DeviceIInv'
<1> USE RemoteDeviceAssumption DEF DeviceIInv
<1>1. UNCHANGED <<streamVars, deviceVars, told>>
  BY DEF AddProxy, RemoveProxy, Notify, DrainProxies
<1>2. WatchersAreTold'
  BY <1>1 DEF WatchersAreTold, deviceVars
<1>3. CASE AddProxy
  <2>1. PICK r \in Remotes :
          proxies' = [x \in DOMAIN proxies \cup {r} |-> IF x = r THEN locals ELSE proxies[x]]
    BY <1>3 DEF AddProxy
  <2>2. locals \in LocalIds /\ locals + 1 \in 0 .. MaxLocals
    BY <1>3 DEF AddProxy, TypeOK, LocalIds
  <2>3. PICK D \in SUBSET Remotes : proxies \in [D -> LocalIds]
    BY DEF TypeOK, Mappings
  <2>4. proxies' \in [D \cup {r} -> LocalIds] /\ D \cup {r} \in SUBSET Remotes
    BY <2>1, <2>2, <2>3
  <2>5. proxies' \in Mappings
    BY <2>4 DEF Mappings
  <2>6. TypeOK'
    BY <1>1, <1>3, <2>2, <2>5 DEF AddProxy, TypeOK, streamVars, deviceVars, MissedAtStart
  <2>7. MappingFollows'
    BY <1>1, <1>3 DEF AddProxy, MappingFollows, deviceVars, MissedAtStart
  <2> QED
    BY <1>2, <2>6, <2>7
<1>4. CASE RemoveProxy
  <2>1. PICK r \in DOMAIN proxies : proxies' = Restrict(proxies, DOMAIN proxies \ {r})
    BY <1>4 DEF RemoveProxy
  <2>2. DOMAIN proxies \ {r} = (DOMAIN proxies \ {r}) \cap DOMAIN proxies
    OBVIOUS
  <2>3. proxies' \in Mappings
    BY <2>1, <2>2, RestrictFacts DEF TypeOK
  <2>4. TypeOK'
    BY <1>1, <1>4, <2>3 DEF RemoveProxy, TypeOK, streamVars, deviceVars, MissedAtStart
  <2>5. MappingFollows'
    BY <1>1, <1>4 DEF RemoveProxy, MappingFollows, deviceVars, MissedAtStart
  <2> QED
    BY <1>2, <2>4, <2>5
<1>5. CASE Notify
  <2>1. TypeOK'
    BY <1>1, <1>5 DEF Notify, TypeOK, streamVars, deviceVars
  <2>2. MappingFollows'
    BY <1>1, <1>5 DEF Notify, MappingFollows, deviceVars, Current, Lookup
  <2> QED
    BY <1>2, <2>1, <2>2
<1>6. CASE DrainProxies
  <2>1. proxies' \in Mappings
    <3>1. << >> \in [{} -> LocalIds]
      OBVIOUS
    <3> QED
      BY <1>6, <3>1 DEF DrainProxies, Mappings
  <2>2. TypeOK'
    BY <1>1, <1>6, <2>1 DEF DrainProxies, TypeOK, streamVars, deviceVars, MissedAtStart
  <2>3. MappingFollows'
    BY <1>1, <1>6 DEF DrainProxies, MappingFollows, deviceVars, MissedAtStart
  <2> QED
    BY <1>2, <2>2, <2>3
<1> QED
  BY <1>3, <1>4, <1>5, <1>6

\* So does a step that takes in an info or follows a notice.
LEMMA DeviceStepInv ==
  ASSUME DeviceIInv, Make \/ Watch \/ Update \/ Return \/ Sync
  PROVE  DeviceIInv'
<1> USE RemoteDeviceAssumption DEF DeviceIInv
<1>1. UNCHANGED providerVars
  BY DEF Make, Watch, Update, Return, Sync
<1>2. CASE Make \/ Update
  <2>1. /\ stream # << >> /\ info' = Head(stream) /\ stream' = Tail(stream)
        /\ UpdateMappings(info') /\ told' = mapping'
        /\ UNCHANGED <<infos, ended, notice>> /\ stage' \in {"made", "watching"}
    BY <1>2 DEF Make, Update
  <2>2. info' \in SUBSET Remotes /\ stream' \in Seq(SUBSET Remotes)
    BY <2>1, TailFacts DEF TypeOK
  <2>3. /\ mapping' \in Mappings /\ DOMAIN mapping' \subseteq info'
        /\ mapping' = Lookup(info') /\ missed' = {}
    BY <2>1, <2>2, UpdateMappingsFacts
  <2>4. Current'
    BY <1>1, <2>3 DEF Current, Lookup, providerVars
  <2>5. TypeOK'
    BY <1>1, <2>1, <2>2, <2>3 DEF TypeOK, providerVars
  <2> QED
    BY <2>1, <2>3, <2>4, <2>5 DEF MappingFollows, WatchersAreTold
<1>3. CASE Watch
  BY <1>1, <1>3 DEF Watch, TypeOK, MappingFollows, WatchersAreTold, Current, Lookup, providerVars, streamVars
<1>4. CASE Return
  BY <1>1, <1>4 DEF Return, TypeOK, MappingFollows, WatchersAreTold, Current, Lookup, providerVars, streamVars
<1>5. CASE Sync /\ \E r \in info : Differs(r)
  <2>1. /\ UpdateMappings(info) /\ told' = mapping' /\ notice' = FALSE
        /\ UNCHANGED <<streamVars, stage, info>>
    BY <1>5 DEF Sync
  <2>2. /\ mapping' \in Mappings /\ DOMAIN mapping' \subseteq info
        /\ mapping' = Lookup(info) /\ missed' = {}
    BY <2>1, UpdateMappingsFacts DEF TypeOK
  <2>3. Current'
    BY <1>1, <2>1, <2>2 DEF Current, Lookup, providerVars
  <2>4. TypeOK'
    BY <1>1, <2>1, <2>2 DEF TypeOK, providerVars, streamVars
  <2> QED
    BY <2>1, <2>2, <2>3, <2>4 DEF MappingFollows, WatchersAreTold
<1>6. CASE Sync /\ ~ \E r \in info : Differs(r)
  <2>1. /\ notice' = FALSE /\ missed' = {} /\ UNCHANGED <<mapping, told>>
        /\ UNCHANGED <<streamVars, stage, info>>
    BY <1>6 DEF Sync
  <2>2. Current
    BY <1>6, NoDifference DEF MappingFollows
  <2>3. Current'
    BY <1>1, <2>1, <2>2 DEF Current, Lookup, providerVars
  <2>4. TypeOK'
    BY <1>1, <2>1 DEF TypeOK, providerVars, streamVars
  <2> QED
    BY <2>1, <2>3, <2>4 DEF MappingFollows, WatchersAreTold
<1> QED
  BY <1>2, <1>3, <1>4, <1>5, <1>6

\* A re-exported device that has taken all updates and notices shows the local ids that
\* its Provider has, unless a change of them was announced to nobody, and whoever
\* watches it has seen what it shows (BoardswarmDevice and monitor_device of
\* boardswarm_provider/device.rs), for any number of ids, changes and updates.
THEOREM DeviceSafe == Spec => []DeviceInv
<1>1. Init => DeviceIInv
  <2>1. << >> \in [{} -> LocalIds]
    OBVIOUS
  <2>2. << >> \in Mappings
    BY <2>1 DEF Mappings
  <2>3. Init => TypeOK
    <3>1. << >> \in Seq(SUBSET Remotes) /\ {} \in SUBSET Remotes /\ {} \in SUBSET {"start", "drain"}
      OBVIOUS
    <3>2. 0 \in 0 .. MaxLocals /\ 0 \in 0 .. MaxDrains /\ 0 \in 0 .. MaxInfos
      BY RemoteDeviceAssumption
    <3> QED
      BY <2>2, <3>1, <3>2 DEF Init, TypeOK
  <2>4. Init => DOMAIN mapping \subseteq info
    BY <2>1 DEF Init
  <2> QED
    BY <2>3, <2>4 DEF Init, DeviceIInv, MappingFollows, WatchersAreTold
<1>2. DeviceIInv /\ [Next]_vars => DeviceIInv'
  <2> SUFFICES ASSUME DeviceIInv, [Next]_vars PROVE DeviceIInv'
    OBVIOUS
  <2>1. CASE SendInfo
    <3>1. PICK i \in SUBSET Remotes : stream' = Append(stream, i)
      BY <2>1 DEF SendInfo
    <3>2. stream' \in Seq(SUBSET Remotes)
      BY <3>1, AppendFacts DEF DeviceIInv, TypeOK
    <3>3. TypeOK'
      BY <2>1, <3>2, RemoteDeviceAssumption DEF SendInfo, DeviceIInv, TypeOK, providerVars, deviceVars
    <3> QED
      BY <2>1, <3>3 DEF SendInfo, DeviceIInv, MappingFollows, WatchersAreTold, Current, Lookup, providerVars, deviceVars
  <2>2. CASE EndInfos
    BY <2>2 DEF EndInfos, DeviceIInv, TypeOK, MappingFollows, WatchersAreTold, Current, Lookup,
                providerVars, deviceVars
  <2>3. CASE UNCHANGED vars
    BY <2>3 DEF vars, DeviceIInv, TypeOK, MappingFollows, WatchersAreTold, Current, Lookup,
                providerVars, streamVars, deviceVars
  <2> QED
    BY <2>1, <2>2, <2>3, ProviderStepInv, DeviceStepInv DEF Next
<1>3. DeviceIInv => DeviceInv
  BY DEF DeviceIInv, DeviceInv, MappingFollows, CurrentUnlessMissed, Settled
<1> QED
  BY <1>1, <1>2, <1>3, PTL DEF Spec

-----------------------------------------------------------------------------
-----------------------------------------------------------------------------
(* The provider of another server's items. *)

\* The stream of a kind is one of the connection there is, if it has one.
Listens(k) == phase[k] = "subscribed" \/ phase[k] = "streaming"
Live(k) == link /\ k \notin cut

\* What monitor_items holds is that of its stream: nothing before it lists the remote
\* and nothing after it has ended.  A remote that restarts has a history that a receiver
\* of the old one has no place in; the streams of the old one are all cut.
PhaseOK(k) ==
  /\ phase[k] # "streaming" => DOMAIN mapped[k] = {} /\ todo[k] = {} /\ asked[k] = None
  /\ Listens(k) /\ Live(k) => pos[k] <= Len(log[k])
  /\ task = "connecting" => phase[k] = "off"
  /\ task = "monitoring" /\ Listens(k) => link \/ k \in cut

\* An id is that of one proxy.
ProxiesApart ==
  /\ \A p \in local : p.id < localIds
  /\ \A p, q \in local : p.id = q.id => p = q

\* The items that monitor_items has come across and not given up.
Taken(k) == DOMAIN mapped[k] \cup todo[k] \cup ({asked[k]} \ {None})

\* What a live stream has not taken will be announced on it, and what it has taken and
\* is gone will be announced as removed.
StreamFollows(k) ==
  phase[k] = "streaming" /\ Live(k) =>
    /\ \A i \in DOMAIN contents[k] \ Taken(k) :
         \E n \in Unseen(k, pos[k]) : log[k][n].op = "added" /\ log[k][n].id = i
    /\ \A i \in Taken(k) \ DOMAIN contents[k] :
         \E n \in Unseen(k, pos[k]) : log[k][n] = Removed(i)

ProviderIInv ==
  /\ RegistryInv /\ ProviderTypeOK
  /\ link => task = "monitoring"
  /\ ProxiesApart /\ MappedAreRegistered /\ OrphansWereDisplaced
  /\ \A k \in Kinds : PhaseOK(k) /\ StreamFollows(k)

Registered == ProxiesApart /\ MappedAreRegistered /\ OrphansWereDisplaced

KindTypes ==
  /\ phase \in [Kinds -> {"off", "calling", "subscribed", "streaming", "drained"}]
  /\ pos \in [Kinds -> Nat]
  /\ todo \in [Kinds -> SUBSET Nat]
  /\ asked \in [Kinds -> Nat \cup {None}]
  /\ answers \in [Kinds -> 0 .. 2]
  /\ arrived \in [Kinds -> Seq(Changes)]

LocalTypes ==
  /\ DOMAIN mapped = Kinds
  /\ \A k \in Kinds : DOMAIN mapped[k] \subseteq Nat /\ mapped[k] \in [DOMAIN mapped[k] -> Nat]
  /\ local \subseteq Proxy
  /\ localIds \in Nat /\ displaced \subseteq Nat

\* A step of one kind leaves the others alone.
Elsewhere(k) ==
  \A j \in Kinds \ {k} :
    /\ phase'[j] = phase[j] /\ pos'[j] = pos[j] /\ todo'[j] = todo[j]
    /\ asked'[j] = asked[j] /\ mapped'[j] = mapped[j]

Still(k) == PhaseOK(k) /\ StreamFollows(k)

LEMMA AddedThenRemoved ==
  ASSUME RegistryInv, NEW k \in Kinds, NEW n \in 1 .. Len(log[k]), log[k][n].op = "added",
         log[k][n].id \notin DOMAIN contents[k]
  PROVE  \E m \in (n + 1) .. Len(log[k]) : log[k][m] = Removed(log[k][n].id)
<1>1. PICK l \in Nat : l = Len(log[k])
  BY HistoryTypes
<1>2. AddedUntilRemoved(k)
  BY DEF RegistryInv, ContentsMatchLog
<1>3. PICK m \in 1 .. l : log[k][m] = Removed(log[k][n].id)
  BY <1>1, <1>2 DEF AddedUntilRemoved
<1>4. log[k][m].op = "removed" /\ log[k][m].id = log[k][n].id
  BY <1>3 DEF Removed
<1>5. ~ (m < n)
  <2>1. "added" # "removed"
    OBVIOUS
  <2> QED
    BY <1>1, <1>4, <2>1 DEF RegistryInv, IdsNeverReused
<1>6. m # n
  BY <1>4
<1>7. m \in (n + 1) .. l
  BY <1>1, <1>5, <1>6
<1> QED
  BY <1>1, <1>3, <1>7

\* A step of one kind that concerns neither the remote nor the connection.
LEMMA ProviderKindStep ==
  ASSUME ProviderIInv, NEW k \in Kinds,
         UNCHANGED <<registryVars, link, conn, restarts, cut, task>>,
         KindTypes', LocalTypes', Registered', Elsewhere(k), Still(k)'
  PROVE  ProviderIInv'
<1>1. /\ UNCHANGED <<next, contents, log>> /\ link' = link /\ conn' = conn
      /\ restarts' = restarts /\ cut' = cut /\ task' = task
  BY DEF registryVars
<1>2. RegistryInv'
  BY <1>1, RegistryStepInv DEF ProviderIInv, registryVars
<1>3. ProviderTypeOK'
  BY <1>1, <1>2 DEF ProviderIInv, ProviderTypeOK, KindTypes, LocalTypes, RegistryInv
<1>4. ASSUME NEW j \in Kinds, j # k PROVE PhaseOK(j)' /\ StreamFollows(j)'
  <2>1. /\ phase'[j] = phase[j] /\ pos'[j] = pos[j] /\ todo'[j] = todo[j]
        /\ asked'[j] = asked[j] /\ mapped'[j] = mapped[j]
    BY <1>4 DEF Elsewhere
  <2>2. PhaseOK(j) /\ StreamFollows(j)
    BY DEF ProviderIInv
  <2>3. PhaseOK(j)'
    BY <1>1, <2>1, <2>2 DEF PhaseOK, Listens, Live
  <2>4. StreamFollows(j)'
    BY <1>1, <2>1, <2>2 DEF StreamFollows, Live, Taken, Unseen
  <2> QED
    BY <2>3, <2>4
<1>5. link' => task' = "monitoring"
  BY <1>1 DEF ProviderIInv
<1> QED
  BY <1>2, <1>3, <1>4, <1>5 DEF ProviderIInv, Registered, Still

LEMMA ProviderTypes ==
  ASSUME ProviderIInv, NEW k \in Kinds
  PROVE  /\ RegistryInv /\ KindTypes /\ LocalTypes /\ Registered
         /\ PhaseOK(k) /\ StreamFollows(k)
         /\ pos[k] \in Nat /\ Len(log[k]) \in Nat /\ DOMAIN contents[k] \subseteq Nat
         /\ asked[k] \in Nat \cup {None} /\ todo[k] \subseteq Nat
         /\ IsItemMap(contents[k])
<1>1. RegistryInv /\ KindTypes /\ LocalTypes /\ Registered /\ PhaseOK(k) /\ StreamFollows(k)
  BY DEF ProviderIInv, ProviderTypeOK, KindTypes, LocalTypes, Registered
<1>2. pos[k] \in Nat /\ asked[k] \in Nat \cup {None} /\ todo[k] \subseteq Nat
  BY <1>1 DEF KindTypes
<1>3. IsItemMap(contents[k])
  BY <1>1 DEF RegistryInv, RegistryTypeOK
<1>4. DOMAIN contents[k] \subseteq Nat
  BY <1>3 DEF IsItemMap
<1> QED
  BY <1>1, <1>2, <1>3, <1>4, HistoryTypes

\* What only concerns the stream leaves the proxies alone.
LEMMA ProxiesAlone ==
  ASSUME ProviderIInv, UNCHANGED <<localVars, conn>>
  PROVE  LocalTypes' /\ Registered'
<1>1. UNCHANGED <<mapped, local, localIds, displaced, conn>>
  BY DEF localVars
<1>2. LocalTypes /\ Registered
  BY DEF ProviderIInv, ProviderTypeOK, LocalTypes, Registered
<1>3. LocalTypes'
  BY <1>1, <1>2 DEF LocalTypes
<1>4. Registered'
  BY <1>1, <1>2 DEF Registered, ProxiesApart, MappedAreRegistered, OrphansWereDisplaced
<1> QED
  BY <1>3, <1>4

-----------------------------------------------------------------------------
\* monitor(): the remote subscribes, then it lists.
LEMMA ProviderSubscribe ==
  ASSUME ProviderIInv, NEW k \in Kinds, task = "monitoring", Subscribe(k) \/ Snapshot(k)
  PROVE  ProviderIInv'
<1>1. UNCHANGED <<registryVars, link, conn, restarts, cut, arrived, task, localVars>>
  BY DEF Subscribe, Snapshot, linkVars, streamsVars
<1>2. LocalTypes' /\ Registered'
  BY <1>1, ProxiesAlone
<1>3. /\ KindTypes /\ PhaseOK(k) /\ pos[k] \in Nat /\ Len(log[k]) \in Nat
      /\ DOMAIN contents[k] \subseteq Nat
  BY ProviderTypes
<1>4. /\ UNCHANGED <<link, cut, arrived, task, contents, log, mapped>> /\ link
      /\ UNCHANGED <<asked, answers>>
      /\ phase[k] # "streaming"
  BY <1>1 DEF Subscribe, Snapshot, registryVars, localVars
<1>5. CASE Subscribe(k)
  <2>1. /\ phase' = [phase EXCEPT ![k] = "subscribed"] /\ todo' = todo
        /\ pos' = [pos EXCEPT ![k] = Len(log[k])]
    BY <1>5 DEF Subscribe
  <2>2. KindTypes'
    BY <1>3, <1>4, <2>1 DEF KindTypes
  <2>3. Elsewhere(k)
    BY <1>3, <1>4, <2>1 DEF KindTypes, Elsewhere
  <2>4. phase'[k] = "subscribed" /\ pos'[k] = Len(log[k])
    BY <1>3, <2>1 DEF KindTypes
  <2>5. PhaseOK(k)'
    <3>1. PICK l \in Nat : l = Len(log[k])
      BY <1>3
    <3>2. pos'[k] <= Len(log'[k])
      BY <1>4, <2>4, <3>1
    <3> QED
      BY <1>3, <1>4, <2>1, <2>4, <3>2 DEF PhaseOK, Listens, Live
  <2>6. StreamFollows(k)'
    BY <2>4 DEF StreamFollows
  <2> QED
    BY <1>1, <1>2, <2>2, <2>3, <2>5, <2>6, ProviderKindStep DEF Still
<1>6. CASE Snapshot(k)
  <2>1. /\ phase' = [phase EXCEPT ![k] = "streaming"] /\ pos' = pos /\ phase[k] = "subscribed"
        /\ todo' = [todo EXCEPT ![k] = DOMAIN contents[k]]
    BY <1>6 DEF Snapshot
  <2>8. k \notin cut
    BY <1>6 DEF Snapshot
  <2>2. KindTypes'
    BY <1>3, <1>4, <2>1 DEF KindTypes
  <2>3. Elsewhere(k)
    BY <1>3, <1>4, <2>1 DEF KindTypes, Elsewhere
  <2>4. phase'[k] = "streaming" /\ todo'[k] = DOMAIN contents[k]
    BY <1>3, <2>1 DEF KindTypes
  <2>5. PhaseOK(k)'
    BY <1>3, <1>4, <2>1, <2>4, <2>8 DEF PhaseOK, Listens, Live
  <2>6. Taken(k)' = DOMAIN contents[k]
    BY <1>3, <1>4, <2>4 DEF Taken, PhaseOK
  <2>7. StreamFollows(k)'
    BY <1>4, <2>6 DEF StreamFollows
  <2> QED
    BY <1>1, <1>2, <2>2, <2>3, <2>5, <2>7, ProviderKindStep DEF Still
<1> QED
  BY <1>5, <1>6

\* add_item asks the remote for each item of an event in turn.
LEMMA ProviderAsk ==
  ASSUME ProviderIInv, RemoteAssumption, NEW k \in Kinds, task = "monitoring",
         AskProperties(k) \/ GetProperties(k) \/ GetDetails(k) \/ SkipItem(k)
  PROVE  ProviderIInv'
<1>1. UNCHANGED <<registryVars, link, conn, restarts, cut, arrived, task, localVars>>
  BY DEF AskProperties, GetProperties, GetDetails, SkipItem, linkVars, streamsVars
<1>2. LocalTypes' /\ Registered'
  BY <1>1, ProxiesAlone
<1>3. /\ KindTypes /\ PhaseOK(k) /\ StreamFollows(k) /\ todo[k] \subseteq Nat
      /\ asked[k] \in Nat \cup {None}
  BY ProviderTypes
<1>4. /\ UNCHANGED <<link, cut, arrived, task, contents, log, mapped>>
      /\ UNCHANGED <<phase, pos>>
      /\ phase[k] = "streaming"
  BY <1>1 DEF AskProperties, GetProperties, GetDetails, SkipItem, registryVars, localVars
<1>5. KindTypes' /\ Elsewhere(k)
  <2>1. CASE AskProperties(k)
    <3>1. PICK i \in todo[k] : /\ asked' = [asked EXCEPT ![k] = i]
                               /\ todo' = [todo EXCEPT ![k] = @ \ {i}]
                               /\ answers' = [answers EXCEPT ![k] = 0]
      BY <2>1 DEF AskProperties
    <3>2. i \in Nat
      BY <1>3
    <3> QED
      BY <1>3, <1>4, <3>1, <3>2 DEF KindTypes, Elsewhere
  <2>2. CASE GetProperties(k) \/ GetDetails(k)
    <3>1. /\ asked' = asked /\ todo' = todo
          /\ \/ answers' = [answers EXCEPT ![k] = 1]
             \/ answers' = [answers EXCEPT ![k] = 2]
      BY <2>2 DEF GetProperties, GetDetails
    <3>2. answers' \in [Kinds -> 0 .. 2]
      BY <1>3, <3>1 DEF KindTypes
    <3> QED
      BY <1>3, <1>4, <3>1, <3>2 DEF KindTypes, Elsewhere
  <2>3. CASE SkipItem(k)
    <3>1. asked' = [asked EXCEPT ![k] = None] /\ todo' = todo /\ answers' = answers
      BY <2>3 DEF SkipItem
    <3> QED
      BY <1>3, <1>4, <3>1 DEF KindTypes, Elsewhere
  <2> QED
    BY <2>1, <2>2, <2>3
<1>6. PhaseOK(k)'
  BY <1>3, <1>4 DEF PhaseOK, Listens, Live
<1>7. \/ Taken(k)' = Taken(k)
      \/ /\ asked[k] # None /\ Taken(k)' \subseteq Taken(k)
         /\ Taken(k) \subseteq Taken(k)' \cup {asked[k]}
         /\ ~ link \/ asked[k] \notin DOMAIN contents[k]
  <2>1. CASE AskProperties(k)
    <3>1. PICK i \in todo[k] : /\ asked' = [asked EXCEPT ![k] = i]
                               /\ todo' = [todo EXCEPT ![k] = @ \ {i}]
                               /\ asked[k] = None
      BY <2>1 DEF AskProperties
    <3>2. asked'[k] = i /\ todo'[k] = todo[k] \ {i} /\ i # None
      BY <1>3, <3>1 DEF KindTypes, RemoteAssumption
    <3> QED
      BY <1>4, <3>1, <3>2 DEF Taken
  <2>2. CASE GetProperties(k) \/ GetDetails(k)
    BY <1>4, <2>2 DEF GetProperties, GetDetails, Taken
  <2>3. CASE SkipItem(k)
    <3>1. /\ asked' = [asked EXCEPT ![k] = None] /\ todo' = todo
          /\ asked[k] # None /\ (~ link \/ asked[k] \notin DOMAIN contents[k])
      BY <2>3 DEF SkipItem
    <3>2. asked'[k] = None
      BY <1>3, <3>1 DEF KindTypes
    <3> QED
      BY <1>4, <3>1, <3>2 DEF Taken
  <2> QED
    BY <2>1, <2>2, <2>3
<1>8. StreamFollows(k)'
  <2>1. link => DOMAIN contents[k] \ Taken(k)' = DOMAIN contents[k] \ Taken(k)
    BY <1>7
  <2>2. Taken(k)' \ DOMAIN contents[k] \subseteq Taken(k) \ DOMAIN contents[k]
    BY <1>7
  <2> QED
    BY <1>3, <1>4, <2>1, <2>2 DEF StreamFollows, Live, Unseen
<1> QED
  BY <1>1, <1>2, <1>5, <1>6, <1>8, ProviderKindStep DEF Still

\* ItemEvent::Added: the item is to be asked for, and if it has gone its removal follows.
LEMMA ProviderDeliverAdded ==
  ASSUME ProviderIInv, RemoteAssumption, NEW k \in Kinds, task = "monitoring", DeliverAdded(k)
  PROVE  ProviderIInv'
<1>1. UNCHANGED <<registryVars, link, conn, restarts, cut, arrived, task, localVars>>
  BY DEF DeliverAdded, linkVars, streamsVars
<1>2. LocalTypes' /\ Registered'
  BY <1>1, ProxiesAlone
<1>3. /\ RegistryInv /\ KindTypes /\ PhaseOK(k) /\ StreamFollows(k) /\ pos[k] \in Nat /\ Len(log[k]) \in Nat
  BY ProviderTypes
<1>4. PICK p \in Nat : p = pos[k]
  BY <1>3
<1>5. PICK l \in Nat : l = Len(log[k])
  BY <1>3
<1>6. /\ UNCHANGED <<link, cut, arrived, task, contents, log, mapped, phase, asked, answers>>
      /\ phase[k] = "streaming" /\ todo[k] = {} /\ asked[k] = None
      /\ (p + 1) .. l # {} /\ log[k][p + 1].op = "added"
      /\ pos' = [pos EXCEPT ![k] = p + 1]
      /\ todo' = [todo EXCEPT ![k] = {log[k][p + 1].id}]
  BY <1>1, <1>4, <1>5 DEF DeliverAdded, Free, Unseen, registryVars, localVars
<1>7. p + 1 \in 1 .. l /\ p + 1 <= l
  BY <1>6
<1>8. log[k][p + 1].id \in Nat
  BY <1>3, <1>5, <1>7, HistoryTypes
<1>9. PICK i \in Nat : i = log[k][p + 1].id
  BY <1>8
<1>10. /\ pos'[k] = p + 1 /\ todo'[k] = {i}
       /\ KindTypes' /\ Elsewhere(k)
  BY <1>3, <1>6, <1>9 DEF KindTypes, Elsewhere
<1>11. PhaseOK(k)'
  BY <1>3, <1>5, <1>6, <1>7, <1>10 DEF PhaseOK, Listens, Live
<1>12. Taken(k)' = Taken(k) \cup {i}
  BY <1>6, <1>10 DEF Taken
<1>13. Live(k) =>
       /\ \A j \in DOMAIN contents[k] \ Taken(k) :
            \E n \in (p + 1) .. l : log[k][n].op = "added" /\ log[k][n].id = j
       /\ \A j \in Taken(k) \ DOMAIN contents[k] :
            \E n \in (p + 1) .. l : log[k][n] = Removed(j)
  BY <1>3, <1>4, <1>5, <1>6 DEF StreamFollows, Unseen
<1>14. ASSUME Live(k), NEW j \in DOMAIN contents[k] \ Taken(k)'
       PROVE  \E n \in (p + 1 + 1) .. l : log[k][n].op = "added" /\ log[k][n].id = j
  <2>1. j # i /\ j \in DOMAIN contents[k] \ Taken(k)
    BY <1>12, <1>14
  <2>2. PICK n \in (p + 1) .. l : log[k][n].op = "added" /\ log[k][n].id = j
    BY <1>13, <1>14, <2>1
  <2>3. n # p + 1
    BY <1>9, <2>1, <2>2
  <2>4. n \in (p + 1 + 1) .. l
    BY <2>3
  <2> QED
    BY <2>2, <2>4
<1>15. ASSUME Live(k), NEW j \in Taken(k)' \ DOMAIN contents[k]
       PROVE  \E n \in (p + 1 + 1) .. l : log[k][n] = Removed(j)
  <2>1. CASE j = i
    BY <1>3, <1>5, <1>6, <1>7, <1>9, <1>15, <2>1, AddedThenRemoved
  <2>2. CASE j # i
    <3>1. PICK n \in (p + 1) .. l : log[k][n] = Removed(j)
      BY <1>12, <1>13, <1>15, <2>2
    <3>2. n # p + 1
      <4>1. Removed(j).op = "removed"
        BY DEF Removed
      <4> QED
        BY <1>6, <3>1, <4>1
    <3>3. n \in (p + 1 + 1) .. l
      BY <3>2
    <3> QED
      BY <3>1, <3>3
  <2> QED
    BY <2>1, <2>2
<1>16. StreamFollows(k)'
  BY <1>5, <1>6, <1>10, <1>14, <1>15 DEF StreamFollows, Live, Unseen
<1> QED
  BY <1>1, <1>2, <1>10, <1>11, <1>16, ProviderKindStep DEF Still

-----------------------------------------------------------------------------
\* An id that is mapped is that of one proxy, and of one entry of one map.
LEMMA MappedOnce ==
  ASSUME Registered, NEW k \in Kinds, NEW r \in DOMAIN mapped[k]
  PROVE  /\ \A p \in local : p.id = mapped[k][r] => p.kind = k /\ p.remote = r
         /\ \A j \in Kinds : \A x \in DOMAIN mapped[j] : mapped[j][x] = mapped[k][r] => j = k /\ x = r
<1> DEFINE own(j, x) == [id |-> mapped[j][x], kind |-> j, remote |-> x, conn |-> conn]
<1>1. \A j \in Kinds : \A x \in DOMAIN mapped[j] : own(j, x) \in local
  BY DEF Registered, MappedAreRegistered
<1>2. \A p, q \in local : p.id = q.id => p = q
  BY DEF Registered, ProxiesApart
<1>3. \A j, x : own(j, x).id = mapped[j][x] /\ own(j, x).kind = j /\ own(j, x).remote = x
  OBVIOUS
<1> HIDE DEF own
<1>4. \A p \in local : p.id = mapped[k][r] => p = own(k, r)
  BY <1>1, <1>2, <1>3
<1>5. \A j \in Kinds : \A x \in DOMAIN mapped[j] : mapped[j][x] = mapped[k][r] => own(j, x) = own(k, r)
  BY <1>1, <1>3, <1>4
<1> QED
  BY <1>3, <1>4, <1>5

\* The proxy gets an id of its own; the one it displaces in the map is recorded.
LEMMA ProviderRegister ==
  ASSUME ProviderIInv, RemoteAssumption, NEW k \in Kinds, task = "monitoring", RegisterItem(k)
  PROVE  ProviderIInv'
<1>1. /\ UNCHANGED <<registryVars, link, conn, restarts, cut, arrived, task>>
      /\ UNCHANGED <<contents, log, phase, pos, todo, answers>>
      /\ phase[k] = "streaming" /\ asked[k] # None
      /\ localIds' = localIds + 1
      /\ local' = local \cup {[id |-> localIds, kind |-> k, remote |-> asked[k], conn |-> conn]}
      /\ mapped' = [mapped EXCEPT ![k] = With(@, asked[k], localIds)]
      /\ displaced' = IF asked[k] \in DOMAIN mapped[k]
                      THEN displaced \cup {mapped[k][asked[k]]} ELSE displaced
      /\ asked' = [asked EXCEPT ![k] = None]
  BY DEF RegisterItem, registryVars, linkVars, streamsVars
<1>2. /\ KindTypes /\ LocalTypes /\ Registered /\ PhaseOK(k) /\ StreamFollows(k)
      /\ asked[k] \in Nat \cup {None}
  BY ProviderTypes
<1>3. conn \in Nat
  BY RemoteAssumption DEF ProviderIInv, ProviderTypeOK
<1>4. PICK i \in Nat : i = asked[k]
  BY <1>1, <1>2
<1>5. PICK fresh : fresh = [id |-> localIds, kind |-> k, remote |-> i, conn |-> conn]
  OBVIOUS
<1>6. /\ fresh.id = localIds /\ fresh.kind = k /\ fresh.remote = i /\ fresh.conn = conn
      /\ fresh \in Proxy /\ local' = local \cup {fresh} /\ localIds \in Nat
  BY <1>1, <1>2, <1>3, <1>4, <1>5 DEF Proxy, LocalTypes
<1>7. /\ DOMAIN mapped[k] \subseteq Nat /\ mapped[k] \in [DOMAIN mapped[k] -> Nat]
      /\ DOMAIN mapped = Kinds
  BY <1>2 DEF LocalTypes
<1>8. /\ DOMAIN mapped' = Kinds
      /\ mapped'[k] = With(mapped[k], i, localIds)
      /\ \A j \in Kinds \ {k} : mapped'[j] = mapped[j]
  BY <1>1, <1>4, <1>7
<1>9. /\ DOMAIN mapped'[k] = DOMAIN mapped[k] \cup {i} /\ mapped'[k][i] = localIds
      /\ mapped'[k] \in [DOMAIN mapped[k] \cup {i} -> Nat]
      /\ \A j \in DOMAIN mapped[k] : j # i => mapped'[k][j] = mapped[k][j]
  <2>1. PICK f : f = mapped[k]
    OBVIOUS
  <2>2. DOMAIN f \subseteq Nat /\ f \in [DOMAIN f -> Nat] /\ localIds \in Nat
    BY <1>6, <1>7, <2>1
  <2>3. /\ DOMAIN With(f, i, localIds) = DOMAIN f \cup {i} /\ With(f, i, localIds)[i] = localIds
        /\ With(f, i, localIds) \in [DOMAIN f \cup {i} -> Nat]
        /\ \A j \in DOMAIN f : j # i => With(f, i, localIds)[j] = f[j]
    BY <2>2 DEF With
  <2> QED
    BY <1>8, <2>1, <2>3
<1>10. KindTypes' /\ Elsewhere(k)
  BY <1>1, <1>2, <1>8 DEF KindTypes, Elsewhere
<1>11. LocalTypes'
  <2>1. \A j \in Kinds : DOMAIN mapped'[j] \subseteq Nat /\ mapped'[j] \in [DOMAIN mapped'[j] -> Nat]
    BY <1>2, <1>8, <1>9 DEF LocalTypes
  <2>2. local' \subseteq Proxy /\ localIds' \in Nat
    BY <1>1, <1>2, <1>6 DEF LocalTypes
  <2>3. displaced' \subseteq Nat
    <3>1. CASE i \in DOMAIN mapped[k]
      <4>1. mapped[k][i] \in Nat
        BY <1>7, <3>1
      <4> QED
        BY <1>1, <1>2, <1>4, <4>1, <3>1 DEF LocalTypes
    <3>2. CASE i \notin DOMAIN mapped[k]
      BY <1>1, <1>2, <1>4, <3>2 DEF LocalTypes
    <3> QED
      BY <3>1, <3>2
  <2> QED
    BY <1>8, <2>1, <2>2, <2>3 DEF LocalTypes
<1>12. ProxiesApart'
  <2>1. \A p \in local : p.id \in Nat /\ p.id < localIds
    BY <1>2 DEF LocalTypes, Proxy, Registered, ProxiesApart
  <2>2. \A p \in local' : p.id < localIds + 1
    BY <1>6, <2>1
  <2>3. \A p \in local : p.id # fresh.id
    BY <1>6, <2>1
  <2>4. \A p, q \in local' : p.id = q.id => p = q
    BY <1>2, <1>6, <2>3 DEF Registered, ProxiesApart
  <2> QED
    BY <1>1, <2>2, <2>4 DEF ProxiesApart
<1>13. MappedAreRegistered'
  <2> SUFFICES ASSUME NEW j \in Kinds, NEW r \in DOMAIN mapped'[j]
               PROVE  [id |-> mapped'[j][r], kind |-> j, remote |-> r, conn |-> conn] \in local'
    BY <1>1 DEF MappedAreRegistered
  <2>1. CASE j = k /\ r = i
    BY <1>5, <1>6, <1>9, <2>1
  <2>2. CASE ~ (j = k /\ r = i)
    <3>1. r \in DOMAIN mapped[j] /\ mapped'[j][r] = mapped[j][r]
      BY <1>8, <1>9, <2>2
    <3> QED
      BY <1>2, <1>6, <3>1 DEF Registered, MappedAreRegistered
  <2> QED
    BY <2>1, <2>2
<1>14. OrphansWereDisplaced'
  <2> SUFFICES ASSUME NEW p \in local', p.id \notin displaced'
               PROVE  p.remote \in DOMAIN mapped'[p.kind] /\ mapped'[p.kind][p.remote] = p.id
    BY DEF OrphansWereDisplaced
  <2>1. CASE p = fresh
    BY <1>6, <1>9, <2>1
  <2>2. CASE p \in local
    <3>1. p.kind \in Kinds
      BY <1>2, <2>2 DEF LocalTypes, Proxy
    <3>2. displaced \subseteq displaced'
      BY <1>1
    <3>3. p.remote \in DOMAIN mapped[p.kind] /\ mapped[p.kind][p.remote] = p.id
      BY <1>2, <2>2, <3>2 DEF Registered, OrphansWereDisplaced
    <3>4. CASE p.kind = k /\ p.remote = i
      <4>1. p.id \in displaced'
        BY <1>1, <1>4, <3>3, <3>4
      <4> QED
        BY <4>1
    <3>5. CASE ~ (p.kind = k /\ p.remote = i)
      BY <1>8, <1>9, <3>1, <3>3, <3>5
    <3> QED
      BY <3>4, <3>5
  <2> QED
    BY <1>6, <2>1, <2>2
<1>15. PhaseOK(k)'
  BY <1>1, <1>2 DEF PhaseOK, Listens, Live
<1>16. asked'[k] = None
  BY <1>1, <1>2 DEF KindTypes
<1>17. Taken(k)' = Taken(k)
  BY <1>1, <1>4, <1>9, <1>16 DEF Taken
<1>18. StreamFollows(k)'
  BY <1>1, <1>2, <1>17 DEF StreamFollows, Live, Unseen
<1> QED
  BY <1>1, <1>10, <1>11, <1>12, <1>13, <1>14, <1>15, <1>18, ProviderKindStep DEF Still, Registered

\* The proxies of the entries of the map of k that are not among D.
Leaving(k, D) == {p \in local : \E r \in DOMAIN mapped[k] \ D : p.id = mapped[k][r]}

\* Only the entries D of the map of k stay, as the map m.
OnlyStay(k, m, D) ==
  /\ D \subseteq DOMAIN mapped[k] /\ m \in [D -> Nat] /\ \A r \in D : m[r] = mapped[k][r]
  /\ mapped' = [mapped EXCEPT ![k] = m]
  /\ local' = local \ Leaving(k, D)
  /\ UNCHANGED <<conn, localIds, displaced>>

\* Some entries leave the map of a kind, and their proxies leave the registry.
LEMMA EntriesLeave ==
  ASSUME LocalTypes, Registered, NEW k \in Kinds, NEW m, NEW D, OnlyStay(k, m, D)
  PROVE  /\ LocalTypes' /\ Registered' /\ mapped'[k] = m /\ DOMAIN mapped'[k] = D
         /\ \A j \in Kinds \ {k} : mapped'[j] = mapped[j]
<1> USE DEF OnlyStay
<1>1. /\ DOMAIN mapped' = Kinds /\ mapped'[k] = m /\ DOMAIN m = D
      /\ \A j \in Kinds \ {k} : mapped'[j] = mapped[j]
  BY DEF LocalTypes
<1>2. LocalTypes'
  <2>1. \A j \in Kinds : DOMAIN mapped'[j] \subseteq Nat /\ mapped'[j] \in [DOMAIN mapped'[j] -> Nat]
    BY <1>1 DEF LocalTypes
  <2>2. local' \subseteq Proxy
    BY DEF LocalTypes
  <2> QED
    BY <1>1, <2>1, <2>2 DEF LocalTypes
<1>0. /\ local' \subseteq local
      /\ \A p \in local : p \in local' <=> \A r \in DOMAIN mapped[k] \ D : p.id # mapped[k][r]
  BY DEF Leaving
<1>3. ProxiesApart'
  BY <1>0 DEF Registered, ProxiesApart
<1>4. MappedAreRegistered'
  <2> SUFFICES ASSUME NEW j \in Kinds, NEW r \in DOMAIN mapped'[j]
               PROVE  [id |-> mapped'[j][r], kind |-> j, remote |-> r, conn |-> conn] \in local'
    BY DEF MappedAreRegistered
  <2>1. r \in DOMAIN mapped[j] /\ mapped'[j][r] = mapped[j][r] /\ (j = k => r \in D)
    BY <1>1
  <2>2. [id |-> mapped[j][r], kind |-> j, remote |-> r, conn |-> conn] \in local
    BY <2>1 DEF Registered, MappedAreRegistered
  <2>3. \A x \in DOMAIN mapped[k] \ D : mapped[j][r] # mapped[k][x]
    BY <2>1, MappedOnce
  <2> QED
    BY <1>0, <2>1, <2>2, <2>3
<1>5. OrphansWereDisplaced'
  <2> SUFFICES ASSUME NEW p \in local', p.id \notin displaced
               PROVE  p.remote \in DOMAIN mapped'[p.kind] /\ mapped'[p.kind][p.remote] = p.id
    BY DEF OrphansWereDisplaced
  <2>1. p \in local /\ \A r \in DOMAIN mapped[k] \ D : p.id # mapped[k][r]
    BY <1>0
  <2>2. p.kind \in Kinds
    BY <2>1 DEF LocalTypes, Proxy
  <2>3. p.remote \in DOMAIN mapped[p.kind] /\ mapped[p.kind][p.remote] = p.id
    BY <2>1 DEF Registered, OrphansWereDisplaced
  <2> QED
    BY <1>1, <2>1, <2>2, <2>3
<1> QED
  BY <1>1, <1>2, <1>3, <1>4, <1>5 DEF Registered

\* remove_item: the entry goes, and the proxy it names.
LEMMA ItemRemoved ==
  ASSUME LocalTypes, Registered, NEW k \in Kinds, NEW i \in Nat, RemoveItem(k, i),
         UNCHANGED <<conn, localIds, displaced>>
  PROVE  /\ LocalTypes' /\ Registered' /\ DOMAIN mapped'[k] = DOMAIN mapped[k] \ {i}
         /\ \A j \in Kinds \ {k} : mapped'[j] = mapped[j]
<1>1. /\ DOMAIN mapped[k] \subseteq Nat /\ mapped[k] \in [DOMAIN mapped[k] -> Nat]
      /\ DOMAIN mapped = Kinds
  BY DEF LocalTypes
<1>2. PICK D : D = DOMAIN mapped[k] \ {i}
  OBVIOUS
<1>3. PICK m : m = Without(mapped[k], i)
  OBVIOUS
<1>4. m \in [D -> Nat] /\ \A r \in D : m[r] = mapped[k][r]
  <2>1. PICK f : f = mapped[k]
    OBVIOUS
  <2>2. DOMAIN f \subseteq Nat /\ f \in [DOMAIN f -> Nat]
    BY <1>1, <2>1
  <2>3. /\ Without(f, i) \in [DOMAIN f \ {i} -> Nat]
        /\ \A j \in DOMAIN f : j # i => Without(f, i)[j] = f[j]
    BY <2>2 DEF Without, Restrict
  <2> QED
    BY <1>2, <1>3, <2>1, <2>3
<1>5. mapped' = [mapped EXCEPT ![k] = m] /\ local' = local \ Leaving(k, D)
  BY <1>2, <1>3 DEF RemoveItem, WithId, Leaving
<1>6. OnlyStay(k, m, D)
  BY <1>2, <1>4, <1>5 DEF OnlyStay
<1> QED
  BY <1>2, <1>6, EntriesLeave

\* ItemEvent::Removed: what is no longer held is gone from the remote.
LEMMA ProviderDeliverRemoved ==
  ASSUME ProviderIInv, RemoteAssumption, NEW k \in Kinds, task = "monitoring", DeliverRemoved(k)
  PROVE  ProviderIInv'
<1>3. /\ RegistryInv /\ KindTypes /\ LocalTypes /\ Registered
      /\ PhaseOK(k) /\ StreamFollows(k) /\ pos[k] \in Nat /\ Len(log[k]) \in Nat
  BY ProviderTypes
<1>4. PICK p \in Nat : p = pos[k]
  BY <1>3
<1>5. PICK l \in Nat : l = Len(log[k])
  BY <1>3
<1>6. PICK i : i = log[k][p + 1].id
  OBVIOUS
<1>7. /\ UNCHANGED <<registryVars, link, conn, restarts, cut, arrived, task>>
      /\ UNCHANGED <<contents, log, phase, todo, asked, answers, localIds, displaced>>
      /\ phase[k] = "streaming" /\ todo[k] = {} /\ asked[k] = None
      /\ (p + 1) .. l # {} /\ log[k][p + 1].op = "removed"
      /\ pos' = [pos EXCEPT ![k] = p + 1]
      /\ RemoveItem(k, i)
  BY <1>4, <1>5, <1>6 DEF DeliverRemoved, Free, Unseen, registryVars, linkVars, streamsVars
<1>8. p + 1 \in 1 .. l /\ p + 1 <= l
  BY <1>7
<1>9. i \in Nat /\ log[k][p + 1] = Removed(i) /\ i \notin DOMAIN contents[k]
  <2>1. i \in Nat /\ log[k][p + 1] = Removed(i)
    <3>1. "added" # "removed"
      OBVIOUS
    <3> QED
      BY <1>3, <1>5, <1>6, <1>7, <1>8, <3>1, HistoryTypes
  <2> QED
    BY <1>3, <1>5, <1>6, <1>7, <1>8, <2>1 DEF RegistryInv, ContentsMatchLog, RemovedIsAbsent
<1>10. /\ LocalTypes' /\ Registered' /\ DOMAIN mapped'[k] = DOMAIN mapped[k] \ {i}
       /\ \A j \in Kinds \ {k} : mapped'[j] = mapped[j]
  BY <1>3, <1>7, <1>9, ItemRemoved
<1>11. /\ pos'[k] = p + 1
       /\ KindTypes' /\ Elsewhere(k)
  BY <1>3, <1>7, <1>10 DEF KindTypes, Elsewhere
<1>12. PhaseOK(k)'
  BY <1>3, <1>5, <1>7, <1>8, <1>11 DEF PhaseOK, Listens, Live
<1>13. Taken(k)' = Taken(k) \ {i}
  BY <1>7, <1>10 DEF Taken
<1>14. Live(k) =>
       /\ \A j \in DOMAIN contents[k] \ Taken(k) :
            \E n \in (p + 1) .. l : log[k][n].op = "added" /\ log[k][n].id = j
       /\ \A j \in Taken(k) \ DOMAIN contents[k] :
            \E n \in (p + 1) .. l : log[k][n] = Removed(j)
  BY <1>3, <1>4, <1>5, <1>7 DEF StreamFollows, Unseen
<1>15. ASSUME Live(k), NEW j \in DOMAIN contents[k] \ Taken(k)'
       PROVE  \E n \in (p + 1 + 1) .. l : log[k][n].op = "added" /\ log[k][n].id = j
  <2>1. j \in DOMAIN contents[k] \ Taken(k)
    BY <1>9, <1>13, <1>15
  <2>2. PICK n \in (p + 1) .. l : log[k][n].op = "added" /\ log[k][n].id = j
    BY <1>14, <1>15, <2>1
  <2>3. n # p + 1
    BY <1>7, <2>2
  <2>4. n \in (p + 1 + 1) .. l
    BY <2>3
  <2> QED
    BY <2>2, <2>4
<1>16. ASSUME Live(k), NEW j \in Taken(k)' \ DOMAIN contents[k]
       PROVE  \E n \in (p + 1 + 1) .. l : log[k][n] = Removed(j)
  <2>1. j # i /\ j \in Taken(k) \ DOMAIN contents[k]
    BY <1>13, <1>16
  <2>2. PICK n \in (p + 1) .. l : log[k][n] = Removed(j)
    BY <1>14, <1>16, <2>1
  <2>3. n # p + 1
    <3>1. Removed(i).id = i /\ Removed(j).id = j
      BY DEF Removed
    <3> QED
      BY <1>9, <2>1, <2>2, <3>1
  <2>4. n \in (p + 1 + 1) .. l
    BY <2>3
  <2> QED
    BY <2>2, <2>4
<1>17. StreamFollows(k)'
  BY <1>5, <1>7, <1>11, <1>15, <1>16 DEF StreamFollows, Live, Unseen
<1> QED
  BY <1>7, <1>10, <1>11, <1>12, <1>17, ProviderKindStep DEF Still

\* What is left in a sequence is of the kind of what there was.
LEMMA LeftOver ==
  ASSUME NEW S, NEW s \in Seq(S), s # << >>
  PROVE  Head(s) \in S /\ Tail(s) \in Seq(S)
OBVIOUS

LEMMA LastPart ==
  ASSUME NEW S, NEW s \in Seq(S), NEW n \in Nat
  PROVE  SubSeq(s, n + 1, Len(s)) \in Seq(S)
OBVIOUS

\* An event of a stream that is cut concerns what the provider holds and nothing else.
LEMMA ProviderDeliverArrived ==
  ASSUME ProviderIInv, NEW k \in Kinds, task = "monitoring", DeliverArrived(k)
  PROVE  ProviderIInv'
<1>1. /\ KindTypes /\ LocalTypes /\ Registered /\ PhaseOK(k)
  BY ProviderTypes
<1>2. PICK event : event = Head(arrived[k])
  OBVIOUS
<1>3. /\ UNCHANGED <<registryVars, link, conn, restarts, cut, task>>
      /\ UNCHANGED <<phase, pos, asked, answers, localIds, displaced>>
      /\ phase[k] = "streaming" /\ k \in cut /\ arrived[k] # << >>
      /\ arrived' = [arrived EXCEPT ![k] = Tail(@)]
      /\ \/ /\ todo' = [todo EXCEPT ![k] = {event.id}]
            /\ UNCHANGED <<mapped, local>>
         \/ RemoveItem(k, event.id) /\ UNCHANGED todo
  BY <1>2 DEF DeliverArrived, Free
<1>4. event.id \in Nat /\ Tail(arrived[k]) \in Seq(Changes)
  <2>1. arrived[k] \in Seq(Changes)
    BY <1>1 DEF KindTypes
  <2>2. event \in Changes /\ Tail(arrived[k]) \in Seq(Changes)
    BY <1>2, <1>3, <2>1, LeftOver
  <2> QED
    BY <2>2 DEF Changes
<1>5. PICK i \in Nat : i = event.id
  BY <1>4
<1>6. KindTypes'
  BY <1>1, <1>3, <1>4, <1>5 DEF KindTypes
<1>7. LocalTypes' /\ Registered' /\ Elsewhere(k)
  <2>1. CASE UNCHANGED <<mapped, local>> /\ todo' = [todo EXCEPT ![k] = {i}]
    <3>1. UNCHANGED <<localVars, conn>>
      BY <1>3, <2>1 DEF localVars
    <3> QED
      BY <1>1, <1>3, <2>1, <3>1, ProxiesAlone DEF KindTypes, Elsewhere
  <2>2. CASE RemoveItem(k, i) /\ UNCHANGED todo
    <3>1. /\ LocalTypes' /\ Registered'
          /\ \A j \in Kinds \ {k} : mapped'[j] = mapped[j]
      BY <1>1, <1>3, <2>2, ItemRemoved
    <3> QED
      BY <1>3, <2>2, <3>1 DEF Elsewhere
  <2> QED
    BY <1>3, <1>5, <2>1, <2>2
<1>8. PhaseOK(k)' /\ StreamFollows(k)'
  BY <1>3 DEF PhaseOK, StreamFollows, Live
<1> QED
  BY <1>3, <1>6, <1>7, <1>8, ProviderKindStep DEF Still

\* The end of a stream: what the map has is unregistered, and the map is emptied.
LEMMA ProviderDrain ==
  ASSUME ProviderIInv, RemoteAssumption, NEW k \in Kinds, task = "monitoring", Drain(k)
  PROVE  ProviderIInv'
<1>1. /\ UNCHANGED <<registryVars, link, conn, restarts, cut, arrived, task>>
      /\ UNCHANGED <<pos, todo, asked, answers, localIds, displaced>>
      /\ (todo[k] = {} /\ asked[k] = None) \/ phase[k] = "subscribed"
      /\ phase' = [phase EXCEPT ![k] = "drained"]
      /\ mapped' = [mapped EXCEPT ![k] = << >>]
      /\ local' = local \ WithId({mapped[k][r] : r \in DOMAIN mapped[k]})
  BY DEF Drain, Free, registryVars, linkVars, streamsVars
<1>2. KindTypes /\ LocalTypes /\ Registered /\ PhaseOK(k)
  BY ProviderTypes
<1>3. /\ LocalTypes' /\ Registered' /\ DOMAIN mapped'[k] = {}
      /\ \A j \in Kinds \ {k} : mapped'[j] = mapped[j]
  <2>1. local' = local \ Leaving(k, {})
    BY <1>1 DEF WithId, Leaving
  <2>2. PICK m : m = << >>
    OBVIOUS
  <2>3. m \in [{} -> Nat]
    BY <2>2
  <2>4. mapped' = [mapped EXCEPT ![k] = m] /\ UNCHANGED <<conn, localIds, displaced>>
    BY <1>1, <2>2
  <2>5. {} \subseteq DOMAIN mapped[k] /\ \A r \in {} : m[r] = mapped[k][r]
    OBVIOUS
  <2>6. OnlyStay(k, m, {})
    BY <2>1, <2>3, <2>4, <2>5 DEF OnlyStay
  <2> QED
    BY <1>2, <2>6, EntriesLeave
<1>4. /\ phase'[k] = "drained"
      /\ KindTypes' /\ Elsewhere(k)
  BY <1>1, <1>2, <1>3 DEF KindTypes, Elsewhere
<1>5. task = "monitoring" /\ task' = task /\ todo'[k] = {} /\ asked'[k] = None
  BY <1>1, <1>2 DEF PhaseOK
<1>6. PhaseOK(k)' /\ StreamFollows(k)'
  BY <1>3, <1>4, <1>5 DEF PhaseOK, Listens, StreamFollows
<1> QED
  BY <1>1, <1>3, <1>4, <1>6, ProviderKindStep DEF Still

-----------------------------------------------------------------------------
\* A registry that starts again.
LEMMA RegistryAnew == RegistryInit' => RegistryInv'
BY RegistryInitInv, PTL

\* What changes in the remote is yet to be announced.
LEMMA ProviderRemoteChanges ==
  ASSUME ProviderIInv, RemoteChanges
  PROVE  ProviderIInv'
<1>1. /\ RegistryNext /\ RegistryInv /\ link
      /\ UNCHANGED <<link, conn, restarts, cut, arrived, task, phase, pos, todo, asked, answers>>
      /\ UNCHANGED <<mapped, local, localIds, displaced>>
  BY DEF RemoteChanges, ProviderIInv, linkVars, streamsVars, kindVars, localVars
<1>2. RegistryInv'
  BY <1>1, RegistryStepInv
<1>3. ProviderTypeOK'
  BY <1>1, <1>2 DEF ProviderIInv, ProviderTypeOK, RegistryInv
<1>4. Registered'
  BY <1>1 DEF ProviderIInv, Registered, ProxiesApart, MappedAreRegistered, OrphansWereDisplaced
<1>5. ASSUME NEW k \in Kinds PROVE PhaseOK(k)' /\ StreamFollows(k)'
  <2>1. /\ PhaseOK(k) /\ StreamFollows(k) /\ pos[k] \in Nat
    BY ProviderTypes
  <2>2. PICK p \in Nat : p = pos[k]
    BY <2>1
  <2>3. /\ Len(log[k]) \in Nat /\ Len(log'[k]) \in Nat
        /\ Len(log'[k]) = Len(log[k]) \/ Len(log'[k]) = Len(log[k]) + 1
        /\ \A m \in 1 .. Len(log[k]) : log'[k][m] = log[k][m]
        /\ \A i \in DOMAIN contents[k] :
             \/ i \in DOMAIN contents'[k]
             \/ Len(log'[k]) = Len(log[k]) + 1 /\ log'[k][Len(log'[k])] = Removed(i)
        /\ \A i \in DOMAIN contents'[k] :
             \/ i \in DOMAIN contents[k]
             \/ /\ Len(log'[k]) = Len(log[k]) + 1
                /\ log'[k][Len(log'[k])].op = "added" /\ log'[k][Len(log'[k])].id = i
    BY <1>1, HistoryGrows
  <2>4. PICK a \in Nat : a = Len(log[k])
    BY <2>3
  <2>5. PICK b \in Nat : b = Len(log'[k])
    BY <2>3
  <2>6. b = a \/ b = a + 1
    BY <2>3, <2>4, <2>5
  <2>7. ASSUME p <= a PROVE PhaseOK(k)' /\ StreamFollows(k)'
    <3>1. /\ p <= b /\ (p + 1) .. a \subseteq 1 .. a /\ (p + 1) .. a \subseteq (p + 1) .. b
          /\ b = a + 1 => b \in (p + 1) .. b
      BY <2>6, <2>7, OneMoreAtMost
    <3>2. PhaseOK(k)'
      BY <1>1, <2>1, <2>2, <2>5, <3>1 DEF PhaseOK, Listens, Live
    <3>3. Taken(k)' = Taken(k)
      BY <1>1 DEF Taken
    <3> SUFFICES ASSUME phase[k] = "streaming", Live(k) PROVE StreamFollows(k)'
      BY <1>1, <3>2 DEF StreamFollows, Live
    <3>4. /\ \A i \in DOMAIN contents[k] \ Taken(k) :
               \E n \in (p + 1) .. a : log[k][n].op = "added" /\ log[k][n].id = i
          /\ \A i \in Taken(k) \ DOMAIN contents[k] :
               \E n \in (p + 1) .. a : log[k][n] = Removed(i)
      BY <1>1, <2>1, <2>2, <2>4 DEF StreamFollows, Unseen
    <3>5. ASSUME NEW i \in DOMAIN contents'[k] \ Taken(k)
          PROVE  \E n \in (p + 1) .. b : log'[k][n].op = "added" /\ log'[k][n].id = i
      <4>1. CASE i \in DOMAIN contents[k]
        <5>1. PICK n \in (p + 1) .. a : log[k][n].op = "added" /\ log[k][n].id = i
          BY <3>4, <3>5, <4>1
        <5>2. n \in (p + 1) .. b /\ log'[k][n] = log[k][n]
          BY <2>3, <2>4, <3>1
        <5> QED
          BY <5>1, <5>2
      <4>2. CASE i \notin DOMAIN contents[k]
        BY <2>3, <2>4, <2>5, <3>1, <3>5, <4>2
      <4> QED
        BY <4>1, <4>2
    <3>6. ASSUME NEW i \in Taken(k) \ DOMAIN contents'[k]
          PROVE  \E n \in (p + 1) .. b : log'[k][n] = Removed(i)
      <4>1. CASE i \notin DOMAIN contents[k]
        <5>1. PICK n \in (p + 1) .. a : log[k][n] = Removed(i)
          BY <3>4, <3>6, <4>1
        <5>2. n \in (p + 1) .. b /\ log'[k][n] = log[k][n]
          BY <2>3, <2>4, <3>1
        <5> QED
          BY <5>1, <5>2
      <4>2. CASE i \in DOMAIN contents[k]
        BY <2>3, <2>4, <2>5, <3>1, <3>6, <4>2
      <4> QED
        BY <4>1, <4>2
    <3> QED
      BY <1>1, <2>2, <2>5, <3>3, <3>5, <3>6 DEF StreamFollows, Unseen
  <2>8. ASSUME ~ (p <= a) PROVE PhaseOK(k)' /\ StreamFollows(k)'
    <3>1. ~ (Listens(k) /\ Live(k))
      BY <2>1, <2>2, <2>4, <2>8 DEF PhaseOK
    <3> QED
      BY <1>1, <2>1, <3>1 DEF PhaseOK, StreamFollows, Listens, Live
  <2> QED
    BY <2>7, <2>8
<1>6. link' => task' = "monitoring"
  BY <1>1 DEF ProviderIInv
<1> QED
  BY <1>2, <1>3, <1>4, <1>5, <1>6 DEF ProviderIInv, Registered

\* The connection comes and goes, the remote restarts, the task ends.
LEMMA ProviderConnection ==
  ASSUME ProviderIInv, RemoteAssumption, RemoteRestarts \/ Break \/ Rejoin \/ Connect \/ Reconnect \/ Panic
  PROVE  ProviderIInv'
<1>1. RegistryInv /\ ProviderTypeOK
  BY DEF ProviderIInv
<1>2. UNCHANGED <<pos, todo, asked, answers, mapped, local, localIds, displaced>>
  BY DEF RemoteRestarts, Break, Rejoin, Connect, Reconnect, Panic, kindVars, localVars
<1>3. RegistryInv'
  <2>1. CASE RemoteRestarts
    BY <2>1, RegistryAnew DEF RemoteRestarts, RegistryInit
  <2>2. CASE UNCHANGED registryVars
    BY <1>1, <2>2, RegistryStepInv
  <2> QED
    BY <2>1, <2>2 DEF Break, Rejoin, Connect, Reconnect, Panic
<1>4. ProviderTypeOK'
  <2>1. /\ link' \in BOOLEAN /\ conn' \in 0 .. MaxConnects /\ restarts' \in 0 .. MaxRestarts
        /\ task' \in {"connecting", "monitoring", "panicked"}
        /\ phase' \in [Kinds -> {"off", "calling", "subscribed", "streaming", "drained"}]
    <3>1. CASE RemoteRestarts
      BY <1>1, <3>1, RemoteAssumption DEF RemoteRestarts, ProviderTypeOK, kindVars
    <3>2. CASE Break \/ Rejoin
      BY <1>1, <3>2 DEF Break, Rejoin, ProviderTypeOK, kindVars
    <3>3. CASE Connect
      BY <1>1, <3>3, RemoteAssumption DEF Connect, ProviderTypeOK
    <3>4. CASE Reconnect
      BY <1>1, <3>4 DEF Reconnect, ProviderTypeOK
    <3>5. CASE Panic
      BY <1>1, <3>5 DEF Panic, ProviderTypeOK, kindVars
    <3> QED
      BY <3>1, <3>2, <3>3, <3>4, <3>5
  <2>2. cut' \subseteq Kinds /\ arrived' \in [Kinds -> Seq(Changes)]
    <3>1. CASE UNCHANGED streamsVars
      BY <1>1, <3>1 DEF streamsVars, ProviderTypeOK
    <3>2. CASE Break
      <4>1. PICK broken \in SUBSET Kinds :
              /\ cut' = cut \cup broken
              /\ arrived' = [k \in Kinds |->
                   IF k \notin broken THEN arrived[k]
                   ELSE IF HasLagged(k, pos[k]) THEN << >>
                   ELSE SubSeq(log[k], pos[k] + 1, Len(log[k]))]
        BY <3>2 DEF Break
      <4>2. ASSUME NEW k \in Kinds
            PROVE  /\ arrived[k] \in Seq(Changes) /\ << >> \in Seq(Changes)
                   /\ SubSeq(log[k], pos[k] + 1, Len(log[k])) \in Seq(Changes)
        <5>1. log[k] \in Seq(Changes) /\ pos[k] \in Nat /\ arrived[k] \in Seq(Changes)
          BY <1>1 DEF ProviderTypeOK, RegistryTypeOK
        <5> QED
          BY <5>1, LastPart
      <4> QED
        BY <1>1, <4>1, <4>2 DEF ProviderTypeOK
    <3>3. CASE Connect
      <4>1. << >> \in Seq(Changes)
        OBVIOUS
      <4> QED
        BY <3>3, <4>1 DEF Connect
    <3> QED
      BY <3>1, <3>2, <3>3 DEF RemoteRestarts, Rejoin, Reconnect, Panic
  <2> QED
    BY <1>1, <1>2, <1>3, <2>1, <2>2 DEF ProviderTypeOK, RegistryInv
<1>5. /\ link' => task' = "monitoring"
      /\ task' = "connecting" => \A k \in Kinds : phase'[k] = "off"
  <2>1. CASE RemoteRestarts \/ Break \/ Rejoin \/ Panic
    BY <2>1 DEF RemoteRestarts, Break, Rejoin, Panic, kindVars, ProviderIInv, PhaseOK
  <2>2. CASE Connect \/ Reconnect
    BY <2>2 DEF Connect, Reconnect
  <2> QED
    BY <2>1, <2>2
<1>6. ASSUME NEW k \in Kinds
      PROVE  /\ phase'[k] # "streaming" => phase[k] # "streaming"
             /\ Listens(k)' => Listens(k)
             /\ ~ (Listens(k)' /\ Live(k)')
             /\ task' = "monitoring" /\ Listens(k)' => link' \/ k \in cut'
  <2>1. PhaseOK(k)
    BY DEF ProviderIInv
  <2>2. CASE RemoteRestarts
    BY <2>1, <2>2 DEF RemoteRestarts, kindVars, streamsVars, PhaseOK, Listens, Live
  <2>3. CASE Break
    <3>1. /\ ~ link' /\ phase' = phase /\ task' = task
          /\ cut' = cut \cup ({j \in Kinds : phase[j] \in {"subscribed", "streaming"}} \ cut)
      BY <2>3 DEF Break, kindVars
    <3> QED
      BY <3>1 DEF Listens, Live
  <2>4. CASE Rejoin
    BY <2>1, <2>4 DEF Rejoin, kindVars, streamsVars, PhaseOK, Listens, Live
  <2>5. CASE Connect
    BY <2>1, <2>5 DEF Connect, PhaseOK, Listens
  <2>6. CASE Reconnect
    BY <2>6 DEF Reconnect, Listens
  <2>7. CASE Panic
    BY <2>7 DEF Panic, kindVars, Listens, Live
  <2> QED
    BY <2>2, <2>3, <2>4, <2>5, <2>6, <2>7
<1>9. ASSUME NEW k \in Kinds PROVE PhaseOK(k)' /\ StreamFollows(k)'
  <2>1. PhaseOK(k)
    BY DEF ProviderIInv
  <2>2. phase'[k] # "streaming" => DOMAIN mapped'[k] = {} /\ todo'[k] = {} /\ asked'[k] = None
    BY <1>2, <1>6, <2>1 DEF PhaseOK
  <2> QED
    BY <1>5, <1>6, <2>2 DEF PhaseOK, StreamFollows, Listens
<1>7. ProxiesApart' /\ OrphansWereDisplaced'
  BY <1>2 DEF ProviderIInv, ProxiesApart, OrphansWereDisplaced
<1>8. MappedAreRegistered'
  <2>1. CASE conn' = conn
    BY <1>2, <2>1 DEF ProviderIInv, MappedAreRegistered
  <2>2. CASE Connect
    <3>1. \A k \in Kinds : DOMAIN mapped'[k] = {}
      BY <1>2, <2>2 DEF Connect, ProviderIInv, PhaseOK
    <3> QED
      BY <3>1 DEF MappedAreRegistered
  <2> QED
    BY <2>1, <2>2 DEF RemoteRestarts, Break, Rejoin, Reconnect, Panic
<1> QED
  BY <1>3, <1>4, <1>5, <1>7, <1>8, <1>9 DEF ProviderIInv

-----------------------------------------------------------------------------
LEMMA FollowInitInv == ProviderInit /\ RemoteAssumption => ProviderIInv
<1> SUFFICES ASSUME ProviderInit, RemoteAssumption PROVE ProviderIInv
  OBVIOUS
<1>1. RegistryInv
  BY RegistryInitInv DEF ProviderInit
<1>2. \A k \in Kinds : mapped[k] = << >> /\ DOMAIN mapped[k] = {}
  BY DEF ProviderInit
<1>3. ProviderTypeOK
  <2>1. LocalTypes
    <3>1. ASSUME NEW k \in Kinds
          PROVE  DOMAIN mapped[k] \subseteq Nat /\ mapped[k] \in [DOMAIN mapped[k] -> Nat]
      <4>1. DOMAIN << >> = {} /\ << >> \in [{} -> Nat]
        OBVIOUS
      <4> QED
        BY <1>2, <4>1
    <3>2. DOMAIN mapped = Kinds /\ local \subseteq Proxy /\ localIds \in Nat /\ displaced \subseteq Nat
      BY DEF ProviderInit
    <3> QED
      BY <3>1, <3>2 DEF LocalTypes
  <2>2. KindTypes
    <3>1. << >> \in Seq(Changes)
      OBVIOUS
    <3> QED
      BY <3>1 DEF ProviderInit, KindTypes
  <2>3. link \in BOOLEAN /\ conn \in 0 .. MaxConnects /\ restarts \in 0 .. MaxRestarts
        /\ cut \subseteq Kinds /\ task \in {"connecting", "monitoring", "panicked"}
    <3>1. MaxConnects \in Nat /\ MaxRestarts \in Nat
      BY RemoteAssumption DEF RemoteAssumption
    <3>2. \A n \in Nat : 0 \in 0 .. n
      OBVIOUS
    <3> QED
      BY <3>1, <3>2 DEF ProviderInit
  <2> QED
    BY <1>1, <2>1, <2>2, <2>3 DEF ProviderTypeOK, LocalTypes, KindTypes, RegistryInv
<1>4. ProxiesApart /\ MappedAreRegistered /\ OrphansWereDisplaced
  BY <1>2 DEF ProviderInit, ProxiesApart, MappedAreRegistered, OrphansWereDisplaced
<1>5. \A k \in Kinds : PhaseOK(k) /\ StreamFollows(k)
  BY <1>2 DEF ProviderInit, PhaseOK, Listens, StreamFollows
<1> QED
  BY <1>1, <1>3, <1>4, <1>5 DEF ProviderIInv, ProviderInit

LEMMA FollowStepInv == ProviderIInv /\ RemoteAssumption /\ [ProviderNext]_reexportVars => ProviderIInv'
<1> SUFFICES ASSUME ProviderIInv, RemoteAssumption, [ProviderNext]_reexportVars PROVE ProviderIInv'
  OBVIOUS
<1>1. CASE RemoteChanges
  BY <1>1, ProviderRemoteChanges
<1>2. CASE RemoteRestarts \/ Break \/ Rejoin \/ Connect \/ Reconnect \/ Panic
  BY <1>2, ProviderConnection
<1>3. ASSUME NEW k \in Kinds, KindStep(k) PROVE ProviderIInv'
  <2>0. task = "monitoring"
    BY <1>3 DEF KindStep
  <2>1. CASE Subscribe(k) \/ Snapshot(k)
    BY <2>0, <2>1, ProviderSubscribe
  <2>2. CASE MonitorFails(k) \/ PropertiesFail(k)
    BY <1>2, <2>2 DEF MonitorFails, PropertiesFail
  <2>3. CASE AskProperties(k) \/ GetProperties(k) \/ GetDetails(k) \/ SkipItem(k)
    BY <2>0, <2>3, ProviderAsk
  <2>4. CASE DeliverAdded(k)
    BY <2>0, <2>4, ProviderDeliverAdded
  <2>5. CASE RegisterItem(k)
    BY <2>0, <2>5, ProviderRegister
  <2>6. CASE DeliverRemoved(k)
    BY <2>0, <2>6, ProviderDeliverRemoved
  <2>8. CASE DeliverArrived(k)
    BY <2>0, <2>8, ProviderDeliverArrived
  <2>7. CASE Drain(k)
    BY <2>0, <2>7, ProviderDrain
  <2> QED
    BY <1>3, <2>1, <2>2, <2>3, <2>4, <2>5, <2>6, <2>7, <2>8 DEF KindStep
<1>4. CASE UNCHANGED reexportVars
  <2>1. /\ UNCHANGED <<next, contents, log, link, conn, restarts, cut, arrived, task>>
        /\ UNCHANGED <<phase, pos, todo, asked, answers>>
        /\ UNCHANGED <<mapped, local, localIds, displaced>> /\ UNCHANGED registryVars
    BY <1>4 DEF reexportVars, registryVars, linkVars, streamsVars, kindVars, localVars
  <2>2. RegistryInv'
    BY <2>1, RegistryStepInv DEF ProviderIInv
  <2>3. ProviderTypeOK'
    BY <2>1, <2>2 DEF ProviderIInv, ProviderTypeOK, RegistryInv
  <2>4. Registered'
    BY <2>1 DEF ProviderIInv, Registered, ProxiesApart, MappedAreRegistered, OrphansWereDisplaced
  <2>5. ASSUME NEW k \in Kinds PROVE PhaseOK(k)' /\ StreamFollows(k)'
    <3>1. Taken(k)' = Taken(k)
      BY <2>1 DEF Taken
    <3> QED
      BY <2>1, <3>1 DEF ProviderIInv, PhaseOK, StreamFollows, Listens, Live, Unseen
  <2> QED
    BY <2>1, <2>2, <2>3, <2>4, <2>5 DEF ProviderIInv, Registered
<1> QED
  BY <1>1, <1>2, <1>3, <1>4 DEF ProviderNext

\* A provider that has followed everything has what the remote has.
LEMMA ProviderCaughtUp == ProviderIInv => MirrorsRemote
<1> SUFFICES ASSUME ProviderIInv, NEW k \in Kinds, CaughtUp(k)
             PROVE  DOMAIN mapped[k] = DOMAIN contents[k]
  BY DEF MirrorsRemote
<1>1. StreamFollows(k) /\ Len(log[k]) \in Nat
  BY ProviderTypes
<1>2. Unseen(k, pos[k]) = {}
  <2>1. PICK l \in Nat : l = Len(log[k])
    BY <1>1
  <2>2. (l + 1) .. l = {}
    OBVIOUS
  <2> QED
    BY <2>1, <2>2 DEF CaughtUp, Unseen
<1>3. Taken(k) = DOMAIN mapped[k]
  BY DEF Taken, CaughtUp
<1> QED
  BY <1>1, <1>2, <1>3 DEF StreamFollows, Live, CaughtUp

\* For any remote, any kinds and however often it restarts or the connection breaks: the
\* ids in the provider's maps are those of proxies registered for that very item by this
\* connection, only displaced proxies are in no map, and a provider that has followed
\* everything has exactly the remote's items (boardswarm_provider, monitor_items).
THEOREM ProviderSafe == ProviderSpec => []ProviderInv
<1>0. RemoteAssumption
  BY RemoteAssumption
<1>1. ProviderInit => ProviderIInv
  BY <1>0, FollowInitInv
<1>2. ProviderIInv /\ [ProviderNext]_reexportVars => ProviderIInv'
  BY <1>0, FollowStepInv
<1>3. ProviderIInv => ProviderInv
  BY ProviderCaughtUp DEF ProviderIInv, ProviderInv
<1> QED
  BY <1>1, <1>2, <1>3, PTL DEF ProviderSpec
=============================================================================
