---------------------------- MODULE DeviceProofs ----------------------------
(***************************************************************************)
(* Proofs about a configured device: its modes, what the clients of        *)
(* DeviceInfo know of it, and its links to the items of the registries,    *)
(* for any device, callers, clients, registries and items.                 *)
(***************************************************************************)
EXTENDS DeviceInfo, DeviceLinks, RegistryProofs, WellFoundedInduction, TLAPS

-----------------------------------------------------------------------------
(* Leaves is defined by recursion along Depends, which nothing keeps from  *)
(* having cycles: a configuration is not checked for them.  What it gives  *)
(* is still well defined.  For an actuator, the least relation that is     *)
(* closed under its two rules gives each mode one setting at most, and a   *)
(* mode which that gives none may have any.                                *)

Direct(m, a) == StepsOn(m, a) # {} \/ Depends[m] = NoMode
DirectSetting(m, a) == IF StepsOn(m, a) # {} THEN LastSetting(m, a) ELSE Unknown

Outcomes == {DirectSetting(m, a) : m \in Modes, a \in Actuators}

Closed(S, a) ==
  /\ \A m \in Modes : Direct(m, a) => <<m, DirectSetting(m, a)>> \in S
  /\ \A m \in Modes, v \in Outcomes :
       ~ Direct(m, a) /\ <<Depends[m], v>> \in S => <<m, v>> \in S

Least(a) ==
  {p \in Modes \X Outcomes : \A S \in SUBSET (Modes \X Outcomes) : Closed(S, a) => p \in S}

LEMMA LeastIsClosed ==
  ASSUME NEW a \in Actuators
  PROVE  Closed(Least(a), a)
<1>1. ASSUME NEW m \in Modes, Direct(m, a)
      PROVE  <<m, DirectSetting(m, a)>> \in Least(a)
  BY <1>1 DEF Least, Closed, Outcomes
<1>2. ASSUME NEW m \in Modes, NEW v \in Outcomes, ~ Direct(m, a), <<Depends[m], v>> \in Least(a)
      PROVE  <<m, v>> \in Least(a)
  BY <1>2 DEF Least, Closed
<1> QED
  BY <1>1, <1>2 DEF Closed

\* What is in the least relation is there by one of the rules.
LEMMA LeastInversion ==
  ASSUME NEW a \in Actuators, NEW m \in Modes, NEW v \in Outcomes, <<m, v>> \in Least(a)
  PROVE  IF Direct(m, a) THEN v = DirectSetting(m, a) ELSE <<Depends[m], v>> \in Least(a)
<1> DEFINE ByRule(p) == /\ Direct(p[1], a) => p[2] = DirectSetting(p[1], a)
                        /\ ~ Direct(p[1], a) => <<Depends[p[1]], p[2]>> \in Least(a)
           S == {p \in Least(a) : ByRule(p)}
<1>1. S \in SUBSET (Modes \X Outcomes)
  BY DEF Least
<1>2. \A k \in Modes : Direct(k, a) => <<k, DirectSetting(k, a)>> \in S
  BY LeastIsClosed DEF Closed
<1>3. ASSUME NEW k \in Modes, NEW w \in Outcomes, ~ Direct(k, a), <<Depends[k], w>> \in S
      PROVE  <<k, w>> \in S
  <2>1. <<Depends[k], w>> \in Least(a)
    BY <1>3
  <2>2. <<k, w>> \in Least(a)
    BY <1>3, <2>1, LeastIsClosed DEF Closed
  <2> QED
    BY <1>3, <2>1, <2>2
<1>4. Closed(S, a)
  BY <1>2, <1>3 DEF Closed
<1>5. <<m, v>> \in S
  <2> HIDE DEF S
  <2> QED BY <1>1, <1>4 DEF Least
<1> QED
  BY <1>5

\* It gives a mode one setting at most.
LEMMA LeastIsFunctional ==
  ASSUME NEW a \in Actuators, NEW m \in Modes, NEW v \in Outcomes, NEW w \in Outcomes,
         <<m, v>> \in Least(a), <<m, w>> \in Least(a)
  PROVE  v = w
<1> DEFINE Alone(p) == \A x \in Outcomes : <<p[1], x>> \in Least(a) => x = p[2]
           S == {p \in Least(a) : Alone(p)}
<1>1. S \in SUBSET (Modes \X Outcomes)
  BY DEF Least
<1>2. ASSUME NEW k \in Modes, Direct(k, a)
      PROVE  <<k, DirectSetting(k, a)>> \in S
  <2>1. <<k, DirectSetting(k, a)>> \in Least(a)
    BY <1>2, LeastIsClosed DEF Closed
  <2>2. \A x \in Outcomes : <<k, x>> \in Least(a) => x = DirectSetting(k, a)
    BY <1>2, LeastInversion
  <2> QED
    BY <2>1, <2>2
<1>3. ASSUME NEW k \in Modes, NEW x \in Outcomes, ~ Direct(k, a), <<Depends[k], x>> \in S
      PROVE  <<k, x>> \in S
  <2>1. /\ <<Depends[k], x>> \in Least(a)
        /\ \A y \in Outcomes : <<Depends[k], y>> \in Least(a) => y = x
    BY <1>3
  <2>2. <<k, x>> \in Least(a)
    BY <1>3, <2>1, LeastIsClosed DEF Closed
  <2>3. \A y \in Outcomes : <<k, y>> \in Least(a) => y = x
    BY <1>3, <2>1, LeastInversion
  <2> QED
    BY <2>2, <2>3
<1>4. Closed(S, a)
  BY <1>2, <1>3 DEF Closed
<1>5. <<m, v>> \in S
  <2> HIDE DEF S
  <2> QED BY <1>1, <1>4 DEF Least
<1> QED
  BY <1>5

\* Leaves is what its definition says.
LEMMA LeavesDef ==
  Leaves = [m \in Modes |->
              [a \in Actuators |-> IF StepsOn(m, a) # {} THEN LastSetting(m, a)
                                   ELSE IF Depends[m] = NoMode THEN Unknown
                                   ELSE Leaves[Depends[m]][a]]]
<1> DEFINE Given(m, a) == {v \in Outcomes : <<m, v>> \in Least(a)}
           Setting(m, a) == IF Given(m, a) # {} THEN CHOOSE v \in Given(m, a) : TRUE ELSE Unknown
           f == [m \in Modes |-> [a \in Actuators |-> Setting(m, a)]]
           Rule(g, m, a) == IF StepsOn(m, a) # {} THEN LastSetting(m, a)
                            ELSE IF Depends[m] = NoMode THEN Unknown ELSE g[Depends[m]][a]
<1>1. ASSUME NEW m \in Modes, NEW a \in Actuators
      PROVE  Setting(m, a) = Rule(f, m, a)
  <2>1. CASE Direct(m, a)
    <3>1. Given(m, a) = {DirectSetting(m, a)}
      <4>1. DirectSetting(m, a) \in Given(m, a)
        BY <2>1, LeastIsClosed DEF Closed, Outcomes
      <4>2. \A v \in Given(m, a) : v = DirectSetting(m, a)
        BY <2>1, LeastInversion
      <4> QED
        BY <4>1, <4>2
    <3>2. Setting(m, a) = DirectSetting(m, a)
      BY <3>1
    <3> QED
      BY <2>1, <3>2 DEF Direct, DirectSetting
  <2>2. CASE ~ Direct(m, a)
    <3>1. Depends[m] \in Modes
      BY <2>2, DeviceModeAssumption DEF Direct
    <3>2. Given(m, a) = Given(Depends[m], a)
      <4>1. \A v \in Given(m, a) : v \in Given(Depends[m], a)
        BY <2>2, LeastInversion
      <4>2. \A v \in Given(Depends[m], a) : v \in Given(m, a)
        BY <2>2, LeastIsClosed DEF Closed
      <4> QED
        BY <4>1, <4>2
    <3>3. Setting(m, a) = Setting(Depends[m], a)
      <4> HIDE DEF Given
      <4> QED BY <3>2
    <3>4. f[Depends[m]][a] = Setting(Depends[m], a)
      BY <3>1
    <3> QED
      BY <2>2, <3>3, <3>4 DEF Direct
  <2> QED
    BY <2>1, <2>2
<1>2. f = [m \in Modes |-> [a \in Actuators |-> Rule(f, m, a)]]
  <2> HIDE DEF Rule
  <2> DEFINE row(m) == [a \in Actuators |-> Setting(m, a)]
             stepped(m) == [a \in Actuators |-> Rule(f, m, a)]
  <2>1. \A m \in Modes : row(m) = stepped(m)
    BY <1>1
  <2> QED
    BY <2>1
<1>3. \E g : g = [m \in Modes |-> [a \in Actuators |-> Rule(g, m, a)]]
  <2> HIDE DEF f
  <2> QED BY <1>2
<1> QED
  <2> HIDE DEF f, Setting, Given
  <2> QED
    BY <1>3 DEF Leaves

-----------------------------------------------------------------------------
(* The modes. *)

Calls == [mode : Modes \cup {NoMode}, n : Nat, base : Nat]

\* A running call is somewhere in the sequence of its mode.  While a mode is reported
\* all the calls that run had begun before it was reached.
CallsInv ==
  /\ call \in [Callers -> Calls]
  /\ current \in Modes \cup {NoMode} /\ finished \in Nat
  /\ \A c \in Callers : Running(c) =>
       /\ call[c].mode \in Modes
       /\ call[c].n \in 1 .. Len(Sequence[call[c].mode]) + 1
       /\ call[c].base <= finished
       /\ current # NoMode => call[c].base < finished

\* What the settings are once the first n - 1 steps of m have been done in a device
\* that was in the mode which m depends on.
HalfWay(m, n, a) ==
  \/ \E o \in StepsOn(m, a) : /\ o < n /\ actuator[a] = Sequence[m][o].value
                              /\ \A q \in StepsOn(m, a) : q < n => q <= o
  \/ /\ \A q \in StepsOn(m, a) : q >= n
     /\ \/ Depends[m] = NoMode
        \/ Leaves[Depends[m]][a] \in {Unknown, actuator[a]}

\* As long as calls have not overlapped, no mode is reported while one runs, and it has
\* done the steps before the one it is about to do, on top of the mode it came from, for
\* all that stray requests have let alone.
SequenceInv ==
  /\ actuator = [a \in Actuators |-> actuator[a]]
  /\ ~ overlapped =>
       \A c \in Callers : Running(c) =>
         /\ \A d \in Callers : Running(d) => d = c
         /\ current = NoMode
         /\ \A a \in Actuators \ touched : HalfWay(call[c].mode, call[c].n, a)

ModeIInv == CallsInv /\ OneClaimPerArrival /\ SequenceInv /\ ModeIsReal

\* What the last step of a sequence leaves is what Leaves says of its mode.
LEMMA EndOfSequence ==
  ASSUME NEW m \in Modes, NEW a \in Actuators,
         HalfWay(m, Len(Sequence[m]) + 1, a)
  PROVE  Leaves[m][a] = Unknown \/ actuator[a] = Leaves[m][a]
<1>1. Len(Sequence[m]) \in Nat
  BY DeviceModeAssumption
<1>2. \A q \in StepsOn(m, a) : q \in Nat /\ q < Len(Sequence[m]) + 1
  BY <1>1 DEF StepsOn
<1>3. CASE StepsOn(m, a) # {}
  <2>1. PICK o \in StepsOn(m, a) : /\ actuator[a] = Sequence[m][o].value
                                   /\ \A q \in StepsOn(m, a) : q <= o
    BY <1>1, <1>2, <1>3 DEF HalfWay
  <2> DEFINE last == CHOOSE n \in StepsOn(m, a) : \A q \in StepsOn(m, a) : q <= n
  <2>2. last \in StepsOn(m, a) /\ \A q \in StepsOn(m, a) : q <= last
    BY <2>1
  <2>3. o = last
    <3> HIDE DEF last
    <3>1. o <= last /\ last <= o /\ o \in Nat /\ last \in Nat
      BY <1>2, <2>1, <2>2
    <3> QED
      BY <3>1
  <2>4. Leaves[m][a] = LastSetting(m, a)
    BY <1>3, LeavesDef
  <2> QED
    BY <2>1, <2>3, <2>4 DEF LastSetting
<1>4. CASE StepsOn(m, a) = {}
  <2>1. CASE Depends[m] = NoMode
    BY <1>4, <2>1, LeavesDef
  <2>2. CASE Depends[m] # NoMode
    <3>1. Leaves[m][a] = Leaves[Depends[m]][a]
      BY <1>4, <2>2, LeavesDef
    <3> QED
      BY <1>4, <2>2, <3>1 DEF HalfWay
  <2> QED
    BY <2>1, <2>2
<1> QED
  BY <1>3, <1>4

\* A step of the sequence takes every actuator one step on, its own wherever that was.
LEMMA OneStepOn ==
  ASSUME NEW m \in Modes, NEW n \in 1 .. Len(Sequence[m]), NEW a \in Actuators,
         Sequence[m][n].actuator = a \/ HalfWay(m, n, a), actuator = [b \in Actuators |-> actuator[b]],
         actuator' = [actuator EXCEPT ![Sequence[m][n].actuator] = Sequence[m][n].value]
  PROVE  HalfWay(m, n + 1, a)'
<1>1. Len(Sequence[m]) \in Nat /\ n \in Nat /\ n + 1 \in Nat
  BY DeviceModeAssumption
<1>2. \A q \in StepsOn(m, a) : q \in Nat
  BY <1>1 DEF StepsOn
<1>3. CASE Sequence[m][n].actuator = a
  <2>1. n \in StepsOn(m, a)
    BY <1>3 DEF StepsOn
  <2>2. actuator'[a] = Sequence[m][n].value
    BY <1>3
  <2>3. n < n + 1 /\ \A q \in StepsOn(m, a) : q < n + 1 => q <= n
    BY <1>1, <1>2
  <2> QED
    BY <2>1, <2>2, <2>3 DEF HalfWay
<1>4. CASE Sequence[m][n].actuator # a
  <2>1. actuator'[a] = actuator[a]
    BY <1>4
  <2>2. n \notin StepsOn(m, a)
    BY <1>4 DEF StepsOn
  <2>3. \A q \in StepsOn(m, a) : (q < n + 1 <=> q < n) /\ (q >= n + 1 <=> q >= n)
    BY <1>1, <1>2, <2>2
  <2>4. HalfWay(m, n, a)
    BY <1>4
  <2> QED
    BY <2>1, <2>3, <2>4 DEF HalfWay
<1> QED
  BY <1>3, <1>4

LEMMA ModeInitInv == ModeInit => ModeIInv
<1> SUFFICES ASSUME ModeInit PROVE ModeIInv
  OBVIOUS
<1> USE DEF ModeInit
<1>1. \A c \in Callers : ~ Running(c)
  BY DEF Running
<1>2. CallsInv
  BY <1>1 DEF CallsInv, Calls, NoCall
<1>3. actuator = [a \in Actuators |-> actuator[a]]
  OBVIOUS
<1> QED
  BY <1>1, <1>2, <1>3 DEF ModeIInv, OneClaimPerArrival, SequenceInv, ModeIsReal

\* Begin: whoever is let through because of the mode that is current clears it.
LEMMA BeginInv ==
  ASSUME ModeIInv, NEW c \in Callers, NEW m \in Modes, Begin(c, m)
  PROVE  ModeIInv'
<1> DEFINE begun == [mode |-> m, n |-> 1, base |-> finished]
<1> USE DEF ModeIInv
<1>1. /\ begun \in Calls /\ begun # NoCall /\ begun.mode = m /\ begun.n = 1 /\ begun.base = finished
      /\ finished \in Nat
  BY DEF CallsInv, Calls, NoCall
<1> HIDE DEF begun
<1>2. /\ call' = [call EXCEPT ![c] = begun] /\ current' = NoMode
      /\ ~ Running(c) /\ Depends[m] \in {NoMode, current}
      /\ overlapped' = (overlapped \/ \E d \in Callers : Running(d))
      /\ UNCHANGED <<actuator, finished, touched>>
  BY DEF Begin, begun
<1>3. /\ call' \in [Callers -> Calls] /\ call'[c] = begun
      /\ \A d \in Callers \ {c} : call'[d] = call[d]
  BY <1>1, <1>2 DEF CallsInv
<1>4. \A d \in Callers \ {c} : Running(d)' <=> Running(d)
  BY <1>3 DEF Running
<1>5. Len(Sequence[m]) \in Nat
  BY DeviceModeAssumption
<1>6. CallsInv'
  <2>1. ASSUME NEW d \in Callers, Running(d)'
        PROVE  /\ call'[d].mode \in Modes
               /\ call'[d].n \in 1 .. Len(Sequence[call'[d].mode]) + 1
               /\ call'[d].base <= finished
    <3>1. CASE d = c
      BY <1>1, <1>3, <1>5, <3>1
    <3>2. CASE d # c
      BY <1>3, <1>4, <2>1, <3>2 DEF CallsInv
    <3> QED
      BY <3>1, <3>2
  <2> QED
    BY <1>1, <1>2, <1>3, <2>1 DEF CallsInv
<1>7. OneClaimPerArrival'
  <2>1. ASSUME NEW d \in Callers \ {c}, Running(d)', Depends[m] # NoMode
        PROVE  call'[d].base < finished
    BY <1>2, <1>3, <1>4, <2>1, DeviceModeAssumption DEF CallsInv
  <2>2. ASSUME NEW d \in Callers, NEW e \in Callers, Running(d)', Running(e)', d # e,
               Depends[call'[d].mode] # NoMode, Depends[call'[e].mode] # NoMode
        PROVE  call'[d].base # call'[e].base
    <3>1. CASE d = c
      <4>1. call'[e].base < finished /\ call'[e].base \in Nat
        BY <1>1, <1>3, <2>1, <2>2, <3>1 DEF Calls
      <4> QED
        BY <1>1, <1>3, <3>1, <4>1
    <3>2. CASE e = c
      <4>1. call'[d].base < finished /\ call'[d].base \in Nat
        BY <1>1, <1>3, <2>1, <2>2, <3>2 DEF Calls
      <4> QED
        BY <1>1, <1>3, <3>2, <4>1
    <3>3. CASE d # c /\ e # c
      BY <1>3, <1>4, <2>2, <3>3 DEF OneClaimPerArrival
    <3> QED
      BY <3>1, <3>2, <3>3
  <2> QED
    BY <2>2 DEF OneClaimPerArrival
<1>8. SequenceInv'
  <2>1. actuator' = [a \in Actuators |-> actuator'[a]]
    BY <1>2 DEF SequenceInv
  <2>2. ASSUME ~ overlapped', NEW d \in Callers, Running(d)'
        PROVE  /\ d = c /\ \A e \in Callers : Running(e)' => e = d
               /\ \A a \in Actuators \ touched : HalfWay(call[d].mode, call[d].n, a)'
    <3>1. \A e \in Callers : ~ Running(e)
      BY <1>2, <2>2
    <3>2. d = c /\ \A e \in Callers : Running(e)' => e = d
      BY <1>4, <2>2, <3>1
    <3>3. ASSUME NEW a \in Actuators \ touched
          PROVE  HalfWay(m, 1, a)'
      <4>1. \A q \in StepsOn(m, a) : q >= 1
        BY <1>5 DEF StepsOn
      <4>2. CASE Depends[m] = NoMode
        BY <4>1, <4>2 DEF HalfWay
      <4>3. CASE Depends[m] # NoMode
        <5>1. current # NoMode /\ current = Depends[m] /\ ~ overlapped
          BY <1>2, <2>2, <4>3
        <5>2. Leaves[Depends[m]][a] \in {Unknown, actuator[a]}
          BY <5>1 DEF ModeIsReal, InState
        <5> QED
          BY <1>2, <4>1, <5>2 DEF HalfWay
      <4> QED
        BY <4>2, <4>3
    <3> QED
      BY <1>1, <1>3, <3>2, <3>3
  <2> QED
    BY <1>2, <2>1, <2>2 DEF SequenceInv
<1> QED
  BY <1>2, <1>6, <1>7, <1>8 DEF ModeIsReal

\* A call that ends leaves the others as they are: they are as they were, in the mode
\* that is current then, if any.
LEMMA EndOfCall ==
  ASSUME ModeIInv, NEW c \in Callers, Running(c),
         call' = [call EXCEPT ![c] = NoCall], overlapped' = overlapped,
         actuator' = [a \in Actuators |-> actuator'[a]],
         \/ current' = current /\ finished' = finished
         \/ current' \in Modes /\ finished' = finished + 1
  PROVE  /\ CallsInv' /\ OneClaimPerArrival' /\ SequenceInv'
         /\ ~ overlapped => \A d \in Callers : ~ Running(d)'
<1> USE DEF ModeIInv
<1>1. /\ call' \in [Callers -> Calls] /\ call'[c] = NoCall
      /\ \A d \in Callers \ {c} : call'[d] = call[d]
  BY DEF CallsInv, Calls, NoCall
<1>2. \A d \in Callers : Running(d)' => Running(d) /\ d # c /\ call'[d] = call[d]
  BY <1>1 DEF Running
<1>3. /\ current' \in Modes \cup {NoMode} /\ finished' \in Nat /\ finished \in Nat
      /\ \A d \in Callers : call[d].base \in Nat
  BY DEF CallsInv, Calls
<1>4. ASSUME NEW d \in Callers, Running(d)'
      PROVE  /\ call[d].mode \in Modes
             /\ call[d].n \in 1 .. Len(Sequence[call[d].mode]) + 1
             /\ call[d].base <= finished'
             /\ current' # NoMode => call[d].base < finished'
  <2>1. /\ call[d].mode \in Modes
        /\ call[d].n \in 1 .. Len(Sequence[call[d].mode]) + 1
        /\ call[d].base <= finished
        /\ current # NoMode => call[d].base < finished
    BY <1>2, <1>4 DEF CallsInv
  <2>2. CASE current' = current /\ finished' = finished
    BY <2>1, <2>2
  <2>3. CASE current' \in Modes /\ finished' = finished + 1
    BY <1>3, <2>1, <2>3
  <2> QED
    BY <2>1, <2>2, <2>3
<1>5. CallsInv'
  BY <1>1, <1>2, <1>3, <1>4 DEF CallsInv
<1>6. OneClaimPerArrival'
  BY <1>2 DEF OneClaimPerArrival
<1>7. ~ overlapped => \A d \in Callers : ~ Running(d)'
  BY <1>2 DEF SequenceInv
<1> QED
  BY <1>5, <1>6, <1>7 DEF SequenceInv

\* Step takes a call from one place in its sequence to the next.
LEMMA StepInv ==
  ASSUME ModeIInv, NEW c \in Callers, Step(c)
  PROVE  ModeIInv'
<1> USE DEF ModeIInv
<1> PICK m, n : m = call[c].mode /\ n = call[c].n
  OBVIOUS
<1>1. /\ m \in Modes /\ n \in Nat /\ n \in 1 .. Len(Sequence[m]) /\ Len(Sequence[m]) \in Nat
      /\ call[c] \in Calls
  BY DeviceModeAssumption DEF Step, InSequence, CallsInv, Calls
<1>2. /\ call' = [call EXCEPT ![c].n = @ + 1] /\ UNCHANGED <<current, finished, overlapped>>
      /\ actuator' = [actuator EXCEPT ![Sequence[m][n].actuator] = Sequence[m][n].value]
      /\ touched' = touched \ {Sequence[m][n].actuator}
      /\ Running(c)
  BY DEF Step, StepOf, InSequence
<1>3. /\ call' \in [Callers -> Calls] /\ call'[c].mode = m /\ call'[c].n = n + 1
      /\ call'[c].base = call[c].base
      /\ \A d \in Callers \ {c} : call'[d] = call[d]
  <2> DEFINE stepped == [call[c] EXCEPT !.n = @ + 1]
  <2>1. stepped \in Calls /\ stepped.mode = m /\ stepped.n = n + 1 /\ stepped.base = call[c].base
    BY <1>1 DEF Calls
  <2>2. call' = [call EXCEPT ![c] = stepped] /\ call \in [Callers -> Calls]
    BY <1>2 DEF CallsInv
  <2> HIDE DEF stepped
  <2>3. call' \in [Callers -> Calls] /\ call'[c] = stepped /\ \A d \in Callers \ {c} : call'[d] = call[d]
    BY <2>1, <2>2
  <2> QED
    BY <2>1, <2>3
<1>4. \A d \in Callers : Running(d)' => Running(d)
  BY <1>2, <1>3 DEF Running
<1>5. /\ \A d \in Callers : call'[d].mode = call[d].mode /\ call'[d].base = call[d].base
      /\ n + 1 \in 1 .. Len(Sequence[m]) + 1
  BY <1>1, <1>3
<1>6. CallsInv'
  BY <1>1, <1>2, <1>3, <1>4, <1>5 DEF CallsInv
<1>7. OneClaimPerArrival'
  BY <1>4, <1>5 DEF OneClaimPerArrival
<1>8. actuator' = [a \in Actuators |-> actuator'[a]]
  BY <1>2 DEF SequenceInv
<1>9. ASSUME ~ overlapped'
      PROVE  /\ current = NoMode /\ \A d \in Callers : Running(d)' => d = c
             /\ \A a \in Actuators \ touched' : HalfWay(m, n + 1, a)'
  <2>1. /\ current = NoMode /\ \A d \in Callers : Running(d) => d = c
        /\ \A a \in Actuators \ touched : HalfWay(m, n, a)
    BY <1>2, <1>9 DEF SequenceInv
  <2>2. ASSUME NEW a \in Actuators, a \notin touched' PROVE HalfWay(m, n + 1, a)'
    <3>1. actuator = [b \in Actuators |-> actuator[b]]
      BY DEF SequenceInv
    <3>2. Sequence[m][n].actuator = a \/ HalfWay(m, n, a)
      BY <1>2, <2>1, <2>2
    <3> QED
      BY <1>1, <1>2, <3>1, <3>2, OneStepOn
  <2> QED
    BY <1>4, <2>1, <2>2
<1>10. SequenceInv'
  <2>1. ASSUME ~ overlapped', NEW d \in Callers, Running(d)'
        PROVE  /\ \A e \in Callers : Running(e)' => e = d
               /\ current' = NoMode
               /\ \A a \in Actuators \ touched' : HalfWay(call[d].mode, call[d].n, a)'
    <3>1. d = c
      BY <1>9, <2>1
    <3>2. ASSUME NEW a \in Actuators, a \notin touched' PROVE HalfWay(call[c].mode, call[c].n, a)'
      <4>1. HalfWay(m, n + 1, a)'
        BY <1>9, <2>1, <3>2
      <4> QED
        BY <1>3, <4>1 DEF HalfWay
    <3> QED
      BY <1>2, <1>9, <2>1, <3>1, <3>2
  <2> QED
    BY <1>8, <2>1 DEF SequenceInv
<1>11. ModeIsReal'
  BY <1>2, <1>9 DEF ModeIsReal
<1> QED
  BY <1>6, <1>7, <1>10, <1>11

LEMMA AbandonInv ==
  ASSUME ModeIInv, NEW c \in Callers, Abandon(c)
  PROVE  ModeIInv'
<1>1. /\ Running(c) /\ call' = [call EXCEPT ![c] = NoCall]
      /\ UNCHANGED <<current, finished, overlapped>>
  BY DEF Abandon
<1>2. actuator' = [a \in Actuators |-> actuator'[a]]
  BY DEF Abandon, ModeIInv, SequenceInv
<1>3. /\ CallsInv' /\ OneClaimPerArrival' /\ SequenceInv'
  BY <1>1, <1>2, EndOfCall
<1>4. ModeIsReal'
  BY <1>1 DEF ModeIInv, SequenceInv, ModeIsReal
<1> QED
  BY <1>3, <1>4 DEF ModeIInv

\* Finish reports the mode whose sequence has been done to its end.
LEMMA FinishInv ==
  ASSUME ModeIInv, NEW c \in Callers, Finish(c)
  PROVE  ModeIInv'
<1> DEFINE m == call[c].mode
<1>1. /\ Running(c) /\ call' = [call EXCEPT ![c] = NoCall] /\ current' = m
      /\ finished' = finished + 1 /\ UNCHANGED <<actuator, overlapped, touched>>
      /\ ~ call[c].n <= Len(Sequence[m])
  BY DEF Finish, InSequence
<1>2. m \in Modes /\ call[c].n \in 1 .. Len(Sequence[m]) + 1 /\ Len(Sequence[m]) \in Nat
  BY <1>1, DeviceModeAssumption DEF ModeIInv, CallsInv
<1>3. call[c].n = Len(Sequence[m]) + 1
  BY <1>1, <1>2
<1>4. actuator' = [a \in Actuators |-> actuator'[a]]
  BY <1>1 DEF ModeIInv, SequenceInv
<1>5. /\ CallsInv' /\ OneClaimPerArrival' /\ SequenceInv'
  BY <1>1, <1>2, <1>4, EndOfCall
<1>6. ASSUME ~ overlapped', NEW a \in Actuators \ touched
      PROVE  Leaves[m][a] = Unknown \/ actuator[a] = Leaves[m][a]
  <2>1. HalfWay(m, Len(Sequence[m]) + 1, a)
    BY <1>1, <1>3, <1>6 DEF ModeIInv, SequenceInv
  <2> QED
    BY <1>2, <2>1, EndOfSequence
<1>7. ModeIsReal'
  BY <1>1, <1>6 DEF ModeIsReal, InState
<1> QED
  BY <1>5, <1>7 DEF ModeIInv

\* What is asked of an actuator past the modes takes it out of what is promised.
LEMMA StrayActsInv ==
  ASSUME ModeIInv, NEW request, StrayActs(request)
  PROVE  ModeIInv'
<1> USE DEF ModeIInv
<1>1. /\ UNCHANGED <<current, call, finished, overlapped>>
      /\ actuator' = [actuator EXCEPT ![request.actuator] = request.value]
      /\ touched' = touched \cup {request.actuator}
  BY DEF StrayActs
<1>2. \A a \in Actuators \ touched' : a \notin touched /\ actuator'[a] = actuator[a]
  BY <1>1 DEF SequenceInv
<1>3. CallsInv' /\ OneClaimPerArrival'
  BY <1>1 DEF CallsInv, Running, OneClaimPerArrival
<1>4. ASSUME NEW a \in Actuators, a \notin touched', NEW m, NEW n, HalfWay(m, n, a)
      PROVE  HalfWay(m, n, a)'
  <2>1. actuator'[a] = actuator[a]
    BY <1>2, <1>4
  <2> QED
    BY <1>4, <2>1 DEF HalfWay
<1>5. SequenceInv'
  <2>1. actuator' = [a \in Actuators |-> actuator'[a]]
    BY <1>1 DEF SequenceInv
  <2>2. ASSUME ~ overlapped', NEW c \in Callers, Running(c)'
        PROVE  /\ \A d \in Callers : Running(d)' => d = c
               /\ current' = NoMode
               /\ \A a \in Actuators \ touched' : HalfWay(call[c].mode, call[c].n, a)'
    <3>1. /\ \A d \in Callers : Running(d) => d = c
          /\ current = NoMode
          /\ \A a \in Actuators \ touched : HalfWay(call[c].mode, call[c].n, a)
      BY <1>1, <2>2 DEF SequenceInv, Running
    <3>2. ASSUME NEW a \in Actuators, a \notin touched'
          PROVE  HalfWay(call[c].mode, call[c].n, a)'
      <4> PICK m, n : m = call[c].mode /\ n = call[c].n
        OBVIOUS
      <4>1. HalfWay(m, n, a)
        BY <1>2, <3>1, <3>2 DEF HalfWay
      <4>2. HalfWay(m, n, a)'
        BY <1>4, <3>2, <4>1
      <4> QED
        BY <1>1, <4>2 DEF HalfWay
    <3> QED
      BY <1>1, <3>1, <3>2 DEF Running
  <2> QED
    BY <2>1, <2>2 DEF SequenceInv
<1>6. ModeIsReal'
  BY <1>1, <1>2 DEF ModeIsReal, InState
<1> QED
  BY <1>3, <1>5, <1>6

LEMMA ModeStepInv ==
  ASSUME ModeIInv, ModeNext \/ UNCHANGED <<current, call, actuator, finished, overlapped, touched>>
  PROVE  ModeIInv'
<1>1. CASE UNCHANGED <<current, call, actuator, finished, overlapped, touched>>
  BY <1>1 DEF ModeIInv, CallsInv, Running, OneClaimPerArrival, SequenceInv, HalfWay, ModeIsReal, InState
<1>2. CASE Notify \/ \E request \in Requests : ActuatorChangeMode(request)
  BY <1>1, <1>2 DEF Notify, ActuatorChangeMode
<1> QED
  BY <1>1, <1>2, BeginInv, StepInv, AbandonInv, FinishInv, StrayActsInv DEF ModeNext

\* The mode that is reported is the one the board is in unless calls overlapped, but for
\* actuators that something else has set since, and no two callers are let through by the same arrival in a mode (set_mode of
\* config_device.rs), for any modes, sequences, actuators and callers.
THEOREM ModeSafe == ModeSpec => []ModeInv
<1>1. ModeIInv /\ [ModeNext]_modeVars => ModeIInv'
  BY ModeStepInv DEF modeVars
<1>2. ModeIInv => ModeInv
  BY DEF ModeIInv, ModeInv
<1> QED
  BY <1>1, <1>2, ModeInitInv, PTL DEF ModeSpec

-----------------------------------------------------------------------------
(* What the clients of DeviceInfo know. *)

NothingPending(w) == owed = 0 /\ seen[w] = notified

\* A stream that has consumed every notification has read what they were about: what
\* it has read of the links is right as long as no notification is owed or on its
\* way, and so is its client's copy after the first update.
CopyFollows(w) ==
  /\ at[w] \in {"idle", "calling", "unsubscribed"} => ~ fresh[w]
  /\ NothingPending(w) /\ at[w] = "reading" => half[w] = volume
  /\ NothingPending(w) /\ fresh[w] /\ at[w] \in {"stored", "waiting"} =>
       told[w].volume = volume /\ current \in {told[w].mode, NoMode}

\* A task that waits has seen no update that was not sent, and there is none before
\* the first message.
WaiterFollows(w) ==
  /\ at[w] \in {"idle", "calling"} => waiter[w] = "none"
  /\ checked[w] <= updates[w]

FollowsInv == \A w \in Watchers : CopyFollows(w) /\ WaiterFollows(w)

InfoIInv == ModeIInv /\ InfoTypeOK /\ FollowsInv /\ NoLostWakeup

LEMMA InfoInitInv == InfoInit => InfoIInv
<1> SUFFICES ASSUME InfoInit PROVE InfoIInv
  OBVIOUS
<1> USE DEF InfoInit
<1>1. ModeIInv
  BY ModeInitInv
<1>2. ModeTypeOK
  <2>1. \A c \in Callers : ~ Running(c)
    BY DEF ModeInit, Running
  <2>2. DOMAIN call = Callers /\ DOMAIN actuator = Actuators
    BY DEF ModeInit
  <2>3. 0 \in 0 .. MaxCalls
    BY DeviceModeAssumption
  <2> QED
    BY <2>1, <2>2, <2>3 DEF ModeInit, ModeTypeOK
<1>3. InfoTypeOK
  <2>1. notified = 0 /\ 0 \in 0 .. 0 /\ 0 \in 0 .. MaxLinks
    BY DeviceInfoAssumption DEF ModeInit
  <2>2. NoInfo \in Info
    BY DEF Info, NoInfo
  <2>3. seen \in [Watchers -> 0 .. notified]
    BY <2>1
  <2> QED
    BY <1>2, <2>1, <2>2, <2>3 DEF InfoTypeOK
<1>4. FollowsInv
  BY DEF FollowsInv, CopyFollows, WaiterFollows
<1> QED
  BY <1>1, <1>3, <1>4 DEF InfoIInv, NoLostWakeup

\* What the device does keeps the types of its variables...
LEMMA ModeStepType ==
  ASSUME ModeIInv, ModeTypeOK, ModeNext
  PROVE  ModeTypeOK' /\ notified' >= notified
<1>1. CallsInv' /\ SequenceInv'
  BY ModeStepInv DEF ModeIInv
<1>2. /\ current' \in Modes \cup {NoMode} /\ DOMAIN call' = Callers /\ finished' \in Nat
      /\ \A c \in Callers : Running(c)' =>
           /\ call'[c].mode \in Modes
           /\ call'[c].n \in 1 .. Len(Sequence[call'[c].mode]) + 1
           /\ call'[c].base \in 0 .. finished'
  BY <1>1 DEF CallsInv, Calls
<1>3. DOMAIN actuator' = Actuators
  BY <1>1 DEF SequenceInv
<1>4. calls \in Nat /\ owed \in Nat /\ notified \in Nat /\ MaxCalls \in Nat
  BY DeviceModeAssumption DEF ModeTypeOK
<1>7. stray' \subseteq Requests /\ touched' \subseteq Actuators
  <2>1. stray \subseteq Requests /\ touched \subseteq Actuators
    BY DEF ModeTypeOK
  <2>2. ASSUME NEW c \in Callers, InSequence(c) PROVE StepOf(c) \in Requests
    <3>1. /\ call[c].mode \in Modes
          /\ call[c].n \in 1 .. Len(Sequence[call[c].mode])
          /\ Sequence[call[c].mode] \in Seq(Requests)
      BY <2>2, DeviceModeAssumption DEF InSequence, ModeTypeOK
    <3> QED
      BY <3>1 DEF StepOf
  <2>3. ASSUME NEW c \in Callers, (\E m \in Modes : Begin(c, m)) \/ Step(c) \/ Abandon(c) \/ Finish(c)
        PROVE  stray' \subseteq Requests /\ touched' \subseteq Actuators
    BY <2>1, <2>2, <2>3 DEF Begin, Step, Abandon, Finish
  <2>4. ASSUME NEW request \in Requests, ActuatorChangeMode(request)
        PROVE  stray' \subseteq Requests /\ touched' \subseteq Actuators
    BY <2>1, <2>4 DEF ActuatorChangeMode
  <2>5. ASSUME NEW request \in stray, StrayActs(request)
        PROVE  stray' \subseteq Requests /\ touched' \subseteq Actuators
    BY <2>1, <2>5, DeviceModeAssumption DEF StrayActs
  <2> QED
    BY <2>1, <2>3, <2>4, <2>5 DEF ModeNext, Notify
<1>5. CASE Notify
  <2>1. calls' \in 0 .. MaxCalls /\ overlapped' \in BOOLEAN
    BY <1>5 DEF Notify, ModeTypeOK
  <2>2. owed' \in Nat /\ notified' \in Nat /\ notified' >= notified
    BY <1>4, <1>5 DEF Notify
  <2> QED
    BY <1>2, <1>3, <1>7, <2>1, <2>2 DEF ModeTypeOK
<1>6. ASSUME NEW c \in Callers, (\E m \in Modes : Begin(c, m)) \/ Step(c) \/ Abandon(c) \/ Finish(c)
      PROVE  ModeTypeOK' /\ notified' >= notified
  <2>1. calls' \in 0 .. MaxCalls
    BY <1>4, <1>6 DEF Begin, Step, Abandon, Finish, ModeTypeOK
  <2>2. owed' \in Nat
    BY <1>4, <1>6 DEF Begin, Step, Abandon, Finish
  <2>3. notified' = notified
    BY <1>6 DEF Begin, Step, Abandon, Finish
  <2>4. overlapped' \in BOOLEAN
    BY <1>6 DEF Begin, Step, Abandon, Finish, ModeTypeOK
  <2>5. notified' \in Nat /\ notified' >= notified
    BY <1>4, <2>3
  <2> QED
    BY <1>2, <1>3, <1>7, <2>1, <2>2, <2>4, <2>5 DEF ModeTypeOK
<1>8. ASSUME \/ \E request \in Requests : ActuatorChangeMode(request)
             \/ \E request \in stray : StrayActs(request)
      PROVE  ModeTypeOK' /\ notified' >= notified
  <2>1. calls' \in 0 .. MaxCalls
    BY <1>4, <1>8 DEF ActuatorChangeMode, StrayActs, ModeTypeOK
  <2>2. UNCHANGED <<owed, notified, overlapped>>
    BY <1>8 DEF ActuatorChangeMode, StrayActs
  <2>3. owed' \in Nat /\ notified' \in Nat /\ notified' >= notified /\ overlapped' \in BOOLEAN
    BY <1>4, <2>2 DEF ModeTypeOK
  <2> QED
    BY <1>2, <1>3, <1>7, <2>1, <2>3 DEF ModeTypeOK
<1> QED
  BY <1>5, <1>6, <1>8 DEF ModeNext

\* ... and no change of the mode goes without a notification to come, but for the
\* clearing of it.
LEMMA ModeStepPending ==
  ASSUME ModeTypeOK, ModeNext, NEW w \in Watchers, seen[w] \in 0 .. notified,
         owed' = 0 /\ seen[w] = notified'
  PROVE  owed = 0 /\ seen[w] = notified /\ current' \in {current, NoMode}
<1>1. owed \in Nat /\ notified \in Nat
  BY DEF ModeTypeOK
<1>2. ~ Notify
  BY <1>1 DEF Notify
<1>3. ASSUME NEW c \in Callers PROVE ~ Finish(c)
  BY <1>1 DEF Finish
<1> QED
  BY <1>2, <1>3 DEF ModeNext, Begin, Step, Abandon, ActuatorChangeMode, StrayActs

LEMMA DeviceStepFollows ==
  ASSUME InfoIInv, DeviceStep \/ ChangeLink
  PROVE  InfoIInv'
<1> USE DEF InfoIInv
<1>1. UNCHANGED watchVars
  BY DEF DeviceStep, ChangeLink
<1>2. NoLostWakeup'
  BY <1>1 DEF NoLostWakeup, watchVars
<1>3. \A w \in Watchers : WaiterFollows(w)'
  BY <1>1 DEF FollowsInv, WaiterFollows, watchVars
<1>4. ModeIInv'
  BY ModeStepInv DEF DeviceStep, ChangeLink
<1>5. CASE DeviceStep
  <2>1. ModeTypeOK' /\ notified' >= notified /\ notified \in Nat /\ notified' \in Nat
    BY <1>5, ModeStepType DEF DeviceStep, InfoTypeOK, ModeTypeOK
  <2>2. seen' \in [Watchers -> 0 .. notified']
    BY <1>1, <2>1 DEF InfoTypeOK, watchVars
  <2>3. InfoTypeOK'
    BY <1>1, <1>5, <2>1, <2>2 DEF InfoTypeOK, DeviceStep, watchVars, linkVars
  <2>4. ASSUME NEW w \in Watchers PROVE CopyFollows(w)'
    <3>1. CopyFollows(w) /\ seen[w] \in 0 .. notified
      BY DEF FollowsInv, InfoTypeOK
    <3>2. NothingPending(w)' => NothingPending(w) /\ current' \in {current, NoMode}
      BY <1>1, <1>5, <3>1, ModeStepPending DEF NothingPending, watchVars, DeviceStep, InfoTypeOK
    <3> QED
      BY <1>1, <1>5, <3>1, <3>2 DEF CopyFollows, watchVars, DeviceStep, linkVars
  <2> QED
    BY <1>2, <1>3, <1>4, <2>3, <2>4 DEF FollowsInv
<1>6. CASE ChangeLink
  <2>1. owed \in Nat /\ owed' = owed + 1
    BY <1>6 DEF ChangeLink, InfoTypeOK, ModeTypeOK
  <2>2. ModeTypeOK'
    BY <1>6, <2>1 DEF ChangeLink, InfoTypeOK, ModeTypeOK, Running
  <2>3. InfoTypeOK'
    BY <1>1, <1>6, <2>2, DeviceInfoAssumption DEF ChangeLink, InfoTypeOK, watchVars
  <2>4. ASSUME NEW w \in Watchers PROVE CopyFollows(w)'
    <3>1. CopyFollows(w) /\ ~ NothingPending(w)'
      BY <2>1 DEF FollowsInv, NothingPending
    <3> QED
      BY <1>1, <3>1 DEF CopyFollows, watchVars
  <2> QED
    BY <1>2, <1>3, <1>4, <2>3, <2>4 DEF FollowsInv
<1> QED
  BY <1>5, <1>6

\* A step of one client concerns that client only.
LEMMA WatcherStepFollows ==
  ASSUME InfoIInv, NEW w \in Watchers, WatcherStep(w)
  PROVE  InfoIInv'
<1> USE DEF InfoIInv
<1>1. UNCHANGED modeVars /\ UNCHANGED linkVars
  BY DEF WatcherStep, Call, ReadLinks, FirstInfo, Subscribe, Wake, Reread, Store, Send, StreamEnds,
         Watch, Check, Changed
<1>2. ModeIInv' /\ ModeTypeOK'
  <2>1. ModeIInv'
    BY <1>1, ModeStepInv DEF modeVars
  <2> QED
    BY <1>1, <2>1 DEF modeVars, InfoTypeOK, ModeTypeOK, Running
<1>3. /\ current \in Modes \cup {NoMode} /\ notified \in Nat /\ volume \in BOOLEAN
      /\ half[w] \in BOOLEAN /\ updates[w] \in Nat /\ checked[w] \in Nat /\ seen[w] \in 0 .. notified
      /\ CopyFollows(w) /\ WaiterFollows(w)
  BY DEF InfoTypeOK, ModeTypeOK, FollowsInv
<1>4. InfoTypeOK'
  <2>1. Call(w) \/ Reread(w) => InfoTypeOK'
    BY <1>1, <1>2 DEF Call, Reread, ReadLinks, InfoTypeOK, modeVars, linkVars
  <2>2. FirstInfo(w) \/ Store(w) => InfoTypeOK'
    <3>1. [volume |-> half[w], mode |-> current] \in Info
      BY <1>3 DEF Info
    <3>2. FirstInfo(w) => InfoTypeOK'
      BY <1>1, <1>2, <3>1 DEF FirstInfo, InfoTypeOK, modeVars, linkVars
    <3>3. Store(w) => InfoTypeOK'
      BY <1>1, <1>2, <3>1 DEF Store, InfoTypeOK, modeVars, linkVars
    <3> QED
      BY <3>2, <3>3
  <2>3. Subscribe(w) \/ Wake(w) => InfoTypeOK'
    BY <1>1, <1>2, <1>3 DEF Subscribe, Wake, InfoTypeOK, modeVars, linkVars
  <2>4. Send(w) \/ StreamEnds(w) => InfoTypeOK'
    BY <1>1, <1>2, <1>3 DEF Send, StreamEnds, InfoTypeOK, modeVars, linkVars
  <2>5. (\E wanted \in BOOLEAN : Watch(w, wanted)) \/ Check(w) \/ Changed(w) => InfoTypeOK'
    BY <1>1, <1>2, <1>3 DEF Watch, Check, Changed, InfoTypeOK, modeVars, linkVars
  <2> QED
    BY <2>1, <2>2, <2>3, <2>4, <2>5 DEF WatcherStep
<1>5. \A v \in Watchers \ {w} :
        /\ at'[v] = at[v] /\ half'[v] = half[v] /\ seen'[v] = seen[v] /\ told'[v] = told[v]
        /\ fresh'[v] = fresh[v] /\ updates'[v] = updates[v] /\ waiter'[v] = waiter[v]
        /\ wants'[v] = wants[v] /\ checked'[v] = checked[v]
  BY DEF WatcherStep, Call, ReadLinks, FirstInfo, Subscribe, Wake, Reread, Store, Send, StreamEnds,
         Watch, Check, Changed, InfoTypeOK
<1>6. \A v \in Watchers \ {w} : CopyFollows(v)' /\ WaiterFollows(v)'
  BY <1>1, <1>5 DEF FollowsInv, CopyFollows, WaiterFollows, NothingPending, modeVars, linkVars
<1>7. CopyFollows(w)'
  <2>1. CASE Call(w) \/ Reread(w) \/ FirstInfo(w) \/ Subscribe(w) \/ Wake(w)
    BY <1>1, <1>3, <2>1 DEF Call, Reread, ReadLinks, FirstInfo, Subscribe, Wake, CopyFollows,
                            NothingPending, InfoTypeOK, modeVars, linkVars
  <2>2. CASE Store(w)
    BY <1>1, <1>3, <2>2 DEF Store, CopyFollows, NothingPending, InfoTypeOK, modeVars, linkVars
  <2>3. CASE Send(w) \/ StreamEnds(w)
    BY <1>1, <1>3, <2>3 DEF Send, StreamEnds, CopyFollows, NothingPending, InfoTypeOK, modeVars, linkVars
  <2>4. CASE (\E wanted \in BOOLEAN : Watch(w, wanted)) \/ Check(w) \/ Changed(w)
    BY <1>1, <1>3, <2>4 DEF Watch, Check, Changed, CopyFollows, NothingPending, InfoTypeOK,
                            modeVars, linkVars
  <2> QED
    BY <2>1, <2>2, <2>3, <2>4 DEF WatcherStep
<1>8. WaiterFollows(w)'
  <2>1. CASE Call(w) \/ Reread(w) \/ FirstInfo(w) \/ Subscribe(w) \/ Wake(w) \/ Store(w) \/ StreamEnds(w)
    BY <1>3, <2>1 DEF Call, Reread, ReadLinks, FirstInfo, Subscribe, Wake, Store, StreamEnds,
                      WaiterFollows, InfoTypeOK
  <2>2. CASE Send(w)
    BY <1>3, <2>2 DEF Send, WaiterFollows, InfoTypeOK
  <2>3. CASE (\E wanted \in BOOLEAN : Watch(w, wanted)) \/ Check(w) \/ Changed(w)
    BY <1>3, <2>3 DEF Watch, Check, Changed, WaiterFollows, InfoTypeOK
  <2> QED
    BY <2>1, <2>2, <2>3 DEF WatcherStep
<1>9. NoLostWakeup'
  <2>1. ASSUME NEW v \in Watchers \ {w}, waiter'[v] = "blocked", checked'[v] = updates'[v],
               told'[v].volume = wants'[v]
        PROVE  at'[v] = "stored"
    BY <1>5, <2>1 DEF NoLostWakeup
  <2>2. ASSUME waiter'[w] = "blocked", checked'[w] = updates'[w], told'[w].volume = wants'[w]
        PROVE  at'[w] = "stored"
    <3>1. CASE Call(w) \/ Reread(w) \/ FirstInfo(w) \/ Subscribe(w) \/ Wake(w) \/ StreamEnds(w)
      BY <1>3, <2>2, <3>1 DEF Call, Reread, ReadLinks, FirstInfo, Subscribe, Wake, StreamEnds,
                              NoLostWakeup, WaiterFollows, InfoTypeOK
    <3>2. CASE Store(w)
      BY <3>2 DEF Store, InfoTypeOK
    <3>3. CASE Send(w)
      BY <1>3, <2>2, <3>3 DEF Send, WaiterFollows, InfoTypeOK
    <3>4. CASE (\E wanted \in BOOLEAN : Watch(w, wanted)) \/ Check(w) \/ Changed(w)
      BY <2>2, <3>4 DEF Watch, Check, Changed, InfoTypeOK
    <3> QED
      BY <3>1, <3>2, <3>3, <3>4 DEF WatcherStep
  <2> QED
    BY <2>1, <2>2 DEF NoLostWakeup
<1> QED
  BY <1>2, <1>4, <1>6, <1>7, <1>8, <1>9 DEF FollowsInv

\* A client of device_info that has received an update is right about the device when
\* nothing is pending, whatever the moments at which it was read, and no task that
\* waits for a volume sleeps through the update it waits for (device_info in main.rs,
\* Device and DeviceVolume in the client crate's device.rs); the modes are as ModeSafe
\* says, while clients watch and links change.
THEOREM InfoSafe == InfoSpec => [](InfoInv /\ ModeInv)
<1>1. InfoIInv /\ [InfoNext]_infoVars => InfoIInv'
  <2> SUFFICES ASSUME InfoIInv, [InfoNext]_infoVars PROVE InfoIInv'
    OBVIOUS
  <2>1. CASE UNCHANGED infoVars
    <3>1. ModeIInv'
      BY <2>1, ModeStepInv DEF infoVars, InfoIInv
    <3> QED
      BY <2>1, <3>1 DEF infoVars, InfoIInv, InfoTypeOK, ModeTypeOK, Running, FollowsInv, CopyFollows,
                        WaiterFollows, NothingPending, NoLostWakeup
  <2> QED
    BY <2>1, DeviceStepFollows, WatcherStepFollows DEF InfoNext
<1>2. InfoIInv => InfoInv /\ ModeInv
  BY DEF InfoIInv, InfoInv, ModeIInv, ModeInv, FollowsInv, CopyFollows, InfoCurrentAfterNotice,
         Quiet, NothingPending
<1> QED
  BY <1>1, <1>2, InfoInitInv, PTL DEF InfoSpec
-----------------------------------------------------------------------------
(* The links of a configured device. *)

AddedMatch(s, m) ==
  LET k == SlotKind[s]
  IN  m \in 1 .. Len(log[k]) /\ log[k][m].op = "added" /\ log[k][m].item \in Matching[s]

\* A link is to an item that matches, and that is present, or whose removal the task
\* has yet to receive, or will never receive.
LinkIsJustified(s) ==
  LET k == SlotKind[s]
  IN  linked[s] # NoId =>
        /\ \E m \in 1 .. Len(log[k]) : AddedMatch(s, m) /\ log[k][m].id = linked[s]
        /\ \/ linked[s] \in DOMAIN contents[k]
           \/ linked[s] \in missed[k]
           \/ \E n \in Unseen(k, pos[k]) : log[k][n] = Removed(linked[s])

\* A scan of registry k is still to come.
ToScan(k) ==
  pc = "subscribe" \/ (pc = "scan" /\ \E n \in step .. Len(Order) : Order[n] = k)

\* A present item that matches is linked, unless the task is yet to hear of it or to
\* come across it.
MatchIsFound(s) ==
  LET k == SlotKind[s]
  IN  OneMatchAtATime(s) =>
        \A m \in 1 .. Len(log[k]) :
          AddedMatch(s, m) /\ log[k][m].id \in DOMAIN contents[k] =>
            linked[s] = log[k][m].id \/ m > pos[k] \/ ToScan(k)

PositionsExist == \A k \in Kinds : pos[k] <= Len(log[k])

LinksIInv ==
  /\ RegistryInv /\ TypeOK /\ PositionsExist
  /\ \A s \in Slots : LinkIsJustified(s) /\ MatchIsFound(s)

\* The largest of some ids that were given out is one of them.
LEMMA MaxIsMember ==
  ASSUME NEW n \in Nat, NEW T \in SUBSET (0 .. n), T # {}
  PROVE  Max(T) \in T
<1> DEFINE G == {n - i : i \in T}
           R == OpToRel(<, Nat)
<1>1. G \subseteq Nat /\ G # {}
  <2>1. \A i \in T : n - i \in Nat
    OBVIOUS
  <2> QED
    BY <2>1
<1>2. \E x \in G : \A y \in G : ~ (<<y, x>> \in R)
  <2> HIDE DEF G, R
  <2>1. IsWellFoundedOn(R, Nat)
    BY NatLessThanWellFounded DEF R
  <2> QED
    BY <1>1, <2>1, WFMin
<1>3. PICK x \in G : \A y \in G : ~ (<<y, x>> \in R)
  BY <1>2
<1>4. \A y \in G : ~ (y < x)
  BY <1>1, <1>3 DEF OpToRel
<1>5. PICK m \in T : x = n - m
  BY <1>3
<1>6. ASSUME NEW j \in T PROVE m >= j
  <2>1. ~ (n - j < n - m)
    BY <1>4, <1>5
  <2> QED
    BY <2>1
<1> QED
  BY <1>6 DEF Max

\* An id that was given out to a match and is present is that match.
LEMMA PresentMatch ==
  ASSUME RegistryInv, DeviceLinksAssumption, NEW s \in Slots
  PROVE  /\ \A i \in Candidates(s) :
              \E m \in 1 .. Len(log[SlotKind[s]]) : AddedMatch(s, m) /\ log[SlotKind[s]][m].id = i
         /\ \A m \in 1 .. Len(log[SlotKind[s]]) :
              AddedMatch(s, m) /\ log[SlotKind[s]][m].id \in DOMAIN contents[SlotKind[s]] =>
                log[SlotKind[s]][m].id \in Candidates(s)
<1> DEFINE k == SlotKind[s]
<1>0. k \in Kinds
  BY DEF DeviceLinksAssumption
<1> HIDE DEF k
<1>1. PresentWasAdded(k)
  BY <1>0 DEF RegistryInv, ContentsMatchLog
<1>2. ASSUME NEW i \in DOMAIN contents[k], contents[k][i] \in Matching[s]
      PROVE  \E m \in 1 .. Len(log[k]) :
               log[k][m].op = "added" /\ log[k][m].item \in Matching[s] /\ log[k][m].id = i
  <2>1. PICK m \in 1 .. Len(log[k]) : log[k][m] = Added(i, contents[k][i])
    BY <1>1 DEF PresentWasAdded
  <2>2. log[k][m].op = "added" /\ log[k][m].item = contents[k][i] /\ log[k][m].id = i
    BY <2>1 DEF Added
  <2> QED
    BY <1>2, <2>2
<1>3. ASSUME NEW m \in 1 .. Len(log[k]), log[k][m].op = "added", log[k][m].item \in Matching[s],
             log[k][m].id \in DOMAIN contents[k]
      PROVE  contents[k][log[k][m].id] \in Matching[s]
  <2>1. PICK n \in 1 .. Len(log[k]) : log[k][n] = Added(log[k][m].id, contents[k][log[k][m].id])
    BY <1>1, <1>3 DEF PresentWasAdded
  <2>2. n = m
    <3>1. log[k][n].op = "added" /\ log[k][n].id = log[k][m].id
      BY <2>1 DEF Added
    <3>2. ~ (n < m) /\ ~ (m < n)
      BY <3>1, <1>0, <1>3 DEF RegistryInv, IdsNeverReused
    <3>3. Len(log[k]) \in Nat
      BY <1>0, HistoryTypes
    <3> QED
      BY <3>2, <3>3, SamePlace
  <2>3. log[k][n].item = contents[k][log[k][m].id]
    BY <2>1 DEF Added
  <2> QED
    BY <1>3, <2>2, <2>3
<1> QED
  BY <1>2, <1>3 DEF Candidates, AddedMatch, k

\* When matches never overlapped, what is present is the last of them.
LEMMA LastMatch ==
  ASSUME RegistryInv, DeviceLinksAssumption, NEW s \in Slots, OneMatchAtATime(s),
         NEW m \in 1 .. Len(log[SlotKind[s]]), AddedMatch(s, m),
         log[SlotKind[s]][m].id \in DOMAIN contents[SlotKind[s]],
         NEW n \in 1 .. Len(log[SlotKind[s]]), AddedMatch(s, n)
  PROVE  ~ (m < n)
<1> DEFINE k == SlotKind[s]
<1>0. k \in Kinds
  BY DEF DeviceLinksAssumption
<1> HIDE DEF k
<1>1. ASSUME m < n PROVE FALSE
  <2>1. \E r \in m .. n : log[k][r] = Removed(log[k][m].id)
    BY <1>1 DEF OneMatchAtATime, AddedMatch, k
  <2>2. PICK r \in m .. n : log[k][r] = Removed(log[k][m].id)
    BY <2>1
  <2>3. r \in 1 .. Len(log[k])
    BY <1>0, HistoryTypes DEF k
  <2>4. log[k][r].op = "removed" /\ log[k][r].id = log[k][m].id
    BY <2>2 DEF Removed
  <2>5. log[k][r].id \notin DOMAIN contents[k]
    BY <2>3, <2>4, <1>0 DEF RegistryInv, ContentsMatchLog, RemovedIsAbsent
  <2> QED
    BY <2>4, <2>5 DEF k
<1> QED
  BY <1>1

LEMMA OnlyMatch ==
  ASSUME RegistryInv, DeviceLinksAssumption, NEW s \in Slots, OneMatchAtATime(s),
         NEW m \in 1 .. Len(log[SlotKind[s]]), AddedMatch(s, m),
         log[SlotKind[s]][m].id \in DOMAIN contents[SlotKind[s]]
  PROVE  Candidates(s) = {log[SlotKind[s]][m].id}
<1> DEFINE k == SlotKind[s]
<1>0. k \in Kinds
  BY DEF DeviceLinksAssumption
<1>1. log[k][m].id \in Candidates(s)
  BY PresentMatch
<1>2. ASSUME NEW i \in Candidates(s) PROVE i = log[k][m].id
  <2>1. PICK n \in 1 .. Len(log[k]) : AddedMatch(s, n) /\ log[k][n].id = i
    BY PresentMatch
  <2>2. i \in DOMAIN contents[k]
    BY DEF Candidates
  <2>3. ~ (m < n) /\ ~ (n < m)
    BY <2>1, <2>2, LastMatch
  <2>4. Len(log[k]) \in Nat
    BY <1>0, HistoryTypes
  <2>5. m = n
    BY <2>3, <2>4, SamePlace
  <2> QED
    BY <2>1, <2>5
<1> QED
  BY <1>1, <1>2

LEMMA MaxCandidate ==
  ASSUME RegistryInv, DeviceLinksAssumption, NEW s \in Slots, Candidates(s) # {}
  PROVE  Max(Candidates(s)) \in Candidates(s)
<1> DEFINE k == SlotKind[s]
<1>0. k \in Kinds
  BY DEF DeviceLinksAssumption
<1>2. next[k] \in Nat
  BY <1>0, HistoryTypes
<1>1. Candidates(s) \subseteq 0 .. next[k]
  <2> SUFFICES ASSUME NEW i \in Candidates(s) PROVE i \in 0 .. next[k]
    OBVIOUS
  <2>1. PICK n \in 1 .. Len(log[k]) : log[k][n].id = i
    BY PresentMatch
  <2>2. i \in Nat /\ i < next[k]
    BY <1>0, <2>1, HistoryTypes
  <2>3. PICK l \in Nat : l = next[k]
    BY <1>2
  <2>4. i \in 0 .. l
    BY <2>2, <2>3
  <2> QED
    BY <2>3, <2>4
<1> QED
  BY <1>1, <1>2, MaxIsMember

\* register_* and unregister_*: the task has not heard of the change yet.
LEMMA LinksRegistryStep ==
  ASSUME LinksIInv, DeviceLinksAssumption, RegistryStep
  PROVE  LinksIInv'
<1>1. /\ RegistryNext /\ RegistryInv
      /\ pc' = pc /\ step' = step /\ pos' = pos /\ linked' = linked /\ missed' = missed
      /\ UNCHANGED taskVars
  BY DEF RegistryStep, taskVars, LinksIInv
<1>2. RegistryInv'
  BY <1>1, RegistryStepInv
<1>3. TypeOK'
  BY <1>1, <1>2 DEF LinksIInv, TypeOK, taskVars, RegistryInv
<1>4. \A k \in Kinds : pos[k] \in Nat
  BY DEF LinksIInv, TypeOK
<1>5. PositionsExist'
  <2> SUFFICES ASSUME NEW k \in Kinds PROVE pos[k] <= Len(log'[k])
    BY <1>1 DEF PositionsExist
  <2>1. pos[k] <= Len(log[k])
    BY DEF PositionsExist, LinksIInv
  <2> QED
    BY <1>1, <1>4, <2>1, HistoryGrows, OneMoreAtMost
<1>6. ASSUME NEW s \in Slots PROVE LinkIsJustified(s)' /\ MatchIsFound(s)'
  <2> DEFINE k == SlotKind[s]
  <2>0. k \in Kinds
    BY DEF DeviceLinksAssumption
  <2> HIDE DEF k
  <2>1. /\ Len(log[k]) \in Nat /\ Len(log'[k]) \in Nat
        /\ Len(log'[k]) = Len(log[k]) \/ Len(log'[k]) = Len(log[k]) + 1
        /\ \A m \in 1 .. Len(log[k]) : log'[k][m] = log[k][m]
        /\ \A i \in DOMAIN contents[k] :
             \/ i \in DOMAIN contents'[k]
             \/ Len(log'[k]) = Len(log[k]) + 1 /\ log'[k][Len(log'[k])] = Removed(i)
        /\ \A m \in 1 .. Len(log[k]) :
             log[k][m].id \in DOMAIN contents'[k] => log[k][m].id \in DOMAIN contents[k]
    BY <1>1, <2>0, HistoryGrows
  <2>3. pos[k] \in Nat /\ pos[k] <= Len(log[k])
    BY <1>4, <2>0 DEF LinksIInv, PositionsExist
  <2>9. /\ 1 .. Len(log[k]) \subseteq 1 .. Len(log'[k])
        /\ (pos[k] + 1) .. Len(log[k]) \subseteq 1 .. Len(log[k])
        /\ (pos[k] + 1) .. Len(log[k]) \subseteq (pos[k] + 1) .. Len(log'[k])
        /\ Len(log'[k]) = Len(log[k]) + 1 => Len(log'[k]) \in (pos[k] + 1) .. Len(log'[k])
    <3>1. /\ Len(log[k]) \in Nat /\ Len(log'[k]) \in Nat
          /\ Len(log'[k]) = Len(log[k]) \/ Len(log'[k]) = Len(log[k]) + 1
      BY <2>1
    <3>2. PICK a \in Nat : a = Len(log[k])
      BY <3>1
    <3>3. PICK b \in Nat : b = Len(log'[k])
      BY <3>1
    <3>4. PICK p \in Nat : p = pos[k]
      BY <2>3
    <3>5. (b = a \/ b = a + 1) /\ p <= a
      BY <2>3, <3>1, <3>2, <3>3, <3>4
    <3>6. /\ 1 .. a \subseteq 1 .. b
          /\ (p + 1) .. a \subseteq 1 .. a /\ (p + 1) .. a \subseteq (p + 1) .. b
          /\ b = a + 1 => b \in (p + 1) .. b
      BY <3>5, OneMoreAtMost
    <3> QED
      BY <3>2, <3>3, <3>4, <3>6
  <2>2. \A m \in 1 .. Len(log[k]) : m \in 1 .. Len(log'[k]) /\ (AddedMatch(s, m)' <=> AddedMatch(s, m))
    BY <2>1, <2>9 DEF AddedMatch, k
  <2>4. LinkIsJustified(s)'
    <3> SUFFICES ASSUME linked[s] # NoId
                 PROVE  /\ \E m \in 1 .. Len(log'[k]) : AddedMatch(s, m)' /\ log'[k][m].id = linked[s]
                        /\ \/ linked[s] \in DOMAIN contents'[k]
                           \/ linked[s] \in missed[k]
                           \/ \E n \in (pos[k] + 1) .. Len(log'[k]) : log'[k][n] = Removed(linked[s])
      BY <1>1 DEF LinkIsJustified, k, Unseen
    <3>1. /\ \E m \in 1 .. Len(log[k]) : AddedMatch(s, m) /\ log[k][m].id = linked[s]
          /\ \/ linked[s] \in DOMAIN contents[k]
             \/ linked[s] \in missed[k]
             \/ \E n \in (pos[k] + 1) .. Len(log[k]) : log[k][n] = Removed(linked[s])
      BY DEF LinksIInv, LinkIsJustified, k, Unseen
    <3>2. \E m \in 1 .. Len(log'[k]) : AddedMatch(s, m)' /\ log'[k][m].id = linked[s]
      BY <3>1, <2>1, <2>2
    <3>3. CASE linked[s] \in DOMAIN contents[k]
      <4>1. CASE linked[s] \in DOMAIN contents'[k]
        BY <3>2, <4>1
      <4>2. CASE Len(log'[k]) = Len(log[k]) + 1 /\ log'[k][Len(log'[k])] = Removed(linked[s])
        <5>1. Len(log'[k]) \in (pos[k] + 1) .. Len(log'[k])
          BY <4>2, <2>9
        <5> QED
          BY <3>2, <4>2, <5>1
      <4> QED
        BY <3>3, <4>1, <4>2, <2>1
    <3>4. CASE \E n \in (pos[k] + 1) .. Len(log[k]) : log[k][n] = Removed(linked[s])
      <4>1. PICK n \in (pos[k] + 1) .. Len(log[k]) : log[k][n] = Removed(linked[s])
        BY <3>4
      <4>2. n \in 1 .. Len(log[k]) /\ n \in (pos[k] + 1) .. Len(log'[k])
        BY <2>9
      <4> QED
        BY <3>2, <4>1, <4>2, <2>1
    <3> QED
      BY <3>1, <3>2, <3>3, <3>4
  <2>5. MatchIsFound(s)'
    <3> SUFFICES ASSUME OneMatchAtATime(s)', NEW m \in 1 .. Len(log'[k]), AddedMatch(s, m)',
                        log'[k][m].id \in DOMAIN contents'[k]
                 PROVE  linked[s] = log'[k][m].id \/ m > pos[k] \/ ToScan(k)
      BY <1>1 DEF MatchIsFound, k, ToScan
    <3>1. OneMatchAtATime(s)
      <4> SUFFICES ASSUME NEW x \in 1 .. Len(log[k]), NEW y \in 1 .. Len(log[k]), x < y,
                          log[k][x].op = "added", log[k][x].item \in Matching[s],
                          log[k][y].op = "added", log[k][y].item \in Matching[s]
                   PROVE  \E r \in x .. y : log[k][r] = Removed(log[k][x].id)
        BY DEF OneMatchAtATime, k
      <4>1. log'[k][x] = log[k][x] /\ log'[k][y] = log[k][y]
            /\ x \in 1 .. Len(log'[k]) /\ y \in 1 .. Len(log'[k])
        BY <2>1, <2>9
      <4>2. \E r \in x .. y : log'[k][r] = Removed(log'[k][x].id)
        BY <4>1 DEF OneMatchAtATime, k
      <4>3. PICK r \in x .. y : log'[k][r] = Removed(log'[k][x].id)
        BY <4>2
      <4>4. r \in 1 .. Len(log[k])
        BY <2>1
      <4> QED
        BY <2>1, <4>1, <4>3, <4>4
    <3>2. CASE m \in 1 .. Len(log[k])
      <4>1. AddedMatch(s, m) /\ log[k][m].id \in DOMAIN contents[k] /\ log'[k][m] = log[k][m]
        BY <2>1, <2>2, <3>2
      <4> QED
        BY <3>1, <3>2, <4>1 DEF LinksIInv, MatchIsFound, k
    <3>3. CASE m \notin 1 .. Len(log[k])
      <4>1. PICK l \in Nat : l = Len(log[k])
        BY <2>1
      <4>2. PICK p \in Nat : p = pos[k]
        BY <2>3
      <4>3. m \in Nat /\ 1 <= m /\ m \notin 1 .. l /\ p <= l
        BY <2>3, <3>3, <4>1, <4>2
      <4>4. m > p
        BY <4>3
      <4> QED
        BY <4>2, <4>4
    <3> QED
      BY <3>2, <3>3
  <2> QED
    BY <2>4, <2>5
<1> QED
  BY <1>2, <1>3, <1>5, <1>6 DEF LinksIInv

-----------------------------------------------------------------------------
\* Order names the registry of every step of the task.
LEMMA StepKind ==
  ASSUME TypeOK, DeviceLinksAssumption
  PROVE  /\ Order[step] \in Kinds /\ Len(Order) \in Nat /\ step \in Nat
         /\ 1 <= step /\ step <= Len(Order)
         /\ step < Len(Order) => step + 1 \in 1 .. Len(Order)
         /\ 1 \in 1 .. Len(Order)
<1>1. Len(Order) \in Nat /\ \A n \in 1 .. Len(Order) : Order[n] \in Kinds
  BY DEF DeviceLinksAssumption
<1>2. PICK n \in Nat : n = Len(Order)
  BY <1>1
<1>3. step \in 1 .. n
  BY <1>2 DEF TypeOK
<1>4. /\ step \in Nat /\ 1 <= step /\ step <= n /\ 1 \in 1 .. n
      /\ step < n => step + 1 \in 1 .. n
  BY <1>3
<1> QED
  BY <1>1, <1>2, <1>3, <1>4

\* A step of the task reads the registries.
LEMMA TaskReads ==
  ASSUME LinksIInv, UNCHANGED <<next, contents, log>>
  PROVE  RegistryInv'
BY RegistryStepInv DEF LinksIInv, registryVars

\* monitor(): the removals that the old receiver had pending are missed from now on.
LEMMA LinksMonitor ==
  ASSUME LinksIInv, DeviceLinksAssumption, MonitorRegistry
  PROVE  LinksIInv'
<1> DEFINE j == Order[step]
<1>1. /\ pc = "subscribe" /\ UNCHANGED <<next, contents, log>> /\ linked' = linked
      /\ missed' = [missed EXCEPT ![j] = @ \cup RemovedIn(j, Unseen(j, pos[j]))]
      /\ pos' = [pos EXCEPT ![j] = Len(log[j])]
      /\ \/ step < Len(Order) /\ step' = step + 1 /\ pc' = "subscribe"
         \/ step' = 1 /\ pc' = "scan"
      /\ changed' = FALSE /\ announced' = announced
  BY DEF MonitorRegistry
<1>2. TypeOK /\ RegistryInv /\ RegistryInv'
  BY <1>1, TaskReads DEF LinksIInv
<1>3. /\ j \in Kinds /\ Len(Order) \in Nat
      /\ step < Len(Order) => step + 1 \in 1 .. Len(Order)
      /\ 1 \in 1 .. Len(Order)
  BY <1>2, StepKind
<1>4. /\ pos \in [Kinds -> Nat] /\ missed \in [Kinds -> SUBSET Nat]
      /\ \A k \in Kinds : Len(log[k]) \in Nat /\ pos[k] <= Len(log[k])
  BY <1>2, HistoryTypes DEF TypeOK, LinksIInv, PositionsExist
<1> HIDE DEF j
<1>5. \A k \in Kinds : k # j => pos'[k] = pos[k] /\ missed'[k] = missed[k]
  BY <1>1, <1>4
<1>6. pos'[j] = Len(log[j]) /\ missed'[j] = missed[j] \cup RemovedIn(j, Unseen(j, pos[j]))
  BY <1>1, <1>3, <1>4
<1>7. RemovedIn(j, Unseen(j, pos[j])) \in SUBSET Nat
  <2>1. \A n \in Unseen(j, pos[j]) : n \in 1 .. Len(log[j])
    BY <1>3, <1>4 DEF Unseen
  <2>2. \A n \in Unseen(j, pos[j]) : log[j][n].id \in Nat
    BY <2>1, <1>2, <1>3, HistoryTypes
  <2> QED
    BY <2>2 DEF RemovedIn
<1>8. TypeOK'
  <2>1. missed' \in [Kinds -> SUBSET Nat] /\ pos' \in [Kinds -> Nat]
    BY <1>1, <1>3, <1>4, <1>7
  <2>2. pc' \in {"subscribe", "scan", "notify", "select"} /\ step' \in 1 .. Len(Order)
    BY <1>1, <1>3
  <2> QED
    BY <1>1, <1>2, <2>1, <2>2 DEF TypeOK, RegistryInv
<1>9. PositionsExist'
  <2>1. \A k \in Kinds : pos'[k] = pos[k] \/ pos'[k] = Len(log[k])
    BY <1>5, <1>6
  <2>2. ASSUME NEW k \in Kinds PROVE pos'[k] <= Len(log[k])
    <3>1. PICK x \in Nat : x = Len(log[k])
      BY <1>4
    <3>2. CASE pos'[k] = pos[k]
      BY <1>4, <3>2
    <3>3. CASE pos'[k] = x
      BY <3>1, <3>3
    <3> QED
      BY <2>1, <3>1, <3>2, <3>3
  <2> QED
    BY <1>1, <2>2 DEF PositionsExist
<1>10. ASSUME NEW s \in Slots PROVE LinkIsJustified(s)' /\ MatchIsFound(s)'
  <2> DEFINE k == SlotKind[s]
  <2>0. k \in Kinds
    BY DEF DeviceLinksAssumption
  <2>1. MatchIsFound(s)'
    <3>1. ToScan(k)'
      <4>1. CASE pc' = "subscribe"
        BY <4>1 DEF ToScan
      <4>2. CASE step' = 1 /\ pc' = "scan"
        BY <2>0, <4>2 DEF DeviceLinksAssumption, ToScan
      <4> QED
        BY <1>1, <4>1, <4>2
    <3> QED
      BY <3>1 DEF MatchIsFound
  <2>2. LinkIsJustified(s)'
    <3> HIDE DEF k
    <3> SUFFICES ASSUME linked[s] # NoId
                 PROVE  /\ \E m \in 1 .. Len(log[k]) : AddedMatch(s, m)' /\ log[k][m].id = linked[s]
                        /\ \/ linked[s] \in DOMAIN contents[k]
                           \/ linked[s] \in missed'[k]
                           \/ \E n \in (pos'[k] + 1) .. Len(log[k]) : log[k][n] = Removed(linked[s])
      BY <1>1 DEF LinkIsJustified, k, Unseen
    <3>1. /\ \E m \in 1 .. Len(log[k]) : AddedMatch(s, m) /\ log[k][m].id = linked[s]
          /\ \/ linked[s] \in DOMAIN contents[k]
             \/ linked[s] \in missed[k]
             \/ \E n \in Unseen(k, pos[k]) : log[k][n] = Removed(linked[s])
      BY DEF LinksIInv, LinkIsJustified, k
    <3>2. \E m \in 1 .. Len(log[k]) : AddedMatch(s, m)' /\ log[k][m].id = linked[s]
      BY <1>1, <3>1 DEF AddedMatch
    <3>3. CASE k # j
      BY <1>5, <2>0, <3>1, <3>2, <3>3 DEF Unseen
    <3>4. CASE k = j
      <4>1. CASE \E n \in Unseen(k, pos[k]) : log[k][n] = Removed(linked[s])
        <5>1. linked[s] \in RemovedIn(k, Unseen(k, pos[k]))
          <6>1. PICK n \in Unseen(k, pos[k]) : log[k][n] = Removed(linked[s])
            BY <4>1
          <6>2. log[k][n].op = "removed" /\ log[k][n].id = linked[s]
            BY <6>1 DEF Removed
          <6> QED
            BY <6>2 DEF RemovedIn
        <5> QED
          BY <1>6, <3>2, <3>4, <5>1
      <4> QED
        BY <1>6, <3>1, <3>2, <3>4, <4>1
    <3> QED
      BY <3>3, <3>4
  <2> QED
    BY <2>1, <2>2
<1> QED
  BY <1>2, <1>8, <1>9, <1>10 DEF LinksIInv

\* The scan of a registry links the slots of that registry to what is there now.
LEMMA LinksScan ==
  ASSUME LinksIInv, DeviceLinksAssumption, Scan
  PROVE  LinksIInv'
<1> DEFINE j == Order[step]
           hits == {s \in SlotsOf(j) : Candidates(s) # {}}
<1>1. /\ pc = "scan" /\ UNCHANGED <<next, contents, log>> /\ pos' = pos /\ missed' = missed
      /\ announced' = announced
      /\ linked' = [s \in Slots |-> IF s \in hits THEN Max(Candidates(s)) ELSE linked[s]]
      /\ changed' = (changed \/ hits # {})
      /\ \/ step < Len(Order) /\ step' = step + 1 /\ pc' = pc
         \/ ~ (step < Len(Order)) /\ step' = 1 /\ pc' = IF changed' THEN "notify" ELSE "select"
  BY DEF Scan
<1>2. TypeOK /\ RegistryInv /\ RegistryInv'
  BY <1>1, TaskReads DEF LinksIInv
<1>3. /\ j \in Kinds /\ Len(Order) \in Nat /\ step \in Nat /\ step <= Len(Order)
      /\ step < Len(Order) => step + 1 \in 1 .. Len(Order)
      /\ 1 \in 1 .. Len(Order)
  BY <1>2, StepKind
<1>4. ASSUME NEW s \in Slots
      PROVE  \/ SlotKind[s] = j /\ Candidates(s) # {} /\ linked'[s] = Max(Candidates(s))
                                /\ Max(Candidates(s)) \in Candidates(s)
             \/ (SlotKind[s] # j \/ Candidates(s) = {}) /\ linked'[s] = linked[s]
  <2>1. s \in hits <=> SlotKind[s] = j /\ Candidates(s) # {}
    BY DEF SlotsOf
  <2> HIDE DEF hits, j
  <2>2. linked'[s] = IF s \in hits THEN Max(Candidates(s)) ELSE linked[s]
    BY <1>1
  <2> QED
    BY <1>2, <2>1, <2>2, MaxCandidate
<1>5. \A s \in Slots : \A i \in Candidates(s) : i \in Nat
  BY <1>2 DEF Candidates, RegistryInv, RegistryTypeOK, IsItemMap, DeviceLinksAssumption
<1> HIDE DEF hits, j
<1>6. TypeOK'
  <2>1. linked' \in [Slots -> Nat \cup {NoId}]
    <3>1. \A s \in Slots : linked'[s] \in Nat \cup {NoId}
      BY <1>2, <1>4, <1>5 DEF TypeOK
    <3> QED
      BY <1>1, <3>1
  <2>2. changed' \in BOOLEAN
    BY <1>1
  <2>3. pc' \in {"subscribe", "scan", "notify", "select"} /\ step' \in 1 .. Len(Order)
    BY <1>1, <1>3
  <2> QED
    BY <1>1, <1>2, <2>1, <2>2, <2>3 DEF TypeOK, RegistryInv
<1>7. PositionsExist'
  BY <1>1 DEF LinksIInv, PositionsExist
<1>8. ASSUME NEW s \in Slots PROVE LinkIsJustified(s)' /\ MatchIsFound(s)'
  <2> DEFINE k == SlotKind[s]
  <2>0. k \in Kinds
    BY DEF DeviceLinksAssumption
  <2>1. LinkIsJustified(s) /\ MatchIsFound(s)
    BY DEF LinksIInv
  <2>2. LinkIsJustified(s)'
    <3>1. CASE k = j /\ Candidates(s) # {}
      <4>1. linked'[s] \in Candidates(s)
        BY <1>4, <3>1
      <4>2. \E m \in 1 .. Len(log[k]) : AddedMatch(s, m) /\ log[k][m].id = linked'[s]
        BY <1>2, <4>1, PresentMatch
      <4>3. linked'[s] \in DOMAIN contents[k]
        BY <4>1 DEF Candidates
      <4> QED
        BY <1>1, <4>2, <4>3 DEF LinkIsJustified, AddedMatch
    <3>2. CASE ~ (k = j /\ Candidates(s) # {})
      <4>1. linked'[s] = linked[s]
        BY <1>4, <3>2
      <4> QED
        BY <1>1, <2>1, <4>1 DEF LinkIsJustified, AddedMatch, Unseen
    <3> QED
      BY <3>1, <3>2
  <2>3. MatchIsFound(s)'
    <3> SUFFICES ASSUME OneMatchAtATime(s), NEW m \in 1 .. Len(log[k]), AddedMatch(s, m),
                        log[k][m].id \in DOMAIN contents[k]
                 PROVE  linked'[s] = log[k][m].id \/ m > pos[k] \/ ToScan(k)'
      BY <1>1 DEF MatchIsFound, OneMatchAtATime, AddedMatch
    <3>1. CASE k = j
      <4>1. Candidates(s) = {log[k][m].id}
        BY <1>2, OnlyMatch
      <4> QED
        BY <1>4, <3>1, <4>1
    <3>2. CASE k # j
      <4>1. linked'[s] = linked[s]
        BY <1>4, <3>2
      <4>2. linked[s] = log[k][m].id \/ m > pos[k] \/ ToScan(k)
        BY <2>1 DEF MatchIsFound
      <4>3. ToScan(k) => ToScan(k)'
        <5> SUFFICES ASSUME ToScan(k) PROVE ToScan(k)'
          OBVIOUS
        <5>1. PICK n \in step .. Len(Order) : Order[n] = k
          BY <1>1 DEF ToScan
        <5>2. n # step
          BY <3>2, <5>1 DEF j
        <5>3. step < Len(Order) /\ n \in (step + 1) .. Len(Order)
          <6>1. PICK x \in Nat : x = Len(Order)
            BY <1>3
          <6>2. n \in step .. x /\ step \in Nat
            BY <1>3, <5>1, <6>1
          <6>3. step < x /\ n \in (step + 1) .. x
            BY <5>2, <6>2
          <6> QED
            BY <6>1, <6>3
        <5>4. step' = step + 1 /\ pc' = "scan"
          BY <1>1, <5>3
        <5> QED
          BY <5>1, <5>3, <5>4 DEF ToScan
      <4> QED
        BY <4>1, <4>2, <4>3
    <3> QED
      BY <3>1, <3>2
  <2> QED
    BY <2>2, <2>3
<1> QED
  BY <1>2, <1>6, <1>7, <1>8 DEF LinksIInv

\* add_item_with and change_with: what a received change does to the links.
LEMMA LinksReceive ==
  ASSUME LinksIInv, DeviceLinksAssumption, NEW j \in Kinds, Receive(j)
  PROVE  LinksIInv'
<1> DEFINE change == log[j][pos[j] + 1]
<1>1. /\ pc = "select" /\ UNCHANGED <<next, contents, log>> /\ missed' = missed
      /\ announced' = announced /\ step' = step /\ Unseen(j, pos[j]) # {}
      /\ linked' = Relinked(j, change) /\ pos' = [pos EXCEPT ![j] = @ + 1]
      /\ changed' = (Touched(j, change) # {})
      /\ pc' \in {"notify", "select"}
  BY DEF Receive
<1>2. TypeOK /\ RegistryInv /\ RegistryInv'
  BY <1>1, TaskReads DEF LinksIInv
<1>3. \A k \in Kinds : Len(log[k]) \in Nat /\ pos[k] \in Nat /\ pos[k] <= Len(log[k])
  BY <1>2, HistoryTypes DEF TypeOK, LinksIInv, PositionsExist
<1>10. PICK p \in Nat : p = pos[j]
  BY <1>3
<1>11. PICK l \in Nat : l = Len(log[j])
  BY <1>3
<1>4. /\ p + 1 \in 1 .. l /\ p + 1 <= l
      /\ pos'[j] = p + 1 /\ \A k \in Kinds : k # j => pos'[k] = pos[k]
      /\ pos' \in [Kinds -> Nat] /\ change = log[j][p + 1]
  <2>1. (p + 1) .. l # {}
    BY <1>1, <1>10, <1>11 DEF Unseen
  <2>2. p + 1 \in 1 .. l /\ p + 1 <= l
    BY <2>1
  <2>3. pos \in [Kinds -> Nat] /\ pos' = [pos EXCEPT ![j] = p + 1]
    BY <1>1, <1>2, <1>10 DEF TypeOK
  <2>4. pos' \in [Kinds -> Nat] /\ pos'[j] = p + 1 /\ \A k \in Kinds : k # j => pos'[k] = pos[k]
    <3> HIDE DEF change
    <3> QED BY <2>3
  <2> QED
    BY <1>10, <2>2, <2>4
<1> HIDE DEF change
<1>5. /\ change.id \in Nat
      /\ \/ change.op = "added" /\ change = Added(change.id, change.item)
         \/ change.op = "removed" /\ change = Removed(change.id)
  BY <1>2, <1>11, <1>4, HistoryTypes
<1>6. ASSUME NEW s \in Slots
      PROVE  \/ /\ SlotKind[s] = j /\ change.op = "added" /\ change.item \in Matching[s]
                /\ linked'[s] = change.id
             \/ /\ SlotKind[s] = j /\ change.op = "removed" /\ linked[s] = change.id
                /\ linked'[s] = NoId
             \/ /\ SlotKind[s] = j => ~ (change.op = "added" /\ change.item \in Matching[s])
                /\ SlotKind[s] = j => ~ (change.op = "removed" /\ linked[s] = change.id)
                /\ linked'[s] = linked[s]
  <2>1. s \in Touched(j, change) <=>
          SlotKind[s] = j /\ IF change.op = "added" THEN change.item \in Matching[s]
                                                    ELSE linked[s] = change.id
    BY DEF Touched, SlotsOf
  <2>2. linked'[s] = IF s \notin Touched(j, change) THEN linked[s]
                     ELSE IF change.op = "added" THEN change.id ELSE NoId
    BY <1>1 DEF Relinked
  <2> HIDE DEF change
  <2>3. change.op = "removed" => change.op # "added"
    OBVIOUS
  <2> QED
    BY <1>5, <2>1, <2>2, <2>3
<1>7. TypeOK'
  <2>1. linked' \in [Slots -> Nat \cup {NoId}]
    <3>1. \A s \in Slots : linked'[s] \in Nat \cup {NoId}
      BY <1>2, <1>5, <1>6 DEF TypeOK
    <3>2. linked' = [s \in Slots |-> linked'[s]]
      BY <1>1 DEF Relinked
    <3> QED
      BY <3>1, <3>2
  <2> QED
    BY <1>1, <1>2, <1>4, <2>1 DEF TypeOK, RegistryInv
<1>8. PositionsExist'
  <2>1. ASSUME NEW k \in Kinds PROVE pos'[k] <= Len(log[k])
    <3>1. CASE k = j
      BY <1>11, <1>4, <3>1
    <3>2. CASE k # j
      BY <1>3, <1>4, <3>2
    <3> QED
      BY <3>1, <3>2
  <2> QED
    BY <1>1, <2>1 DEF PositionsExist
<1>9. ASSUME NEW s \in Slots PROVE LinkIsJustified(s)' /\ MatchIsFound(s)'
  <2> DEFINE k == SlotKind[s]
  <2>0. k \in Kinds
    BY DEF DeviceLinksAssumption
  <2>1. LinkIsJustified(s) /\ MatchIsFound(s)
    BY DEF LinksIInv
  <2>5. \A m : AddedMatch(s, m)' <=> AddedMatch(s, m)
    BY <1>1 DEF AddedMatch
  <2>6. OneMatchAtATime(s)' => OneMatchAtATime(s)
    BY <1>1 DEF OneMatchAtATime
  <2> HIDE DEF k
  <2>2. ASSUME k # j PROVE LinkIsJustified(s)' /\ MatchIsFound(s)'
    <3>1. linked'[s] = linked[s] /\ pos'[k] = pos[k]
      BY <1>4, <1>6, <2>0, <2>2 DEF k
    <3>2. LinkIsJustified(s)'
      BY <1>1, <2>1, <3>1 DEF LinkIsJustified, AddedMatch, Unseen, k
    <3>3. MatchIsFound(s)'
      <4> SUFFICES ASSUME OneMatchAtATime(s), NEW m \in 1 .. Len(log[k]), AddedMatch(s, m),
                          log[k][m].id \in DOMAIN contents[k]
                   PROVE  linked[s] = log[k][m].id \/ m > pos[k]
        BY <1>1, <2>5, <2>6, <3>1 DEF MatchIsFound, k
      <4> QED
        BY <1>1, <2>1 DEF MatchIsFound, ToScan, k
    <3> QED
      BY <3>2, <3>3
  <2>3. ASSUME k = j PROVE LinkIsJustified(s)'
    <3> SUFFICES ASSUME linked'[s] # NoId
                 PROVE  /\ \E m \in 1 .. l : AddedMatch(s, m) /\ log[j][m].id = linked'[s]
                        /\ \/ linked'[s] \in DOMAIN contents[j]
                           \/ linked'[s] \in missed[j]
                           \/ \E n \in (p + 1 + 1) .. l : log[j][n] = Removed(linked'[s])
      BY <1>1, <1>11, <1>4, <2>3 DEF LinkIsJustified, k, Unseen, AddedMatch
    <3>1. CASE change.op = "added" /\ change.item \in Matching[s] /\ linked'[s] = change.id
      <4>1. AddedMatch(s, p + 1) /\ log[j][p + 1].id = linked'[s]
        BY <1>11, <1>4, <2>3, <3>1 DEF AddedMatch, k
      <4>2. CASE linked'[s] \notin DOMAIN contents[j]
        <5>0. AddedUntilRemoved(j)
          BY <1>2 DEF RegistryInv, ContentsMatchLog
        <5>1. PICK n \in 1 .. l : log[j][n] = Removed(change.id)
          BY <1>11, <1>4, <3>1, <4>2, <5>0 DEF AddedUntilRemoved
        <5>2. log[j][n].op = "removed" /\ log[j][n].id = change.id
          BY <5>1 DEF Removed
        <5>3. ~ (n < p + 1)
          <6>1. "added" # "removed"
            OBVIOUS
          <6> QED
            BY <1>2, <1>11, <1>4, <5>2, <6>1 DEF RegistryInv, IdsNeverReused
        <5>4. n # p + 1
          BY <1>4, <3>1, <5>2
        <5>5. n \in (p + 1 + 1) .. l
          BY <5>3, <5>4
        <5> QED
          BY <1>4, <3>1, <4>1, <5>1, <5>5
      <4> QED
        BY <1>4, <4>1, <4>2
    <3>2. CASE linked'[s] = linked[s] /\ ~ (change.op = "removed" /\ linked[s] = change.id)
      <4>1. /\ \E m \in 1 .. l : AddedMatch(s, m) /\ log[j][m].id = linked'[s]
            /\ \/ linked'[s] \in DOMAIN contents[j]
               \/ linked'[s] \in missed[j]
               \/ \E n \in (p + 1) .. l : log[j][n] = Removed(linked'[s])
        BY <1>10, <1>11, <2>1, <2>3, <3>2 DEF LinkIsJustified, k, Unseen
      <4>2. ASSUME NEW n \in (p + 1) .. l, log[j][n] = Removed(linked'[s])
            PROVE  n \in (p + 1 + 1) .. l
        <5>1. log[j][n].op = "removed" /\ log[j][n].id = linked[s]
          BY <3>2, <4>2 DEF Removed
        <5>2. n # p + 1
          BY <1>4, <3>2, <5>1
        <5> QED
          BY <5>2
      <4> QED
        BY <4>1, <4>2
    <3> QED
      BY <1>6, <2>3, <3>1, <3>2 DEF k
  <2>4. ASSUME k = j PROVE MatchIsFound(s)'
    <3> SUFFICES ASSUME OneMatchAtATime(s), NEW m \in 1 .. l, AddedMatch(s, m),
                        log[j][m].id \in DOMAIN contents[j]
                 PROVE  linked'[s] = log[j][m].id \/ m > p + 1
      BY <1>1, <1>11, <1>4, <2>4, <2>5, <2>6 DEF MatchIsFound, k
    <3>1. linked[s] = log[j][m].id \/ m > p
      BY <1>1, <1>10, <1>11, <2>1, <2>4 DEF MatchIsFound, ToScan, k
    <3>2. log[j][m].op = "added" /\ log[j][m].item \in Matching[s]
      BY <2>4 DEF AddedMatch, k
    <3>3. CASE change.op = "added" /\ change.item \in Matching[s] /\ linked'[s] = change.id
      <4>1. AddedMatch(s, p + 1)
        BY <1>11, <1>4, <2>4, <3>3 DEF AddedMatch, k
      <4>2. ~ (m < p + 1)
        BY <1>2, <1>11, <1>4, <2>4, <4>1, LastMatch DEF k
      <4>3. m = p + 1 \/ m > p + 1
        BY <4>2, PlaceAfter
      <4> QED
        BY <1>4, <3>3, <4>3
    <3>4. CASE change.op = "removed" /\ linked[s] = change.id
      <4>1. change.id \notin DOMAIN contents[j]
        BY <1>2, <1>11, <1>4, <3>4 DEF RegistryInv, ContentsMatchLog, RemovedIsAbsent
      <4>2. m # p + 1
        BY <1>4, <3>2, <3>4
      <4>3. m > p
        BY <3>1, <3>4, <4>1
      <4> QED
        BY <4>2, <4>3, PlaceAfter
    <3>5. CASE ~ (change.op = "added" /\ change.item \in Matching[s]) /\ linked'[s] = linked[s]
      <4>1. m # p + 1
        BY <1>4, <3>2, <3>5
      <4>2. m > p => m > p + 1
        BY <4>1, PlaceAfter
      <4> QED
        BY <3>1, <3>5, <4>2
    <3> QED
      BY <1>6, <2>4, <3>3, <3>4, <3>5 DEF k
  <2> QED
    BY <2>2, <2>3, <2>4
<1> QED
  BY <1>2, <1>7, <1>8, <1>9 DEF LinksIInv

\* Neither the notification nor the restart touches a link or a receiver.
LEMMA LinksOtherStep ==
  ASSUME LinksIInv, DeviceLinksAssumption,
         NotifyWatchers \/ (\E k \in Kinds : Restart(k)) \/ UNCHANGED vars
  PROVE  LinksIInv'
<1>1. /\ UNCHANGED <<next, contents, log>> /\ step' = step /\ pos' = pos
      /\ linked' = linked /\ changed' = changed /\ missed' = missed
      /\ announced' = announced \/ announced' = linked
      /\ \/ pc = "notify" /\ pc' = "select"
         \/ pc = "select" /\ pc' = "subscribe"
         \/ pc' = pc
  BY DEF NotifyWatchers, Restart, vars
<1>2. TypeOK /\ RegistryInv /\ RegistryInv'
  BY <1>1, TaskReads DEF LinksIInv
<1>3. TypeOK'
  BY <1>1, <1>2 DEF TypeOK, RegistryInv
<1>4. PositionsExist'
  BY <1>1 DEF LinksIInv, PositionsExist
<1>5. ASSUME NEW s \in Slots PROVE LinkIsJustified(s)' /\ MatchIsFound(s)'
  <2>1. LinkIsJustified(s) /\ MatchIsFound(s)
    BY DEF LinksIInv
  <2>2. LinkIsJustified(s)'
    BY <1>1, <2>1 DEF LinkIsJustified, AddedMatch, Unseen
  <2>3. ToScan(SlotKind[s]) => ToScan(SlotKind[s])'
    BY <1>1 DEF ToScan
  <2>4. MatchIsFound(s)'
    BY <1>1, <2>1, <2>3 DEF MatchIsFound, OneMatchAtATime, AddedMatch
  <2> QED
    BY <2>2, <2>4
<1> QED
  BY <1>2, <1>3, <1>4, <1>5 DEF LinksIInv

LEMMA LinksInitInv == Init /\ DeviceLinksAssumption => LinksIInv
<1> SUFFICES ASSUME Init, DeviceLinksAssumption PROVE LinksIInv
  OBVIOUS
<1>1. RegistryInv
  BY RegistryInitInv DEF Init
<1>2. \A k \in Kinds : log[k] = << >>
  BY DEF Init, RegistryInit
<1>3. 1 \in 1 .. Len(Order)
  BY DEF DeviceLinksAssumption
<1>4. TypeOK
  BY <1>1, <1>3 DEF Init, TypeOK, RegistryInv
<1>5. PositionsExist
  BY <1>2 DEF Init, PositionsExist
<1>6. ASSUME NEW s \in Slots PROVE LinkIsJustified(s) /\ MatchIsFound(s)
  BY DEF Init, LinkIsJustified, MatchIsFound, ToScan
<1> QED
  BY <1>1, <1>4, <1>5, <1>6 DEF LinksIInv

LEMMA LinksStepInv == LinksIInv /\ DeviceLinksAssumption /\ [Next]_vars => LinksIInv'
<1> SUFFICES ASSUME LinksIInv, DeviceLinksAssumption, [Next]_vars PROVE LinksIInv'
  OBVIOUS
<1>1. CASE RegistryStep
  BY <1>1, LinksRegistryStep
<1>2. CASE MonitorRegistry
  BY <1>2, LinksMonitor
<1>3. CASE Scan
  BY <1>3, LinksScan
<1>4. ASSUME NEW k \in Kinds, Receive(k) PROVE LinksIInv'
  BY <1>4, LinksReceive
<1>5. CASE NotifyWatchers \/ (\E k \in Kinds : Restart(k)) \/ UNCHANGED vars
  BY <1>5, LinksOtherStep
<1> QED
  BY <1>1, <1>2, <1>3, <1>4, <1>5 DEF Next, TaskStep

\* What a task that has received everything has linked.
LEMMA LinksWhenSettled == LinksIInv /\ DeviceLinksAssumption => LinksInv
<1> SUFFICES ASSUME LinksIInv, DeviceLinksAssumption PROVE LinksInv
  OBVIOUS
<1>0. RegistryInv /\ TypeOK
  BY DEF LinksIInv
<1>1. ASSUME Settled, NEW s \in Slots, linked[s] # NoId
      PROVE  linked[s] \in Candidates(s) \cup missed[SlotKind[s]]
  <2> DEFINE k == SlotKind[s]
  <2>0. k \in Kinds
    BY DEF DeviceLinksAssumption
  <2>1. /\ \E m \in 1 .. Len(log[k]) : AddedMatch(s, m) /\ log[k][m].id = linked[s]
        /\ linked[s] \in DOMAIN contents[k] \/ linked[s] \in missed[k]
    BY <1>1, <2>0 DEF LinksIInv, LinkIsJustified, Settled
  <2> QED
    BY <1>0, <2>1, PresentMatch
<1>2. ASSUME Settled, NEW s \in Slots, OneMatchAtATime(s), NEW i \in Candidates(s)
      PROVE  linked[s] = i
  <2> DEFINE k == SlotKind[s]
  <2>0. k \in Kinds
    BY DEF DeviceLinksAssumption
  <2>1. PICK m \in 1 .. Len(log[k]) : AddedMatch(s, m) /\ log[k][m].id = i
    BY <1>0, PresentMatch
  <2>2. i \in DOMAIN contents[k]
    BY DEF Candidates
  <2>3. ~ ToScan(k)
    BY <1>2 DEF Settled, ToScan
  <2>4. m \notin (pos[k] + 1) .. Len(log[k])
    BY <1>2, <2>0 DEF Settled, Unseen
  <2>5. ~ (m > pos[k])
    <3>1. pos[k] \in Nat /\ Len(log[k]) \in Nat
      BY <1>0, <2>0, HistoryTypes DEF TypeOK
    <3>2. PICK p \in Nat : p = pos[k]
      BY <3>1
    <3>3. PICK l \in Nat : l = Len(log[k])
      BY <3>1
    <3>4. m \in 1 .. l /\ m \notin (p + 1) .. l
      BY <2>4, <3>2, <3>3
    <3>5. ~ (m > p)
      BY <3>4
    <3> QED
      BY <3>2, <3>5
  <2> QED
    BY <1>2, <2>1, <2>2, <2>3, <2>5 DEF LinksIInv, MatchIsFound
<1>3. DanglingOnlyIfMissed
  BY <1>1 DEF DanglingOnlyIfMissed
<1>4. PresentIsLinked
  BY <1>2 DEF PresentIsLinked
<1> QED
  BY <1>0, <1>3, <1>4 DEF LinksInv

\* The task tells the watchers of every link that it changes.
LEMMA AnnouncedStepInv ==
  TypeOK /\ LinksAreAnnounced /\ [Next]_vars => LinksAreAnnounced'
<1> SUFFICES ASSUME TypeOK, LinksAreAnnounced, [Next]_vars PROVE LinksAreAnnounced'
  OBVIOUS
<1>0. linked \in [Slots -> Nat \cup {NoId}] /\ changed \in BOOLEAN
  BY DEF TypeOK
<1>1. CASE RegistryStep \/ UNCHANGED vars
  BY <1>1 DEF RegistryStep, taskVars, vars, LinksAreAnnounced
<1>2. CASE MonitorRegistry
  BY <1>2 DEF MonitorRegistry, LinksAreAnnounced
<1>3. CASE Scan
  <2> DEFINE hits == {s \in SlotsOf(Order[step]) : Candidates(s) # {}}
  <2>1. /\ pc = "scan" /\ announced' = announced
        /\ linked' = [s \in Slots |-> IF s \in hits THEN Max(Candidates(s)) ELSE linked[s]]
        /\ changed' = (changed \/ hits # {})
        /\ pc' = pc \/ pc' = IF changed' THEN "notify" ELSE "select"
    BY <1>3 DEF Scan
  <2> HIDE DEF hits
  <2>2. hits = {} => linked' = linked
    BY <1>0, <2>1
  <2>3. hits # {} => changed'
    BY <2>1
  <2>4. changed => changed'
    BY <2>1
  <2>5. changed' => pc' \in {"scan", "notify"}
    BY <2>1
  <2> QED
    BY <2>1, <2>2, <2>3, <2>4, <2>5 DEF LinksAreAnnounced
<1>4. CASE NotifyWatchers
  BY <1>4 DEF NotifyWatchers, LinksAreAnnounced
<1>5. ASSUME NEW k \in Kinds, Receive(k) PROVE LinksAreAnnounced'
  <2> DEFINE change == log[k][pos[k] + 1]
  <2>1. /\ pc = "select" /\ announced' = announced /\ linked' = Relinked(k, change)
        /\ changed' = (Touched(k, change) # {})
        /\ pc' = IF changed' THEN "notify" ELSE "select"
    BY <1>5 DEF Receive
  <2> HIDE DEF change
  <2>2. Touched(k, change) = {} => linked' = linked
    BY <1>0, <2>1 DEF Relinked
  <2> QED
    BY <2>1, <2>2 DEF LinksAreAnnounced
<1>6. ASSUME NEW k \in Kinds, Restart(k) PROVE LinksAreAnnounced'
  BY <1>6 DEF Restart, LinksAreAnnounced
<1> QED
  BY <1>1, <1>2, <1>3, <1>4, <1>5, <1>6 DEF Next, TaskStep

\* For any device and registries: once the task has received everything, what a slot
\* of the device links to is there and matches, or is something whose removal a lagging
\* channel dropped, and a present item is linked if the matches of its slot never
\* overlapped (Device::monitor_items).
THEOREM LinksSafe == Spec => []LinksInv
<1>0. DeviceLinksAssumption
  BY DeviceLinksAssumption
<1>1. Init => LinksIInv
  BY <1>0, LinksInitInv
<1>2. LinksIInv /\ [Next]_vars => LinksIInv'
  BY <1>0, LinksStepInv
<1>3. LinksIInv => LinksInv
  BY <1>0, LinksWhenSettled
<1> QED
  BY <1>1, <1>2, <1>3, PTL DEF Spec

\* For any device: what the watchers were told of a device's links is what the links
\* are, except while the task is about to notify them of a change it made
\* (Device::monitor_items, notifier.notify()).
THEOREM LinksAnnounced == Spec => []LinksAreAnnounced
<1>0. DeviceLinksAssumption
  BY DeviceLinksAssumption
<1>1. Init => LinksIInv /\ LinksAreAnnounced
  BY <1>0, LinksInitInv DEF Init, LinksAreAnnounced
<1>2. (LinksIInv /\ LinksAreAnnounced) /\ [Next]_vars => (LinksIInv /\ LinksAreAnnounced)'
  BY <1>0, LinksStepInv, AnnouncedStepInv DEF LinksIInv
<1> QED
  BY <1>1, <1>2, PTL DEF Spec
=============================================================================
