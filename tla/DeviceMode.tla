----------------------------- MODULE DeviceMode -----------------------------
(***************************************************************************)
(* Switching a configured device between its modes (Device::set_mode in    *)
(* config_device.rs, called by the DeviceChangeMode RPC).  Calls run       *)
(* concurrently: the lock on current_mode is held to check the dependency  *)
(* and clear the mode, and again to set it at the end, but not in between, *)
(* where each step awaits an actuator and then the stabilisation time.     *)
(*                                                                         *)
(* The watchers of the device are notified after the lock was released, so *)
(* there is a moment when the mode is set and the notification is owed.    *)
(*                                                                         *)
(* Actuators are also set past the modes: by the ActuatorChangeMode RPC,   *)
(* and by what a dropped call had asked of one, which may act later.       *)
(***************************************************************************)
EXTENDS Naturals, Sequences

CONSTANTS Modes,       \* the modes of the device
          Depends,     \* Depends[m]: the mode m has to be entered from, or NoMode
          Sequence,    \* Sequence[m]: the steps, each a request
          Actuators,   \* the actuators the steps match
          Requests,    \* what is asked of actuators, [actuator, value]
          NoMode,      \* current_mode = None
          Unknown,     \* the setting of an actuator nobody has set
          Callers,     \* clients calling DeviceChangeMode
          MaxCalls     \* bound: calls of DeviceChangeMode and ActuatorChangeMode made

ASSUME DeviceModeAssumption ==
  /\ NoMode \notin Modes
  /\ Depends \in [Modes -> Modes \cup {NoMode}]
  /\ Sequence \in [Modes -> Seq(Requests)]
  /\ \A request \in Requests : request.actuator \in Actuators
  /\ MaxCalls \in Nat

VARIABLES current,     \* DeviceInner.current_mode
          call,        \* call[c]: where the call of c is
          actuator,    \* actuator[a]: what it was last set to
          calls,       \* calls begun so far
          finished,    \* calls that reached their mode so far
          owed,        \* changes made whose notification is not sent yet
          notified,    \* notifications sent by the device's notifier
          stray,       \* what was asked of actuators outside a running call, and
                       \* has not acted; equal requests are one
          overlapped,  \* history: two calls have run at the same time
          touched      \* history: actuators whose setting is that of a stray request

modeVars == <<current, call, actuator, calls, finished, owed, notified,
              stray, overlapped, touched>>

\* A caller without a call; a call in mode m, about to do step n of its
\* sequence; base is how many calls had finished when it began.
NoCall == [mode |-> NoMode, n |-> 0, base |-> 0]
Running(c) == call[c] # NoCall

ModeInit ==
  /\ current = NoMode
  /\ call = [c \in Callers |-> NoCall]
  /\ actuator = [a \in Actuators |-> Unknown]
  /\ calls = 0
  /\ finished = 0
  /\ owed = 0
  /\ notified = 0
  /\ stray = {}
  /\ overlapped = FALSE
  /\ touched = {}

\* A wrong Begin: the old mode stays current while the sequence runs.
BeginKeepsMode(c, m) ==
  /\ ~ Running(c)
  /\ calls < MaxCalls
  /\ Depends[m] \in {NoMode, current}
  /\ call' = [call EXCEPT ![c] = [mode |-> m, n |-> 1, base |-> finished]]
  /\ calls' = calls + 1
  /\ overlapped' = (overlapped \/ \E d \in Callers : Running(d))
  /\ UNCHANGED <<current, actuator, finished, owed, notified, stray, touched>>

\* set_mode up to the release of the lock.  A call in the wrong mode returns
\* WrongCurrentMode and changes nothing.
Begin(c, m) ==
  /\ ~ Running(c)
  /\ calls < MaxCalls
  /\ Depends[m] \in {NoMode, current}
  /\ current' = NoMode
  /\ call' = [call EXCEPT ![c] = [mode |-> m, n |-> 1, base |-> finished]]
  /\ calls' = calls + 1
  /\ overlapped' = (overlapped \/ \E d \in Callers : Running(d))
  /\ UNCHANGED <<actuator, finished, owed, notified, stray, touched>>

StepOf(c) == Sequence[call[c].mode][call[c].n]
InSequence(c) == Running(c) /\ call[c].n <= Len(Sequence[call[c].mode])

\* One step: the actuator is found, set_mode on it is awaited, and the
\* stabilisation time passes before the caller's next step.
Step(c) ==
  /\ InSequence(c)
  /\ actuator' = [actuator EXCEPT ![StepOf(c).actuator] = StepOf(c).value]
  /\ call' = [call EXCEPT ![c].n = @ + 1]
  /\ touched' = touched \ {StepOf(c).actuator}
  /\ UNCHANGED <<current, calls, finished, owed, notified, stray, overlapped>>

\* set_mode returns without reaching the mode: no actuator matches (it was
\* unplugged), or it failed, or the client went away and the call was dropped at
\* an await.  Any of these can happen at any step, so what is registered is left out.
\* The actuator may act although the call ends here, at once or later.
Abandon(c) ==
  /\ Running(c)
  /\ call' = [call EXCEPT ![c] = NoCall]
  /\ \/ UNCHANGED stray
     \/ InSequence(c) /\ stray' = stray \cup {StepOf(c)}
  /\ UNCHANGED <<current, actuator, calls, finished, owed, notified, overlapped, touched>>

\* The RPC of that name: the actuator is found and set_mode on it awaited, as in a
\* step, but the modes of devices with that actuator are left as they are.
ActuatorChangeMode(request) ==
  /\ calls < MaxCalls
  /\ calls' = calls + 1
  /\ stray' = stray \cup {request}
  /\ UNCHANGED <<current, call, actuator, finished, owed, notified, overlapped, touched>>

StrayActs(request) ==
  /\ stray' = stray \ {request}
  /\ actuator' = [actuator EXCEPT ![request.actuator] = request.value]
  /\ touched' = touched \cup {request.actuator}
  /\ UNCHANGED <<current, call, calls, finished, owed, notified, overlapped>>

\* The end of set_mode: the mode is set under the lock...
Finish(c) ==
  /\ Running(c)
  /\ ~ InSequence(c)
  /\ current' = call[c].mode
  /\ call' = [call EXCEPT ![c] = NoCall]
  /\ finished' = finished + 1
  /\ owed' = owed + 1
  /\ UNCHANGED <<actuator, calls, notified, stray, overlapped, touched>>

\* ... and the watchers are notified after it is released.
Notify ==
  /\ owed > 0
  /\ owed' = owed - 1
  /\ notified' = notified + 1
  /\ UNCHANGED <<current, call, actuator, calls, finished, stray, overlapped, touched>>

ModeNext ==
  \/ \E c \in Callers :
       \/ \E m \in Modes : Begin(c, m)
       \/ Step(c)
       \/ Abandon(c)
       \/ Finish(c)
  \/ Notify
  \/ \E request \in Requests : ActuatorChangeMode(request)
  \/ \E request \in stray : StrayActs(request)

ModeSpec == ModeInit /\ [][ModeNext]_modeVars

-----------------------------------------------------------------------------
ModeTypeOK ==
  /\ current \in Modes \cup {NoMode}
  /\ DOMAIN call = Callers
  /\ \A c \in Callers : Running(c) =>
       /\ call[c].mode \in Modes
       /\ call[c].n \in 1 .. Len(Sequence[call[c].mode]) + 1
       /\ call[c].base \in 0 .. finished
  /\ DOMAIN actuator = Actuators
  /\ finished \in Nat
  /\ calls \in 0 .. MaxCalls
  /\ owed \in Nat
  /\ notified \in Nat
  /\ stray \subseteq Requests
  /\ overlapped \in BOOLEAN
  /\ touched \subseteq Actuators

\* The steps of m that set actuator a, and what the last of them sets it to.
StepsOn(m, a) == {n \in 1 .. Len(Sequence[m]) : Sequence[m][n].actuator = a}
LastSetting(m, a) ==
  Sequence[m][CHOOSE n \in StepsOn(m, a) : \A o \in StepsOn(m, a) : o <= n].value

\* What the settings are once m is reached in the way its configuration says:
\* its own steps on top of those of the mode it has to be entered from.
Leaves[m \in Modes] ==
  [a \in Actuators |-> IF StepsOn(m, a) # {} THEN LastSetting(m, a)
                       ELSE IF Depends[m] = NoMode THEN Unknown
                       ELSE Leaves[Depends[m]][a]]

InState(m) ==
  \A a \in Actuators \ touched : Leaves[m][a] = Unknown \/ actuator[a] = Leaves[m][a]

\* The mode that is reported is the one the board is in: a sequence that was
\* cut short at any step leaves no mode behind, neither its own nor the old, and every
\* actuator has the setting of the mode unless something else has set it since.
\* Calls that overlap can break this: the lock is not held over the sequence, so
\* their steps interleave and the one that ends last reports its mode.
ModeIsReal == current # NoMode /\ ~ overlapped => InState(current)

\* The same whatever else is asked of actuators.  Does not hold: what sets one past the
\* modes does not clear current_mode, be it ActuatorChangeMode or a call that was dropped.
ModeIsAlwaysReal ==
  current # NoMode /\ ~ overlapped =>
    \A a \in Actuators : Leaves[current][a] = Unknown \/ actuator[a] = Leaves[current][a]

\* Of the calls that were let through because the device was in the mode they
\* depend on, no two were let through by the same arrival in that mode: the
\* check and the clearing of current_mode are one critical section.
OneClaimPerArrival ==
  \A c, d \in {e \in Callers : Running(e) /\ Depends[call[e].mode] # NoMode} :
    c # d => call[c].base # call[d].base

\* The mode of a device changes only as a whole, and by one caller at a time.
ModeInv == ModeIsReal /\ OneClaimPerArrival
=============================================================================
