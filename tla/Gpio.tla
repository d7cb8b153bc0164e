-------------------------------- MODULE Gpio --------------------------------
(***************************************************************************)
(* The provider of GPIO actuators (gpio.rs).  It takes the first chip that *)
(* matches, sets up the lines of its configuration one after another, and  *)
(* looks at no other chip until that one is removed.  Its loop waits while *)
(* a chip is set up.  What a line cannot be asked for is unwrapped: the    *)
(* task of the provider panics and is gone.                                *)
(***************************************************************************)
EXTENDS UdevEvents, FiniteSets

CONSTANTS NoChip,     \* no chip
          ByNumber,   \* the lines configured by number, in their order
          ByName,     \* the lines with a name that is configured
          NumLines    \* lines of a chip

Chips == [path : Paths, seq : 0 .. MaxSeq]

ASSUME GpioAssumption ==
  /\ NumLines \in Nat /\ ByNumber \in Seq(Nat) /\ ByName \subseteq Nat
  /\ NoChip \notin Chips

VARIABLES registration,   \* the chip registered, or NoChip
          setup,          \* the chip that is set up, or NoChip
          left,           \* the lines by number that are still to be set up
          at,             \* the line that the search by name is at
          actuators,      \* what is in the server's registry: lines of chips
          panicked        \* the provider's task is gone

gpioVars == <<registration, setup, left, at, actuators, panicked>>

Chip(p, s) == [path |-> p, seq |-> s]
Line(chip, l) == [chip |-> chip, line |-> l]
LinesOf(chip) == {a \in actuators : a.chip = chip}
Waiting == ~ panicked /\ setup = NoChip

\* Named lines are searched from line 1, if there are any.
NamedLines == ByName \cap 1 .. NumLines - 1
Searching == left = << >> /\ ByName # {} /\ at < NumLines

-----------------------------------------------------------------------------
GpioInit ==
  /\ UdevInit
  /\ registration = NoChip /\ setup = NoChip /\ left = << >> /\ at = 1
  /\ actuators = {} /\ panicked = FALSE

\* A wrong AddChip: a chip is taken whether or not there is one.
AddAnyChip(p, s) ==
  /\ Waiting
  /\ GiveAdd(p, s)
  /\ setup' = Chip(p, s) /\ left' = ByNumber /\ at' = 1
  /\ UNCHANGED <<registration, actuators, panicked>>

\* DeviceEvent::Add, when there is no chip yet; it may not match, or not open.
AddChip(p, s) ==
  /\ Waiting
  /\ GiveAdd(p, s)
  /\ IF registration # NoChip
     THEN UNCHANGED <<setup, left, at>>
     ELSE \/ UNCHANGED <<setup, left, at>>
          \/ setup' = Chip(p, s) /\ left' = ByNumber /\ at' = 1
  /\ UNCHANGED <<registration, actuators, panicked>>

\* setup_gpio_line: a line can be had once.
Request(l) ==
  /\ l \in 0 .. NumLines - 1
  /\ Line(setup, l) \notin actuators
  /\ actuators' = actuators \cup {Line(setup, l)}

SetupLine ==
  /\ setup # NoChip /\ ~ panicked /\ left # << >>
  /\ Request(Head(left))
  /\ left' = Tail(left)
  /\ UNCHANGED <<registration, setup, at, panicked, udevVars>>

\* A line is looked at, and set up if its name is configured.
SearchLine ==
  /\ setup # NoChip /\ ~ panicked /\ Searching
  /\ IF at \in ByName THEN Request(at) ELSE UNCHANGED actuators
  /\ at' = at + 1
  /\ UNCHANGED <<registration, setup, left, panicked, udevVars>>

\* line_info() or request_lines() fails: no such line, it is in use (as one
\* configured twice is), or the chip is gone.
SetupPanics ==
  /\ setup # NoChip /\ ~ panicked
  /\ left # << >> \/ Searching
  /\ panicked' = TRUE
  /\ UNCHANGED <<registration, setup, left, at, actuators, udevVars>>

ChipIsSet ==
  /\ setup # NoChip /\ ~ panicked /\ left = << >> /\ ~ Searching
  /\ registration' = setup
  /\ setup' = NoChip
  /\ UNCHANGED <<left, at, actuators, panicked, udevVars>>

\* A wrong RemoveChip: any chip that goes is taken for the one registered.
RemoveAnyChip(p) ==
  /\ Waiting
  /\ GiveRemove(p)
  /\ registration' = NoChip
  /\ UNCHANGED <<setup, left, at, actuators, panicked>>

\* DeviceEvent::Remove
RemoveChip(p) ==
  /\ Waiting
  /\ GiveRemove(p)
  /\ IF registration # NoChip /\ registration.path = p
     THEN registration' = NoChip /\ actuators' = actuators \ LinesOf(registration)
     ELSE UNCHANGED <<registration, actuators>>
  /\ UNCHANGED <<setup, left, at, panicked>>

GpioStep ==
  \/ \E p \in Paths, s \in 0 .. MaxSeq : AddChip(p, s)
  \/ SetupLine \/ SearchLine \/ SetupPanics \/ ChipIsSet
  \/ \E p \in Paths : RemoveChip(p)

GpioNext == GpioStep \/ ((KernelStep \/ Listen \/ Scan) /\ UNCHANGED gpioVars)

GpioSpec == GpioInit /\ [][GpioNext]_<<udevVars, gpioVars>>

-----------------------------------------------------------------------------
GpioTypeOK ==
  /\ UdevTypeOK
  /\ registration \in Chips \cup {NoChip} /\ setup \in Chips \cup {NoChip}
  /\ left \in Seq(Nat) /\ at \in Nat /\ panicked \in BOOLEAN
  /\ actuators \subseteq [chip : Chips, line : 0 .. NumLines - 1]

\* "the gpiochip that should be used": whatever appears, however often, and in
\* whichever order, the lines offered are those of one appearance of one chip.
OneChip == \A a, b \in actuators : a.chip = b.chip

\* A provider that has not panicked and has been given everything offers all
\* configured lines of a chip that is there, or nothing.
WholeChipOrNone ==
  Waiting => /\ actuators = LinesOf(registration)
             /\ Cardinality(actuators) =
                  IF registration = NoChip
                  THEN 0 ELSE Len(ByNumber) + Cardinality(NamedLines)
             /\ AllGiven => \A a \in actuators : a.chip.path \in plugged

\* The lines of one chip, all of them, as long as it is there.
GpioInv == GpioTypeOK /\ OneChip /\ WholeChipOrNone

\* A chip that goes takes its lines along.  Does not hold: when one line cannot be
\* had, the provider panics, and the lines before it stay.
GoneTakesLines == AllGiven => \A a \in actuators : a.chip.path \in plugged

\* Every line that is configured by name is found.  Does not hold for line 0.
NamesAreFound == ByName \cap 0 .. NumLines - 1 \subseteq NamedLines
=============================================================================
