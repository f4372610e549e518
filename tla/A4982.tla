------------------------------- MODULE A4982 -------------------------------
(***************************************************************************)
(* The stepper driver of the RAMBo boards (parts/components/A4982.cpp):    *)
(* the pins of the firmware, the delay with which it wakes, and the two    *)
(* end switches.  All of it runs in the AVR thread.  Positions are in      *)
(* sixteenths of a step; the motor has end switches (a motor without them  *)
(* is only counted); drawing and telemetry are left out.  A reset of the   *)
(* AVR drops the timer and changes no pin.                                 *)
(***************************************************************************)
EXTENDS Integers

CONSTANTS
  A4MaxPos, A4Start,     \* m_iMaxPos, and the position of fStartPos
  A4Inverted             \* bInverted

\* A rail is longer than two full steps (the boards' shortest is 20 mm): on a shorter one a
\* step away from the far end could reach the near one with MAX_OUT still on.
ASSUME A4982Assumption ==
  A4MaxPos \in Nat /\ A4MaxPos >= 32 /\ A4Start \in 0..A4MaxPos /\ A4Inverted \in BOOLEAN

VARIABLES
  a4Enable, a4Reset, a4Sleep,    \* m_bEnable, m_bReset, m_bSleep
  a4Dir, a4Size,                 \* m_bDir, m_uiStepSize
  a4Pos,                         \* m_iCurStep
  a4Min, a4Max,                  \* the pins MIN_OUT and MAX_OUT
  a4Wakeup,                      \* m_fcnWakeup is registered
  a4SleepPin, a4Ms,              \* the pin SLEEP_IN; the pins MS1_IN and MS2_IN
  a4Hasty,                       \* history: SLEEP_IN was set again before the motor woke
  a4Lost                         \* history: a reset dropped the wakeup the driver waits for

a4Vars == <<a4Enable, a4Reset, a4Sleep, a4Dir, a4Size, a4Pos, a4Min, a4Max, a4Wakeup,
            a4SleepPin, a4Ms, a4Hasty, a4Lost>>
a4Pins == <<a4Enable, a4Reset, a4Dir, a4SleepPin, a4Ms>>
a4Motor == <<a4Pos, a4Min, a4Max, a4Size>>
a4Power == <<a4Sleep, a4Wakeup, a4Hasty, a4Lost>>

\* The constructor and Init, which ends with both switches off.
A4Init ==
  /\ a4Enable = FALSE /\ a4Reset = FALSE /\ a4Sleep = FALSE
  /\ a4Dir = FALSE /\ a4Size = 16 /\ a4Pos = A4Start /\ a4Min = 0 /\ a4Max = 0
  /\ a4Wakeup = FALSE /\ a4SleepPin = 0 /\ a4Ms = <<0, 0>> /\ a4Hasty = FALSE
  /\ a4Lost = FALSE

\* (A definition named Mut... is the one after it with a plausible mistake in it.)
MutA4CheckEndstops(pos) ==
  CASE pos <= 0 -> a4Pos' = 0 /\ a4Min' = 1 /\ UNCHANGED a4Max
    [] pos > A4MaxPos -> a4Pos' = A4MaxPos /\ a4Max' = 1 /\ UNCHANGED a4Min
    [] OTHER -> a4Pos' = pos /\ a4Min' = 0 /\ UNCHANGED a4Max
\* CheckEndstops
A4CheckEndstops(pos) ==
  CASE pos <= 0 -> a4Pos' = 0 /\ a4Min' = 1 /\ UNCHANGED a4Max
    [] pos > A4MaxPos -> a4Pos' = A4MaxPos /\ a4Max' = 1 /\ UNCHANGED a4Min
    [] OTHER -> a4Pos' = pos /\ a4Min' = 0 /\ a4Max' = 0

\* OnStepIn, for a rise of the pin: the others change nothing.
A4StepIn ==
  /\ a4Enable /\ ~a4Sleep /\ ~a4Reset
  /\ A4CheckEndstops(IF a4Dir THEN a4Pos - a4Size ELSE a4Pos + a4Size)
  /\ UNCHANGED <<a4Pins, a4Power, a4Size>>

\* OnDirIn, OnEnableIn, OnResetIn
A4DirIn ==
  /\ \E value \in BOOLEAN : a4Dir' = (value # A4Inverted)
  /\ UNCHANGED <<a4Enable, a4Reset, a4SleepPin, a4Ms, a4Motor, a4Power>>
A4EnableIn ==
  /\ a4Enable' = ~a4Enable
  /\ UNCHANGED <<a4Dir, a4Reset, a4SleepPin, a4Ms, a4Motor, a4Power>>
A4ResetIn ==
  /\ a4Reset' = ~a4Reset
  /\ UNCHANGED <<a4Dir, a4Enable, a4SleepPin, a4Ms, a4Motor, a4Power>>

\* OnSleepIn; the pin is filtered.  Setting it again leaves a wakeup registered.
A4SleepIn ==
  /\ a4SleepPin' = 1 - a4SleepPin
  /\ IF a4SleepPin' = 1 THEN a4Sleep' = TRUE /\ UNCHANGED a4Wakeup
                        ELSE a4Wakeup' = TRUE /\ UNCHANGED a4Sleep
  /\ a4Hasty' = (a4SleepPin' = 1 /\ a4Wakeup) /\ a4Lost' = FALSE
  /\ UNCHANGED <<a4Dir, a4Enable, a4Reset, a4Ms, a4Motor>>

MutA4OnWakeup ==
  /\ a4Wakeup /\ a4Wakeup' = FALSE
  /\ a4Sleep' = (a4Sleep /\ ~a4Enable)
  /\ UNCHANGED <<a4Pins, a4Motor, a4Hasty, a4Lost>>
\* OnWakeup, one millisecond after the pin was cleared.
A4OnWakeup ==
  /\ a4Wakeup /\ a4Wakeup' = FALSE
  /\ a4Sleep' = FALSE
  /\ UNCHANGED <<a4Pins, a4Motor, a4Hasty, a4Lost>>

\* avr_reset
A4AvrReset ==
  /\ a4Wakeup' = FALSE
  /\ a4Hasty' = (a4Hasty /\ ~a4Wakeup)
  /\ a4Lost' = (a4Lost \/ (a4Wakeup /\ a4Sleep /\ a4SleepPin = 0))
  /\ UNCHANGED <<a4Pins, a4Motor, a4Sleep>>

A4Sizes ==
  [ms \in (0..1) \X (0..1) |-> IF ms = <<0, 0>> THEN 16 ELSE IF ms = <<1, 0>> THEN 8
                                ELSE IF ms = <<0, 1>> THEN 4 ELSE 1]

\* OnMSIn: the position is rounded down to the new size, and the switches are not looked at.
A4MSIn ==
  /\ \E i \in 1..2 : a4Ms' = [a4Ms EXCEPT ![i] = 1 - @]
  /\ a4Size' = A4Sizes[a4Ms']
  /\ a4Pos' = (a4Pos \div a4Size') * a4Size'
  /\ UNCHANGED <<a4Dir, a4Enable, a4Reset, a4SleepPin, a4Power, a4Min, a4Max>>

A4Next ==
  \/ A4StepIn \/ A4DirIn \/ A4EnableIn \/ A4ResetIn \/ A4SleepIn \/ A4OnWakeup \/ A4MSIn
  \/ A4AvrReset

A4Spec == A4Init /\ [][A4Next]_a4Vars

-----------------------------------------------------------------------------
A4TypeOK ==
  /\ a4Enable \in BOOLEAN /\ a4Reset \in BOOLEAN /\ a4Sleep \in BOOLEAN /\ a4Dir \in BOOLEAN
  /\ a4Size \in {16, 8, 4, 1} /\ a4Pos \in 0..A4MaxPos /\ a4Min \in 0..1 /\ a4Max \in 0..1
  /\ a4Wakeup \in BOOLEAN /\ a4SleepPin \in 0..1 /\ a4Ms \in (0..1) \X (0..1) /\ a4Hasty \in BOOLEAN
  /\ a4Lost \in BOOLEAN

\* The end switches tell the truth whatever the sizes of the steps were, although a step
\* clears them only when it ends between the two: MIN_OUT is on at position 0 only, MAX_OUT
\* only within one full step of the far end (to which a change of the size may round the
\* position down, without looking at the switches), and they are never on together.
A4Ends ==
  /\ a4Min = 1 => a4Pos = 0 /\ a4Max = 0
  /\ a4Max = 1 => a4Pos > A4MaxPos - 16

\* While SLEEP_IN is set the driver sleeps - unless it was set again before the motor had
\* woken: then the old timer still runs, and wakes it.  While SLEEP_IN is clear the driver is
\* awake or will be when its timer ends - unless a reset of the AVR dropped the timer: then,
\* and only then, it sleeps with nothing to wake it, and takes no step, until SLEEP_IN is set
\* and cleared again.
A4SleepHonest ==
  /\ a4SleepPin = 1 /\ ~a4Hasty => a4Sleep
  /\ a4SleepPin = 0 /\ a4Sleep /\ ~a4Wakeup <=> a4Lost
=============================================================================
