------------------------------- MODULE Inputs -------------------------------
(***************************************************************************)
(* The knob (parts/components/RotaryEncoder.cpp), the push buttons         *)
(* (Button.cpp) and the buttons of the MMU (ADC_Buttons.cpp).              *)
(*                                                                         *)
(* Scripts, keys and timers run in the AVR thread.  The mouse does not:    *)
(* the GLUT callback of the printers (OnMousePress) calls Twist, MousePush *)
(* and Release of the knob from the GL thread.  A twist by the mouse is    *)
(* therefore three steps here, and a tick of the timer two, with the count *)
(* of the pulses read in one step and written in the next.  (Registering a *)
(* timer from the GL thread also races with simavr's list of timers; that  *)
(* list is external and its corruption is left out.)                       *)
(*                                                                         *)
(* A reset of the AVR drops simavr's timers, and tells the parts nothing:  *)
(* their flags and pins stay.  (What the board calls in the turn after a   *)
(* reset, OnAVRReset, are pushes of the knob and of the power panic.)      *)
(***************************************************************************)
EXTENDS Integers

CONSTANT InpModulus     \* one more than the largest m_uiPulseCt: 256 in the code

ASSUME InputsAssumption == InpModulus \in Nat /\ InpModulus > 4 /\ InpModulus % 4 = 0

VARIABLES
  inpDir,           \* m_eDirection
  inpPhase,         \* m_iPhase
  inpPins,          \* the pins OUT_A and OUT_B
  inpPulses,        \* m_uiPulseCt
  inpRunning,       \* m_bTimerRunning
  inpTick,          \* m_fcnStateChange is registered
  inpAvr, inpAvrSeen,            \* the AVR thread: in the timer, and the count it has read
  inpGl, inpGlDir, inpGlSeen,    \* the GL thread: in Twist, its argument, the count it has read
  inpDropped,       \* history: a reset dropped the tick
  inpRest,          \* history: the phase at which the direction was last changed
  inpRaced,         \* history: the two threads have used the count at once
  inpButton,        \* the pin OUT_BUTTON: 0 is pressed
  inpRelease,       \* m_fcnRelease is registered
  inpHeld,          \* history: the last press is one that only a release ends
  inpEarly,         \* history: a release was still registered when that press came
  inpLost           \* history: a reset dropped the release of the press that is still down

inpKnob == <<inpDir, inpPhase, inpPins, inpPulses, inpRunning, inpTick, inpAvr, inpAvrSeen,
             inpGl, inpGlDir, inpGlSeen, inpDropped, inpRest, inpRaced>>
inpKey == <<inpButton, inpRelease, inpHeld, inpEarly, inpLost>>
inpVars == <<inpKnob, inpKey>>

InpDirections == {"CW_CLICK", "CCW_CLICK"}

\* m_States: the pins A and B at each phase
InpStates == [phase \in 0..3 |-> <<IF phase \in {1, 2} THEN 1 ELSE 0,
                                   IF phase \in {2, 3} THEN 1 ELSE 0>>]

\* The pins of the knob start at 0, the value of a fresh IRQ: the button reads as pressed
\* until the reset of the board has pushed and released it.
InpInit ==
  /\ inpDir = "CCW_CLICK" /\ inpPhase = 0 /\ inpPins = <<0, 0>> /\ inpPulses = 0
  /\ inpRunning = FALSE /\ inpTick = FALSE
  /\ inpAvr = "idle" /\ inpAvrSeen = 0
  /\ inpGl = "idle" /\ inpGlDir = "CW_CLICK" /\ inpGlSeen = 0
  /\ inpDropped = FALSE /\ inpRest = 0 /\ inpRaced = FALSE
  /\ inpButton = 0 /\ inpRelease = FALSE /\ inpHeld = TRUE /\ inpEarly = FALSE
  /\ inpLost = FALSE

\* Whether a step of one thread comes inside the work of the other.
InpNoteRace(other) == inpRaced' = (inpRaced \/ other # "idle")

\* Twist: the count, given the count that was read.
InpCount(dir, seen) ==
  /\ inpDir' = dir
  /\ IF inpDir = dir THEN inpPulses' = (seen + 4) % InpModulus /\ UNCHANGED inpRest
                     ELSE inpPulses' = 4 /\ inpRest' = inpPhase
\* Twist: the timer, unless it runs.
InpStartTimer ==
  /\ inpRunning' = TRUE
  /\ inpTick' = (inpTick \/ ~inpRunning)

\* Twist in the AVR thread: OnKeyPress and ProcessAction
InpTwist ==
  /\ inpAvr = "idle"
  /\ \E dir \in InpDirections : InpCount(dir, inpPulses)
  /\ InpStartTimer /\ InpNoteRace(inpGl)
  /\ UNCHANGED <<inpPhase, inpPins, inpAvr, inpAvrSeen, inpGl, inpGlDir, inpGlSeen, inpDropped,
                 inpKey>>

\* Twist in the GL thread
InpMouseTwist ==
  /\ inpGl = "idle" /\ inpGl' = "count" /\ inpGlDir' \in InpDirections
  /\ inpGlSeen' = inpPulses
  /\ InpNoteRace(inpAvr)
  /\ UNCHANGED <<inpDir, inpPhase, inpPins, inpPulses, inpRunning, inpTick, inpAvr, inpAvrSeen,
                 inpDropped, inpRest, inpKey>>
InpMouseCount ==
  /\ inpGl = "count" /\ inpGl' = "timer"
  /\ InpCount(inpGlDir, inpGlSeen)
  /\ inpGlSeen' = 0 /\ InpNoteRace(inpAvr)
  /\ UNCHANGED <<inpPhase, inpPins, inpRunning, inpTick, inpAvr, inpAvrSeen, inpGlDir, inpDropped,
                 inpKey>>
InpMouseTimer ==
  /\ inpGl = "timer" /\ inpGl' = "idle" /\ inpGlDir' = "CW_CLICK"
  /\ InpStartTimer
  /\ InpNoteRace(inpAvr)
  /\ UNCHANGED <<inpDir, inpPhase, inpPins, inpPulses, inpAvr, inpAvrSeen, inpGlSeen, inpDropped,
                 inpRest, inpKey>>

\* OnStateChangeTimer: the phase and its pins
InpTimer ==
  /\ inpAvr = "idle" /\ inpTick
  /\ inpPhase' = (inpPhase + (IF inpDir = "CW_CLICK" THEN 1 ELSE 3)) % 4
  /\ inpPins' = InpStates[inpPhase']
  /\ inpTick' = FALSE
  /\ inpAvr' = "count" /\ inpAvrSeen' = inpPulses
  /\ InpNoteRace(inpGl)
  /\ UNCHANGED <<inpDir, inpPulses, inpRunning, inpGl, inpGlDir, inpGlSeen, inpDropped, inpRest,
                 inpKey>>

\* (A definition named Mut... is the one after it with a plausible mistake in it.)
MutInpTimerEnd ==
  /\ inpAvr = "count" /\ inpAvr' = "idle"
  /\ inpPulses' = (inpAvrSeen + InpModulus - 1) % InpModulus
  /\ inpTick' = (inpPulses' > 0) /\ UNCHANGED inpRunning
  /\ inpAvrSeen' = 0 /\ InpNoteRace(inpGl)
  /\ UNCHANGED <<inpDir, inpPhase, inpPins, inpGl, inpGlDir, inpGlSeen, inpDropped, inpRest, inpKey>>
\* OnStateChangeTimer: the count, and the next tick
InpTimerEnd ==
  /\ inpAvr = "count" /\ inpAvr' = "idle"
  /\ inpPulses' = (inpAvrSeen + InpModulus - 1) % InpModulus
  /\ IF inpPulses' > 0 THEN inpTick' = TRUE /\ UNCHANGED inpRunning
                       ELSE inpRunning' = FALSE /\ UNCHANGED inpTick
  /\ inpAvrSeen' = 0 /\ InpNoteRace(inpGl)
  /\ UNCHANGED <<inpDir, inpPhase, inpPins, inpGl, inpGlDir, inpGlSeen, inpDropped, inpRest, inpKey>>

\* _Push: Push and PushAndHold, which also the reset of the board calls.  Registering the
\* release replaces one that was registered.
InpPush ==
  /\ inpButton' = 0 /\ inpRelease' = TRUE /\ inpHeld' = FALSE /\ inpEarly' = FALSE
  /\ inpLost' = FALSE
  /\ UNCHANGED inpKnob
\* MousePush: a script, the mouse, or the reset of the board for a factory reset
InpMousePush ==
  /\ inpButton' = 0 /\ inpHeld' = TRUE /\ inpEarly' = inpRelease
  /\ inpLost' = FALSE
  /\ UNCHANGED <<inpRelease, inpKnob>>
\* Release: the release that a push has registered stays registered.
InpReleaseButton ==
  /\ inpButton' = 1 /\ inpHeld' = FALSE /\ inpLost' = FALSE
  /\ UNCHANGED <<inpRelease, inpEarly, inpKnob>>
\* OnButtonReleaseTimer
InpReleaseTimer ==
  /\ inpRelease /\ inpRelease' = FALSE /\ inpButton' = 1
  /\ UNCHANGED <<inpHeld, inpEarly, inpLost, inpKnob>>

\* avr_reset: both timers are dropped; m_bTimerRunning, the count and the pins stay.
InpAvrReset ==
  /\ inpAvr = "idle"
  /\ inpTick' = FALSE /\ inpDropped' = (inpDropped \/ inpTick)
  /\ inpRelease' = FALSE /\ inpEarly' = (inpEarly /\ ~inpRelease)
  /\ inpLost' = (inpLost \/ (inpRelease /\ inpButton = 0 /\ ~inpHeld))
  /\ UNCHANGED <<inpDir, inpPhase, inpPins, inpPulses, inpRunning, inpAvr, inpAvrSeen, inpGl,
                 inpGlDir, inpGlSeen, inpRest, inpRaced, inpButton, inpHeld>>

InpNext ==
  \/ InpTwist \/ InpMouseTwist \/ InpMouseCount \/ InpMouseTimer \/ InpTimer \/ InpTimerEnd
  \/ InpPush \/ InpMousePush \/ InpReleaseButton \/ InpReleaseTimer \/ InpAvrReset

InpSpec == InpInit /\ [][InpNext]_inpVars

InpTypeOK ==
  /\ inpDir \in InpDirections /\ inpPhase \in 0..3 /\ inpPins \in (0..1) \X (0..1)
  /\ inpPulses \in 0..(InpModulus - 1) /\ inpRunning \in BOOLEAN /\ inpTick \in BOOLEAN
  /\ inpAvr \in {"idle", "count"} /\ inpAvrSeen \in 0..(InpModulus - 1)
  /\ inpGl \in {"idle", "count", "timer"} /\ inpGlDir \in InpDirections
  /\ inpGlSeen \in 0..(InpModulus - 1) /\ inpDropped \in BOOLEAN /\ inpRest \in 0..3
  /\ inpRaced \in BOOLEAN
  /\ inpButton \in 0..1 /\ inpRelease \in BOOLEAN /\ inpHeld \in BOOLEAN /\ inpEarly \in BOOLEAN
  /\ inpLost \in BOOLEAN

-----------------------------------------------------------------------------
\* The phase at which the pulses that are left will end.
InpEnd == (inpPhase + (IF inpDir = "CW_CLICK" THEN inpPulses ELSE 3 * inpPulses)) % 4

\* The knob settles, unless a reset of the AVR comes in the middle of a twist: that leaves it
\* dead for good, and nothing else does.  As long as the two threads have not used the count
\* at once, the pulses that are left - also when their count has wrapped - end at the phase
\* at which the direction was last changed, and the knob runs while there are some.  What
\* runs has a tick to come, except after a reset that dropped one: then m_bTimerRunning stays
\* set, no twist registers a tick again, and the pulses wait for ever.
\* The button comes up again: while its pin is low, its release is registered or somebody
\* holds it, and the one other case is that a reset dropped its release (it is down until it
\* is pushed or released again, as the board does after a reset).  Nothing takes it from who
\* holds it but a release that was registered before and that no reset dropped.
InpSettles ==
  /\ inpPins = InpStates[inpPhase]
  /\ ~inpRaced /\ inpAvr = "idle" /\ inpGl = "idle" =>
       /\ InpEnd = inpRest
       /\ inpPulses > 0 => inpRunning
  /\ inpAvr = "idle" =>
       /\ inpTick => inpRunning
       /\ inpRunning /\ ~inpTick <=> inpDropped
  /\ inpButton = 0 /\ ~inpRelease /\ ~inpHeld <=> inpLost
  /\ inpHeld /\ ~inpEarly => inpButton = 0

-----------------------------------------------------------------------------
(* A Button and the ADC_Buttons; all of it runs in the AVR thread.         *)

VARIABLES
  btnToggle,        \* m_bIsToggle, set when the printer is built
  btnOut,           \* the pin BUTTON_OUT: 0 is pressed
  btnRelease,       \* m_fcnRelease of the Button is registered
  btnHeld,          \* history: the last press came from a script that did not release it
  btnEarly,         \* history: a release was still registered when that press came
  btnLost,          \* history: a reset dropped the release of the press that is still down
  adcButton,        \* m_uiCurBtn of the ADC_Buttons: 0 is none
  adcRelease,       \* m_fcnRelease of the ADC_Buttons is registered
  adcLost           \* history: a reset dropped the release of that button

btnPin == <<btnToggle, btnOut, btnRelease, btnHeld, btnEarly, btnLost>>
adcPin == <<adcButton, adcRelease, adcLost>>
btnVars == <<btnPin, adcPin>>

BtnInit ==
  /\ btnToggle \in BOOLEAN
  /\ btnOut = 0 /\ btnRelease = FALSE /\ btnHeld = TRUE /\ btnEarly = FALSE
  /\ btnLost = FALSE
  /\ adcButton = 0 /\ adcRelease = FALSE /\ adcLost = FALSE

\* Press: OnKeyPress, ActPressAndRelease, and the reset of the board
BtnPress ==
  /\ IF btnToggle THEN btnOut' = 1 - btnOut /\ btnRelease' = FALSE
                  ELSE btnOut' = 0 /\ btnRelease' = TRUE
  /\ btnHeld' = FALSE /\ btnEarly' = FALSE /\ btnLost' = FALSE
  /\ UNCHANGED <<btnToggle, adcPin>>
\* ActPress, ActRelease: neither touches the timer.
BtnHold ==
  /\ btnOut' = 0 /\ btnHeld' = TRUE /\ btnEarly' = btnRelease /\ btnLost' = FALSE
  /\ UNCHANGED <<btnToggle, btnRelease, adcPin>>
BtnLetGo ==
  /\ btnOut' = 1 /\ btnHeld' = FALSE /\ btnLost' = FALSE
  /\ UNCHANGED <<btnToggle, btnRelease, btnEarly, adcPin>>
\* AutoRelease
BtnAutoRelease ==
  /\ btnRelease /\ btnRelease' = FALSE /\ btnOut' = 1
  /\ UNCHANGED <<btnToggle, btnHeld, btnEarly, btnLost, adcPin>>

\* ADC_Buttons: Push, AutoRelease
AdcPush ==
  /\ adcButton' \in 1..3 /\ adcRelease' = TRUE /\ adcLost' = FALSE
  /\ UNCHANGED btnPin
AdcAutoRelease ==
  /\ adcRelease /\ adcRelease' = FALSE /\ adcButton' = 0
  /\ UNCHANGED <<adcLost, btnPin>>

\* avr_reset: both releases are dropped, and the buttons stay as they are.
BtnAvrReset ==
  /\ btnRelease' = FALSE /\ btnEarly' = (btnEarly /\ ~btnRelease)
  /\ btnLost' = (btnLost \/ (btnRelease /\ btnOut = 0 /\ ~btnHeld))
  /\ adcRelease' = FALSE /\ adcLost' = (adcLost \/ adcRelease)
  /\ UNCHANGED <<btnToggle, btnOut, btnHeld, adcButton>>

BtnNext ==
  \/ BtnPress \/ BtnHold \/ BtnLetGo \/ BtnAutoRelease \/ AdcPush \/ AdcAutoRelease
  \/ BtnAvrReset

BtnSpec == BtnInit /\ [][BtnNext]_btnVars

BtnTypeOK ==
  /\ btnToggle \in BOOLEAN /\ btnOut \in 0..1 /\ btnRelease \in BOOLEAN
  /\ btnHeld \in BOOLEAN /\ btnEarly \in BOOLEAN /\ btnLost \in BOOLEAN
  /\ adcButton \in 0..3 /\ adcRelease \in BOOLEAN /\ adcLost \in BOOLEAN

\* The same of a Button: it comes up again unless it is held or a toggle or a reset of the
\* AVR dropped its release, and nothing takes it from a script that holds it but a release
\* that was registered before and not dropped.  A button of the MMU that is down will come
\* up, but for the same reset: after that it stays pressed until the next push.
BtnSettles ==
  /\ btnOut = 0 /\ ~btnRelease /\ ~btnHeld /\ ~btnToggle <=> btnLost
  /\ btnHeld /\ ~btnEarly => btnOut = 0
  /\ adcButton # 0 /\ ~adcRelease <=> adcLost

=============================================================================
