------------------------------ MODULE Thermal -------------------------------
(***************************************************************************)
(* The heaters (parts/components/Heater.cpp) and the fans (Fan.cpp, with   *)
(* the soft PWM of SoftPWMable.cpp) of the printers.  All of it runs in    *)
(* the AVR thread.  A callback on a pin still reads the pin's old value:   *)
(* simavr stores the new one after the callbacks.  avr_reset drops all the *)
(* timers; the parts keep what they have and raise nothing.                *)
(*                                                                         *)
(* The temperature of a heater is in degrees above the ambient, heats by   *)
(* one and cools by one; the powers are a few of the 256.                  *)
(***************************************************************************)
EXTENDS Integers

CONSTANTS
  HeatMax,      \* bound: the temperature, which the code does not bound
  ThPowers,     \* the values of a PWM, with 0 and 255
  FanMaxRpm,    \* m_uiMaxRPM
  FanSoftTimes  \* the times a soft PWM is on, in units of m_uiPrescale

\* A speed, and the time of a pulse, have sixteen bits.
Word16 == 65536

ASSUME ThermalAssumption ==
  /\ HeatMax \in Nat /\ HeatMax > 0 /\ FanMaxRpm \in 1..(Word16 - 1)
  /\ {0, 255} \subseteq ThPowers /\ ThPowers \subseteq 0..255 /\ FanSoftTimes \subseteq Nat

VARIABLES
  heatTemp,           \* m_fCurrentTemp
  heatPwm, heatAuto,  \* m_uiPWM, m_bAuto
  heatStop,           \* m_bStopTicking
  heatTick,           \* m_fcnTempTick is registered
  heatOn,             \* ON_OUT
  heatHotend,         \* it is hExtruder of an EinsyRambo, not a bed or of a MiniRambo
  heatLost,           \* history: a tick came while the heater was stopped, and none since
  heatDropped         \* history: a reset of the AVR dropped the tick, and none was registered since

heatVars == <<heatTemp, heatPwm, heatAuto, heatStop, heatTick, heatOn, heatHotend, heatLost,
              heatDropped>>

HeatInit ==
  /\ heatHotend \in BOOLEAN /\ heatDropped = FALSE
  /\ heatTemp = 0 /\ heatPwm = 0 /\ heatAuto = TRUE /\ heatStop = FALSE
  /\ heatTick = FALSE /\ heatOn = 0 /\ heatLost = FALSE

\* OnTempTick
HeatOnTempTick ==
  /\ heatTick
  /\ IF heatStop
     THEN heatTick' = FALSE /\ heatLost' = TRUE /\ UNCHANGED heatTemp
     ELSE /\ heatTemp < HeatMax \/ heatPwm = 0
          /\ heatTemp' = (IF heatPwm > 0 THEN heatTemp + 1
                          ELSE IF heatTemp > 0 THEN heatTemp - 1 ELSE 0)
          /\ heatTick' = (heatPwm > 0 \/ heatTemp' > 0)
          /\ UNCHANGED heatLost
  /\ UNCHANGED <<heatPwm, heatAuto, heatStop, heatOn, heatHotend, heatDropped>>

HeatRegisterTick == heatTick' = TRUE /\ heatLost' = FALSE /\ heatDropped' = FALSE

\* (A definition named Mut... is the one after it with a plausible mistake in it.)
MutHeatPWMChanged(pwm) ==
  /\ heatPwm' = pwm
  /\ IF pwm > 0 THEN HeatRegisterTick ELSE heatTick' = FALSE /\ UNCHANGED <<heatLost, heatDropped>>
  /\ heatOn' = (IF pwm > 0 THEN 1 ELSE 0)
\* OnPWMChanged, with the power that then applies: a power turned off cancels no tick.
HeatPWMChanged(pwm) ==
  /\ heatPwm' = pwm
  /\ IF pwm > 0 THEN HeatRegisterTick ELSE UNCHANGED <<heatTick, heatLost, heatDropped>>
  /\ heatOn' = (IF pwm > 0 THEN 1 ELSE 0)

\* PWM_IN, and DIGITAL_IN, which OnDigitalChanged makes a power of 0 or 255: a bed's by the
\* inversion bit of its timer.
HeatPWMIn ==
  /\ \E pwm \in ThPowers : HeatPWMChanged(IF heatAuto THEN pwm ELSE heatPwm)
  /\ UNCHANGED <<heatTemp, heatAuto, heatStop, heatHotend>>
\* Set
HeatSet ==
  /\ heatAuto' = FALSE
  /\ \E pwm \in ThPowers : HeatPWMChanged(pwm)
  /\ UNCHANGED <<heatTemp, heatStop, heatHotend>>
\* Resume_Auto raises PWM_IN with the power that was set.
HeatResumeAuto ==
  /\ heatAuto' = TRUE /\ heatStop' = FALSE
  /\ HeatPWMChanged(heatPwm)
  /\ UNCHANGED <<heatTemp, heatHotend>>
\* ActStopHeating
HeatStopHeating ==
  /\ heatStop' = TRUE
  /\ UNCHANGED <<heatTemp, heatPwm, heatAuto, heatTick, heatOn, heatHotend, heatLost, heatDropped>>
\* avr_reset
HeatAvrReset ==
  /\ heatTick' = FALSE /\ heatDropped' = (heatDropped \/ heatTick)
  /\ UNCHANGED <<heatTemp, heatPwm, heatAuto, heatStop, heatOn, heatHotend, heatLost>>
\* Reset, by the hook that the board calls in some turn after a reset, or does not call.
HeatReset ==
  /\ heatHotend /\ HeatRegisterTick
  /\ UNCHANGED <<heatTemp, heatPwm, heatAuto, heatStop, heatOn, heatHotend>>

HeatNext ==
  \/ HeatOnTempTick \/ HeatPWMIn \/ HeatSet \/ HeatResumeAuto \/ HeatStopHeating
  \/ HeatAvrReset \/ HeatReset

HeatSpec == HeatInit /\ [][HeatNext]_heatVars

HeatTypeOK ==
  /\ heatTemp \in 0..HeatMax /\ heatPwm \in ThPowers /\ heatAuto \in BOOLEAN
  /\ {heatStop, heatTick, heatHotend, heatLost, heatDropped} \subseteq BOOLEAN /\ heatOn \in 0..1

-----------------------------------------------------------------------------
(* A fan: its PWM may be of hardware or of software, or it may be taken    *)
(* only when the line that enables the fan changes.                        *)

VARIABLES
  fanKind,               \* bIsSoftPWM and bIsEnableCtl
  fanAuto,               \* m_bAuto
  fanPwm,                \* m_uiPWM
  fanRpm,                \* m_uiCurrentRPM
  fanTach,               \* m_fcnTachChange is registered
  fanDelay, fanDelayVal, \* m_fcnFanDelay is registered, m_bDigiDelayVal
  fanTimeout,            \* m_fcnSoftTimeout is registered
  fanPwmPin, fanDigital, fanEnable,   \* the pins PWM_IN, DIGITAL_IN and ENABLE_IN
  fanWrapped,            \* history: the last power did not fit m_uiPWM
  fanDropped,            \* history: a reset of the AVR dropped the tach since a power was applied
  fanApplied             \* history: the power was applied since Set or Resume_Auto

fanPins == <<fanPwmPin, fanDigital, fanEnable>>
fanMotor == <<fanPwm, fanRpm, fanTach, fanWrapped, fanDropped, fanApplied>>
fanTimers == <<fanDelay, fanDelayVal, fanTimeout>>
fanVars == <<fanKind, fanAuto, fanMotor, fanTimers, fanPins>>

FanInit ==
  /\ fanKind \in {"hard", "soft", "enable"}
  /\ fanAuto = TRUE /\ fanPwm = 0 /\ fanRpm = 0 /\ fanTach = FALSE
  /\ fanDelay = FALSE /\ fanDelayVal = FALSE /\ fanTimeout = FALSE
  /\ fanPwmPin = 0 /\ fanDigital = 0 /\ fanEnable = 0
  /\ fanWrapped = FALSE /\ fanDropped = FALSE /\ fanApplied = TRUE

\* m_uiMaxRPM * value / 255, in sixteen bits
FanSpeed(value) == ((FanMaxRpm * value) \div 255) % Word16

\* OnPWMChange, when the rpm of the user is rpm: the tach follows the speed.
FanPWMChange(value, auto, rpm) ==
  /\ fanPwm' = value % 256
  /\ fanRpm' = IF auto THEN FanSpeed(value) ELSE rpm
  /\ fanTach' = (fanRpm' > 0)
  /\ fanWrapped' = (value > 255) /\ fanDropped' = FALSE /\ fanApplied' = TRUE

\* OnEnableChange, when auto and rpm are the control and the rpm of the user.  A power that
\* may still change, or one that is the same, is not applied now.
FanEnableChange(enable, auto, rpm) ==
  LET late == enable = 1 /\ (fanDigital = 1 \/ fanPwmPin = 0)
      value == IF enable = 1 THEN fanPwmPin ELSE 0
  IN /\ fanDelay' = late
     /\ fanDelayVal' = IF late THEN fanDigital = 1 ELSE fanDelayVal
     /\ UNCHANGED fanTimeout
     /\ IF ~late /\ value # fanPwm THEN FanPWMChange(value, auto, rpm)
        ELSE /\ fanRpm' = rpm /\ fanApplied' = (fanApplied /\ auto = fanAuto /\ rpm = fanRpm)
             /\ UNCHANGED <<fanPwm, fanTach, fanWrapped, fanDropped>>

\* PWM_IN
FanPWMIn ==
  /\ fanPwmPin' \in ThPowers
  /\ IF fanKind = "enable" THEN FanEnableChange(fanEnable, fanAuto, fanRpm)
     ELSE FanPWMChange(fanPwmPin', fanAuto, fanRpm) /\ UNCHANGED fanTimers
  /\ UNCHANGED <<fanKind, fanAuto, fanDigital, fanEnable>>

\* DIGITAL_IN of a fan with a PWM of hardware: OnDigitalChange raises PWM_IN.
FanDigitalHard ==
  /\ fanKind = "hard"
  /\ fanDigital' = 1 - fanDigital
  /\ fanPwmPin' = 255 * fanDigital'
  /\ FanPWMChange(fanPwmPin', fanAuto, fanRpm)
  /\ UNCHANGED <<fanKind, fanAuto, fanTimers, fanEnable>>
\* OnDigitalInSPWM: the power is the time the pin was on less one, in sixteen bits.  (The
\* waveform, which only a beeper hears, is left out.)
FanDigitalSoft ==
  /\ fanKind = "soft"
  /\ fanDigital' = 1 - fanDigital
  /\ fanTimeout' = TRUE
  /\ IF fanDigital' = 1 THEN UNCHANGED fanMotor
     ELSE \E time \in FanSoftTimes : FanPWMChange((time + Word16 - 1) % Word16, fanAuto, fanRpm)
  /\ UNCHANGED <<fanKind, fanAuto, fanDelay, fanDelayVal, fanPwmPin, fanEnable>>
\* OnSoftPWMChangeTimeout: the pin has not changed for a period.
FanSoftTimeout ==
  /\ fanTimeout /\ fanTimeout' = FALSE
  /\ FanPWMChange(255 * fanDigital, fanAuto, fanRpm)
  /\ UNCHANGED <<fanKind, fanAuto, fanDelay, fanDelayVal, fanPins>>
\* DIGITAL_IN and ENABLE_IN of a fan that is enabled by a line
FanDigitalEnable ==
  /\ fanKind = "enable"
  /\ fanDigital' = 1 - fanDigital
  /\ FanEnableChange(fanEnable, fanAuto, fanRpm)
  /\ UNCHANGED <<fanKind, fanAuto, fanPwmPin, fanEnable>>
FanEnableIn ==
  /\ fanKind = "enable"
  /\ fanEnable' = 1 - fanEnable
  /\ FanEnableChange(fanEnable', fanAuto, fanRpm)
  /\ UNCHANGED <<fanKind, fanAuto, fanPwmPin, fanDigital>>
\* OnFanDigiDelay
FanDigiDelay ==
  /\ fanDelay /\ fanDelay' = FALSE
  /\ FanPWMChange(IF fanDelayVal THEN 255 ELSE 0, fanAuto, fanRpm)
  /\ UNCHANGED <<fanKind, fanAuto, fanDelayVal, fanTimeout, fanPins>>

\* Set and Resume_Auto raise PWM_IN with the power that applies.  What a fan with an enable
\* line does about it, it does with the old value of the pin, and only if that is another.
FanUser(auto, rpm) ==
  /\ fanAuto' = auto
  /\ fanPwmPin' = fanPwm
  /\ IF fanKind = "enable" THEN FanEnableChange(fanEnable, auto, rpm)
     ELSE FanPWMChange(fanPwm, auto, rpm) /\ UNCHANGED fanTimers
  /\ UNCHANGED <<fanKind, fanDigital, fanEnable>>
\* ActSetPWM, and ActStall, which sets 0; ActResume
FanSet == \E power \in ThPowers : FanUser(FALSE, FanSpeed(power))
FanResumeAuto == FanUser(TRUE, fanRpm)

\* avr_reset: the speed stays, with no pulse; a power to come does not come.
FanAvrReset ==
  /\ fanTach' = FALSE /\ fanDelay' = FALSE /\ fanTimeout' = FALSE
  /\ fanDropped' = (fanDropped \/ fanTach)
  /\ UNCHANGED <<fanKind, fanAuto, fanPwm, fanRpm, fanWrapped, fanApplied, fanDelayVal, fanPins>>

FanNext ==
  \/ FanPWMIn \/ FanDigitalHard \/ FanDigitalSoft \/ FanSoftTimeout \/ FanDigitalEnable
  \/ FanEnableIn \/ FanDigiDelay \/ FanSet \/ FanResumeAuto \/ FanAvrReset

FanSpec == FanInit /\ [][FanNext]_fanVars

FanTypeOK ==
  /\ fanKind \in {"hard", "soft", "enable"} /\ fanAuto \in BOOLEAN
  /\ fanPwm \in 0..255 /\ fanRpm \in 0..(Word16 - 1) /\ fanTach \in BOOLEAN
  /\ fanDelay \in BOOLEAN /\ fanDelayVal \in BOOLEAN /\ fanTimeout \in BOOLEAN
  /\ fanPwmPin \in 0..255 /\ fanDigital \in 0..1 /\ fanEnable \in 0..1
  /\ fanWrapped \in BOOLEAN /\ fanDropped \in BOOLEAN /\ fanApplied \in BOOLEAN

-----------------------------------------------------------------------------
\* A heater that is hot, or heated, ticks on, and so will cool, unless it was stopped, or the
\* AVR was reset: then its tick is lost, and only a power - not Resume_Auto with the power
\* off - makes it tick again, or the hook of the board, which has only the hotend of an
\* EinsyRambo.  Every other heater stays as hot as the reset found it.  The pin tells whether
\* it is heated, whoever set the power.
HeatTicks ==
  /\ heatTemp > 0 \/ heatPwm > 0 => heatTick \/ heatLost \/ heatDropped
  /\ heatLost \/ heatDropped => ~heatTick
  /\ heatLost /\ heatPwm > 0 => heatStop
  /\ heatOn = 1 <=> heatPwm > 0

\* The tach pulses exactly while the fan turns, until a reset of the AVR: from then to the next
\* power the fan turns and does not pulse.  In automatic control it turns as fast as its
\* power says - unless a software pulse too short or too long gave a power that does not fit
\* its byte.  A fan with an enable line is not given the speed that a script
\* sets, or takes back, until its power next changes; and it has no power, and will get
\* none, while that line is low.
FanHonest ==
  /\ fanApplied => /\ fanTach <=> fanRpm > 0 /\ ~fanDropped
                   /\ fanAuto /\ ~fanWrapped => fanRpm = FanSpeed(fanPwm)
  /\ fanKind # "enable" => fanApplied
  /\ fanKind = "enable" /\ fanEnable = 0 => fanPwm = 0 /\ ~fanDelay
=============================================================================
