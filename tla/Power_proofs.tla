---------------------------- MODULE Power_proofs ----------------------------
(***************************************************************************)
(* Theorems about the heaters and fans, the beeper, what a board keeps on  *)
(* disk, the pipe between two UARTs, and what lies between the AVR and its *)
(* sensors and lines: port expander, shift registers, multiplexers,        *)
(* thermistors.  For every power and every time of a pulse, every size of  *)
(* a memory, every capacity of the kernel's queues, every address byte of  *)
(* the expander, every table of a thermistor.                              *)
(***************************************************************************)
EXTENDS Storage, Thermal, Beeper, SerialPipe, Signals, Analog, SequenceTheorems,
        WellFoundedInduction, TLAPS

-----------------------------------------------------------------------------
(***************************************************************************)
(* Heaters.                                                                *)
(***************************************************************************)
HeatInv == HeatTypeOK /\ HeatTicks

LEMMA HeatInitInv == HeatInit => HeatInv
<1> SUFFICES ASSUME HeatInit PROVE HeatInv
  OBVIOUS
<1>1. /\ heatAuto \in BOOLEAN /\ heatStop \in BOOLEAN /\ heatTick \in BOOLEAN
      /\ heatHotend \in BOOLEAN /\ heatLost \in BOOLEAN /\ heatDropped \in BOOLEAN
  BY Zenon DEF HeatInit
<1>2. heatTemp = 0 /\ heatPwm = 0 /\ heatOn = 0 /\ ~heatLost /\ ~heatDropped
  BY DEF HeatInit
<1> QED BY <1>1, <1>2, ThermalAssumption DEF HeatInv, HeatTypeOK, HeatTicks

LEMMA HeatRegistered ==
  HeatRegisterTick => /\ heatTick' \in BOOLEAN /\ heatLost' \in BOOLEAN /\ heatDropped' \in BOOLEAN
                      /\ heatTick' /\ ~heatLost' /\ ~heatDropped'
BY Zenon DEF HeatRegisterTick

\* A power keeps the heater ticking as long as it is on.
LEMMA HeatPower ==
  ASSUME HeatInv, NEW pwm \in ThPowers, HeatPWMChanged(pwm),
         UNCHANGED <<heatTemp, heatHotend>>, heatAuto' \in BOOLEAN, heatStop' \in BOOLEAN,
         heatStop' = heatStop \/ pwm = heatPwm
  PROVE  HeatInv'
<1>1. heatPwm' = pwm /\ heatOn' = IF pwm > 0 THEN 1 ELSE 0
  BY DEF HeatPWMChanged
<1>2. pwm \in 0..255 /\ heatPwm \in 0..255
  BY ThermalAssumption DEF HeatInv, HeatTypeOK
<1>3. CASE pwm > 0
  <2>1. HeatRegisterTick
    BY <1>3 DEF HeatPWMChanged
  <2> QED BY <1>1, <1>3, <2>1, HeatRegistered DEF HeatInv, HeatTypeOK, HeatTicks
<1>4. CASE pwm = 0
  <2>1. UNCHANGED <<heatTick, heatLost, heatDropped>>
    BY <1>4 DEF HeatPWMChanged
  <2> QED BY <1>1, <1>4, <2>1 DEF HeatInv, HeatTypeOK, HeatTicks
<1> QED BY <1>2, <1>3, <1>4

LEMMA HeatTickInv == HeatInv /\ HeatOnTempTick => HeatInv'
<1> SUFFICES ASSUME HeatInv, HeatOnTempTick PROVE HeatInv'
  OBVIOUS
<1>1. UNCHANGED <<heatPwm, heatAuto, heatStop, heatOn, heatHotend, heatDropped>>
      /\ heatPwm \in 0..255 /\ heatTemp \in 0..HeatMax /\ HeatMax \in Nat
      /\ ~heatLost /\ ~heatDropped
  BY ThermalAssumption DEF HeatInv, HeatTypeOK, HeatTicks, HeatOnTempTick
<1>2. CASE heatStop
  <2>1. heatTick' = FALSE /\ heatLost' = TRUE /\ heatTemp' = heatTemp
    BY <1>2 DEF HeatOnTempTick
  <2>2. heatTick' \in BOOLEAN /\ heatLost' \in BOOLEAN /\ heatLost' /\ ~heatTick'
    BY <2>1, Zenon
  <2> QED BY <1>1, <1>2, <2>1, <2>2 DEF HeatInv, HeatTypeOK, HeatTicks
<1>3. CASE ~heatStop
  <2>1. /\ heatTemp < HeatMax \/ heatPwm = 0
        /\ heatTemp' = (IF heatPwm > 0 THEN heatTemp + 1
                        ELSE IF heatTemp > 0 THEN heatTemp - 1 ELSE 0)
        /\ heatTick' = (heatPwm > 0 \/ heatTemp' > 0)
        /\ heatLost' = heatLost
    BY <1>3 DEF HeatOnTempTick
  <2>2. heatTick' \in BOOLEAN /\ (heatPwm > 0 \/ heatTemp' > 0 => heatTick')
    BY <2>1, Zenon
  <2>3. heatTemp' \in 0..HeatMax
    BY <1>1, <2>1
  <2> QED BY <1>1, <2>1, <2>2, <2>3 DEF HeatInv, HeatTypeOK, HeatTicks
<1> QED BY <1>2, <1>3

LEMMA HeatStepInv == HeatInv /\ [HeatNext]_heatVars => HeatInv'
<1> SUFFICES ASSUME HeatInv, [HeatNext]_heatVars PROVE HeatInv'
  OBVIOUS
<1>0. heatPwm \in ThPowers /\ heatAuto \in BOOLEAN /\ heatStop \in BOOLEAN
  BY DEF HeatInv, HeatTypeOK
<1>1. CASE HeatOnTempTick
  BY <1>1, HeatTickInv
<1>2. CASE HeatPWMIn
  <2>1. PICK pwm \in ThPowers : HeatPWMChanged(IF heatAuto THEN pwm ELSE heatPwm)
    BY <1>2 DEF HeatPWMIn
  <2>2. (IF heatAuto THEN pwm ELSE heatPwm) \in ThPowers
    BY <1>0
  <2>3. UNCHANGED <<heatTemp, heatAuto, heatStop, heatHotend>>
    BY <1>2 DEF HeatPWMIn
  <2> QED BY <1>0, <2>1, <2>2, <2>3, HeatPower
<1>3. CASE HeatSet
  <2>1. PICK pwm \in ThPowers : HeatPWMChanged(pwm)
    BY <1>3 DEF HeatSet
  <2>2. heatAuto' \in BOOLEAN /\ UNCHANGED <<heatTemp, heatStop, heatHotend>>
    BY <1>3, Zenon DEF HeatSet
  <2> QED BY <1>0, <2>1, <2>2, HeatPower
<1>4. CASE HeatResumeAuto
  <2>1. heatAuto' \in BOOLEAN /\ heatStop' \in BOOLEAN
    BY <1>4, Zenon DEF HeatResumeAuto
  <2>2. HeatPWMChanged(heatPwm) /\ UNCHANGED <<heatTemp, heatHotend>>
    BY <1>4 DEF HeatResumeAuto
  <2> QED BY <1>0, <2>1, <2>2, HeatPower
<1>5. CASE HeatStopHeating
  <2>1. heatStop' \in BOOLEAN /\ heatStop'
    BY <1>5, Zenon DEF HeatStopHeating
  <2>2. UNCHANGED <<heatTemp, heatPwm, heatAuto, heatTick, heatOn, heatHotend, heatLost, heatDropped>>
    BY <1>5 DEF HeatStopHeating
  <2> QED BY <2>1, <2>2 DEF HeatInv, HeatTypeOK, HeatTicks
<1>6. CASE HeatReset
  <2>1. HeatRegisterTick /\ UNCHANGED <<heatTemp, heatPwm, heatAuto, heatStop, heatOn, heatHotend>>
    BY <1>6 DEF HeatReset
  <2> QED BY <2>1, HeatRegistered DEF HeatInv, HeatTypeOK, HeatTicks
<1>7. CASE HeatAvrReset
  <2>1. /\ heatTick' \in BOOLEAN /\ ~heatTick'
        /\ heatDropped' \in BOOLEAN /\ (heatDropped' <=> heatDropped \/ heatTick)
    BY <1>7, Zenon DEF HeatAvrReset
  <2>2. UNCHANGED <<heatTemp, heatPwm, heatAuto, heatStop, heatOn, heatHotend, heatLost>>
    BY <1>7 DEF HeatAvrReset
  <2> QED BY <2>1, <2>2 DEF HeatInv, HeatTypeOK, HeatTicks
<1>8. CASE UNCHANGED heatVars
  BY <1>8 DEF heatVars, HeatInv, HeatTypeOK, HeatTicks
<1> QED BY <1>1, <1>2, <1>3, <1>4, <1>5, <1>6, <1>7, <1>8 DEF HeatNext

LEMMA HeatInvariant == HeatSpec => []HeatInv
BY HeatInitInv, HeatStepInv, PTL DEF HeatSpec

-----------------------------------------------------------------------------
(***************************************************************************)
(* Fans.                                                                   *)
(***************************************************************************)
\* The tach and the speed are as they should be.
FanTold ==
  /\ fanTach <=> fanRpm > 0 /\ ~fanDropped
  /\ (fanAuto /\ ~fanWrapped => fanRpm = FanSpeed(fanPwm))
FanMotorOK ==
  /\ fanPwm \in 0..255 /\ fanRpm \in 0..(Word16 - 1) /\ fanTach \in BOOLEAN
  /\ fanWrapped \in BOOLEAN /\ fanDropped \in BOOLEAN /\ fanApplied \in BOOLEAN

\* Only a soft PWM has a timeout, so that nothing but the enable line gives a power to a fan
\* that has one.
FanInv ==
  /\ FanMotorOK /\ (fanApplied => FanTold)
  /\ fanKind \in {"hard", "soft", "enable"} /\ fanAuto \in BOOLEAN
  /\ fanDelay \in BOOLEAN /\ fanDelayVal \in BOOLEAN /\ fanTimeout \in BOOLEAN
  /\ fanPwmPin \in 0..255 /\ fanDigital \in 0..1 /\ fanEnable \in 0..1
  /\ fanKind # "enable" => fanApplied
  /\ fanKind = "enable" /\ fanEnable = 0 => fanPwm = 0 /\ ~fanDelay
  /\ fanTimeout => fanKind = "soft"

LEMMA FanInvHonest == FanInv => FanTypeOK /\ FanHonest
BY Zenon DEF FanInv, FanTypeOK, FanHonest, FanMotorOK, FanTold

LEMMA Word16Nat == Word16 \in Nat /\ Word16 > 0
BY DEF Word16

LEMMA FanSpeedType ==
  ASSUME NEW value \in Nat
  PROVE  FanSpeed(value) \in 0..(Word16 - 1)
<1>1. FanMaxRpm \in Nat
  BY ThermalAssumption
<1>2. \A n \in Nat : (n \div 255) % Word16 \in 0..(Word16 - 1)
  BY Word16Nat
<1>3. FanMaxRpm * value \in Nat
  BY <1>1
<1> QED BY <1>2, <1>3, Zenon DEF FanSpeed

LEMMA FanInitInv == FanInit => FanInv
<1> SUFFICES ASSUME FanInit PROVE FanInv
  OBVIOUS
<1>1. /\ fanAuto \in BOOLEAN /\ fanTach \in BOOLEAN /\ fanDelay \in BOOLEAN
      /\ fanDelayVal \in BOOLEAN /\ fanTimeout \in BOOLEAN /\ fanWrapped \in BOOLEAN
      /\ fanDropped \in BOOLEAN /\ fanApplied \in BOOLEAN
  BY Zenon DEF FanInit
<1>2. /\ fanKind \in {"hard", "soft", "enable"} /\ fanPwm = 0 /\ fanRpm = 0 /\ fanPwmPin = 0
      /\ fanDigital = 0 /\ fanEnable = 0 /\ ~fanTach /\ fanApplied /\ ~fanDelay /\ ~fanTimeout
  BY DEF FanInit
<1>3. FanSpeed(0) = 0
  <2>1. FanMaxRpm * 0 = 0
    BY ThermalAssumption
  <2>2. (0 \div 255) % Word16 = 0
    BY Word16Nat
  <2> QED BY <2>1, <2>2, Zenon DEF FanSpeed
<1>4. FanTold
  BY <1>1, <1>2, <1>3 DEF FanTold
<1> QED BY <1>1, <1>2, <1>4, Word16Nat DEF FanInv, FanMotorOK

\* OnPWMChange leaves the tach and the speed as they should be.
LEMMA FanPWMChangeTold ==
  ASSUME NEW value \in Nat, NEW auto \in BOOLEAN, NEW rpm \in 0..(Word16 - 1),
         FanPWMChange(value, auto, rpm), fanAuto' = auto
  PROVE  FanMotorOK' /\ FanTold' /\ fanApplied' /\ fanPwm' = value % 256
<1>1. fanPwm' = value % 256 /\ fanRpm' = IF auto THEN FanSpeed(value) ELSE rpm
  BY DEF FanPWMChange
<1>2. /\ fanTach' = (fanRpm' > 0) /\ fanWrapped' = (value > 255)
      /\ fanDropped' = FALSE /\ fanApplied' = TRUE
  BY DEF FanPWMChange
<1>3. /\ fanTach' \in BOOLEAN /\ fanWrapped' \in BOOLEAN /\ fanApplied' \in BOOLEAN /\ fanApplied'
      /\ fanDropped' \in BOOLEAN /\ ~fanDropped'
      /\ fanTach' <=> fanRpm' > 0
      /\ value > 255 => fanWrapped'
  <2>1. (value > 255) \in BOOLEAN /\ (fanRpm' > 0) \in BOOLEAN
    BY SMT
  <2> QED BY <1>2, <2>1, Zenon
<1>4. FanSpeed(value) \in 0..(Word16 - 1)
  BY FanSpeedType
<1>5. fanPwm' \in 0..255 /\ fanRpm' \in 0..(Word16 - 1)
  BY <1>1, <1>4
<1>6. ASSUME auto, ~fanWrapped' PROVE fanRpm' = FanSpeed(fanPwm')
  <2>1. ~(value > 255)
    BY <1>3, <1>6, Zenon
  <2>2. value % 256 = value
    BY <2>1
  <2>3. fanRpm' = FanSpeed(value)
    BY <1>1, <1>6
  <2> QED BY <1>1, <2>2, <2>3, Zenon
<1>7. FanTold'
  BY <1>3, <1>6, Zenon DEF FanTold
<1>8. FanMotorOK'
  BY <1>3, <1>5, Zenon DEF FanMotorOK
<1> QED BY <1>1, <1>3, <1>7, <1>8, Zenon

\* OnEnableChange, whoever raised it.
LEMMA FanEnableChangeInv ==
  ASSUME FanInv, fanKind = "enable", NEW enable \in 0..1, NEW auto \in BOOLEAN,
         NEW rpm \in 0..(Word16 - 1), FanEnableChange(enable, auto, rpm),
         fanAuto' = auto, fanEnable' = enable, fanKind' = fanKind,
         fanPwmPin' \in 0..255, fanDigital' \in 0..1
  PROVE  FanInv'
<1> DEFINE late == enable = 1 /\ (fanDigital = 1 \/ fanPwmPin = 0)
           value == IF enable = 1 THEN fanPwmPin ELSE 0
<1>1. /\ fanDelay' = late /\ fanTimeout' = fanTimeout
      /\ fanDelayVal' = IF late THEN fanDigital = 1 ELSE fanDelayVal
  BY Zenon DEF FanEnableChange
<1>2. IF ~late /\ value # fanPwm THEN FanPWMChange(value, auto, rpm)
      ELSE /\ fanRpm' = rpm /\ fanApplied' = (fanApplied /\ auto = fanAuto /\ rpm = fanRpm)
           /\ UNCHANGED <<fanPwm, fanTach, fanWrapped, fanDropped>>
  BY Zenon DEF FanEnableChange
<1>3. FanMotorOK /\ (fanApplied => FanTold) /\ fanTimeout \in BOOLEAN /\ fanDelayVal \in BOOLEAN
      /\ fanPwmPin \in 0..255 /\ (fanEnable = 0 => fanPwm = 0) /\ ~fanTimeout /\ fanAuto \in BOOLEAN
  BY DEF FanInv
<1>4. late \in BOOLEAN /\ (enable = 0 => ~late) /\ value \in 0..255 /\ (enable = 0 => value = 0)
  BY <1>3
<1> HIDE DEF late, value
<1>5. /\ fanDelay' \in BOOLEAN /\ fanDelayVal' \in BOOLEAN /\ fanTimeout' \in BOOLEAN
      /\ enable = 0 => ~fanDelay'
      /\ ~fanTimeout'
  <2>1. (fanDigital = 1) \in BOOLEAN
    OBVIOUS
  <2> QED BY <1>1, <1>3, <1>4, <2>1, Zenon
<1>6. FanMotorOK' /\ (fanApplied' => FanTold') /\ (enable = 0 => fanPwm' = 0)
  <2>1. CASE ~late /\ value # fanPwm
    <3>1. FanPWMChange(value, auto, rpm)
      BY <1>2, <2>1
    <3>2. FanMotorOK' /\ FanTold' /\ fanPwm' = value % 256
      BY <1>4, <3>1, FanPWMChangeTold
    <3> QED BY <1>4, <3>2
  <2>2. CASE ~(~late /\ value # fanPwm)
    <3>1. /\ fanRpm' = rpm /\ fanApplied' = (fanApplied /\ auto = fanAuto /\ rpm = fanRpm)
          /\ UNCHANGED <<fanPwm, fanTach, fanWrapped, fanDropped>>
      BY <1>2, <2>2, Zenon
    <3>2. fanApplied' \in BOOLEAN /\ (fanApplied' => fanApplied /\ auto = fanAuto /\ rpm = fanRpm)
      BY <1>3, <3>1, Zenon DEF FanMotorOK
    <3>3. FanMotorOK'
      BY <1>3, <3>1, <3>2, Zenon DEF FanMotorOK
    <3>4. fanApplied' => FanTold'
      <4> SUFFICES ASSUME fanApplied' PROVE FanTold'
        OBVIOUS
      <4>1. FanTold /\ fanRpm' = fanRpm /\ fanAuto' = fanAuto
        BY <1>3, <3>1, <3>2, Zenon
      <4>2. (fanTach <=> fanRpm > 0 /\ ~fanDropped) /\ UNCHANGED <<fanTach, fanDropped>>
        BY <3>1, <4>1, Zenon DEF FanTold
      <4>3. fanTach' <=> fanRpm' > 0 /\ ~fanDropped'
        BY <4>1, <4>2, Zenon
      <4>4. fanAuto' /\ ~fanWrapped' => fanAuto /\ ~fanWrapped
        <5>1. fanAuto' => fanAuto
          BY <4>1
        <5>2. ~fanWrapped' => ~fanWrapped
          BY <3>1
        <5> QED BY <5>1, <5>2, Zenon
      <4>5. fanAuto /\ ~fanWrapped => fanRpm = FanSpeed(fanPwm)
        BY <4>1, Zenon DEF FanTold
      <4>6. fanPwm' = fanPwm
        BY <3>1, Zenon
      <4> QED BY <4>1, <4>3, <4>4, <4>5, <4>6, Zenon DEF FanTold
    <3>5. enable = 0 => fanPwm' = 0
      BY <1>4, <2>2, <3>1, Zenon
    <3> QED BY <3>3, <3>4, <3>5
  <2> QED BY <2>1, <2>2
<1>7. fanKind' = "enable" /\ fanKind' \in {"hard", "soft", "enable"} /\ fanKind' # "soft"
  OBVIOUS
<1> QED BY <1>5, <1>6, <1>7, Zenon DEF FanInv

\* OnPWMChange of a fan whose enable line does not forbid it.
LEMMA FanPWMChangeInv ==
  ASSUME FanInv, NEW value \in Nat, NEW auto \in BOOLEAN, NEW rpm \in 0..(Word16 - 1),
         FanPWMChange(value, auto, rpm), fanAuto' = auto, UNCHANGED <<fanKind, fanEnable>>,
         fanKind = "enable" => fanEnable = 1,
         fanPwmPin' \in 0..255, fanDigital' \in 0..1,
         fanDelay' \in BOOLEAN, fanDelayVal' \in BOOLEAN, fanTimeout' \in BOOLEAN,
         fanTimeout' => fanKind = "soft"
  PROVE  FanInv'
<1>1. FanMotorOK' /\ FanTold' /\ fanApplied'
  BY FanPWMChangeTold
<1>2. fanKind \in {"hard", "soft", "enable"} /\ fanEnable \in 0..1
  BY DEF FanInv
<1>3. fanKind' = "enable" => fanEnable' # 0
  BY <1>2
<1> QED BY <1>1, <1>2, <1>3, Zenon DEF FanInv

LEMMA FanUserInv ==
  ASSUME FanInv, NEW auto \in BOOLEAN, NEW rpm \in 0..(Word16 - 1), FanUser(auto, rpm)
  PROVE  FanInv'
<1>1. fanAuto' = auto /\ fanPwmPin' = fanPwm /\ UNCHANGED <<fanKind, fanDigital, fanEnable>>
  BY DEF FanUser
<1>2. fanPwmPin' \in 0..255 /\ fanDigital' \in 0..1 /\ fanEnable \in 0..1 /\ fanPwm \in 0..255
  BY <1>1 DEF FanInv, FanMotorOK
<1>3. CASE fanKind = "enable"
  <2>1. FanEnableChange(fanEnable, auto, rpm)
    BY <1>3 DEF FanUser
  <2> QED BY <1>1, <1>2, <1>3, <2>1, FanEnableChangeInv
<1>4. CASE fanKind # "enable"
  <2>1. FanPWMChange(fanPwm, auto, rpm) /\ UNCHANGED fanTimers
    BY <1>4 DEF FanUser
  <2>2. /\ fanDelay' \in BOOLEAN /\ fanDelayVal' \in BOOLEAN /\ fanTimeout' \in BOOLEAN
        /\ fanTimeout' => fanKind = "soft"
    BY <2>1 DEF fanTimers, FanInv
  <2>3. fanPwm \in Nat
    BY <1>2
  <2> QED BY <1>1, <1>2, <1>4, <2>1, <2>2, <2>3, FanPWMChangeInv
<1> QED BY <1>3, <1>4

\* A pin: PWM_IN, and DIGITAL_IN or ENABLE_IN.
LEMMA FanPinInv ==
  FanInv /\ (FanPWMIn \/ FanDigitalHard \/ FanDigitalEnable \/ FanEnableIn) => FanInv'
<1> SUFFICES ASSUME FanInv, FanPWMIn \/ FanDigitalHard \/ FanDigitalEnable \/ FanEnableIn
             PROVE  FanInv'
  OBVIOUS
<1>0. /\ fanAuto \in BOOLEAN /\ fanRpm \in 0..(Word16 - 1) /\ fanEnable \in 0..1
      /\ fanDigital \in 0..1 /\ fanPwmPin \in 0..255
      /\ fanDelay \in BOOLEAN /\ fanDelayVal \in BOOLEAN /\ fanTimeout \in BOOLEAN
      /\ fanTimeout => fanKind = "soft"
  BY DEF FanInv, FanMotorOK
<1>1. CASE FanPWMIn
  <2>1. fanPwmPin' \in 0..255 /\ UNCHANGED <<fanKind, fanAuto, fanDigital, fanEnable>>
    BY <1>1, ThermalAssumption DEF FanPWMIn
  <2>2. CASE fanKind = "enable"
    <3>1. FanEnableChange(fanEnable, fanAuto, fanRpm)
      BY <1>1, <2>2 DEF FanPWMIn
    <3> QED BY <1>0, <2>1, <2>2, <3>1, FanEnableChangeInv
  <2>3. CASE fanKind # "enable"
    <3>1. FanPWMChange(fanPwmPin', fanAuto, fanRpm) /\ UNCHANGED fanTimers
      BY <1>1, <2>3 DEF FanPWMIn
    <3>2. fanPwmPin' \in Nat
      BY <2>1
    <3>3. UNCHANGED <<fanDelay, fanDelayVal, fanTimeout>>
      BY <3>1 DEF fanTimers
    <3> QED BY <1>0, <2>1, <2>3, <3>1, <3>2, <3>3, FanPWMChangeInv
  <2> QED BY <2>2, <2>3
<1>2. CASE FanDigitalHard
  <2>1. /\ fanKind = "hard" /\ fanDigital' = 1 - fanDigital /\ fanPwmPin' = 255 * fanDigital'
        /\ FanPWMChange(fanPwmPin', fanAuto, fanRpm)
        /\ UNCHANGED <<fanKind, fanAuto, fanTimers, fanEnable>>
    BY <1>2 DEF FanDigitalHard
  <2>2. fanDigital' \in 0..1 /\ fanPwmPin' \in 0..255 /\ fanPwmPin' \in Nat
    BY <1>0, <2>1
  <2>3. UNCHANGED <<fanDelay, fanDelayVal, fanTimeout>>
    BY <2>1 DEF fanTimers
  <2>4. fanKind # "enable"
    BY <2>1
  <2> QED BY <1>0, <2>1, <2>2, <2>3, <2>4, FanPWMChangeInv
<1>3. CASE FanDigitalEnable
  <2>1. /\ fanKind = "enable" /\ fanDigital' = 1 - fanDigital
        /\ FanEnableChange(fanEnable, fanAuto, fanRpm)
        /\ UNCHANGED <<fanKind, fanAuto, fanPwmPin, fanEnable>>
    BY <1>3 DEF FanDigitalEnable
  <2>2. fanDigital' \in 0..1 /\ fanPwmPin' \in 0..255
    BY <1>0, <2>1
  <2> QED BY <1>0, <2>1, <2>2, FanEnableChangeInv
<1>4. CASE FanEnableIn
  <2>1. /\ fanKind = "enable" /\ fanEnable' = 1 - fanEnable
        /\ FanEnableChange(fanEnable', fanAuto, fanRpm)
        /\ UNCHANGED <<fanKind, fanAuto, fanPwmPin, fanDigital>>
    BY <1>4 DEF FanEnableIn
  <2>2. fanEnable' \in 0..1 /\ fanPwmPin' \in 0..255 /\ fanDigital' \in 0..1
    BY <1>0, <2>1
  <2> QED BY <1>0, <2>1, <2>2, FanEnableChangeInv
<1> QED BY <1>1, <1>2, <1>3, <1>4

\* A software pulse, its timeout, and the delay of a digital fan.
LEMMA FanTimeInv ==
  FanInv /\ (FanDigitalSoft \/ FanSoftTimeout \/ FanDigiDelay) => FanInv'
<1> SUFFICES ASSUME FanInv, FanDigitalSoft \/ FanSoftTimeout \/ FanDigiDelay PROVE FanInv'
  OBVIOUS
<1>0. /\ fanAuto \in BOOLEAN /\ fanRpm \in 0..(Word16 - 1) /\ fanEnable \in 0..1
      /\ fanDigital \in 0..1 /\ fanPwmPin \in 0..255
      /\ fanDelay \in BOOLEAN /\ fanDelayVal \in BOOLEAN /\ fanTimeout \in BOOLEAN
      /\ fanTimeout => fanKind = "soft"
      /\ fanKind = "enable" /\ fanEnable = 0 => ~fanDelay
  BY DEF FanInv, FanMotorOK
<1>1. CASE FanDigitalSoft
  <2>1. /\ fanKind = "soft" /\ fanDigital' = 1 - fanDigital
        /\ UNCHANGED <<fanKind, fanAuto, fanDelay, fanDelayVal, fanPwmPin, fanEnable>>
    BY <1>1 DEF FanDigitalSoft
  <2>2. fanTimeout' \in BOOLEAN
    BY <1>1, Zenon DEF FanDigitalSoft
  <2>3. fanDigital' \in 0..1
    BY <1>0, <2>1
  <2>4. CASE fanDigital' = 1
    <3>1. UNCHANGED fanMotor
      BY <1>1, <2>4 DEF FanDigitalSoft
    <3> QED BY <2>1, <2>2, <2>3, <3>1, Zenon DEF fanMotor, FanInv, FanMotorOK, FanTold
  <2>5. CASE fanDigital' # 1
    <3>1. PICK time \in FanSoftTimes :
            FanPWMChange((time + Word16 - 1) % Word16, fanAuto, fanRpm)
      BY <1>1, <2>5 DEF FanDigitalSoft
    <3>2. (time + Word16 - 1) % Word16 \in Nat
      <4>1. time \in Nat
        BY ThermalAssumption
      <4> QED BY <4>1, Word16Nat
    <3>3. fanKind # "enable" /\ fanPwmPin' \in 0..255 /\ fanDelay' \in BOOLEAN
          /\ fanDelayVal' \in BOOLEAN
      BY <1>0, <2>1
    <3> QED BY <1>0, <2>1, <2>2, <2>3, <3>1, <3>2, <3>3, FanPWMChangeInv
  <2> QED BY <2>4, <2>5
<1>2. CASE FanSoftTimeout
  <2>1. /\ FanPWMChange(255 * fanDigital, fanAuto, fanRpm)
        /\ UNCHANGED <<fanKind, fanAuto, fanDelay, fanDelayVal, fanPins>> /\ fanTimeout
    BY <1>2 DEF FanSoftTimeout
  <2>2. fanTimeout' \in BOOLEAN
    BY <1>2, Zenon DEF FanSoftTimeout
  <2>3. fanKind = "soft" /\ fanKind # "enable"
    BY <1>0, <2>1
  <2>4. 255 * fanDigital \in Nat
    BY <1>0
  <2>5. UNCHANGED <<fanPwmPin, fanDigital, fanEnable>>
    BY <2>1 DEF fanPins
  <2> QED BY <1>0, <2>1, <2>2, <2>3, <2>4, <2>5, FanPWMChangeInv
<1>3. CASE FanDigiDelay
  <2>1. /\ FanPWMChange(IF fanDelayVal THEN 255 ELSE 0, fanAuto, fanRpm) /\ fanDelay
        /\ UNCHANGED <<fanKind, fanAuto, fanDelayVal, fanTimeout, fanPins>>
    BY <1>3 DEF FanDigiDelay
  <2>2. fanDelay' \in BOOLEAN
    BY <1>3, Zenon DEF FanDigiDelay
  <2>3. fanKind = "enable" => fanEnable = 1
    BY <1>0, <2>1
  <2>4. (IF fanDelayVal THEN 255 ELSE 0) \in Nat
    OBVIOUS
  <2>5. UNCHANGED <<fanPwmPin, fanDigital, fanEnable>>
    BY <2>1 DEF fanPins
  <2> QED BY <1>0, <2>1, <2>2, <2>3, <2>4, <2>5, FanPWMChangeInv
<1> QED BY <1>1, <1>2, <1>3

\* A reset takes the timers, and the record of it the pulse.
LEMMA FanAvrResetInv == FanInv /\ FanAvrReset => FanInv'
<1> SUFFICES ASSUME FanInv, FanAvrReset PROVE FanInv'
  OBVIOUS
<1>1. /\ fanTach' \in BOOLEAN /\ fanDelay' \in BOOLEAN /\ fanTimeout' \in BOOLEAN
      /\ ~fanTach' /\ ~fanDelay' /\ ~fanTimeout'
      /\ fanDropped' \in BOOLEAN /\ (fanDropped' <=> fanDropped \/ fanTach)
  BY Zenon DEF FanAvrReset
<1>2. /\ UNCHANGED <<fanKind, fanAuto, fanPwm, fanRpm, fanWrapped, fanApplied, fanDelayVal>>
      /\ UNCHANGED <<fanPwmPin, fanDigital, fanEnable>>
  BY Zenon DEF FanAvrReset, fanPins
<1>3. FanMotorOK'
  BY <1>1, <1>2, Zenon DEF FanInv, FanMotorOK
<1>4. fanApplied' => FanTold'
  BY <1>1, <1>2, Zenon DEF FanInv, FanTold
<1> QED BY <1>1, <1>2, <1>3, <1>4, Zenon DEF FanInv

LEMMA FanStepInv == FanInv /\ [FanNext]_fanVars => FanInv'
<1> SUFFICES ASSUME FanInv, [FanNext]_fanVars PROVE FanInv'
  OBVIOUS
<1>0. fanRpm \in 0..(Word16 - 1)
  BY DEF FanInv, FanMotorOK
<1>1. CASE FanPWMIn \/ FanDigitalHard \/ FanDigitalEnable \/ FanEnableIn
  BY <1>1, FanPinInv
<1>2. CASE FanDigitalSoft \/ FanSoftTimeout \/ FanDigiDelay
  BY <1>2, FanTimeInv
<1>3. CASE FanSet
  <2>1. PICK power \in ThPowers : FanUser(FALSE, FanSpeed(power))
    BY <1>3 DEF FanSet
  <2>2. power \in Nat
    BY ThermalAssumption
  <2>3. FanSpeed(power) \in 0..(Word16 - 1)
    BY <2>2, FanSpeedType
  <2>4. FALSE \in BOOLEAN
    OBVIOUS
  <2> QED BY <2>1, <2>3, <2>4, FanUserInv, Zenon
<1>4. CASE FanResumeAuto
  <2>1. FanUser(TRUE, fanRpm) /\ TRUE \in BOOLEAN
    BY <1>4 DEF FanResumeAuto
  <2> QED BY <1>0, <2>1, FanUserInv, Zenon
<1>5. CASE FanAvrReset
  BY <1>5, FanAvrResetInv
<1>6. CASE UNCHANGED fanVars
  BY <1>6, Zenon DEF fanVars, fanMotor, fanTimers, fanPins, FanInv, FanMotorOK, FanTold
<1> QED BY <1>1, <1>2, <1>3, <1>4, <1>5, <1>6, Zenon DEF FanNext

LEMMA FanInvariant == FanSpec => []FanInv
BY FanInitInv, FanStepInv, PTL DEF FanSpec

-----------------------------------------------------------------------------
(***************************************************************************)
(* The beeper.                                                             *)
(***************************************************************************)
\* A pulse whose length is known was timed, or a reset took its timer; and one that is heard was
\* within the timeout, unless a reset took it.
BeepInv ==
  /\ beepPin \in 0..1 /\ beepOn \in BeepTimes \cup {0}
  /\ beepTimer \in BOOLEAN /\ beepMuted \in BOOLEAN /\ beepPlaying \in BOOLEAN
  /\ beepIgnored \in BOOLEAN /\ beepDropped \in BOOLEAN /\ beepLong \in BOOLEAN
  /\ beepCtOn \in 0..(Word - 1) /\ beepCtOff \in 0..(Word - 1) /\ beepCounter \in 0..Word
  /\ beepState \in {"low", "high", "dead"}
  /\ BeepHonest
  /\ beepOn > 0 => beepTimer \/ beepDropped
  /\ beepPlaying /\ ~beepIgnored /\ ~beepLong => beepOn <= BeepTimeout

LEMMA WordNat == Word \in Nat /\ SampleRate \in Nat /\ SampleRate < Word /\ 0 < Word
BY DEF Word, SampleRate

LEMMA Quotient ==
  ASSUME NEW n \in Nat, NEW d \in Nat \ {0}
  PROVE  n \div d \in 0..n
<1>1. n \div d \in Nat
  OBVIOUS
<1>2. PICK q \in Nat : q = n \div d
  BY <1>1
<1>3. n >= q * d
  BY <1>2
<1>4. q * d >= q
  BY <1>2
<1> QED BY <1>2, <1>3, <1>4

LEMMA BeepTypesNat == BeepTimes \subseteq Nat \ {0} /\ BeepClock \in Nat /\ BeepTimeout \in Nat
BY BeeperAssumption

\* A half of a period in samples
LEMMA Samples ==
  ASSUME NEW ct \in 0..(Word - 1), ct # 0
  PROVE  SampleRate \div ct \in 0..Word
<1>1. ct \in Nat \ {0} /\ SampleRate \in Nat
  BY WordNat
<1>2. SampleRate \div ct \in 0..SampleRate
  BY <1>1, Quotient
<1> QED BY <1>2, WordNat

\* m_uiCtOn and m_uiCtOff
LEMMA Frequency ==
  ASSUME NEW time \in BeepTimes
  PROVE  /\ (BeepClock \div time) % Word \in 0..(Word - 1)
         /\ time <= BeepTimeout => (BeepClock \div time) % Word > 0
<1>1. time \in Nat \ {0} /\ BeepClock \in Nat
  BY BeepTypesNat
<1>2. BeepClock \div time \in Nat
  BY <1>1
<1>3. \A n \in Nat : n % Word \in 0..(Word - 1)
  BY WordNat
<1>4. (BeepClock \div time) % Word \in 0..(Word - 1)
  BY <1>2, <1>3
<1> QED BY <1>4, BeeperAssumption, Zenon

LEMMA BeepInitInv == BeepInit => BeepInv
<1> SUFFICES ASSUME BeepInit PROVE BeepInv
  OBVIOUS
<1>1. /\ beepTimer \in BOOLEAN /\ beepMuted \in BOOLEAN /\ beepPlaying \in BOOLEAN
      /\ beepIgnored \in BOOLEAN /\ beepDropped \in BOOLEAN /\ beepLong \in BOOLEAN
      /\ ~beepPlaying /\ ~beepDropped
  BY Zenon DEF BeepInit
<1>2. /\ beepPin = 0 /\ beepOn = 0 /\ beepCtOn = 0 /\ beepCtOff = 0 /\ beepCounter = 0
      /\ beepState = "low"
  BY DEF BeepInit
<1> QED BY <1>1, <1>2, WordNat DEF BeepInv, BeepHonest

LEMMA BeepRiseInv == BeepInv /\ beepState # "dead" /\ BeepRise => BeepInv'
<1> SUFFICES ASSUME BeepInv, beepState # "dead", BeepRise PROVE BeepInv'
  OBVIOUS
<1>1. PICK off \in BeepTimes :
        /\ Between(off)
        /\ IF beepMuted THEN Ignore(FALSE)
           ELSE IF beepOn > 0 THEN Tone(beepOn, off)
           ELSE UNCHANGED <<beepPlaying, beepIgnored, beepLong, beepCtOn, beepCtOff, beepCounter>>
  BY Zenon DEF BeepRise
<1>2. beepPin' = 1 /\ beepOn' = 0 /\ UNCHANGED <<beepMuted, beepState>>
  BY DEF BeepRise
<1>3. beepTimer' \in BOOLEAN /\ beepTimer' /\ beepDropped' \in BOOLEAN /\ ~beepDropped'
  BY Zenon DEF BeepRise
<1>4. BeepTimes \subseteq Nat \ {0} /\ BeepTimeout \in Nat /\ Word \in Nat
  BY BeepTypesNat, WordNat
<1>5. CASE ~beepMuted /\ beepOn > 0
  <2>1. Tone(beepOn, off)
    BY <1>1, <1>5
  <2>2. beepOn \in BeepTimes
    BY <1>4, <1>5 DEF BeepInv
  <2>3. /\ beepCtOn' \in 0..(Word - 1) /\ beepCtOff' \in 0..(Word - 1)
        /\ off <= BeepTimeout => beepCtOff' > 0
        /\ beepOn <= BeepTimeout => beepCtOn' > 0
    BY <2>1, <2>2, Frequency DEF Tone
  <2>4. CASE beepCtOn' = 0
    <3>1. UNCHANGED <<beepPlaying, beepCounter, beepIgnored, beepLong>>
      BY <2>1, <2>4 DEF Tone
    <3>2. ~(beepPlaying /\ ~beepIgnored /\ ~beepLong)
      BY <2>3, <2>4 DEF BeepInv
    <3> QED BY <1>2, <1>3, <1>4, <2>3, <3>1, <3>2 DEF BeepInv, BeepHonest
  <2>5. CASE beepCtOn' # 0
    <3>1. beepCounter' = SampleRate \div beepCtOn'
      BY <2>1, <2>5 DEF Tone
    <3>2. beepPlaying' \in BOOLEAN /\ beepIgnored' \in BOOLEAN /\ ~beepIgnored'
      BY <2>1, <2>5, Zenon DEF Tone
    <3>3. beepLong' \in BOOLEAN /\ (beepLong' <=> beepDropped /\ off > BeepTimeout)
      <4>1. beepLong' = (beepDropped /\ off > BeepTimeout)
        BY <2>1, <2>5, Zenon DEF Tone
      <4> QED BY <4>1, Zenon
    <3>4. ~beepLong' => beepCtOff' > 0
      <4>1. beepTimer \/ beepDropped
        BY <1>5 DEF BeepInv
      <4>2. off \in Nat /\ (off <= BeepTimeout \/ off > BeepTimeout)
        BY <1>4
      <4> QED BY <1>1, <2>3, <3>3, <4>1, <4>2 DEF Between
    <3>5. beepCounter' \in 0..Word
      BY <2>3, <2>5, <3>1, Samples
    <3> QED BY <1>2, <1>3, <1>4, <2>3, <2>5, <3>2, <3>3, <3>4, <3>5 DEF BeepInv, BeepHonest
  <2> QED BY <2>4, <2>5
<1>6. CASE beepMuted \/ ~(beepOn > 0)
  <2>1. UNCHANGED <<beepPlaying, beepLong, beepCtOn, beepCtOff, beepCounter>>
    BY <1>1, <1>6 DEF Ignore
  <2>2. beepIgnored' <=> beepIgnored
    BY <1>1, <1>6, Zenon DEF Ignore
  <2>3. beepIgnored' \in BOOLEAN
    BY <1>1, <1>6, Zenon DEF Ignore, BeepInv
  <2> QED BY <1>2, <1>3, <1>4, <2>1, <2>2, <2>3 DEF BeepInv, BeepHonest
<1> QED BY <1>5, <1>6

LEMMA BeepFallInv == BeepInv /\ beepState # "dead" /\ BeepFall => BeepInv'
<1> SUFFICES ASSUME BeepInv, beepState # "dead", BeepFall PROVE BeepInv'
  OBVIOUS
<1>1. PICK on \in BeepTimes : /\ Between(on) /\ beepOn' = on
                              /\ beepLong' = (beepLong \/ (beepDropped /\ on > BeepTimeout))
  BY Zenon DEF BeepFall
<1>2. beepPin' = 0 /\ UNCHANGED <<beepMuted, beepPlaying, beepCtOn, beepCtOff, beepCounter,
                                 beepState, beepIgnored>>
  BY DEF BeepFall
<1>3. beepTimer' \in BOOLEAN /\ beepTimer' /\ beepDropped' \in BOOLEAN /\ ~beepDropped'
  BY Zenon DEF BeepFall
<1>4. /\ beepLong' \in BOOLEAN
      /\ beepLong' <=> beepLong \/ (beepDropped /\ on > BeepTimeout)
  BY <1>1, Zenon
<1>5. beepPlaying /\ ~beepIgnored /\ ~beepLong' => beepOn' <= BeepTimeout
  <2>1. on \in Nat /\ BeepTimeout \in Nat
    BY BeepTypesNat
  <2>2. beepPlaying => beepTimer \/ beepIgnored \/ beepDropped
    BY DEF BeepInv, BeepHonest
  <2> QED BY <1>1, <1>4, <2>1, <2>2 DEF Between
<1> QED BY <1>1, <1>2, <1>3, <1>4, <1>5 DEF BeepInv, BeepHonest

LEMMA BeepTimeoutInv == BeepInv /\ beepState # "dead" /\ BeepSoftTimeout => BeepInv'
<1> SUFFICES ASSUME BeepInv, beepState # "dead", BeepSoftTimeout PROVE BeepInv'
  OBVIOUS
<1>1. beepTimer' \in BOOLEAN /\ ~beepTimer'
  BY Zenon DEF BeepSoftTimeout
<1>2. beepOn' = 0 /\ UNCHANGED <<beepPin, beepMuted, beepState, beepDropped>> /\ beepTimer
  BY DEF BeepSoftTimeout
<1>3. UNCHANGED <<beepCtOn, beepCtOff, beepCounter>>
  BY DEF BeepSoftTimeout, Ignore, Silence
<1>4. /\ beepPlaying' \in BOOLEAN /\ beepIgnored' \in BOOLEAN /\ beepLong' \in BOOLEAN
      /\ beepPlaying' => beepIgnored'
  <2>1. CASE beepMuted
    <3>1. beepIgnored' = (beepIgnored \/ (TRUE /\ beepPlaying)) /\ beepPlaying' = beepPlaying
          /\ beepLong' = beepLong
      BY <2>1, Zenon DEF BeepSoftTimeout, Ignore
    <3>2. beepIgnored' \in BOOLEAN /\ (beepPlaying => beepIgnored')
      BY <3>1, Zenon
    <3>3. beepPlaying' \in BOOLEAN /\ (beepPlaying' => beepPlaying) /\ beepLong' \in BOOLEAN
      BY <3>1 DEF BeepInv
    <3> QED BY <3>2, <3>3, Zenon
  <2>2. CASE ~beepMuted
    BY <2>2, Zenon DEF BeepSoftTimeout, Silence
  <2> QED BY <2>1, <2>2
<1>5. BeepTimeout \in Nat
  BY BeepTypesNat
<1> QED BY <1>1, <1>2, <1>3, <1>4, <1>5 DEF BeepInv, BeepHonest

LEMMA BeepFlipInv == BeepInv /\ beepState # "dead" /\ BeepFlip => BeepInv'
<1> SUFFICES ASSUME BeepInv, beepState # "dead", BeepFlip PROVE BeepInv'
  OBVIOUS
<1> DEFINE state == IF beepState = "low" THEN "high" ELSE "low"
           ct == IF state = "high" THEN beepCtOn ELSE beepCtOff
<1>1. /\ IF ct = 0 THEN beepState' = "dead" /\ UNCHANGED beepCounter
         ELSE /\ beepState' = state
              /\ beepCounter' = IF SampleRate \div ct = 0 THEN Word ELSE SampleRate \div ct
      /\ UNCHANGED <<beepPin, beepOn, beepTimer, beepMuted, beepPlaying, beepCtOn, beepCtOff,
                     beepIgnored, beepDropped, beepLong>>
      /\ beepPlaying
  BY Zenon DEF BeepFlip, beepHistory
<1>2. ct \in 0..(Word - 1) /\ state \in {"low", "high"} /\ (~beepIgnored /\ ~beepLong => ct > 0)
  BY <1>1 DEF BeepInv, BeepHonest
<1> HIDE DEF ct, state
<1>3. CASE ct = 0
  <2>1. beepState' = "dead" /\ beepCounter' = beepCounter /\ (beepIgnored \/ beepLong)
    BY <1>1, <1>2, <1>3
  <2> QED BY <1>1, <2>1 DEF BeepInv, BeepHonest
<1>4. CASE ct # 0
  <2>1. beepState' = state /\ beepCounter' = IF SampleRate \div ct = 0 THEN Word ELSE SampleRate \div ct
    BY <1>1, <1>4
  <2>2. SampleRate \div ct \in 0..Word
    BY <1>2, <1>4, Samples
  <2>3. beepCounter' \in 0..Word
    BY <2>1, <2>2, WordNat
  <2>4. beepState' # "dead" /\ beepState' \in {"low", "high", "dead"}
    BY <1>2, <2>1
  <2> QED BY <1>1, <2>3, <2>4 DEF BeepInv, BeepHonest
<1> QED BY <1>3, <1>4

LEMMA BeepStepInv == BeepInv /\ [BeepNext]_beepVars => BeepInv'
<1> SUFFICES ASSUME BeepInv, [BeepNext]_beepVars PROVE BeepInv'
  OBVIOUS
<1>1. CASE BeepNext
  <2>1. beepState # "dead" /\ (BeepRise \/ BeepFall \/ BeepSoftTimeout \/ BeepAvrReset
                                \/ BeepMute \/ BeepFlip)
    BY <1>1 DEF BeepNext
  <2>2. CASE BeepMute
    <3>1. beepMuted' \in BOOLEAN
      BY <2>2, Zenon DEF BeepMute
    <3>2. UNCHANGED <<beepPin, beepOn, beepTimer, beepPlaying, beepCtOn, beepCtOff, beepCounter,
                      beepState, beepIgnored, beepDropped, beepLong>>
      BY <2>2 DEF BeepMute, beepHistory
    <3> QED BY <3>1, <3>2 DEF BeepInv, BeepHonest
  <2>3. CASE BeepAvrReset
    <3>1. /\ beepTimer' \in BOOLEAN /\ ~beepTimer'
          /\ beepDropped' \in BOOLEAN /\ (beepDropped' <=> beepDropped \/ beepTimer)
      BY <2>3, Zenon DEF BeepAvrReset
    <3>2. UNCHANGED <<beepPin, beepOn, beepMuted, beepPlaying, beepCtOn, beepCtOff, beepCounter,
                      beepState, beepIgnored, beepLong>>
      BY <2>3 DEF BeepAvrReset
    <3> QED BY <3>1, <3>2 DEF BeepInv, BeepHonest
  <2> QED BY <2>1, <2>2, <2>3, BeepRiseInv, BeepFallInv, BeepTimeoutInv, BeepFlipInv
<1>2. CASE UNCHANGED beepVars
  BY <1>2 DEF beepVars, beepHistory, BeepInv, BeepHonest
<1> QED BY <1>1, <1>2

LEMMA BeepInvariant == BeepSpec => []BeepInv
BY BeepInitInv, BeepStepInv, PTL DEF BeepSpec

-----------------------------------------------------------------------------
(***************************************************************************)
(* What a board keeps on disk.                                             *)
(***************************************************************************)
StData == [1..StSize -> StBytes]
StTypes ==
  /\ stPc \in {"off", "flashed", "running", "flashOpen", "flashDone", "eepromOpen", "exit"}
  /\ stMemory \in [StMemories -> StData]
  /\ stFile \in [StMemories -> [exists : BOOLEAN, data : Seq(StBytes)]]
  /\ \A m \in StMemories : Len(stFile[m].data) <= StSize
  /\ stReturn \in {"running", "off"}
  /\ stSaved \in [StMemories -> StData \cup {<<>>}]
  /\ stCut \in [StMemories -> BOOLEAN] /\ stFresh \in [StMemories -> BOOLEAN]
  /\ stWrites \in 0..StMaxWrites

\* Where the program has not loaded a memory yet, or will not.
StUnread(m) == {"off", "exit"} \cup (IF m = "eeprom" THEN {"flashed"} ELSE {})

\* A save that nothing has cut short is in the file, and in the memory once it is loaded.
StKeptOf(m) ==
  stSaved[m] # <<>> /\ ~stCut[m] =>
    /\ stFile[m] = StFile(stSaved[m])
    /\ stPc \notin StUnread(m) /\ stFresh[m] =>
         stMemory[m] = stSaved[m] \/ (m = "eeprom" /\ stSaved[m] = StZero)

StInv ==
  /\ StTypes
  /\ \A m \in StMemories : StKeptOf(m)
  /\ stPc = "exit" => \E m \in StMemories : Len(stFile[m].data) = StSize - 1

LEMMA StInvKept == StInv => StTypeOK /\ StKept
<1> SUFFICES ASSUME StInv PROVE StTypeOK /\ StKept
  OBVIOUS
<1>1. StTypeOK
  <2>1. \A m \in StMemories : stFile[m].exists \in BOOLEAN /\ Len(stFile[m].data) <= StSize
    BY DEF StInv, StTypes
  <2> QED BY <2>1 DEF StInv, StTypes, StTypeOK, StData
<1>2. StKept
  <2>1. "running" \notin StUnread("flash") /\ "running" \notin StUnread("eeprom")
    BY DEF StUnread
  <2> QED BY <2>1 DEF StInv, StKept, StKeptOf, StMemories
<1> QED BY <1>1, <1>2

\* A memory and a file are sequences of bytes.
LEMMA StDataSeq ==
  ASSUME NEW data \in StData
  PROVE  data \in Seq(StBytes) /\ Len(data) = StSize /\ data # <<>>
<1>1. StSize \in Nat /\ StSize > 1
  BY StorageAssumption
<1> QED BY <1>1 DEF StData

LEMMA StSeqData ==
  ASSUME NEW data \in Seq(StBytes), Len(data) = StSize
  PROVE  data \in StData
BY DEF StData

LEMMA StPartOf ==
  ASSUME NEW data \in StData, NEW n \in 0..StSize
  PROVE  /\ SubSeq(data, 1, n) \in Seq(StBytes) /\ Len(SubSeq(data, 1, n)) = n
         /\ n = StSize => SubSeq(data, 1, n) = data
<1>1. data \in Seq(StBytes) /\ Len(data) = StSize /\ StSize \in Nat
  BY StDataSeq, StorageAssumption
<1>2. SubSeq(data, 1, n) \in Seq(StBytes) /\ Len(SubSeq(data, 1, n)) = n
  BY <1>1
<1>3. ASSUME n = StSize PROVE SubSeq(data, 1, n) = data
  BY <1>1, <1>3
<1> QED BY <1>2, <1>3

LEMMA StBlankData == StBlank \in StData /\ StZero \in StData
BY StorageAssumption DEF StBlank, StZero, StData

\* A file with a save in it is long enough and can be read.
LEMMA StSavedLoads ==
  ASSUME StInv, NEW m \in StMemories, stSaved[m] # <<>>, ~stCut[m]
  PROVE  /\ stSaved[m] \in StData /\ stFile[m] = StFile(stSaved[m])
         /\ stFile[m].data = stSaved[m]
         /\ StLongEnough(stFile[m]) /\ ~StReadFails(stFile[m])
<1>1. stSaved[m] \in StData /\ stFile[m] = StFile(stSaved[m])
  BY DEF StInv, StTypes, StKeptOf
<1>2. Len(stSaved[m]) = StSize /\ StSize \in Nat
  BY <1>1, StDataSeq, StorageAssumption
<1>3. stFile[m].data = stSaved[m] /\ stFile[m].exists
  <2>1. stFile[m].data = stSaved[m]
    BY <1>1 DEF StFile
  <2>2. stFile[m].exists = TRUE
    BY <1>1 DEF StFile
  <2> QED BY <2>1, <2>2, Zenon
<1> QED BY <1>1, <1>2, <1>3 DEF StLongEnough, StReadFails

\* A file that is read has the length of the memory.
LEMMA StLoadLength ==
  ASSUME StInv, NEW m \in StMemories, StLongEnough(stFile[m])
  PROVE  /\ StReadFails(stFile[m]) => Len(stFile[m].data) = StSize - 1
         /\ ~StReadFails(stFile[m]) => stFile[m].data \in StData
<1>1. stFile[m].data \in Seq(StBytes) /\ Len(stFile[m].data) <= StSize /\ StSize \in Nat
  BY StorageAssumption DEF StInv, StTypes
<1>2. Len(stFile[m].data) \in Nat
  BY <1>1
<1>3. ASSUME ~StReadFails(stFile[m]) PROVE stFile[m].data \in StData
  <2>1. Len(stFile[m].data) = StSize
    BY <1>1, <1>2, <1>3 DEF StReadFails
  <2> QED BY <1>1, <2>1, StSeqData
<1>4. ASSUME StReadFails(stFile[m]) PROVE Len(stFile[m].data) = StSize - 1
  BY <1>1, <1>2, <1>4 DEF StReadFails, StLongEnough
<1> QED BY <1>3, <1>4

\* A memory that is left alone stays as it is.
LEMMA StLeftAlone ==
  ASSUME NEW m \in StMemories, StKeptOf(m),
         stMemory'[m] = stMemory[m], stFile'[m] = stFile[m], stSaved'[m] = stSaved[m],
         stCut[m] => stCut'[m], stFresh'[m] => stFresh[m],
         stPc \in StUnread(m) => stPc' \in StUnread(m)
  PROVE  StKeptOf(m)'
BY DEF StKeptOf

LEMMA StInitInv == StInit => StInv
<1> SUFFICES ASSUME StInit PROVE StInv
  OBVIOUS
<1>1. StSize \in Nat /\ StSize > 1 /\ StBlank \in StData /\ StZero \in StData /\ 0 \in StBytes
  BY StBlankData, StorageAssumption
<1>2. stSaved \in [StMemories -> StData \cup {<<>>}] /\ \A m \in StMemories : stSaved[m] = <<>>
  BY DEF StInit
<1>3. /\ stFile \in [StMemories -> [exists : BOOLEAN, data : Seq(StBytes)]]
      /\ \A m \in StMemories : Len(stFile[m].data) <= StSize
  <2>1. \A d \in Seq(StBytes), e \in BOOLEAN :
          [exists |-> e, data |-> d] \in [exists : BOOLEAN, data : Seq(StBytes)]
    OBVIOUS
  <2>2. CASE stFile = [m \in StMemories |-> StNoFile]
    <3>1. <<>> \in Seq(StBytes) /\ Len(<<>>) = 0
      OBVIOUS
    <3>2. StNoFile \in [exists : BOOLEAN, data : Seq(StBytes)] /\ StNoFile.data = <<>>
      BY <2>1, <3>1 DEF StNoFile
    <3> QED BY <1>1, <2>2, <3>1, <3>2
  <2>3. CASE stFile # [m \in StMemories |-> StNoFile]
    <3>1. PICK n \in (StSize - 2)..StSize :
            stFile = [m \in StMemories |-> StFile(SubSeq(StZero, 1, n))]
      BY <2>3 DEF StInit
    <3>2. n \in 0..StSize
      BY <1>1
    <3>3. SubSeq(StZero, 1, n) \in Seq(StBytes) /\ Len(SubSeq(StZero, 1, n)) = n
      BY <1>1, <3>2, StPartOf
    <3> DEFINE zeros == SubSeq(StZero, 1, n)
    <3> HIDE DEF zeros
    <3>4. StFile(zeros) \in [exists : BOOLEAN, data : Seq(StBytes)] /\ StFile(zeros).data = zeros
      BY <2>1, <3>3 DEF StFile, zeros
    <3>5. stFile = [m \in StMemories |-> StFile(zeros)] /\ Len(zeros) = n
      BY <3>1, <3>3 DEF zeros
    <3> QED BY <3>2, <3>4, <3>5, <1>1
  <2> QED BY <2>2, <2>3
<1>4. stMemory \in [StMemories -> StData] /\ stPc = "off" /\ stReturn = "running" /\ stWrites = 0
  BY <1>1 DEF StInit
<1>5. stCut \in [StMemories -> BOOLEAN] /\ stFresh \in [StMemories -> BOOLEAN]
  BY DEF StInit
<1> QED BY <1>2, <1>3, <1>4, <1>5, StorageAssumption DEF StInv, StTypes, StKeptOf

LEMMA StLoadFlashInv == StInv /\ StLoadFlash => StInv'
<1> SUFFICES ASSUME StInv, StLoadFlash PROVE StInv'
  OBVIOUS
<1>1. stPc = "off" /\ stWrites' = 0 /\ UNCHANGED <<stFile, stReturn, stSaved, stCut>>
      /\ stFresh' = [m \in StMemories |-> stPc' = "flashed"]
  BY DEF StLoadFlash
<1>2. StBlank \in StData /\ "flash" \in StMemories /\ "eeprom" \in StMemories /\ StMaxWrites \in Nat
  BY StBlankData, StorageAssumption DEF StMemories
<1>3. stFresh' \in [StMemories -> BOOLEAN]
  <2>1. (stPc' = "flashed") \in BOOLEAN
    OBVIOUS
  <2> QED BY <1>1, <2>1
<1>4. /\ stMemory' \in [StMemories -> StData]
      /\ stPc' \in {"flashed", "exit"}
      /\ stPc' = "exit" => Len(stFile["flash"].data) = StSize - 1
      /\ stSaved["flash"] # <<>> /\ ~stCut["flash"] => stMemory'["flash"] = stSaved["flash"]
  <2>1. CASE ~StLongEnough(stFile["flash"])
    <3>1. stPc' = "flashed" /\ stMemory' = [m \in StMemories |-> StBlank]
      BY <2>1 DEF StLoadFlash
    <3>2. ~(stSaved["flash"] # <<>> /\ ~stCut["flash"])
      BY <1>2, <2>1, StSavedLoads
    <3> QED BY <1>2, <3>1, <3>2
  <2>2. CASE StLongEnough(stFile["flash"]) /\ StReadFails(stFile["flash"])
    <3>1. stPc' = "exit" /\ stMemory' = [m \in StMemories |-> StBlank]
      BY <2>2 DEF StLoadFlash
    <3>2. ~(stSaved["flash"] # <<>> /\ ~stCut["flash"])
      BY <1>2, <2>2, StSavedLoads
    <3>3. Len(stFile["flash"].data) = StSize - 1
      BY <1>2, <2>2, StLoadLength
    <3> QED BY <1>2, <3>1, <3>2, <3>3
  <2>3. CASE StLongEnough(stFile["flash"]) /\ ~StReadFails(stFile["flash"])
    <3>1. stPc' = "flashed" /\ stMemory' = [flash |-> stFile["flash"].data, eeprom |-> StBlank]
      BY <2>3 DEF StLoadFlash
    <3>2. stFile["flash"].data \in StData
      BY <1>2, <2>3, StLoadLength
    <3>3. stSaved["flash"] # <<>> /\ ~stCut["flash"] => stFile["flash"].data = stSaved["flash"]
      BY <1>2, StSavedLoads
    <3>4. stMemory' \in [StMemories -> StData] /\ stMemory'["flash"] = stFile["flash"].data
      BY <1>2, <3>1, <3>2 DEF StMemories
    <3> QED BY <3>1, <3>3, <3>4
  <2> QED BY <2>1, <2>2, <2>3
<1>5. StTypes'
  BY <1>1, <1>2, <1>3, <1>4 DEF StInv, StTypes
<1>6. ASSUME NEW m \in StMemories PROVE StKeptOf(m)'
  <2>1. stSaved'[m] = stSaved[m] /\ stCut' = stCut /\ stFile' = stFile
        /\ (stSaved[m] # <<>> /\ ~stCut[m] => stFile[m] = StFile(stSaved[m]))
    BY <1>1 DEF StInv, StKeptOf
  <2>2. m = "eeprom" => stPc' \in StUnread(m)
    BY <1>4 DEF StUnread
  <2>3. m = "flash" /\ stSaved[m] # <<>> /\ ~stCut[m] => stMemory'[m] = stSaved[m]
    BY <1>4
  <2>4. m = "flash" \/ m = "eeprom"
    BY DEF StMemories
  <2> QED BY <2>1, <2>2, <2>3, <2>4 DEF StKeptOf
<1>7. stPc' = "exit" => \E m \in StMemories : Len(stFile'[m].data) = StSize - 1
  BY <1>1, <1>2, <1>4
<1> QED BY <1>5, <1>6, <1>7 DEF StInv

LEMMA StLoadEepromInv == StInv /\ StLoadEeprom => StInv'
<1> SUFFICES ASSUME StInv, StLoadEeprom PROVE StInv'
  OBVIOUS
<1>1. stPc \in {"flashed", "running"} /\ UNCHANGED <<stFile, stReturn, stSaved, stCut, stWrites>>
      /\ StLoad
  BY DEF StLoadEeprom
<1>2. "flash" \in StMemories /\ "eeprom" \in StMemories
  BY DEF StMemories
<1>3. stMemory \in [StMemories -> StData] /\ stFresh \in [StMemories -> BOOLEAN]
  BY DEF StInv, StTypes
<1>4. /\ stMemory' \in [StMemories -> StData] /\ stMemory'["flash"] = stMemory["flash"]
      /\ stFresh' \in [StMemories -> BOOLEAN] /\ (stFresh'["flash"] => stFresh["flash"])
      /\ stPc' \in {"running", "exit"}
      /\ stPc' = "exit" => Len(stFile["eeprom"].data) = StSize - 1
      /\ stSaved["eeprom"] # <<>> /\ ~stCut["eeprom"] =>
           stMemory'["eeprom"] = stSaved["eeprom"] \/ stSaved["eeprom"] = StZero
  <2>1. CASE ~StLongEnough(stFile["eeprom"])
    <3>1. stPc' = "running" /\ UNCHANGED <<stMemory, stFresh>>
      BY <1>1, <2>1 DEF StLoad
    <3>2. ~(stSaved["eeprom"] # <<>> /\ ~stCut["eeprom"])
      BY <1>2, <2>1, StSavedLoads
    <3> QED BY <1>3, <3>1, <3>2
  <2>2. CASE StLongEnough(stFile["eeprom"]) /\ StReadFails(stFile["eeprom"])
    <3>1. stPc' = "exit" /\ UNCHANGED <<stMemory, stFresh>>
      BY <1>1, <2>2 DEF StLoad
    <3>2. ~(stSaved["eeprom"] # <<>> /\ ~stCut["eeprom"])
      BY <1>2, <2>2, StSavedLoads
    <3>3. Len(stFile["eeprom"].data) = StSize - 1
      BY <1>2, <2>2, StLoadLength
    <3> QED BY <1>3, <3>1, <3>2, <3>3
  <2>3. CASE StLongEnough(stFile["eeprom"]) /\ ~StReadFails(stFile["eeprom"])
    <3> DEFINE data == stFile["eeprom"].data
    <3>1. /\ stPc' = "running"
          /\ stMemory' = IF data = StZero THEN stMemory ELSE [stMemory EXCEPT !["eeprom"] = data]
          /\ stFresh' = [stFresh EXCEPT !["eeprom"] = TRUE]
      BY <1>1, <2>3 DEF StLoad
    <3>2. data \in StData
      BY <1>2, <2>3, StLoadLength
    <3>3. stSaved["eeprom"] # <<>> /\ ~stCut["eeprom"] => data = stSaved["eeprom"]
      BY <1>2, StSavedLoads
    <3> HIDE DEF data
    <3>4. stMemory' \in [StMemories -> StData] /\ stMemory'["flash"] = stMemory["flash"]
          /\ (data = StZero \/ stMemory'["eeprom"] = data)
      BY <1>2, <1>3, <3>1, <3>2
    <3>5. stFresh' \in [StMemories -> BOOLEAN] /\ (stFresh'["flash"] => stFresh["flash"])
      BY <1>2, <1>3, <3>1
    <3> QED BY <3>1, <3>3, <3>4, <3>5
  <2> QED BY <2>1, <2>2, <2>3
<1>5. StTypes'
  BY <1>1, <1>4 DEF StInv, StTypes
<1>6. StKeptOf("flash")'
  <2>1. stPc \notin StUnread("flash")
    BY <1>1 DEF StUnread
  <2> QED BY <1>1, <1>2, <1>4, <2>1, StLeftAlone DEF StInv
<1>7. StKeptOf("eeprom")'
  BY <1>1, <1>2, <1>4 DEF StInv, StKeptOf
<1>8. \A m \in StMemories : StKeptOf(m)'
  BY <1>6, <1>7 DEF StMemories
<1>9. stPc' = "exit" => \E m \in StMemories : Len(stFile'[m].data) = StSize - 1
  BY <1>1, <1>2, <1>4
<1> QED BY <1>5, <1>8, <1>9 DEF StInv

LEMMA StChangeInv ==
  ASSUME StInv, NEW m \in StMemories, NEW data \in StData, StChange(m, data)
  PROVE  StInv'
<1>1. /\ stPc = "running" /\ stWrites < StMaxWrites /\ stWrites' = stWrites + 1
      /\ stMemory' = [stMemory EXCEPT ![m] = data]
      /\ stFresh' = [stFresh EXCEPT ![m] = FALSE]
      /\ UNCHANGED <<stPc, stFile, stReturn, stSaved, stCut>>
  BY DEF StChange
<1>2. stMemory \in [StMemories -> StData] /\ stFresh \in [StMemories -> BOOLEAN]
      /\ stWrites \in 0..StMaxWrites /\ StMaxWrites \in Nat
  BY StorageAssumption DEF StInv, StTypes
<1>3. stMemory' \in [StMemories -> StData] /\ stFresh' \in [StMemories -> BOOLEAN]
      /\ stWrites' \in 0..StMaxWrites /\ ~stFresh'[m]
  BY <1>1, <1>2
<1>4. StTypes'
  BY <1>1, <1>3 DEF StInv, StTypes
<1>5. ASSUME NEW k \in StMemories PROVE StKeptOf(k)'
  <2>1. CASE k = m
    BY <1>1, <1>3, <2>1 DEF StInv, StKeptOf
  <2>2. CASE k # m
    <3>1. stMemory'[k] = stMemory[k] /\ (stFresh'[k] => stFresh[k])
      BY <1>1, <1>2, <2>2
    <3> QED BY <1>1, <3>1, StLeftAlone DEF StInv
  <2> QED BY <2>1, <2>2
<1> QED BY <1>1, <1>4, <1>5 DEF StInv

LEMMA StOpenInv ==
  ASSUME StInv, NEW m \in StMemories, NEW from, NEW to, NEW failed,
         from \notin {"off", "exit", "flashed"},
         {to, failed} \subseteq {"off", "running", "flashOpen", "flashDone", "eepromOpen"},
         StOpen(m, from, to, failed), stReturn' \in {"running", "off"}
  PROVE  StInv'
<1>1. /\ stPc = from /\ stPc' \in {to, failed}
      /\ stFile' = [stFile EXCEPT ![m] = StFile(<<>>)] \/ stFile' = stFile
      /\ stCut' = [stCut EXCEPT ![m] = TRUE]
      /\ UNCHANGED <<stMemory, stSaved, stFresh, stWrites>>
  BY DEF StOpen
<1>2. /\ stFile \in [StMemories -> [exists : BOOLEAN, data : Seq(StBytes)]]
      /\ \A k \in StMemories : Len(stFile[k].data) <= StSize
      /\ stCut \in [StMemories -> BOOLEAN] /\ StSize \in Nat
  BY StorageAssumption DEF StInv, StTypes
<1> DEFINE empty == StFile(<<>>)
<1>3. /\ empty \in [exists : BOOLEAN, data : Seq(StBytes)] /\ Len(empty.data) = 0
  <2>1. <<>> \in Seq(StBytes) /\ Len(<<>>) = 0
    OBVIOUS
  <2> QED BY <2>1 DEF StFile
<1>4. /\ stFile' \in [StMemories -> [exists : BOOLEAN, data : Seq(StBytes)]]
      /\ \A k \in StMemories : Len(stFile'[k].data) <= StSize
      /\ \A k \in StMemories : k # m => stFile'[k] = stFile[k]
  <2>1. stFile' = [stFile EXCEPT ![m] = empty] \/ stFile' = stFile
    BY <1>1
  <2> HIDE DEF empty
  <2>2. CASE stFile' = [stFile EXCEPT ![m] = empty]
    BY <1>2, <1>3, <2>2
  <2>3. CASE stFile' = stFile
    BY <1>2, <2>3
  <2> QED BY <2>1, <2>2, <2>3
<1>5. /\ stCut' \in [StMemories -> BOOLEAN] /\ stCut'[m]
      /\ \A k \in StMemories : stCut[k] => stCut'[k]
  BY <1>1, <1>2
<1>6. StTypes'
  BY <1>1, <1>4, <1>5 DEF StInv, StTypes
<1>7. ASSUME NEW k \in StMemories PROVE StKeptOf(k)'
  <2>1. CASE k = m
    BY <1>5, <2>1 DEF StKeptOf
  <2>2. CASE k # m
    <3>1. stPc \notin StUnread(k)
      BY <1>1 DEF StUnread
    <3> QED BY <1>1, <1>4, <1>5, <2>2, <3>1, StLeftAlone DEF StInv
  <2> QED BY <2>1, <2>2
<1>8. stPc' # "exit"
  BY <1>1
<1> QED BY <1>6, <1>7, <1>8 DEF StInv

LEMMA StWriteInv ==
  ASSUME StInv, NEW m \in StMemories, NEW from, NEW to,
         from \notin {"off", "exit", "flashed"},
         to \in {"off", "running", "flashDone"}, StWrite(m, from, to)
  PROVE  StInv'
<1>1. PICK n \in 0..StSize :
        /\ stFile' = [stFile EXCEPT ![m] = StFile(SubSeq(stMemory[m], 1, n))]
        /\ stCut' = [stCut EXCEPT ![m] = n < StSize]
        /\ stSaved' = [stSaved EXCEPT ![m] = IF n < StSize THEN @ ELSE stMemory[m]]
  BY DEF StWrite
<1>2. stPc = from /\ stPc' = to /\ stFresh' = [stFresh EXCEPT ![m] = TRUE]
      /\ UNCHANGED <<stMemory, stReturn, stWrites>>
  BY DEF StWrite
<1>3. /\ stFile \in [StMemories -> [exists : BOOLEAN, data : Seq(StBytes)]]
      /\ \A k \in StMemories : Len(stFile[k].data) <= StSize
      /\ stCut \in [StMemories -> BOOLEAN] /\ stFresh \in [StMemories -> BOOLEAN]
      /\ stSaved \in [StMemories -> StData \cup {<<>>}] /\ stMemory[m] \in StData
      /\ StSize \in Nat
  BY StorageAssumption DEF StInv, StTypes
<1> DEFINE written == SubSeq(stMemory[m], 1, n)
<1>4. written \in Seq(StBytes) /\ Len(written) = n /\ (n = StSize => written = stMemory[m])
  BY <1>3, StPartOf
<1>5. stFile' = [stFile EXCEPT ![m] = StFile(written)]
  BY <1>1
<1> HIDE DEF written
<1>6. StFile(written) \in [exists : BOOLEAN, data : Seq(StBytes)] /\ StFile(written).data = written
  BY <1>4 DEF StFile
<1>7. /\ stFile' \in [StMemories -> [exists : BOOLEAN, data : Seq(StBytes)]]
      /\ \A k \in StMemories : Len(stFile'[k].data) <= StSize
      /\ stFile'[m] = StFile(written)
      /\ \A k \in StMemories : k # m => stFile'[k] = stFile[k]
  BY <1>3, <1>4, <1>5, <1>6
<1>8. stCut' \in [StMemories -> BOOLEAN] /\ stFresh' \in [StMemories -> BOOLEAN]
  <2>1. (n < StSize) \in BOOLEAN /\ TRUE \in BOOLEAN
    BY SMT
  <2> QED BY <1>1, <1>2, <1>3, <2>1
<1>9. /\ n < StSize => stCut'[m]
      /\ \A k \in StMemories : k # m => stCut'[k] = stCut[k] /\ stFresh'[k] = stFresh[k]
  BY <1>1, <1>2, <1>3
<1>10. /\ stSaved' \in [StMemories -> StData \cup {<<>>}]
       /\ ~(n < StSize) => stSaved'[m] = stMemory[m]
       /\ \A k \in StMemories : k # m => stSaved'[k] = stSaved[k]
  BY <1>1, <1>3
<1>11. StTypes'
  BY <1>2, <1>7, <1>8, <1>10 DEF StInv, StTypes
<1>12. ASSUME NEW k \in StMemories PROVE StKeptOf(k)'
  <2>1. CASE k = m /\ n < StSize
    BY <1>9, <2>1 DEF StKeptOf
  <2>2. CASE k = m /\ ~(n < StSize)
    <3>1. n = StSize
      BY <1>3, <2>2
    <3>2. stFile'[m] = StFile(stMemory[m]) /\ stSaved'[m] = stMemory[m] /\ stMemory' = stMemory
      BY <1>2, <1>4, <1>7, <1>10, <2>2, <3>1
    <3> QED BY <2>2, <3>2 DEF StKeptOf
  <2>3. CASE k # m
    <3>1. stPc \notin StUnread(k)
      BY <1>2 DEF StUnread
    <3>2. stMemory'[k] = stMemory[k] /\ stCut'[k] = stCut[k] /\ stFresh'[k] = stFresh[k]
      BY <1>2, <1>9, <2>3
    <3> QED BY <1>7, <1>10, <2>3, <3>1, <3>2, StLeftAlone DEF StInv
  <2> QED BY <2>1, <2>2, <2>3
<1>13. stPc' # "exit"
  BY <1>2
<1> QED BY <1>11, <1>12, <1>13 DEF StInv

LEMMA StStepInv == StInv /\ [StNext]_stVars => StInv'
<1> SUFFICES ASSUME StInv, [StNext]_stVars PROVE StInv'
  OBVIOUS
<1>0. /\ "flash" \in StMemories /\ "eeprom" \in StMemories
      /\ stMemory \in [StMemories -> StData] /\ stReturn \in {"running", "off"}
      /\ StBlank \in StData
  BY StBlankData DEF StMemories, StInv, StTypes
<1>1. CASE StLoadFlash
  BY <1>1, StLoadFlashInv
<1>2. CASE StLoadEeprom
  BY <1>2, StLoadEepromInv
<1>3. CASE StPoke
  <2>1. PICK i \in 1..StSize, byte \in StBytes :
          StChange("eeprom", [stMemory["eeprom"] EXCEPT ![i] = byte])
    BY <1>3 DEF StPoke
  <2>2. [stMemory["eeprom"] EXCEPT ![i] = byte] \in StData
    BY <1>0 DEF StData
  <2> QED BY <1>0, <2>1, <2>2, StChangeInv
<1>4. CASE StClear
  BY <1>0, <1>4, StChangeInv DEF StClear
<1>5. CASE StProgram
  <2>1. PICK byte \in StBytes : StChange("flash", [i \in 1..StSize |-> byte])
    BY <1>5 DEF StProgram
  <2>2. [i \in 1..StSize |-> byte] \in StData
    BY DEF StData
  <2> QED BY <1>0, <2>1, <2>2, StChangeInv
<1>6. CASE StSave
  <2>1. StOpen("eeprom", "running", "eepromOpen", "running") /\ stReturn' \in {"running", "off"}
    BY <1>6 DEF StSave
  <2> QED BY <1>0, <2>1, StOpenInv
<1>7. CASE StDeinit
  <2>1. StOpen("flash", "running", "flashOpen", "flashDone") /\ stReturn' \in {"running", "off"}
    BY <1>0, <1>7 DEF StDeinit
  <2> QED BY <1>0, <2>1, StOpenInv
<1>8. CASE StWriteFlash
  BY <1>0, <1>8, StWriteInv DEF StWriteFlash
<1>9. CASE StDeinitEeprom
  <2>1. StOpen("eeprom", "flashDone", "eepromOpen", "off") /\ stReturn' \in {"running", "off"}
    BY <1>9 DEF StDeinitEeprom
  <2> QED BY <1>0, <2>1, StOpenInv
<1>10. CASE StWriteEeprom
  BY <1>0, <1>10, StWriteInv DEF StWriteEeprom
<1>11. CASE StKill
  <2>1. stPc' = "off" /\ stMemory' = [m \in StMemories |-> StBlank]
        /\ UNCHANGED <<stFile, stReturn, stSaved, stCut, stFresh, stWrites>>
    BY <1>11 DEF StKill
  <2>2. StTypes'
    BY <1>0, <2>1 DEF StInv, StTypes
  <2>3. \A m \in StMemories : StKeptOf(m)'
    BY <2>1 DEF StInv, StKeptOf, StUnread
  <2> QED BY <2>1, <2>2, <2>3 DEF StInv
<1>12. CASE UNCHANGED stVars
  BY <1>12 DEF stVars, StInv, StTypes, StKeptOf
<1> QED BY <1>1, <1>2, <1>3, <1>4, <1>5, <1>6, <1>7, <1>8, <1>9, <1>10, <1>11, <1>12 DEF StNext

LEMMA StInvariant == StSpec => []StInv
BY StInitInv, StStepInv, PTL DEF StSpec

-----------------------------------------------------------------------------
(***************************************************************************)
(* The pipe between two UARTs.                                             *)
(***************************************************************************)
PipeThreadOK ==
  /\ pipePc \in ({"open", "close", "read", "write"} \X Ports)
                \cup {<<"loop", 0>>, <<"select", 0>>, <<"done", 0>>}
  /\ pipeOpen \subseteq Ports /\ pipeReady \subseteq Ports
  /\ pipeErr \in BOOLEAN /\ pipeQuit \in BOOLEAN /\ pipeCancel \in BOOLEAN
  /\ pipeCancel => pipeQuit
  /\ \A p \in Ports : pipePc = <<"write", p>> => pipeChr \in Ports \X Nat

PipeQueuesOK ==
  /\ pipeIn \in [Ports -> Seq(Nat)] /\ pipeOut \in [Ports -> Seq(Nat)]
  /\ pipeGot \in [Ports -> Seq(Nat)] /\ pipeSent \in [Ports -> 0..PipeMaxBytes]
  /\ pipeLost \in [Ports -> SUBSET Nat] /\ pipeHungUp \subseteq Ports
  /\ \A p \in Ports : Len(pipeOut[p]) <= PipeCapacity

\* Ordered(s): every byte came after all those before it.
Ordered(s) == \A i, j \in 1..Len(s) : i < j => s[i] < s[j]

\* Of the bytes a side has sent, no two are carried out of order, and none is both lost and
\* carried.
PipeKept(p) ==
  /\ Ordered(Carried(p))
  /\ ToSet(Carried(p)) \subseteq 1..pipeSent[p] /\ pipeLost[p] \subseteq 1..pipeSent[p]
  /\ ToSet(Carried(p)) \cap pipeLost[p] = {}
  /\ pipePc[1] # "done" => 1..pipeSent[p] \subseteq pipeLost[p] \cup ToSet(Carried(p))

PipeInv == PipeThreadOK /\ PipeQueuesOK /\ \A p \in Ports : PipeKept(p)

LEMMA PortsOther == Ports = {0, 1} /\ \A p \in Ports : Other(p) \in Ports /\ Other(p) # p /\ Other(Other(p)) = p
BY DEF Ports, Other

\* Sequences of numbers in order
LEMMA OrderedIncreasing ==
  ASSUME NEW s \in Seq(Nat), Ordered(s)
  PROVE  Increasing(s)
BY DEF Ordered, Increasing

LEMMA ToSetLen ==
  ASSUME NEW s \in Seq(Nat)
  PROVE  ToSet(s) = {s[i] : i \in 1..Len(s)} /\ ToSet(s) \subseteq Nat
BY DEF ToSet

LEMMA ToSetOne ==
  ASSUME NEW n \in Nat
  PROVE  <<n>> \in Seq(Nat) /\ Len(<<n>>) = 1 /\ ToSet(<<n>>) = {n}
<1>1. <<n>> \in Seq(Nat) /\ Len(<<n>>) = 1 /\ <<n>>[1] = n /\ DOMAIN <<n>> = {1}
  OBVIOUS
<1>2. ToSet(<<n>>) = {<<n>>[i] : i \in {1}}
  BY <1>1, Zenon DEF ToSet
<1> QED BY <1>1, <1>2

LEMMA ToSetConcat ==
  ASSUME NEW s \in Seq(Nat), NEW t \in Seq(Nat)
  PROVE  ToSet(s \o t) = ToSet(s) \cup ToSet(t)
<1>1. s \o t \in Seq(Nat) /\ Len(s \o t) = Len(s) + Len(t) /\ Len(s) \in Nat /\ Len(t) \in Nat
  OBVIOUS
<1>2. \A i \in 1..(Len(s) + Len(t)) : (s \o t)[i] = IF i <= Len(s) THEN s[i] ELSE t[i - Len(s)]
  OBVIOUS
<1>3. ASSUME NEW x \in ToSet(s \o t) PROVE x \in ToSet(s) \cup ToSet(t)
  <2>1. PICK i \in 1..(Len(s) + Len(t)) : x = (s \o t)[i]
    BY <1>1, ToSetLen
  <2>2. CASE i <= Len(s)
    BY <1>1, <1>2, <2>1, <2>2, ToSetLen
  <2>3. CASE ~(i <= Len(s))
    <3>1. i - Len(s) \in 1..Len(t)
      BY <1>1, <2>1, <2>3
    <3> QED BY <1>2, <2>1, <2>3, <3>1, ToSetLen
  <2> QED BY <2>2, <2>3
<1>4. ASSUME NEW x \in ToSet(s) PROVE x \in ToSet(s \o t)
  <2>1. PICK i \in 1..Len(s) : x = s[i]
    BY ToSetLen
  <2>2. i \in 1..(Len(s) + Len(t)) /\ (s \o t)[i] = x
    BY <1>1, <1>2, <2>1
  <2> QED BY <1>1, <2>2, ToSetLen
<1>5. ASSUME NEW x \in ToSet(t) PROVE x \in ToSet(s \o t)
  <2>1. PICK i \in 1..Len(t) : x = t[i]
    BY ToSetLen
  <2>2. i + Len(s) \in 1..(Len(s) + Len(t)) /\ (s \o t)[i + Len(s)] = x
    BY <1>1, <1>2, <2>1
  <2> QED BY <1>1, <2>2, ToSetLen
<1> QED BY <1>3, <1>4, <1>5

\* The last byte sent is the last carried.
LEMMA OrderedAppend ==
  ASSUME NEW s \in Seq(Nat), NEW n \in Nat, Ordered(s), \A x \in ToSet(s) : x < n
  PROVE  Ordered(s \o <<n>>) /\ ToSet(s \o <<n>>) = ToSet(s) \cup {n}
<1>1. <<n>> \in Seq(Nat)
  BY ToSetOne
<1>2. ToSet(<<n>>) = {n}
  BY ToSetOne
<1>3. \A i \in 1..Len(s) : s[i] < n
  BY ToSetLen
<1>4. Len(s \o <<n>>) = Len(s) + 1 /\ Len(s) \in Nat
      /\ \A i \in 1..(Len(s) + 1) : (s \o <<n>>)[i] = IF i <= Len(s) THEN s[i] ELSE n
  OBVIOUS
<1>5. Ordered(s \o <<n>>)
  BY <1>3, <1>4 DEF Ordered
<1> QED BY <1>1, <1>2, <1>5, ToSetConcat

\* A byte that is dropped was there only once.
LEMMA OrderedDrop ==
  ASSUME NEW s \in Seq(Nat), NEW n \in Nat, NEW t \in Seq(Nat), Ordered((s \o <<n>>) \o t)
  PROVE  /\ Ordered(s \o t)
         /\ ToSet((s \o <<n>>) \o t) = ToSet(s \o t) \cup {n}
         /\ n \notin ToSet(s \o t)
<1> DEFINE c == (s \o <<n>>) \o t
<1>1. <<n>> \in Seq(Nat) /\ s \o <<n>> \in Seq(Nat) /\ Len(s) \in Nat /\ Len(t) \in Nat
      /\ Len(s \o <<n>>) = Len(s) + 1
  OBVIOUS
<1>2. /\ Len(c) = Len(s) + 1 + Len(t)
      /\ \A i \in 1..Len(s) : c[i] = s[i]
      /\ c[Len(s) + 1] = n
      /\ \A i \in 1..Len(t) : c[Len(s) + 1 + i] = t[i]
  <2>1. \A i \in 1..(Len(s) + 1) : (s \o <<n>>)[i] = IF i <= Len(s) THEN s[i] ELSE n
    OBVIOUS
  <2> DEFINE b == s \o <<n>>
  <2>2. b \in Seq(Nat) /\ Len(b) = Len(s) + 1
    BY <1>1
  <2>3. \A i \in 1..(Len(s) + 1) : b[i] = IF i <= Len(s) THEN s[i] ELSE n
    BY <2>1
  <2> HIDE DEF b
  <2>4. Len(b \o t) = Len(b) + Len(t)
        /\ \A i \in 1..(Len(b) + Len(t)) : (b \o t)[i] = IF i <= Len(b) THEN b[i] ELSE t[i - Len(b)]
    BY <2>2, ConcatProperties
  <2>5. c = b \o t
    BY DEF b
  <2> HIDE DEF c
  <2>6. ASSUME NEW i \in 1..Len(t) PROVE c[Len(s) + 1 + i] = t[i]
    <3>1. Len(s) + 1 + i \in 1..(Len(b) + Len(t)) /\ ~(Len(s) + 1 + i <= Len(b))
          /\ (Len(s) + 1 + i) - Len(b) = i
      BY <1>1, <2>2
    <3> QED BY <2>4, <2>5, <3>1
  <2>7. ASSUME NEW i \in 1..(Len(s) + 1) PROVE c[i] = b[i]
    <3>1. i \in 1..(Len(b) + Len(t)) /\ i <= Len(b)
      BY <1>1, <2>2
    <3> QED BY <2>4, <2>5, <3>1
  <2>8. ASSUME NEW i \in 1..Len(s) PROVE c[i] = s[i]
    <3>1. i \in 1..(Len(s) + 1) /\ i <= Len(s)
      BY <1>1
    <3> QED BY <2>3, <2>7, <3>1
  <2>9. c[Len(s) + 1] = n
    <3>1. Len(s) + 1 \in 1..(Len(s) + 1) /\ ~(Len(s) + 1 <= Len(s))
      BY <1>1
    <3> QED BY <2>3, <2>7, <3>1
  <2> QED BY <2>2, <2>4, <2>5, <2>6, <2>8, <2>9
<1>3. /\ Len(s \o t) = Len(s) + Len(t) /\ s \o t \in Seq(Nat)
      /\ \A i \in 1..(Len(s) + Len(t)) : (s \o t)[i] = IF i <= Len(s) THEN s[i] ELSE t[i - Len(s)]
  OBVIOUS
<1>4. \A i, j \in 1..Len(c) : i < j => c[i] < c[j]
  BY DEF Ordered
<1>5. ToSet(c) = ToSet(s \o t) \cup {n}
  <2>1. ToSet(<<n>>) = {n}
    BY ToSetOne
  <2>2. ToSet(c) = ToSet(s \o <<n>>) \cup ToSet(t)
    BY <1>1, ToSetConcat
  <2>3. ToSet(s \o <<n>>) = ToSet(s) \cup {n} /\ ToSet(s \o t) = ToSet(s) \cup ToSet(t)
    BY <1>1, <2>1, ToSetConcat
  <2> QED BY <2>2, <2>3
<1> HIDE DEF c
<1> DEFINE place(i) == IF i <= Len(s) THEN i ELSE i + 1
<1>6. \A i \in 1..(Len(s) + Len(t)) :
        place(i) \in 1..Len(c) /\ place(i) # Len(s) + 1 /\ (s \o t)[i] = c[place(i)]
  <2> SUFFICES ASSUME NEW i \in 1..(Len(s) + Len(t))
               PROVE  place(i) \in 1..Len(c) /\ place(i) # Len(s) + 1 /\ (s \o t)[i] = c[place(i)]
    OBVIOUS
  <2>1. CASE i <= Len(s)
    BY <1>1, <1>2, <1>3, <2>1
  <2>2. CASE ~(i <= Len(s))
    <3>1. i - Len(s) \in 1..Len(t) /\ Len(s) + 1 + (i - Len(s)) = i + 1
      BY <1>1, <2>2
    <3>2. c[i + 1] = t[i - Len(s)] /\ (s \o t)[i] = t[i - Len(s)]
      BY <1>2, <1>3, <2>2, <3>1
    <3> QED BY <1>1, <1>2, <2>2, <3>2
  <2> QED BY <2>1, <2>2
<1>7. Ordered(s \o t)
  <2> SUFFICES ASSUME NEW i \in 1..(Len(s) + Len(t)), NEW j \in 1..(Len(s) + Len(t)), i < j
               PROVE  (s \o t)[i] < (s \o t)[j]
    BY <1>3 DEF Ordered
  <2>1. place(i) < place(j)
    BY <1>1
  <2> QED BY <1>4, <1>6, <2>1
<1>8. n \notin ToSet(s \o t)
  <2> SUFFICES ASSUME n \in ToSet(s \o t) PROVE FALSE
    OBVIOUS
  <2>1. PICK i \in 1..(Len(s) + Len(t)) : n = (s \o t)[i]
    BY <1>3, ToSetLen
  <2>2. PICK k \in 1..Len(c) : k # Len(s) + 1 /\ c[k] = n
    BY <1>6, <2>1
  <2>3. Len(s) + 1 \in 1..Len(c) /\ c[Len(s) + 1] = n
    BY <1>1, <1>2
  <2> QED BY <1>4, <2>2, <2>3
<1> QED BY <1>5, <1>7, <1>8 DEF c

LEMMA HeadMoves ==
  ASSUME NEW a \in Seq(Nat), NEW b \in Seq(Nat), b # <<>>
  PROVE  /\ (a \o <<Head(b)>>) \o Tail(b) = a \o b
         /\ Head(b) \in Nat /\ Tail(b) \in Seq(Nat)
<1>1. Head(b) \in Nat /\ Tail(b) \in Seq(Nat) /\ <<Head(b)>> \in Seq(Nat)
  OBVIOUS
<1>2. <<Head(b)>> \o Tail(b) = b
  <2> DEFINE c == <<Head(b)>> \o Tail(b)
  <2>1. c \in Seq(Nat) /\ Len(c) = Len(b) /\ \A i \in 1..Len(b) : c[i] = b[i]
    BY <1>1
  <2> QED BY <2>1, SeqEqual
<1>3. (a \o <<Head(b)>>) \o Tail(b) = a \o (<<Head(b)>> \o Tail(b))
  BY <1>1, ConcatAssociative
<1> QED BY <1>1, <1>2, <1>3, Zenon

-----------------------------------------------------------------------------
LEMMA PipeInitInv == PipeInit => PipeInv
<1> SUFFICES ASSUME PipeInit PROVE PipeInv
  OBVIOUS
<1>1. pipeErr \in BOOLEAN /\ pipeQuit \in BOOLEAN /\ pipeCancel \in BOOLEAN /\ ~pipeCancel
  BY Zenon DEF PipeInit
<1>2. pipePc = <<"open", 0>> /\ pipeOpen = {} /\ pipeReady = {}
  BY DEF PipeInit
<1>3. PipeThreadOK
  BY <1>1, <1>2 DEF PipeThreadOK, Ports
<1>4. PipeQueuesOK
  <2>1. /\ pipeIn = [p \in Ports |-> <<>>] /\ pipeOut = [p \in Ports |-> <<>>]
        /\ pipeGot = [p \in Ports |-> <<>>] /\ pipeSent = [p \in Ports |-> 0]
        /\ pipeLost = [p \in Ports |-> {}] /\ pipeHungUp = {}
    BY DEF PipeInit
  <2>2. <<>> \in Seq(Nat) /\ Len(<<>>) = 0
    OBVIOUS
  <2>3. PipeMaxBytes \in Nat /\ PipeCapacity \in Nat
    BY PipeAssumption
  <2> QED BY <2>1, <2>2, <2>3 DEF PipeQueuesOK
<1>5. ASSUME NEW p \in Ports PROVE PipeKept(p)
  <2>1. pipeGot[Other(p)] = <<>> /\ pipeOut[Other(p)] = <<>> /\ pipeIn[p] = <<>>
        /\ pipeSent[p] = 0 /\ pipeLost[p] = {}
    BY PortsOther DEF PipeInit
  <2>2. InHand(p) = <<>>
    BY <1>2 DEF InHand
  <2>3. ((<<>> \o <<>>) \o <<>>) \o <<>> = <<>>
    BY ConcatEmptySeq, EmptySeq
  <2>4. Carried(p) = <<>>
    BY <2>1, <2>2, <2>3, Zenon DEF Carried
  <2>5. ToSet(<<>>) = {}
    BY DEF ToSet
  <2>6. Ordered(<<>>)
    BY DEF Ordered
  <2> QED BY <2>1, <2>4, <2>5, <2>6 DEF PipeKept
<1> QED BY <1>3, <1>4, <1>5 DEF PipeInv

LEMMA PipeSegments ==
  ASSUME PipeInv, NEW p \in Ports
  PROVE  /\ pipeGot[Other(p)] \in Seq(Nat) /\ pipeOut[Other(p)] \in Seq(Nat)
         /\ InHand(p) \in Seq(Nat) /\ pipeIn[p] \in Seq(Nat) /\ Carried(p) \in Seq(Nat)
         /\ pipeGot[Other(p)] \o pipeOut[Other(p)] \in Seq(Nat)
         /\ pipeSent[p] \in Nat /\ pipeLost[p] \in SUBSET Nat
<1>1. /\ pipeGot[Other(p)] \in Seq(Nat) /\ pipeOut[Other(p)] \in Seq(Nat) /\ pipeIn[p] \in Seq(Nat)
      /\ pipeSent[p] \in 0..PipeMaxBytes /\ pipeLost[p] \in SUBSET Nat
  BY PortsOther DEF PipeInv, PipeQueuesOK
<1>2. InHand(p) \in Seq(Nat)
  <2>1. CASE pipePc = <<"write", p>>
    <3>1. pipeChr[2] \in Nat
      BY <2>1 DEF PipeInv, PipeThreadOK
    <3>2. InHand(p) = <<pipeChr[2]>>
      BY <2>1 DEF InHand
    <3> QED BY <3>1, <3>2, ToSetOne
  <2>2. CASE pipePc # <<"write", p>>
    BY <2>2, EmptySeq DEF InHand
  <2> QED BY <2>1, <2>2
<1>3. pipeGot[Other(p)] \o pipeOut[Other(p)] \in Seq(Nat)
  BY <1>1, ConcatProperties
<1>4. (pipeGot[Other(p)] \o pipeOut[Other(p)]) \o InHand(p) \in Seq(Nat)
  BY <1>2, <1>3, ConcatProperties
<1>5. Carried(p) \in Seq(Nat)
  BY <1>1, <1>4, ConcatProperties DEF Carried
<1>6. pipeSent[p] \in Nat
  BY <1>1, PipeAssumption
<1> QED BY <1>1, <1>2, <1>3, <1>5, <1>6

\* Bytes that are where they were, or have only moved on, are kept.
LEMMA PipeMoved ==
  ASSUME NEW p \in Ports, PipeKept(p), Carried(p)' = Carried(p),
         pipeSent'[p] = pipeSent[p], pipeLost'[p] = pipeLost[p],
         pipePc'[1] # "done" => pipePc[1] # "done"
  PROVE  PipeKept(p)'
BY Zenon DEF PipeKept

LEMMA PipeQuiet ==
  ASSUME PipeInv, UNCHANGED <<pipeIn, pipeOut, pipeSent, pipeGot, pipeLost>>,
         pipeHungUp' \subseteq Ports, PipeThreadOK',
         pipePc'[1] # "done" => pipePc[1] # "done",
         \A p \in Ports : InHand(p)' = InHand(p)
  PROVE  PipeInv'
<1>1. PipeQueuesOK'
  BY DEF PipeInv, PipeQueuesOK
<1>2. ASSUME NEW p \in Ports PROVE PipeKept(p)'
  <2>1. Carried(p)' = Carried(p)
    BY Zenon DEF Carried
  <2> QED BY <2>1, PipeMoved DEF PipeInv
<1> QED BY <1>1, <1>2 DEF PipeInv

\* The steps of the thread that move no byte, and of the destructor
LEMMA PipeThreadInv ==
  ASSUME PipeInv,
         \/ PipeLoop \/ PipeSelect \/ PipeDestroyQuit \/ PipeDestroyCancel
         \/ \E p \in Ports : PipeOpenPort(p) \/ PipeClosePort(p)
  PROVE  PipeInv'
<1>0. /\ pipeErr \in BOOLEAN /\ pipeQuit \in BOOLEAN /\ pipeCancel \in BOOLEAN
      /\ pipeCancel => pipeQuit
      /\ pipeOpen \subseteq Ports /\ pipeReady \subseteq Ports /\ pipeHungUp \subseteq Ports
  BY DEF PipeInv, PipeThreadOK, PipeQueuesOK
<1>1. CASE PipeLoop
  <2>1. pipePc = <<"loop", 0>> /\ pipePc' \in {<<"close", 0>>, <<"select", 0>>}
        /\ UNCHANGED <<pipeOpen, pipeReady, pipeErr, pipeChr, pipeQuit, pipeCancel>>
        /\ UNCHANGED <<pipeIn, pipeOut, pipeHungUp, pipeSent, pipeGot, pipeLost>>
    BY <1>1 DEF PipeLoop, Goto, PipeQueuesUnchanged
  <2>2. PipeThreadOK'
    BY <1>0, <2>1 DEF PipeThreadOK, Ports
  <2>3. \A p \in Ports : InHand(p)' = InHand(p)
    BY <2>1 DEF InHand
  <2> QED BY <1>0, <2>1, <2>2, <2>3, PipeQuiet
<1>2. CASE PipeSelect
  <2>1. pipePc = <<"select", 0>> /\ pipePc' \in {<<"close", 0>>, <<"read", 0>>, <<"read", 1>>}
        /\ UNCHANGED <<pipeOpen, pipeChr, pipeCancel>>
        /\ UNCHANGED <<pipeIn, pipeOut, pipeHungUp, pipeSent, pipeGot, pipeLost>>
        /\ pipeReady' \subseteq Ports
    BY <1>0, <1>2 DEF PipeSelect, At, Goto, PipeQueuesUnchanged, Readable
  <2>2. pipeErr' \in BOOLEAN /\ pipeQuit' \in BOOLEAN /\ (pipeQuit => pipeQuit')
    <3>1. \/ pipeErr' \in {FALSE, pipeHungUp # {}} /\ pipeQuit' = pipeQuit
          \/ pipeErr' = pipeErr /\ pipeQuit' = TRUE
      BY <1>2, Zenon DEF PipeSelect
    <3> QED BY <1>0, <3>1, Zenon
  <2>3. PipeThreadOK'
    BY <1>0, <2>1, <2>2 DEF PipeThreadOK, Ports
  <2>4. \A p \in Ports : InHand(p)' = InHand(p)
    BY <2>1 DEF InHand
  <2> QED BY <1>0, <2>1, <2>3, <2>4, PipeQuiet
<1>3. CASE PipeDestroyQuit \/ PipeDestroyCancel
  <2>1. UNCHANGED <<pipePc, pipeOpen, pipeReady, pipeErr, pipeChr>>
        /\ UNCHANGED <<pipeIn, pipeOut, pipeHungUp, pipeSent, pipeGot, pipeLost>>
    BY <1>3 DEF PipeDestroyQuit, PipeDestroyCancel, PipeQueuesUnchanged
  <2>2. pipeQuit' \in BOOLEAN /\ pipeCancel' \in BOOLEAN /\ (pipeCancel' => pipeQuit')
    <3>1. \/ ~pipeQuit /\ pipeQuit' = TRUE /\ pipeCancel' = pipeCancel
          \/ pipeQuit /\ pipeQuit' = pipeQuit /\ pipeCancel' = TRUE
      BY <1>3, Zenon DEF PipeDestroyQuit, PipeDestroyCancel
    <3> QED BY <1>0, <3>1, Zenon
  <2>3. PipeThreadOK'
    BY <2>1, <2>2 DEF PipeInv, PipeThreadOK
  <2>4. \A p \in Ports : InHand(p)' = InHand(p)
    BY <2>1 DEF InHand
  <2> QED BY <1>0, <2>1, <2>3, <2>4, PipeQuiet
<1>4. ASSUME NEW p \in Ports, PipeOpenPort(p) PROVE PipeInv'
  <2>1. pipePc = <<"open", p>> /\ pipePc' \in {<<"open", 1>>, <<"loop", 0>>}
        /\ UNCHANGED <<pipeReady, pipeErr, pipeChr, pipeCancel>>
        /\ UNCHANGED <<pipeIn, pipeOut, pipeHungUp, pipeSent, pipeGot, pipeLost>>
        /\ pipeOpen' \subseteq Ports
    BY <1>0, <1>4 DEF PipeOpenPort, At, Goto, PipeQueuesUnchanged
  <2>2. pipeQuit' \in BOOLEAN /\ (pipeQuit => pipeQuit')
    <3>1. pipeQuit' = pipeQuit \/ pipeQuit' = TRUE
      BY <1>4, Zenon DEF PipeOpenPort
    <3> QED BY <1>0, <3>1, Zenon
  <2>3. PipeThreadOK'
    BY <1>0, <2>1, <2>2 DEF PipeThreadOK, Ports
  <2>4. \A q \in Ports : InHand(q)' = InHand(q)
    BY <2>1 DEF InHand
  <2> QED BY <1>0, <2>1, <2>3, <2>4, PipeQuiet
<1>5. ASSUME NEW p \in Ports, PipeClosePort(p) PROVE PipeInv'
  <2>1. pipePc = <<"close", p>> /\ pipePc' \in {<<"close", 1>>, <<"done", 0>>}
        /\ UNCHANGED <<pipeReady, pipeErr, pipeChr, pipeQuit, pipeCancel>>
        /\ UNCHANGED <<pipeIn, pipeOut, pipeHungUp, pipeSent, pipeGot, pipeLost>>
        /\ pipeOpen' \subseteq Ports
    BY <1>0, <1>5 DEF PipeClosePort, At, Goto, PipeQueuesUnchanged
  <2>2. PipeThreadOK'
    BY <1>0, <2>1 DEF PipeThreadOK, Ports
  <2>3. \A q \in Ports : InHand(q)' = InHand(q)
    BY <2>1 DEF InHand
  <2> QED BY <1>0, <2>1, <2>2, <2>3, PipeQuiet
<1> QED BY <1>1, <1>2, <1>3, <1>4, <1>5

\* A byte is taken from the queue of its side into chrIn.
LEMMA PipeReadInv == \A p \in Ports : PipeInv /\ PipeRead(p) => PipeInv'
<1> SUFFICES ASSUME NEW p \in Ports, PipeInv, PipeRead(p) PROVE PipeInv'
  OBVIOUS
<1>0. /\ pipeErr \in BOOLEAN /\ pipeQuit \in BOOLEAN /\ pipeCancel \in BOOLEAN
      /\ pipeCancel => pipeQuit
      /\ pipeOpen \subseteq Ports /\ pipeReady \subseteq Ports /\ pipeHungUp \subseteq Ports
  BY DEF PipeInv, PipeThreadOK, PipeQueuesOK
<1>1. pipePc = <<"read", p>> /\ UNCHANGED <<pipeOpen, pipeReady, pipeErr, pipeCancel>>
      /\ UNCHANGED <<pipeOut, pipeHungUp, pipeSent, pipeGot, pipeLost>>
  BY DEF PipeRead, At
<1>2. CASE pipeIn[p] # <<>> /\ pipePc' = <<"write", p>>
  <2>1. /\ pipeChr' = <<p, Head(pipeIn[p])>>
        /\ pipeIn' = [pipeIn EXCEPT ![p] = Tail(@)] /\ pipeQuit' = pipeQuit
    BY <1>2 DEF PipeRead, PipeAgain, PipeEndOfTurn, Goto
  <2>2. pipeIn \in [Ports -> Seq(Nat)] /\ pipeIn[p] \in Seq(Nat)
    BY DEF PipeInv, PipeQueuesOK
  <2>3. Head(pipeIn[p]) \in Nat /\ Tail(pipeIn[p]) \in Seq(Nat)
    BY <1>2, <2>2, HeadMoves
  <2>4. /\ pipeIn' \in [Ports -> Seq(Nat)] /\ pipeIn'[p] = Tail(pipeIn[p])
        /\ \A q \in Ports : q # p => pipeIn'[q] = pipeIn[q]
    BY <2>1, <2>2, <2>3
  <2>5. PipeThreadOK'
    BY <1>0, <1>1, <1>2, <2>1, <2>3 DEF PipeThreadOK, Ports
  <2>6. PipeQueuesOK'
    BY <1>1, <2>4 DEF PipeInv, PipeQueuesOK
  <2>7. ASSUME NEW q \in Ports PROVE Carried(q)' = Carried(q)
    <3>1. CASE q = p
      <4>1. InHand(p) = <<>> /\ InHand(p)' = <<Head(pipeIn[p])>>
        BY <1>1, <1>2, <2>1 DEF InHand
      <4>2. pipeGot[Other(p)] \o pipeOut[Other(p)] \in Seq(Nat)
        BY PipeSegments
      <4> DEFINE a == pipeGot[Other(p)] \o pipeOut[Other(p)]
      <4>3. Carried(p) = (a \o <<>>) \o pipeIn[p]
        BY <4>1, Zenon DEF Carried
      <4>4. Carried(p)' = (a \o <<Head(pipeIn[p])>>) \o Tail(pipeIn[p])
        BY <1>1, <2>4, <4>1, Zenon DEF Carried
      <4>5. a \in Seq(Nat)
        BY <4>2
      <4> HIDE DEF a
      <4>6. a \o <<>> = a
        BY <4>5, ConcatEmptySeq
      <4>7. (a \o <<Head(pipeIn[p])>>) \o Tail(pipeIn[p]) = a \o pipeIn[p]
        BY <1>2, <2>2, <4>5, HeadMoves
      <4> QED BY <3>1, <4>3, <4>4, <4>6, <4>7, Zenon
    <3>2. CASE q # p
      <4>1. InHand(q) = <<>> /\ InHand(q)' = <<>>
        BY <1>1, <1>2, <3>2 DEF InHand
      <4> QED BY <1>1, <2>4, <3>2, <4>1, Zenon DEF Carried
    <3> QED BY <3>1, <3>2
  <2>8. ASSUME NEW q \in Ports PROVE PipeKept(q)'
    BY <1>1, <2>7, PipeMoved DEF PipeInv
  <2> QED BY <2>5, <2>6, <2>8 DEF PipeInv
<1>3. CASE ~(pipeIn[p] # <<>> /\ pipePc' = <<"write", p>>)
  <2>1. /\ pipePc' \in {<<"read", 1>>, <<"close", 0>>, <<"loop", 0>>}
        /\ UNCHANGED <<pipeChr, pipeIn>>
    BY <1>3 DEF PipeRead, PipeAgain, PipeEndOfTurn, Goto
  <2>2. pipeQuit' \in BOOLEAN /\ (pipeQuit => pipeQuit')
    <3>1. pipeQuit' = pipeQuit \/ pipeQuit' = TRUE
      BY <1>3, Zenon DEF PipeRead, PipeAgain, PipeEndOfTurn, Goto
    <3> QED BY <1>0, <3>1, Zenon
  <2>3. PipeThreadOK'
    BY <1>0, <1>1, <2>1, <2>2 DEF PipeThreadOK, Ports
  <2>4. \A q \in Ports : InHand(q)' = InHand(q)
    BY <1>1, <2>1 DEF InHand
  <2> QED BY <1>0, <1>1, <2>1, <2>3, <2>4, PipeQuiet
<1> QED BY <1>2, <1>3

\* A byte that is in chrIn, and one that is not any more
LEMMA PipeDropped ==
  ASSUME PipeInv, NEW p \in Ports, pipePc = <<"write", p>>,
         NEW rest, rest = (pipeGot[Other(p)] \o pipeOut[Other(p)]) \o pipeIn[p]
  PROVE  /\ rest \in Seq(Nat) /\ Ordered(rest)
         /\ ToSet(Carried(p)) = ToSet(rest) \cup {pipeChr[2]} /\ pipeChr[2] \notin ToSet(rest)
<1> DEFINE a == pipeGot[Other(p)] \o pipeOut[Other(p)]
<1>1. pipeChr[2] \in Nat
  BY DEF PipeInv, PipeThreadOK
<1>2. a \in Seq(Nat) /\ pipeIn[p] \in Seq(Nat)
  BY PipeSegments
<1>3. Carried(p) = (a \o <<pipeChr[2]>>) \o pipeIn[p]
  BY Zenon DEF Carried, InHand
<1>4. Ordered(Carried(p))
  BY DEF PipeInv, PipeKept
<1>5. rest = a \o pipeIn[p]
  OBVIOUS
<1> HIDE DEF a
<1>6. rest \in Seq(Nat)
  BY <1>2, <1>5, ConcatProperties
<1>7. Ordered((a \o <<pipeChr[2]>>) \o pipeIn[p])
  BY <1>3, <1>4
<1> QED BY <1>1, <1>2, <1>3, <1>5, <1>6, <1>7, OrderedDrop

LEMMA PipeWriteInv == \A p \in Ports : PipeInv /\ PipeWrite(p) => PipeInv'
<1> SUFFICES ASSUME NEW p \in Ports, PipeInv, PipeWrite(p) PROVE PipeInv'
  OBVIOUS
<1> DEFINE q == Other(p)
           chr == pipeChr[2]
<1>0. q \in Ports /\ q # p /\ chr \in Nat /\ PipeCapacity \in Nat
  BY PortsOther, PipeAssumption DEF PipeWrite, At, PipeInv, PipeThreadOK
<1>1. pipePc = <<"write", p>> /\ pipePc' = <<"read", p>>
      /\ UNCHANGED <<pipeOpen, pipeReady, pipeErr, pipeChr, pipeQuit, pipeCancel>>
      /\ UNCHANGED <<pipeIn, pipeHungUp, pipeSent, pipeGot>>
  BY DEF PipeWrite, At, Goto
<1>2. PipeThreadOK'
  BY <1>1 DEF PipeInv, PipeThreadOK
<1>3. InHand(p) = <<chr>> /\ \A k \in Ports : InHand(k)' = <<>> /\ (k # p => InHand(k) = <<>>)
  BY <1>1 DEF InHand
<1>4. /\ pipeOut \in [Ports -> Seq(Nat)] /\ pipeOut[q] \in Seq(Nat)
      /\ pipeLost \in [Ports -> SUBSET Nat] /\ \A k \in Ports : Len(pipeOut[k]) <= PipeCapacity
  BY <1>0 DEF PipeInv, PipeQueuesOK
<1>5. CASE Len(pipeOut[q]) < PipeCapacity /\ q \notin pipeHungUp
  <2>1. pipeOut' = [pipeOut EXCEPT ![q] = Append(@, chr)] /\ pipeLost' = pipeLost
    BY <1>5 DEF PipeWrite
  <2> HIDE DEF chr
  <2>2. Append(pipeOut[q], chr) \in Seq(Nat) /\ Len(Append(pipeOut[q], chr)) = Len(pipeOut[q]) + 1
        /\ Len(pipeOut[q]) \in Nat /\ Append(pipeOut[q], chr) = pipeOut[q] \o <<chr>>
    BY <1>0, <1>4, AppendProperties, AppendIsConcat
  <2> DEFINE more == Append(pipeOut[q], chr)
  <2>3. pipeOut' = [pipeOut EXCEPT ![q] = more] /\ more \in Seq(Nat) /\ Len(more) <= PipeCapacity
    BY <1>0, <1>5, <2>1, <2>2
  <2> HIDE DEF more
  <2>4. /\ pipeOut' \in [Ports -> Seq(Nat)] /\ pipeOut'[q] = more
        /\ \A k \in Ports : k # q => pipeOut'[k] = pipeOut[k]
        /\ \A k \in Ports : Len(pipeOut'[k]) <= PipeCapacity
    BY <1>0, <1>4, <2>3
  <2>5. PipeQueuesOK'
    BY <1>1, <2>1, <2>4 DEF PipeInv, PipeQueuesOK
  <2>6. ASSUME NEW k \in Ports PROVE Carried(k)' = Carried(k)
    <3>1. CASE k = p
      <4> DEFINE g == pipeGot[q]
                 o == pipeOut[q]
                 n == pipeIn[p]
      <4>1. Carried(p) = ((g \o o) \o <<chr>>) \o n
        BY <1>3, Zenon DEF Carried
      <4>2. Carried(p)' = ((g \o (o \o <<chr>>)) \o <<>>) \o n
        BY <1>0, <1>1, <1>3, <2>2, <2>4, Zenon DEF Carried, more
      <4>3. g \in Seq(Nat) /\ o \in Seq(Nat) /\ <<chr>> \in Seq(Nat)
        BY <1>0, PipeSegments, ToSetOne
      <4> HIDE DEF g, o, n
      <4>4. (g \o o) \o <<chr>> = g \o (o \o <<chr>>)
        BY <4>3, ConcatAssociative
      <4>5. g \o (o \o <<chr>>) \in Seq(Nat)
        BY <4>3
      <4>6. (g \o (o \o <<chr>>)) \o <<>> = g \o (o \o <<chr>>)
        BY <4>5, ConcatEmptySeq
      <4> QED BY <3>1, <4>1, <4>2, <4>4, <4>6, Zenon
    <3>2. CASE k # p
      <4>1. Other(k) # q /\ Other(k) \in Ports
        BY <3>2, PortsOther
      <4> QED BY <1>1, <1>3, <2>4, <3>2, <4>1, Zenon DEF Carried
    <3> QED BY <3>1, <3>2
  <2>7. ASSUME NEW k \in Ports PROVE PipeKept(k)'
    BY <1>1, <2>1, <2>6, PipeMoved DEF PipeInv
  <2> QED BY <1>2, <2>5, <2>7 DEF PipeInv
<1>6. CASE ~(Len(pipeOut[q]) < PipeCapacity /\ q \notin pipeHungUp)
  <2>1. pipeOut' = pipeOut /\ pipeLost' = [pipeLost EXCEPT ![p] = @ \cup {chr}]
    BY <1>6 DEF PipeWrite
  <2>2. /\ pipeLost' \in [Ports -> SUBSET Nat] /\ pipeLost'[p] = pipeLost[p] \cup {chr}
        /\ \A k \in Ports : k # p => pipeLost'[k] = pipeLost[k]
    BY <1>0, <1>4, <2>1
  <2>3. PipeQueuesOK'
    BY <1>1, <2>1, <2>2 DEF PipeInv, PipeQueuesOK
  <2>4. ASSUME NEW k \in Ports, k # p PROVE PipeKept(k)'
    <3>1. Carried(k)' = Carried(k)
      BY <1>1, <1>3, <2>1, <2>4, Zenon DEF Carried
    <3> QED BY <1>1, <2>2, <2>4, <3>1, PipeMoved DEF PipeInv
  <2>5. PipeKept(p)'
    <3> DEFINE a == pipeGot[q] \o pipeOut[q]
               rest == a \o pipeIn[p]
    <3>1. /\ Ordered(rest) /\ ToSet(Carried(p)) = ToSet(rest) \cup {chr} /\ chr \notin ToSet(rest)
      BY <1>1, PipeDropped
    <3>2. Carried(p)' = (a \o <<>>) \o pipeIn[p]
      BY <1>1, <1>3, <2>1, Zenon DEF Carried
    <3>3. a \in Seq(Nat)
      BY PipeSegments
    <3>4. a \o <<>> = a
      BY <3>3, ConcatEmptySeq
    <3>5. Carried(p)' = rest
      BY <3>2, <3>4, Zenon
    <3>6. PipeKept(p) /\ pipePc[1] # "done" /\ pipeSent'[p] = pipeSent[p]
      BY <1>1 DEF PipeInv
    <3> HIDE DEF rest, chr
    <3> QED BY <2>2, <3>1, <3>5, <3>6 DEF PipeKept
  <2> QED BY <1>2, <2>3, <2>4, <2>5 DEF PipeInv
<1> QED BY <1>5, <1>6

\* The thread ends with a byte in chrIn.
LEMMA PipeCancelledInv == PipeInv /\ PipeCancelled => PipeInv'
<1> SUFFICES ASSUME PipeInv, PipeCancelled PROVE PipeInv'
  OBVIOUS
<1>1. pipePc' = <<"done", 0>> /\ pipePc[1] # "done"
      /\ UNCHANGED <<pipeOpen, pipeReady, pipeErr, pipeChr, pipeQuit, pipeCancel>>
      /\ UNCHANGED <<pipeIn, pipeOut, pipeHungUp, pipeSent, pipeGot, pipeLost>>
  BY DEF PipeCancelled, Goto, PipeQueuesUnchanged
<1>2. PipeThreadOK'
  BY <1>1 DEF PipeInv, PipeThreadOK
<1>3. PipeQueuesOK'
  BY <1>1 DEF PipeInv, PipeQueuesOK
<1>4. ASSUME NEW p \in Ports PROVE PipeKept(p)'
  <2> DEFINE a == pipeGot[Other(p)] \o pipeOut[Other(p)]
             rest == a \o pipeIn[p]
  <2>1. InHand(p)' = <<>>
    BY <1>1 DEF InHand
  <2>2. Carried(p)' = (a \o <<>>) \o pipeIn[p]
    BY <1>1, <2>1, Zenon DEF Carried
  <2>3. a \in Seq(Nat)
    BY PipeSegments
  <2>4. Carried(p)' = rest
    BY <2>2, <2>3, ConcatEmptySeq
  <2>5. CASE pipePc = <<"write", p>>
    <3>1. Ordered(rest) /\ ToSet(rest) \subseteq ToSet(Carried(p))
      BY <2>5, PipeDropped
    <3> HIDE DEF rest
    <3> QED BY <1>1, <2>4, <3>1 DEF PipeInv, PipeKept
  <2>6. CASE pipePc # <<"write", p>>
    <3>1. InHand(p) = <<>>
      BY <2>6 DEF InHand
    <3>2. Carried(p)' = Carried(p)
      BY <2>2, <3>1, Zenon DEF Carried
    <3> QED BY <1>1, <3>2, PipeMoved DEF PipeInv
  <2> QED BY <2>5, <2>6
<1> QED BY <1>2, <1>3, <1>4 DEF PipeInv

\* A side sends a byte, which is newer than all the others.
LEMMA SideSendInv == \A p \in Ports : PipeInv /\ SideSend(p) => PipeInv'
<1> SUFFICES ASSUME NEW p \in Ports, PipeInv, SideSend(p) PROVE PipeInv'
  OBVIOUS
<1>1. /\ pipeSent[p] < PipeMaxBytes /\ pipeSent' = [pipeSent EXCEPT ![p] = @ + 1]
      /\ pipeIn' = [pipeIn EXCEPT ![p] = Append(@, pipeSent'[p])]
      /\ UNCHANGED <<pipePc, pipeOpen, pipeReady, pipeErr, pipeChr, pipeQuit, pipeCancel>>
      /\ UNCHANGED <<pipeOut, pipeHungUp, pipeGot, pipeLost>>
  BY DEF SideSend, pipeThread
<1>2. /\ pipeIn \in [Ports -> Seq(Nat)] /\ pipeIn[p] \in Seq(Nat)
      /\ pipeSent \in [Ports -> 0..PipeMaxBytes] /\ PipeMaxBytes \in Nat
  BY PipeAssumption DEF PipeInv, PipeQueuesOK
<1> DEFINE byte == pipeSent[p] + 1
           more == Append(pipeIn[p], byte)
<1>3. /\ pipeSent' \in [Ports -> 0..PipeMaxBytes] /\ pipeSent'[p] = byte /\ byte \in Nat
      /\ \A k \in Ports : k # p => pipeSent'[k] = pipeSent[k]
  BY <1>1, <1>2
<1> HIDE DEF byte
<1>4. more \in Seq(Nat) /\ more = pipeIn[p] \o <<byte>>
  BY <1>2, <1>3, AppendProperties, AppendIsConcat
<1>5. pipeIn' = [pipeIn EXCEPT ![p] = more]
  BY <1>1, <1>3
<1> HIDE DEF more
<1>6. /\ pipeIn' \in [Ports -> Seq(Nat)] /\ pipeIn'[p] = more
      /\ \A k \in Ports : k # p => pipeIn'[k] = pipeIn[k]
  BY <1>2, <1>4, <1>5
<1>7. PipeThreadOK'
  BY <1>1 DEF PipeInv, PipeThreadOK
<1>8. PipeQueuesOK'
  BY <1>1, <1>3, <1>6 DEF PipeInv, PipeQueuesOK
<1>9. \A k \in Ports : InHand(k)' = InHand(k)
  BY <1>1 DEF InHand
<1>10. ASSUME NEW k \in Ports, k # p PROVE PipeKept(k)'
  <2>1. Carried(k)' = Carried(k)
    BY <1>1, <1>6, <1>9, <1>10, Zenon DEF Carried
  <2> QED BY <1>1, <1>3, <1>10, <2>1, PipeMoved DEF PipeInv
<1>11. PipeKept(p)'
  <2> DEFINE a == (pipeGot[Other(p)] \o pipeOut[Other(p)]) \o InHand(p)
  <2>1. a \in Seq(Nat) /\ <<byte>> \in Seq(Nat)
    <3>1. pipeGot[Other(p)] \o pipeOut[Other(p)] \in Seq(Nat) /\ InHand(p) \in Seq(Nat)
      BY PipeSegments
    <3> QED BY <1>3, <3>1, ConcatProperties, ToSetOne
  <2>2. Carried(p) = a \o pipeIn[p]
    BY Zenon DEF Carried
  <2>3. Carried(p)' = a \o (pipeIn[p] \o <<byte>>)
    BY <1>1, <1>4, <1>6, <1>9, Zenon DEF Carried
  <2> HIDE DEF a
  <2>4. Carried(p)' = Carried(p) \o <<byte>>
    <3>1. (a \o pipeIn[p]) \o <<byte>> = a \o (pipeIn[p] \o <<byte>>)
      BY <1>2, <2>1, ConcatAssociative
    <3> QED BY <2>2, <2>3, <3>1, Zenon
  <2>5. Carried(p) \in Seq(Nat) /\ PipeKept(p) /\ pipeSent[p] \in Nat
    BY PipeSegments DEF PipeInv
  <2>6. \A x \in ToSet(Carried(p)) : x < byte
    BY <2>5 DEF PipeKept, byte
  <2>7. Ordered(Carried(p) \o <<byte>>) /\ ToSet(Carried(p) \o <<byte>>) = ToSet(Carried(p)) \cup {byte}
    BY <1>3, <2>5, <2>6, OrderedAppend DEF PipeKept
  <2>8. /\ 1..pipeSent'[p] = (1..pipeSent[p]) \cup {byte} /\ byte \notin 1..pipeSent[p]
    BY <1>3, <2>5 DEF byte
  <2> DEFINE set == ToSet(Carried(p))
  <2>9. ToSet(Carried(p)') = set \cup {byte} /\ Ordered(Carried(p)')
    BY <2>4, <2>7
  <2>10. /\ set \subseteq 1..pipeSent[p] /\ pipeLost[p] \subseteq 1..pipeSent[p]
         /\ set \cap pipeLost[p] = {}
         /\ pipePc[1] # "done" => 1..pipeSent[p] \subseteq pipeLost[p] \cup set
    BY <2>5 DEF PipeKept
  <2> HIDE DEF set
  <2>11. /\ set \cup {byte} \subseteq 1..pipeSent'[p] /\ pipeLost[p] \subseteq 1..pipeSent'[p]
         /\ (set \cup {byte}) \cap pipeLost[p] = {}
         /\ pipePc[1] # "done" => 1..pipeSent'[p] \subseteq pipeLost[p] \cup (set \cup {byte})
    BY <2>8, <2>10
  <2>12. pipeLost'[p] = pipeLost[p] /\ pipePc' = pipePc
    BY <1>1
  <2> QED BY <2>9, <2>11, <2>12, Zenon DEF PipeKept
<1> QED BY <1>7, <1>8, <1>10, <1>11 DEF PipeInv

\* A side reads the byte that is oldest for it.
LEMMA SideReceiveInv == \A p \in Ports : PipeInv /\ SideReceive(p) => PipeInv'
<1> SUFFICES ASSUME NEW p \in Ports, PipeInv, SideReceive(p) PROVE PipeInv'
  OBVIOUS
<1> DEFINE byte == Head(pipeOut[p])
           rest == Tail(pipeOut[p])
           more == Append(pipeGot[p], byte)
<1>1. /\ pipeOut[p] # <<>>
      /\ pipeGot' = [pipeGot EXCEPT ![p] = more] /\ pipeOut' = [pipeOut EXCEPT ![p] = rest]
      /\ UNCHANGED <<pipePc, pipeOpen, pipeReady, pipeErr, pipeChr, pipeQuit, pipeCancel>>
      /\ UNCHANGED <<pipeIn, pipeHungUp, pipeSent, pipeLost>>
  BY DEF SideReceive, pipeThread
<1>2. /\ pipeOut \in [Ports -> Seq(Nat)] /\ pipeOut[p] \in Seq(Nat)
      /\ pipeGot \in [Ports -> Seq(Nat)] /\ pipeGot[p] \in Seq(Nat)
      /\ \A k \in Ports : Len(pipeOut[k]) <= PipeCapacity /\ PipeCapacity \in Nat
  BY PipeAssumption DEF PipeInv, PipeQueuesOK
<1>3. byte \in Nat /\ rest \in Seq(Nat) /\ Len(rest) <= Len(pipeOut[p]) /\ Len(rest) \in Nat
      /\ Len(pipeOut[p]) \in Nat
  BY <1>1, <1>2
<1> HIDE DEF byte
<1>4. more \in Seq(Nat) /\ more = pipeGot[p] \o <<byte>>
  BY <1>2, <1>3, AppendProperties, AppendIsConcat
<1> HIDE DEF more, rest
<1>5. /\ pipeGot' \in [Ports -> Seq(Nat)] /\ pipeGot'[p] = more
      /\ \A k \in Ports : k # p => pipeGot'[k] = pipeGot[k]
  BY <1>1, <1>2, <1>4
<1>6. /\ pipeOut' \in [Ports -> Seq(Nat)] /\ pipeOut'[p] = rest
      /\ \A k \in Ports : k # p => pipeOut'[k] = pipeOut[k]
      /\ \A k \in Ports : Len(pipeOut'[k]) <= PipeCapacity
  BY <1>1, <1>2, <1>3
<1>7. PipeThreadOK'
  BY <1>1 DEF PipeInv, PipeThreadOK
<1>8. PipeQueuesOK'
  BY <1>1, <1>5, <1>6 DEF PipeInv, PipeQueuesOK
<1>9. \A k \in Ports : InHand(k)' = InHand(k)
  BY <1>1 DEF InHand
<1>10. ASSUME NEW k \in Ports PROVE Carried(k)' = Carried(k)
  <2>1. CASE Other(k) = p
    <3> DEFINE g == pipeGot[p]
               o == pipeOut[p]
    <3>1. Carried(k) = ((g \o o) \o InHand(k)) \o pipeIn[k]
      BY <2>1, Zenon DEF Carried
    <3>2. Carried(k)' = (((g \o <<byte>>) \o rest) \o InHand(k)) \o pipeIn[k]
      BY <1>1, <1>4, <1>5, <1>6, <1>9, <2>1, Zenon DEF Carried
    <3>3. (g \o <<byte>>) \o rest = g \o o
      BY <1>1, <1>2, HeadMoves DEF byte, rest
    <3> QED BY <3>1, <3>2, <3>3, Zenon
  <2>2. CASE Other(k) # p
    <3>1. Other(k) \in Ports
      BY PortsOther
    <3> QED BY <1>1, <1>5, <1>6, <1>9, <2>2, <3>1, Zenon DEF Carried
  <2> QED BY <2>1, <2>2
<1>11. ASSUME NEW k \in Ports PROVE PipeKept(k)'
  BY <1>1, <1>10, PipeMoved DEF PipeInv
<1> QED BY <1>7, <1>8, <1>11 DEF PipeInv

LEMMA PipeStepInv == PipeInv /\ [PipeNext]_pipeVars => PipeInv'
<1> SUFFICES ASSUME PipeInv, [PipeNext]_pipeVars PROVE PipeInv'
  OBVIOUS
<1>1. CASE \/ PipeLoop \/ PipeSelect \/ PipeDestroyQuit \/ PipeDestroyCancel
           \/ \E p \in Ports : PipeOpenPort(p) \/ PipeClosePort(p)
  BY <1>1, PipeThreadInv
<1>2. CASE PipeCancelled
  BY <1>2, PipeCancelledInv
<1>3. CASE \E p \in Ports : PipeRead(p) \/ PipeWrite(p) \/ SideSend(p) \/ SideReceive(p)
  BY <1>3, PipeReadInv, PipeWriteInv, SideSendInv, SideReceiveInv
<1>4. CASE \E p \in Ports : SideHangUp(p)
  <2>1. UNCHANGED <<pipePc, pipeOpen, pipeReady, pipeErr, pipeChr, pipeQuit, pipeCancel>>
        /\ UNCHANGED <<pipeIn, pipeOut, pipeSent, pipeGot, pipeLost>> /\ pipeHungUp' \subseteq Ports
    BY <1>4 DEF SideHangUp, pipeThread, PipeInv, PipeQueuesOK
  <2>2. PipeThreadOK'
    BY <2>1 DEF PipeInv, PipeThreadOK
  <2>3. \A k \in Ports : InHand(k)' = InHand(k)
    BY <2>1 DEF InHand
  <2> QED BY <2>1, <2>2, <2>3, PipeQuiet
<1>5. CASE UNCHANGED pipeVars
  <2>1. UNCHANGED <<pipePc, pipeOpen, pipeReady, pipeErr, pipeChr, pipeQuit, pipeCancel>>
        /\ UNCHANGED <<pipeIn, pipeOut, pipeHungUp, pipeSent, pipeGot, pipeLost>>
    BY <1>5 DEF pipeVars, pipeThread
  <2>2. PipeThreadOK' /\ pipeHungUp' \subseteq Ports
    BY <2>1 DEF PipeInv, PipeThreadOK, PipeQueuesOK
  <2>3. \A k \in Ports : InHand(k)' = InHand(k)
    BY <2>1 DEF InHand
  <2> QED BY <2>1, <2>2, <2>3, PipeQuiet
<1> QED BY <1>1, <1>2, <1>3, <1>4, <1>5, Zenon DEF PipeNext

LEMMA PipeInvariant == PipeSpec => []PipeInv
BY PipeInitInv, PipeStepInv, PTL DEF PipeSpec

LEMMA PipeInvHonest == PipeInv => PipeTypeOK /\ PipeHonest
<1> SUFFICES ASSUME PipeInv PROVE PipeTypeOK /\ PipeHonest
  OBVIOUS
<1>1. PipeTypeOK
  <2>1. {pipeErr, pipeQuit, pipeCancel} \subseteq BOOLEAN
    BY Zenon DEF PipeInv, PipeThreadOK
  <2>2. \A p \in Ports : Len(pipeOut[p]) <= PipeCapacity /\ pipeSent[p] \in 0..PipeMaxBytes
    BY DEF PipeInv, PipeQueuesOK
  <2>3. pipeHungUp \subseteq Ports /\ PipeThreadOK
    BY DEF PipeInv, PipeQueuesOK
  <2> QED BY <2>1, <2>2, <2>3, Zenon DEF PipeTypeOK, PipeThreadOK
<1>2. ASSUME NEW p \in Ports
      PROVE  /\ Increasing(Carried(p))
             /\ pipePc[1] # "done" => 1..pipeSent[p] = pipeLost[p] \cup ToSet(Carried(p))
             /\ ToSet(Carried(p)) \cap pipeLost[p] = {}
  <2>1. Increasing(Carried(p))
    BY PipeSegments, OrderedIncreasing DEF PipeInv, PipeKept
  <2> QED BY <2>1 DEF PipeInv, PipeKept
<1> QED BY <1>1, <1>2 DEF PipeHonest

-----------------------------------------------------------------------------
(***************************************************************************)
(* The port expander, the shift registers and the multiplexer of the MMU1. *)
(***************************************************************************)
ExpTypeOK ==
  /\ expState \in {"IDLE", "ADDR", "DATA", "dead"}
  /\ expSelected \in BOOLEAN /\ expRead \in BOOLEAN
  /\ expAddr \in 0..255 /\ expIOCON \in Bytes
  /\ expIODIR \in [Banks -> Bytes] /\ expGPIO \in [Banks -> Bytes]
  /\ expOLAT \in [Banks -> Bytes] /\ expPin \in [Banks -> Bytes]
ExpInv == ExpTypeOK /\ ExpPinsShowLatch

ShTypeOK ==
  /\ shData \in {0, 1} /\ shClock \in {0, 1} /\ shLatchPin \in {0, 1} /\ shReset \in {0, 1}
  /\ shCurBit \in {0, 1}
  /\ shValue \in [ShiftBits -> {0, 1}] /\ shLatch \in [ShiftBits -> {0, 1}]
  /\ shOut \in [ShiftBits -> {0, 1}]
ShInv == ShTypeOK /\ ShiftShowsLatch

MuxTypeOK ==
  /\ muxPin \in [{0, 1} -> {0, 1}] /\ muxTool \in 0..3
  /\ muxStepIn \in {0, 1} /\ muxStep \in [0..3 -> {0, 1}]
MuxInv == MuxTypeOK /\ MuxShowsTool

LEMMA SignalsInvHonest == ExpInv /\ ShInv /\ MuxInv => SignalsTypeOK /\ SignalsHonest
<1> SUFFICES ASSUME ExpInv, ShInv, MuxInv PROVE SignalsTypeOK /\ SignalsHonest
  OBVIOUS
<1>1. {expSelected, expRead} \subseteq BOOLEAN
  BY Zenon DEF ExpInv, ExpTypeOK
<1> QED BY <1>1, Zenon DEF ExpInv, ExpTypeOK, ShInv, ShTypeOK, MuxInv, MuxTypeOK, SignalsTypeOK,
           SignalsHonest

-----------------------------------------------------------------------------
LEMMA ExpInitInv == ExpInit => ExpInv
<1> SUFFICES ASSUME ExpInit PROVE ExpInv
  OBVIOUS
<1>1. expSelected \in BOOLEAN /\ expRead \in BOOLEAN
  BY Zenon DEF ExpInit
<1> QED BY <1>1 DEF ExpInit, ExpInv, ExpTypeOK, ExpPinsShowLatch, Bytes

\* A write to the latch raises exactly the pins that are outputs.
LEMMA ExpLatchStep ==
  ASSUME ExpInv, NEW b \in Banks, NEW value \in Bytes, ExpLatch(b, value)
  PROVE  expPin' = expOLAT' /\ expOLAT' \in [Banks -> Bytes]
<1> DEFINE dir == expIODIR[b]
           old == expOLAT[b]
           raised == (old \cap dir) \cup {i \in Bits \ dir :
                                            IF i \in old <=> i \in value THEN i \in old ELSE i \in value}
           kept == (value \ dir) \cup (old \cap dir)
<1>1. dir \subseteq Bits /\ old \subseteq Bits /\ expPin = expOLAT /\ expOLAT \in [Banks -> Bytes]
  BY DEF ExpInv, ExpTypeOK, ExpPinsShowLatch, Bytes
<1>2. expPin' = [expOLAT EXCEPT ![b] = raised] /\ expOLAT' = [expOLAT EXCEPT ![b] = kept]
  BY <1>1 DEF ExpLatch, ExpODRChanged
<1>3. raised = kept /\ kept \in Bytes
  BY <1>1 DEF Bytes
<1> HIDE DEF raised, kept
<1> QED BY <1>1, <1>2, <1>3

LEMMA ToBank1AddrIn == expAddr \in 0..255 => ToBank1Addr(expAddr) \in Nat
BY DEF ToBank1Addr

LEMMA ExpWriteStep ==
  ASSUME ExpInv, NEW a \in Nat, NEW value \in Bytes, ExpWrite(a, value)
  PROVE  /\ expIOCON' \in Bytes /\ expIODIR' \in [Banks -> Bytes] /\ expGPIO' = expGPIO
         /\ expPin' = expOLAT' /\ expOLAT' \in [Banks -> Bytes]
<1>0. BankOf(a) \in Banks
  BY DEF BankOf, Banks
<1>1. /\ expIODIR \in [Banks -> Bytes] /\ expOLAT \in [Banks -> Bytes] /\ expIOCON \in Bytes
      /\ expPin = expOLAT
  BY DEF ExpInv, ExpTypeOK, ExpPinsShowLatch
<1>2. CASE a % 16 \in {9, 10}
  <2>1. ExpLatch(BankOf(a), value) /\ UNCHANGED <<expIODIR, expGPIO, expIOCON>>
    BY <1>2 DEF ExpWrite
  <2> QED BY <1>0, <1>1, <2>1, ExpLatchStep
<1>3. CASE a % 16 = 5
  <2>1. expIOCON' = value /\ UNCHANGED <<expIODIR, expGPIO, expOLAT, expPin>>
    BY <1>3 DEF ExpWrite
  <2> QED BY <1>1, <2>1
<1>4. CASE a % 16 \notin {5, 9, 10}
  <2>1. /\ expIODIR' = IF a \in {0, 16} THEN [expIODIR EXCEPT ![BankOf(a)] = value] ELSE expIODIR
        /\ UNCHANGED <<expGPIO, expOLAT, expIOCON, expPin>>
    BY <1>4 DEF ExpWrite
  <2> QED BY <1>0, <1>1, <2>1
<1> QED BY <1>2, <1>3, <1>4

LEMMA ExpSPIInStep ==
  ASSUME ExpInv, ExpSPIIn
  PROVE  ExpInv'
<1>1. expAddr \in 0..255 /\ ExpNextAddr \in 0..255
  BY DEF ExpInv, ExpTypeOK, ExpNextAddr
<1>2. expSelected' = expSelected
  BY DEF ExpSPIIn
<1>3. CASE expState = "IDLE" /\ expState' = "ADDR" /\ expRead' \in BOOLEAN
           /\ UNCHANGED <<expAddr, expRegs>>
  BY <1>2, <1>3 DEF ExpInv, ExpTypeOK, ExpPinsShowLatch, expRegs
<1>4. CASE expState = "ADDR" /\ expState' = "DATA" /\ expAddr' \in ExpAddresses
           /\ UNCHANGED <<expRead, expRegs>>
  BY <1>2, <1>4, SignalsAssumption DEF ExpInv, ExpTypeOK, ExpPinsShowLatch, expRegs
<1>5. CASE /\ expState' = IF ToBank1Addr(expAddr) < 32 THEN "DATA" ELSE "dead"
           /\ UNCHANGED <<expRead, expRegs>> /\ expAddr' = ExpNextAddr
  BY <1>1, <1>2, <1>5 DEF ExpInv, ExpTypeOK, ExpPinsShowLatch, expRegs
<1>6. CASE /\ \E value \in Bytes : ExpWrite(ToBank1Addr(expAddr), value)
           /\ expAddr' = ExpNextAddr
           /\ expState' \in {"DATA", "dead"}
           /\ UNCHANGED expRead
  <2>1. PICK value \in Bytes : ExpWrite(ToBank1Addr(expAddr), value)
    BY <1>6
  <2>2. ToBank1Addr(expAddr) \in Nat
    BY <1>1, ToBank1AddrIn
  <2>3. /\ expIOCON' \in Bytes /\ expIODIR' \in [Banks -> Bytes] /\ expGPIO' = expGPIO
        /\ expPin' = expOLAT' /\ expOLAT' \in [Banks -> Bytes]
    BY <2>1, <2>2, ExpWriteStep
  <2> QED BY <1>1, <1>2, <1>6, <2>3 DEF ExpInv, ExpTypeOK, ExpPinsShowLatch
<1> QED BY <1>3, <1>4, <1>5, <1>6 DEF ExpSPIIn

LEMMA ExpStepInv == ExpInv /\ [ExpNext]_expVars => ExpInv'
<1> SUFFICES ASSUME ExpInv, [ExpNext]_expVars PROVE ExpInv'
  OBVIOUS
<1>1. CASE ExpSPIIn
  BY <1>1, ExpSPIInStep
<1>2. ASSUME NEW value \in BOOLEAN, ExpCSELIn(value)
      PROVE  ExpInv'
  <2>1. expState' \in {"IDLE", "ADDR", "DATA", "dead"}
    BY <1>2 DEF ExpInv, ExpTypeOK, ExpCSELIn
  <2>2. expSelected' \in BOOLEAN
    BY <1>2, Zenon DEF ExpCSELIn
  <2> QED BY <1>2, <2>1, <2>2 DEF ExpInv, ExpTypeOK, ExpPinsShowLatch, ExpCSELIn, expRegs
<1>3. ASSUME NEW b \in Banks, NEW i \in Bits, NEW value \in BOOLEAN, ExpPinChanged(b, i, value)
      PROVE  ExpInv'
  <2>1. expGPIO' \in [Banks -> Bytes]
    <3>1. expGPIO \in [Banks -> Bytes]
      BY DEF ExpInv, ExpTypeOK
    <3>2. expGPIO[b] \cup {i} \in Bytes /\ expGPIO[b] \ {i} \in Bytes
      BY <3>1 DEF Bytes
    <3> QED BY <1>3, <3>1, <3>2 DEF ExpPinChanged
  <2> QED BY <1>3, <2>1 DEF ExpInv, ExpTypeOK, ExpPinsShowLatch, ExpPinChanged
<1>4. CASE UNCHANGED expVars
  BY <1>4 DEF ExpInv, ExpTypeOK, ExpPinsShowLatch, expVars
<1> QED BY <1>1, <1>2, <1>3, <1>4 DEF ExpNext

LEMMA ExpInvariant == ExpSpec => []ExpInv
BY ExpInitInv, ExpStepInv, PTL DEF ExpSpec

-----------------------------------------------------------------------------
LEMMA ShInitInv == ShInit => ShInv
BY DEF ShInit, ShInv, ShTypeOK, ShiftShowsLatch, ShiftZero

LEMMA ShStepInv == ShInv /\ [ShNext]_shVars => ShInv'
<1> SUFFICES ASSUME ShInv, [ShNext]_shVars PROVE ShInv'
  OBVIOUS
<1>0. ShTypeOK /\ shOut = shLatch
  BY DEF ShInv, ShiftShowsLatch
<1>1. ASSUME NEW value \in {0, 1}, ShDataIn(value) PROVE ShInv'
  BY <1>0, <1>1 DEF ShDataIn, ShInv, ShTypeOK, ShiftShowsLatch
<1>2. ASSUME NEW value \in {0, 1}, ShClockIn(value) PROVE ShInv'
  <2>1. shValue' \in [ShiftBits -> {0, 1}]
    <3>1. \A i \in ShiftBits : i # 0 => i - 1 \in ShiftBits
      BY SignalsAssumption DEF ShiftBits
    <3> QED BY <1>0, <1>2, <3>1 DEF ShClockIn, ShTypeOK
  <2> QED BY <1>0, <1>2, <2>1 DEF ShClockIn, ShInv, ShTypeOK, ShiftShowsLatch
<1>3. ASSUME NEW value \in {0, 1}, ShLatchIn(value) PROVE ShInv'
  <2>1. CASE shLatchPin = 0 /\ value = 1
    <3>1. /\ shLatch' = shValue
          /\ shOut' = [i \in ShiftBits |-> IF shLatch[i] # shValue[i] THEN shValue[i] ELSE shOut[i]]
      BY <1>3, <2>1 DEF ShLatchIn
    <3>2. shOut' = shValue
      BY <1>0, <3>1 DEF ShTypeOK
    <3> QED BY <1>0, <1>3, <3>1, <3>2 DEF ShLatchIn, ShInv, ShTypeOK, ShiftShowsLatch
  <2>2. CASE ~(shLatchPin = 0 /\ value = 1)
    BY <1>0, <1>3, <2>2 DEF ShLatchIn, ShInv, ShTypeOK, ShiftShowsLatch
  <2> QED BY <2>1, <2>2
<1>4. ASSUME NEW value \in {0, 1}, ShResetIn(value) PROVE ShInv'
  <2>1. ShiftZero \in [ShiftBits -> {0, 1}]
    BY DEF ShiftZero
  <2> QED BY <1>0, <1>4, <2>1 DEF ShResetIn, ShInv, ShTypeOK, ShiftShowsLatch
<1>5. CASE UNCHANGED shVars
  BY <1>0, <1>5 DEF shVars, ShInv, ShTypeOK, ShiftShowsLatch
<1> QED BY <1>1, <1>2, <1>3, <1>4, <1>5 DEF ShNext

LEMMA ShInvariant == ShSpec => []ShInv
BY ShInitInv, ShStepInv, PTL DEF ShSpec

-----------------------------------------------------------------------------
LEMMA MuxInitInv == MuxInit => MuxInv
BY DEF MuxInit, MuxInv, MuxTypeOK, MuxShowsTool

LEMMA MuxStepInv == MuxInv /\ [MuxNext]_muxVars => MuxInv'
<1> SUFFICES ASSUME MuxInv, [MuxNext]_muxVars PROVE MuxInv'
  OBVIOUS
<1>1. ASSUME NEW value \in {0, 1}, MuxStepIn(value) PROVE MuxInv'
  BY <1>1 DEF MuxStepIn, MuxInv, MuxTypeOK, MuxShowsTool
<1>2. ASSUME NEW value \in {0, 1}, NEW p \in {0, 1}, MuxIn(p, value) PROVE MuxInv'
  <2>1. /\ muxPin[0] \in {0, 1} /\ muxPin[1] \in {0, 1}
        /\ muxPin' = [muxPin EXCEPT ![p] = value] /\ muxPin' \in [{0, 1} -> {0, 1}]
    BY <1>2 DEF MuxIn, MuxInv, MuxTypeOK
  <2>2. CASE p = 0
    <3>1. muxPin'[0] = value /\ muxPin'[1] = muxPin[1] /\ muxTool' = 2 * muxPin[1] + value
      BY <1>2, <2>2 DEF MuxIn, MuxInv, MuxTypeOK
    <3> QED BY <1>2, <2>1, <3>1 DEF MuxIn, MuxInv, MuxTypeOK, MuxShowsTool
  <2>3. CASE p = 1
    <3>1. muxPin'[1] = value /\ muxPin'[0] = muxPin[0] /\ muxTool' = 2 * value + muxPin[0]
      BY <1>2, <2>3 DEF MuxIn, MuxInv, MuxTypeOK
    <3> QED BY <1>2, <2>1, <3>1 DEF MuxIn, MuxInv, MuxTypeOK, MuxShowsTool
  <2> QED BY <2>2, <2>3
<1>3. CASE UNCHANGED muxVars
  BY <1>3 DEF muxVars, MuxInv, MuxTypeOK, MuxShowsTool
<1> QED BY <1>1, <1>2, <1>3 DEF MuxNext

LEMMA MuxInvariant == MuxSpec => []MuxInv
BY MuxInitInv, MuxStepInv, PTL DEF MuxSpec

-----------------------------------------------------------------------------
(***************************************************************************)
(* Thermistors behind a multiplexer, and a voltage source.  A cache and the pin *)
(* it drives agree, so an answer that is not raised is on the pin already. *)
(***************************************************************************)
\* Division
LEMMA DivDef ==
  ASSUME NEW a \in Int, NEW d \in Nat \ {0}
  PROVE  a \div d \in Int /\ d * (a \div d) <= a /\ a < d * (a \div d) + d
OBVIOUS
LEMMA TimesMono ==
  ASSUME NEW a \in Int, NEW b \in Int, NEW c \in Nat, a <= b
  PROVE  a * c <= b * c /\ c * a <= c * b
OBVIOUS
LEMMA DivMono ==
  ASSUME NEW a \in Int, NEW b \in Int, NEW d \in Nat \ {0}, a <= b
  PROVE  a \div d <= b \div d
<1> DEFINE p == a \div d
           q == b \div d
<1>1. p \in Int /\ q \in Int /\ d * p <= a /\ b < d * q + d
  BY DivDef
<1> HIDE DEF p, q
<1>2. ASSUME p > q PROVE FALSE
  <2>1. q + 1 <= p
    BY <1>1, <1>2
  <2>2. d * (q + 1) <= d * p
    BY <1>1, <2>1, TimesMono
  <2>3. d * (q + 1) = d * q + d
    BY <1>1
  <2>4. d * q \in Int /\ d * p \in Int /\ d * (q + 1) \in Int
    BY <1>1
  <2> QED BY <1>1, <2>2, <2>3, <2>4
<1>3. p <= q
  BY <1>1, <1>2
<1> QED BY <1>3 DEF p, q
LEMMA DivOfTimes ==
  ASSUME NEW a \in Int, NEW d \in Nat \ {0}
  PROVE  (a * d) \div d = a
OBVIOUS

LEMMA LeastOf ==
  ASSUME NEW S \in SUBSET Nat, S # {}
  PROVE  \E n \in S : \A m \in S : n <= m
<1> DEFINE Less == {ss \in Nat \X Nat : ss[1] < ss[2]}
<1>1. OpToRel(<, Nat) = Less
  BY Zenon DEF OpToRel
<1>2. IsWellFoundedOn(Less, Nat)
  BY <1>1, NatLessThanWellFounded, Zenon
<1>3. \E n \in S : \A m \in S : <<m, n>> \notin Less
  <2> HIDE DEF Less
  <2>1. S \subseteq Nat /\ S # {}
    OBVIOUS
  <2> QED BY <1>2, <2>1, WFMin
<1>4. PICK n \in S : \A m \in S : <<m, n>> \notin Less
  BY <1>3
<1>5. ASSUME NEW m \in S PROVE n <= m
  <2>1. m \in Nat /\ n \in Nat /\ <<m, n>> \notin Less
    BY <1>4
  <2>2. m < n => <<m, n>> \in Less
    BY <2>1
  <2> QED BY <2>1, <2>2
<1> QED BY <1>4, <1>5

\* What a table has for sure.
LEMMA TableFacts ==
  ASSUME NEW t \in Thermistors
  PROVE  /\ Len(AnaTable[t]) \in Nat \ {0}
         /\ \A i \in 1..Len(AnaTable[t]) :
              /\ AnaTable[t][i][1] \in Nat /\ AnaTable[t][i][2] \in Int
              /\ AnaTable[t][i][1] \div AnaOversample \in 0..1023
         /\ \A j, i \in 1..Len(AnaTable[t]) :
              j < i => AnaTable[t][j][1] < AnaTable[t][i][1] /\ AnaTable[t][j][2] > AnaTable[t][i][2]
<1>1. Len(AnaTable[t]) \in Nat \ {0} /\ AnaOversample \in Nat \ {0}
  BY AnalogAssumption
<1>2. ASSUME NEW i \in 1..Len(AnaTable[t])
      PROVE  /\ AnaTable[t][i][1] \in Nat /\ AnaTable[t][i][2] \in Int
             /\ AnaTable[t][i][1] \div AnaOversample \in 0..1023
  <2> DEFINE a == AnaTable[t][i][1]
  <2>1. a \in 0..1023 * AnaOversample /\ AnaTable[t][i][2] \in Int
    BY AnalogAssumption
  <2> HIDE DEF a
  <2>2. a \in Int /\ 0 <= a /\ a <= 1023 * AnaOversample /\ 1023 * AnaOversample \in Int
    BY <1>1, <2>1
  <2>3. 0 \div AnaOversample <= a \div AnaOversample
    BY <1>1, <2>2, DivMono
  <2>4. a \div AnaOversample <= (1023 * AnaOversample) \div AnaOversample
    BY <1>1, <2>2, DivMono
  <2>5. (0 * AnaOversample) \div AnaOversample = 0 /\ (1023 * AnaOversample) \div AnaOversample = 1023
    BY <1>1, DivOfTimes
  <2>6. 0 * AnaOversample = 0
    BY <1>1
  <2>7. a \div AnaOversample \in 0..1023
    BY <1>1, <2>2, <2>3, <2>4, <2>5, <2>6, DivDef
  <2>8. a \in Nat
    BY <2>2
  <2> QED BY <2>1, <2>7, <2>8, Zenon DEF a
<1>3. ASSUME NEW j \in 1..Len(AnaTable[t]), NEW i \in 1..Len(AnaTable[t]), j < i
      PROVE  AnaTable[t][j][1] < AnaTable[t][i][1] /\ AnaTable[t][j][2] > AnaTable[t][i][2]
  <2>1. j \in 1..(i - 1)
    BY <1>1, <1>3
  <2> QED BY <2>1, AnalogAssumption
<1> QED BY <1>1, <1>2, <1>3

\* The first colder sample is there when there is a colder one.
LEMMA FirstColderIs ==
  ASSUME NEW t \in Thermistors, NEW temp \in Int, Colder(t, temp) # {}
  PROVE  /\ FirstColder(t, temp) \in 1..Len(AnaTable[t])
         /\ AnaTable[t][FirstColder(t, temp)][2] <= temp
         /\ \A j \in 1..Len(AnaTable[t]) : AnaTable[t][j][2] <= temp => FirstColder(t, temp) <= j
<1>1. Colder(t, temp) \subseteq Nat
  BY DEF Colder
<1>2. \E n \in Colder(t, temp) : \A m \in Colder(t, temp) : n <= m
  BY <1>1, LeastOf
<1> QED BY <1>1, <1>2 DEF Colder, FirstColder

LEMMA MilliVoltsMono ==
  ASSUME NEW a \in Int, NEW b \in Int, a <= b
  PROVE  MilliVolts(a) \in Int /\ MilliVolts(a) <= MilliVolts(b)
<1> DEFINE p == a \div AnaOversample
           q == b \div AnaOversample
<1>1. p \in Int /\ q \in Int /\ p <= q
  BY AnalogAssumption, DivDef, DivMono
<1> HIDE DEF p, q
<1>2. p * 5000 \in Int /\ q * 5000 \in Int /\ p * 5000 <= q * 5000 /\ 1023 \in Nat \ {0}
  BY <1>1
<1>3. (p * 5000) \div 1023 \in Int /\ (p * 5000) \div 1023 <= (q * 5000) \div 1023
  BY <1>2, DivMono, DivDef
<1> QED BY <1>3 DEF MilliVolts, p, q

\* What a table gives lies between its first sample and its last, so it is a voltage.
LEMMA MilliVoltsOfTable ==
  ASSUME NEW a \in Int, a \div AnaOversample \in 0..1023
  PROVE  MilliVolts(a) \in Nat /\ MilliVolts(a) <= 5000
<1> DEFINE p == a \div AnaOversample
<1>1. p \in Int /\ 0 <= p /\ p <= 1023
  OBVIOUS
<1> HIDE DEF p
<1>2. (p * 5000) \in Int /\ 0 <= p * 5000 /\ p * 5000 <= 1023 * 5000 /\ 1023 \in Nat \ {0}
  BY <1>1
<1>3. (p * 5000) \div 1023 \in Nat /\ (p * 5000) \div 1023 <= 5000
  BY SMT, <1>2
<1> QED BY <1>3 DEF MilliVolts, p

\* Between two samples the value lies between theirs, and falls.
LEMMA Interpolation ==
  ASSUME NEW lo \in Nat, NEW hi \in Nat, NEW cold \in Int, NEW hot \in Int, lo < hi, cold < hot,
         NEW temp \in Int, cold <= temp, temp < hot
  PROVE  LET v == (hi * (hot - cold) - (hi - lo) * (temp - cold)) \div (hot - cold)
         IN  /\ v \in Nat /\ lo <= v /\ v <= hi
             /\ temp = cold => v = hi
             /\ \A warmer \in Int : temp <= warmer /\ warmer < hot =>
                  (hi * (hot - cold) - (hi - lo) * (warmer - cold)) \div (hot - cold) <= v
<1> DEFINE d == hot - cold
           w == hi - lo
           x == temp - cold
           n == hi * d - w * x
<1>1. d \in Nat \ {0} /\ w \in Nat /\ x \in Nat /\ x <= d
  OBVIOUS
<1>2. w = hi - lo /\ d = hot - cold /\ x = temp - cold
  OBVIOUS
<1> HIDE DEF d, w, x
<1>3. w * x <= w * d /\ 0 <= w * x /\ w * x \in Int /\ w * d \in Int /\ hi * d \in Int /\ lo * d \in Int
  BY <1>1, TimesMono
<1>4. w * d = hi * d - lo * d
  BY <1>1, <1>2
<1>5. n \in Int /\ lo * d <= n /\ n <= hi * d
  BY <1>3, <1>4
<1>6. (lo * d) \div d = lo /\ (hi * d) \div d = hi
  BY <1>1, DivOfTimes
<1>7. n \div d \in Int /\ lo <= n \div d /\ n \div d <= hi
  <2> HIDE DEF n
  <2> QED BY <1>1, <1>3, <1>5, <1>6, DivDef, DivMono
<1>8. temp = cold => n \div d = hi
  <2>1. temp = cold => n = hi * d
    BY <1>1, <1>2, <1>3
  <2> QED BY <1>6, <2>1
<1>9. ASSUME NEW warmer \in Int, temp <= warmer, warmer < hot
      PROVE  (hi * d - w * (warmer - cold)) \div d <= n \div d
  <2> DEFINE y == warmer - cold
             m == hi * d - w * y
  <2>1. y \in Nat /\ x <= y
    BY <1>1, <1>2, <1>9
  <2> HIDE DEF y
  <2>2. w * x <= w * y /\ w * y \in Int
    BY <1>1, <2>1, TimesMono
  <2>3. m \in Int /\ m <= n
    BY <1>3, <2>2
  <2>4. m \div d <= n \div d
    <3> HIDE DEF m, n
    <3> QED BY <1>1, <1>5, <2>3, DivMono
  <2> QED BY <2>4 DEF y
<1>10. n \div d \in Nat
  BY <1>7
<1> QED BY <1>7, <1>8, <1>9, <1>10 DEF d, w, x
\* What a thermistor reads from its table lies between two samples.
LEMMA SampleIs ==
  ASSUME NEW t \in Thermistors, NEW temp \in Int, Colder(t, temp) # {}, NEW i, i = FirstColder(t, temp)
  PROVE  /\ i \in 1..Len(AnaTable[t]) /\ AnaTable[t][i][2] <= temp
         /\ Sample(t, temp) \in Nat /\ Sample(t, temp) <= AnaTable[t][i][1]
         /\ i = 1 => Sample(t, temp) = AnaTable[t][1][1]
         /\ i > 1 =>
              /\ i - 1 \in 1..Len(AnaTable[t]) /\ temp < AnaTable[t][i - 1][2]
              /\ AnaTable[t][i - 1][1] <= Sample(t, temp)
              /\ \A warmer \in Int :
                   temp <= warmer /\ FirstColder(t, warmer) = i /\ Colder(t, warmer) # {} =>
                     Sample(t, warmer) <= Sample(t, temp)
<1>1. /\ i \in 1..Len(AnaTable[t]) /\ AnaTable[t][i][2] <= temp
      /\ \A j \in 1..Len(AnaTable[t]) : AnaTable[t][j][2] <= temp => i <= j
  BY FirstColderIs
<1>2. /\ Len(AnaTable[t]) \in Nat
      /\ AnaTable[t][i][1] \in Nat /\ AnaTable[t][i][2] \in Int
  BY <1>1, TableFacts
<1>3. CASE i = 1
  <2>1. Sample(t, temp) = AnaTable[t][1][1]
    BY <1>3 DEF Sample
  <2> QED BY <1>1, <1>2, <1>3, <2>1
<1>4. CASE i # 1
  <2> DEFINE lo == AnaTable[t][i - 1][1]
             hi == AnaTable[t][i][1]
             cold == AnaTable[t][i][2]
             hot == AnaTable[t][i - 1][2]
             V(x) == (hi * (hot - cold) - (hi - lo) * (x - cold)) \div (hot - cold)
  <2>1. i - 1 \in 1..Len(AnaTable[t]) /\ i - 1 < i /\ ~(i <= i - 1)
    BY <1>1, <1>2, <1>4
  <2>2. lo \in Nat /\ hi \in Nat /\ cold \in Int /\ hot \in Int /\ lo < hi /\ cold < hot
    BY <1>1, <2>1, TableFacts
  <2>3. cold <= temp /\ temp < hot
    BY <1>1, <2>1, <2>2
  <2>4. \A x \in Int : Colder(t, x) # {} /\ FirstColder(t, x) = i =>
          /\ Sample(t, x) = (IF cold = x THEN hi ELSE V(x))
          /\ cold <= x /\ x < hot
    <3> SUFFICES ASSUME NEW x \in Int, Colder(t, x) # {}, FirstColder(t, x) = i
                 PROVE  Sample(t, x) = (IF cold = x THEN hi ELSE V(x)) /\ cold <= x /\ x < hot
      OBVIOUS
    <3>1. AnaTable[t][i][2] <= x /\ ~(AnaTable[t][i - 1][2] <= x)
      BY <2>1, FirstColderIs
    <3>2. Sample(t, x) = (IF cold = x THEN hi ELSE V(x))
      BY <1>4, Zenon DEF Sample
    <3> QED BY <2>2, <3>1, <3>2
  <2>5. \A x \in Int : cold <= x /\ x < hot =>
          /\ V(x) \in Nat /\ lo <= V(x) /\ V(x) <= hi
          /\ x = cold => V(x) = hi
          /\ \A warmer \in Int : x <= warmer /\ warmer < hot => V(warmer) <= V(x)
    <3> HIDE DEF lo, hi, cold, hot
    <3> QED BY <2>2, Interpolation
  <2> HIDE DEF lo, hi, cold, hot, V
  <2>6. \A x \in Int : Colder(t, x) # {} /\ FirstColder(t, x) = i =>
          Sample(t, x) = V(x) /\ cold <= x /\ x < hot
    BY <2>4, <2>5
  <2>7. Sample(t, temp) = V(temp)
    BY <2>6
  <2>8. \A warmer \in Int :
          temp <= warmer /\ FirstColder(t, warmer) = i /\ Colder(t, warmer) # {} =>
            Sample(t, warmer) <= Sample(t, temp)
    BY <2>3, <2>5, <2>6, <2>7
  <2>9. Sample(t, temp) \in Nat /\ lo <= Sample(t, temp) /\ Sample(t, temp) <= hi
    BY <2>3, <2>5, <2>7
  <2>10. /\ lo = AnaTable[t][i - 1][1] /\ hi = AnaTable[t][i][1] /\ hot = AnaTable[t][i - 1][2]
    BY DEF lo, hi, hot
  <2> QED BY <1>1, <1>4, <2>1, <2>3, <2>8, <2>9, <2>10
<1> QED BY <1>3, <1>4

\* A hotter thermistor takes a lower value from the table.
LEMMA SampleFalls ==
  ASSUME NEW t \in Thermistors, NEW cool \in Int, NEW warm \in Int, cool <= warm, Colder(t, cool) # {}
  PROVE  Colder(t, warm) # {} /\ Sample(t, warm) \in Nat /\ Sample(t, cool) \in Nat
         /\ Sample(t, warm) <= Sample(t, cool)
<1> DEFINE i == FirstColder(t, warm)
           j == FirstColder(t, cool)
<1>1. \A n \in 1..Len(AnaTable[t]) : AnaTable[t][n][2] \in Int /\ AnaTable[t][n][1] \in Nat
  BY TableFacts
<1>2. Colder(t, cool) \subseteq Colder(t, warm)
  BY <1>1 DEF Colder
<1>3. Colder(t, warm) # {}
  BY <1>2
<1>4. i \in 1..Len(AnaTable[t]) /\ j \in 1..Len(AnaTable[t]) /\ i <= j
  BY <1>1, <1>3, FirstColderIs
<1>5. Sample(t, warm) \in Nat /\ Sample(t, warm) <= AnaTable[t][i][1] /\ Sample(t, cool) \in Nat
  BY <1>3, SampleIs
<1>6. CASE i < j
  <2>1. j > 1 /\ i <= j - 1 /\ j - 1 \in 1..Len(AnaTable[t])
    BY <1>4, <1>6, TableFacts
  <2>2. AnaTable[t][j - 1][1] <= Sample(t, cool)
    BY <2>1, SampleIs
  <2>3. AnaTable[t][i][1] <= AnaTable[t][j - 1][1]
    <3>1. CASE i = j - 1
      BY <1>1, <1>4, <3>1
    <3>2. CASE i < j - 1
      BY <1>1, <1>4, <2>1, <3>2, TableFacts
    <3> QED BY <1>4, <2>1, <3>1, <3>2
  <2> HIDE DEF i, j
  <2> QED BY <1>1, <1>3, <1>4, <1>5, <2>1, <2>2, <2>3
<1>7. CASE i = j
  <2>1. CASE j = 1
    <3>1. Sample(t, warm) = AnaTable[t][1][1] /\ Sample(t, cool) = AnaTable[t][1][1]
      BY <1>3, <1>7, <2>1, SampleIs
    <3> QED BY <1>3, <1>5, <3>1
  <2>2. CASE j > 1
    <3>1. Sample(t, warm) <= Sample(t, cool)
      BY <1>3, <1>7, <2>2, SampleIs
    <3> QED BY <1>3, <1>5, <3>1
  <2> QED BY <1>4, <2>1, <2>2
<1> HIDE DEF i, j
<1>8. i < j \/ i = j
  BY <1>4, TableFacts
<1> QED BY <1>6, <1>7, <1>8
LEMMA SampleIsVoltage ==
  ASSUME NEW t \in Thermistors, NEW temp \in Int, Colder(t, temp) # {}
  PROVE  Sample(t, temp) \in Nat /\ MilliVolts(Sample(t, temp)) \in Nat
         /\ MilliVolts(Sample(t, temp)) <= 5000
<1> DEFINE i == FirstColder(t, temp)
           a == AnaTable[t][i][1]
           v == Sample(t, temp)
<1>1. v \in Nat /\ v <= a /\ i \in 1..Len(AnaTable[t])
  BY SampleIs
<1>2. a \in Nat /\ a \div AnaOversample \in 0..1023
  BY <1>1, TableFacts
<1> HIDE DEF a, v, i
<1>3. /\ v \div AnaOversample <= a \div AnaOversample
      /\ 0 \div AnaOversample <= v \div AnaOversample
      /\ v \div AnaOversample \in Int
  <2>1. AnaOversample \in Nat \ {0} /\ v \in Int /\ a \in Int /\ 0 \in Int /\ 0 <= v
    BY <1>1, <1>2, AnalogAssumption
  <2>2. v \div AnaOversample \in Int
    BY <2>1, DivDef
  <2>3. v \div AnaOversample <= a \div AnaOversample
    BY <1>1, <2>1, DivMono
  <2>4. 0 \div AnaOversample <= v \div AnaOversample
    BY <2>1, DivMono
  <2> QED BY <2>2, <2>3, <2>4
<1>4. 0 \div AnaOversample = 0
  <2>1. (0 * AnaOversample) \div AnaOversample = 0 /\ 0 * AnaOversample = 0
    BY DivOfTimes, AnalogAssumption
  <2> QED BY <2>1
<1>5. v \div AnaOversample \in 0..1023
  BY <1>2, <1>3, <1>4
<1>6. MilliVolts(v) \in Nat /\ MilliVolts(v) <= 5000
  BY <1>1, <1>5, MilliVoltsOfTable
<1>7. Sample(t, temp) = v
  BY DEF v
<1> QED BY <1>1, <1>6, <1>7

\* A thermistor that is colder never reads lower, whatever its table.
THEOREM TableFalls ==
  ASSUME NEW t \in Thermistors, NEW cool \in Int, NEW warm \in Int, cool <= warm
  PROVE  TableValue(t, warm) \in Nat /\ TableValue(t, warm) <= TableValue(t, cool)
<1>1. OutOfRange \in Nat /\ 5000 <= OutOfRange
  BY SMT DEF OutOfRange
<1>2. \A x \in Int : TableValue(t, x) \in Nat /\ TableValue(t, x) <= OutOfRange
  <2> SUFFICES ASSUME NEW x \in Int
               PROVE  TableValue(t, x) \in Nat /\ TableValue(t, x) <= OutOfRange
    OBVIOUS
  <2>1. CASE Colder(t, x) = {}
    BY <1>1, <2>1 DEF TableValue
  <2>2. CASE Colder(t, x) # {}
    BY SMT, <1>1, <2>2, SampleIsVoltage DEF TableValue
  <2> QED BY <2>1, <2>2
<1>3. CASE Colder(t, cool) = {}
  <2>1. TableValue(t, cool) = OutOfRange
    BY <1>3 DEF TableValue
  <2> QED BY <1>2, <2>1
<1>4. CASE Colder(t, cool) # {}
  <2>1. Colder(t, warm) # {} /\ Sample(t, warm) <= Sample(t, cool)
        /\ Sample(t, warm) \in Nat /\ Sample(t, cool) \in Nat
    BY <1>4, SampleFalls
  <2>2. MilliVolts(Sample(t, warm)) <= MilliVolts(Sample(t, cool))
    BY <2>1, MilliVoltsMono
  <2>3. /\ TableValue(t, cool) = MilliVolts(Sample(t, cool))
        /\ TableValue(t, warm) = MilliVolts(Sample(t, warm))
    BY <1>4, <2>1 DEF TableValue
  <2> QED BY <1>2, <2>2, <2>3
<1> QED BY <1>3, <1>4

\* A cache and its pin agree: so an answer that is not raised was raised before.
AnaCached == \A p \in Peripherals : anaPin[p] = anaLast[p]
AnaReadsNow ==
  anaRead => anaPin["mux"] = IF MuxSelected = "none" THEN 0 ELSE ThermistorRead(MuxSelected)
AnaInv == AnaTypeOK /\ AnaCached /\ AnaReadsNow

LEMMA AnaReads ==
  ASSUME AnaTypeOK, NEW t \in Thermistors
  PROVE  ThermistorRead(t) \in Nat
<1>1. anaTemp[t] \in Int
  BY DEF AnaTypeOK
<1>2. TableValue(t, anaTemp[t]) \in Nat
  BY <1>1, TableFalls
<1> QED BY SMT, <1>2 DEF ThermistorRead

LEMMA AnaInitInv == AnaInit => AnaInv
<1> SUFFICES ASSUME AnaInit PROVE AnaInv
  OBVIOUS
<1>1. 20 \in 0..Wrap /\ 25 \in 0..Wrap
  <2>1. Wrap \in Nat /\ 25 <= Wrap
    BY SMT DEF Wrap
  <2> QED BY <2>1
<1>2. anaRead \in BOOLEAN /\ ~anaRead
  BY Zenon DEF AnaInit
<1>3. AnaTypeOK
  BY <1>1, <1>2 DEF AnaInit, AnaTypeOK
<1>4. AnaCached
  BY DEF AnaInit, AnaCached
<1> QED BY <1>2, <1>3, <1>4 DEF AnaInv, AnaReadsNow

LEMMA AnaQuietSteps ==
  ASSUME AnaInv, AnaSelect \/ AnaSetTemp \/ AnaSetWire
  PROVE  AnaInv'
<1>0. AnaTypeOK /\ AnaCached
  BY DEF AnaInv
<1>1. anaRead' \in BOOLEAN /\ ~anaRead'
  BY Zenon DEF AnaSelect, AnaSetTemp, AnaSetWire
<1>2. anaLast' = anaLast /\ anaPin' = anaPin
  BY DEF AnaSelect, AnaSetTemp, AnaSetWire
<1>3. anaTemp' \in [Thermistors -> 0..Wrap]
  <2>1. CASE AnaSetTemp
    <3>1. PICK t \in Thermistors, temp \in AnaTemps :
            \E kept \in IF temp < 0 THEN {0, Wrap + temp} ELSE {temp} : anaTemp' = [anaTemp EXCEPT ![t] = kept]
      BY <2>1 DEF AnaSetTemp
    <3>2. temp \in -Wrap..Wrap /\ Wrap \in Nat
      <4>1. Wrap \in Nat
        BY SMT DEF Wrap
      <4> QED BY <4>1, AnalogAssumption
    <3>3. \A kept \in IF temp < 0 THEN {0, Wrap + temp} ELSE {temp} : kept \in 0..Wrap
      BY <3>2
    <3> QED BY <1>0, <3>1, <3>3 DEF AnaTypeOK
  <2>2. CASE ~AnaSetTemp
    <3>1. anaTemp' = anaTemp
      BY <2>2 DEF AnaSelect, AnaSetWire
    <3> QED BY <1>0, <3>1 DEF AnaTypeOK
  <2> QED BY <2>1, <2>2
<1>4. anaSelect' \in 0..3
  <2>1. CASE AnaSelect
    <3>1. PICK pin \in {1, 2} :
            anaSelect' = IF (anaSelect \div pin) % 2 = 1 THEN anaSelect - pin ELSE anaSelect + pin
      BY <2>1 DEF AnaSelect
    <3>2. anaSelect \in {0, 1, 2, 3}
      BY <1>0 DEF AnaTypeOK
    <3> QED BY <3>1, <3>2
  <2>2. CASE ~AnaSelect
    <3>1. anaSelect' = anaSelect
      BY <2>2 DEF AnaSetTemp, AnaSetWire
    <3> QED BY <1>0, <3>1 DEF AnaTypeOK
  <2> QED BY <2>1, <2>2
<1>5. anaWire' \in [Thermistors -> {"OpenCircuit", "Shorted", "Connected"}]
  BY <1>0 DEF AnaTypeOK, AnaSelect, AnaSetTemp, AnaSetWire
<1>6. AnaTypeOK'
  BY <1>0, <1>1, <1>2, <1>3, <1>4, <1>5 DEF AnaTypeOK
<1> QED BY <1>0, <1>1, <1>2, <1>6 DEF AnaInv, AnaCached, AnaReadsNow

\* A conversion asks the thermistor, then the multiplexer; each cache keeps its answer.
LEMMA AnaConvertStep ==
  ASSUME AnaInv, MuxConvert
  PROVE  AnaInv'
<1> DEFINE t == MuxSelected
           asked == Answer(ThermistorRead(t), Own(t))
           value == IF t = "none" THEN 0 ELSE asked.pin
           got == Answer(value, Own("mux"))
           New(p) == IF p = "mux" THEN got ELSE IF p = t THEN asked ELSE Own(p)
<1>0. AnaTypeOK /\ AnaCached
  BY DEF AnaInv
<1>1. /\ anaLast' = [p \in Peripherals |-> New(p).last]
      /\ anaPin' = [p \in Peripherals |-> New(p).pin]
      /\ UNCHANGED <<anaTemp, anaWire, anaSelect>>
  BY DEF MuxConvert
<1>2. t \in Thermistors \/ t = "none"
  BY DEF MuxSelected, Thermistors
<1>3. \A p \in Peripherals : Own(p).last = Own(p).pin /\ Own(p).last \in Nat /\ Own(p).pin \in Nat
  BY <1>0 DEF Own, AnaCached, AnaTypeOK
<1>4. ASSUME NEW p \in Peripherals, NEW v \in Nat
      PROVE  Answer(v, Own(p)).last = v /\ Answer(v, Own(p)).pin = v
  <2>1. CASE v = Own(p).last
    <3>1. Answer(v, Own(p)) = Own(p)
      BY <2>1 DEF Answer
    <3> QED BY <1>3, <2>1, <3>1
  <2>2. CASE v # Own(p).last
    BY <2>2 DEF Answer
  <2> QED BY <2>1, <2>2
<1>5. t \in Thermistors => asked.last = ThermistorRead(t) /\ asked.pin = ThermistorRead(t)
                           /\ ThermistorRead(t) \in Nat
  <2> HIDE DEF t
  <2> SUFFICES ASSUME t \in Thermistors
               PROVE  asked.last = ThermistorRead(t) /\ asked.pin = ThermistorRead(t)
                      /\ ThermistorRead(t) \in Nat
    OBVIOUS
  <2>1. t \in Peripherals /\ ThermistorRead(t) \in Nat
    BY <1>0, AnaReads DEF Peripherals
  <2> QED BY <1>4, <2>1
<1>6. value \in Nat /\ value = IF t = "none" THEN 0 ELSE ThermistorRead(t)
  <2> HIDE DEF t, asked
  <2> QED BY <1>2, <1>5
<1>7. got.last = value /\ got.pin = value
  <2> HIDE DEF value
  <2>1. "mux" \in Peripherals
    BY DEF Peripherals
  <2> QED BY <1>4, <1>6, <2>1
<1> HIDE DEF t, asked, value, got
<1>8. \A p \in Peripherals : New(p).last \in Nat /\ New(p).pin = New(p).last
  <2> SUFFICES ASSUME NEW p \in Peripherals PROVE New(p).last \in Nat /\ New(p).pin = New(p).last
    OBVIOUS
  <2>1. CASE p = "mux"
    <3>1. New(p) = got
      BY <2>1
    <3> QED BY <1>6, <1>7, <3>1
  <2>2. CASE p # "mux" /\ p = t
    <3>1. New(p) = asked /\ t \in Thermistors
      BY <1>2, <2>2 DEF Peripherals
    <3> QED BY <1>5, <3>1
  <2>3. CASE p # "mux" /\ p # t
    <3>1. New(p) = Own(p)
      BY <2>3
    <3> QED BY <1>3, <3>1
  <2> QED BY <2>1, <2>2, <2>3
<1>9. New("mux") = got /\ "mux" \in Peripherals
  BY DEF Peripherals
<1> HIDE DEF New
<1>10. AnaCached'
  BY <1>1, <1>8 DEF AnaCached
<1>11. anaRead' \in BOOLEAN
  BY Zenon DEF MuxConvert
<1>12. AnaTypeOK'
  BY <1>0, <1>1, <1>8, <1>11 DEF AnaTypeOK
<1>13. MuxSelected' = t
  BY <1>1 DEF MuxSelected, t
<1>14. \A x \in Thermistors : ThermistorRead(x)' = ThermistorRead(x)
  BY <1>1 DEF ThermistorRead
<1>15. anaPin'["mux"] = IF MuxSelected' = "none" THEN 0 ELSE ThermistorRead(t)
  BY <1>1, <1>6, <1>7, <1>9, <1>13
<1>16. AnaReadsNow'
  BY <1>2, <1>13, <1>14, <1>15 DEF AnaReadsNow
<1> QED BY <1>10, <1>12, <1>16 DEF AnaInv

LEMMA AnaStepInv == AnaInv /\ [AnaNext]_anaVars => AnaInv'
<1> SUFFICES ASSUME AnaInv, [AnaNext]_anaVars PROVE AnaInv'
  OBVIOUS
<1>1. CASE UNCHANGED anaVars
  BY <1>1 DEF AnaInv, AnaTypeOK, AnaCached, AnaReadsNow, MuxSelected, ThermistorRead, anaVars
<1> QED BY <1>1, AnaQuietSteps, AnaConvertStep DEF AnaNext

LEMMA AnaInvariant == AnaSpec => []AnaInv
BY AnaInitInv, AnaStepInv, PTL DEF AnaSpec

VoltInv ==
  /\ VoltTypeOK
  /\ voltPin = voltLast /\ voltDigital = SyncDigital(voltLast)
  /\ ~voltStale => voltLast = VoltRead

LEMMA VoltInitInv == VoltInit => VoltInv
<1> SUFFICES ASSUME VoltInit PROVE VoltInv
  OBVIOUS
<1>1. voltStale \in BOOLEAN /\ voltStale
  BY Zenon DEF VoltInit
<1> QED BY <1>1 DEF VoltInit, VoltInv, VoltTypeOK, SyncDigital

LEMMA VoltStepInv == VoltInv /\ [VoltNext]_voltVars => VoltInv'
<1> SUFFICES ASSUME VoltInv, [VoltNext]_voltVars PROVE VoltInv'
  OBVIOUS
<1>1. CASE UNCHANGED voltVars
  BY <1>1 DEF VoltInv, VoltTypeOK, VoltRead, voltVars
<1>2. CASE VoltSet
  <2>1. voltStale' \in BOOLEAN /\ voltStale'
    BY <1>2, Zenon DEF VoltSet
  <2> QED BY <1>2, <2>1 DEF VoltInv, VoltTypeOK, VoltSet
<1>3. CASE VoltConvert
  <2>1. VoltRead \in Nat /\ VoltRead' = VoltRead
    BY <1>3, AnalogAssumption DEF VoltConvert, VoltRead, VoltInv, VoltTypeOK
  <2>2. voltLast' = VoltRead /\ voltPin' = VoltRead
    <3>1. CASE VoltRead = voltLast
      BY <1>3, <3>1 DEF VoltConvert, Answer, VoltInv
    <3>2. CASE VoltRead # voltLast
      BY <1>3, <3>2 DEF VoltConvert, Answer
    <3> QED BY <3>1, <3>2
  <2>3. voltDigital' = SyncDigital(VoltRead)
    BY <1>3 DEF VoltConvert, VoltInv
  <2>4. voltStale' \in BOOLEAN
    BY <1>3, Zenon DEF VoltConvert
  <2>5. voltV' = voltV /\ voltScale' = voltScale
    BY <1>3 DEF VoltConvert
  <2>6. SyncDigital(VoltRead) \in {"low", "high"}
    BY DEF SyncDigital
  <2> QED BY <2>1, <2>2, <2>3, <2>4, <2>5, <2>6 DEF VoltInv, VoltTypeOK
<1> QED BY <1>1, <1>2, <1>3 DEF VoltNext

LEMMA VoltInvariant == VoltSpec => []VoltInv
BY VoltInitInv, VoltStepInv, PTL DEF VoltSpec

LEMMA AnaInvHonest == AnaInv /\ VoltInv => AnaHonest /\ AnaTypeOK /\ VoltTypeOK
<1> SUFFICES ASSUME AnaInv, VoltInv PROVE AnaHonest
  BY DEF AnaInv, VoltInv
<1>1. ASSUME NEW t \in Thermistors, NEW temp \in AnaTemps, anaWire[t] = "Connected",
   temp <= anaTemp[t]
      PROVE  ThermistorRead(t) <= TableValue(t, temp)
  <2>1. anaTemp[t] \in Int /\ temp \in Int
    <3>1. Wrap \in Nat
      BY SMT DEF Wrap
    <3> QED BY <3>1, AnalogAssumption DEF AnaInv, AnaTypeOK
  <2>2. ThermistorRead(t) = TableValue(t, anaTemp[t])
    BY <1>1 DEF ThermistorRead
  <2> QED BY <1>1, <2>1, <2>2, TableFalls
<1>2. ~voltStale => voltPin = VoltRead /\ (voltDigital = "low" <=> VoltRead < 800)
  BY DEF VoltInv, SyncDigital
<1>3. MuxSelected \in Thermistors \cup {"none"}
  BY DEF MuxSelected, Thermistors
<1>4. anaRead => anaPin["mux"] = IF MuxSelected = "none" THEN 0 ELSE ThermistorRead(MuxSelected)
  BY DEF AnaInv, AnaReadsNow
<1> QED BY <1>1, <1>2, <1>3, <1>4 DEF AnaHonest

-----------------------------------------------------------------------------
(***************************************************************************)
(* The theorems.                                                           *)
(***************************************************************************)
\* A heater that is hot or heated ticks, unless it was stopped or a reset of the AVR dropped
\* the tick and nothing brought it back, which the hook of the board does for the hotend of an
\* EinsyRambo only; and its pin tells whether it is heated (OnTempTick, OnPWMChanged, Set,
\* Resume_Auto and Reset of Heater.cpp, RunAVR of Board.cpp).
THEOREM HeatersTick == HeatSpec => [](HeatTypeOK /\ HeatTicks)
<1>1. HeatInv => HeatTypeOK /\ HeatTicks
  BY DEF HeatInv
<1> QED BY <1>1, HeatInvariant, PTL

\* The speed of a fan follows its power, and its tach the speed, but for a reset of the AVR,
\* after which the fan turns without a pulse until its next power; and a fan whose enable line
\* is low has none (Fan.cpp, the soft PWM of SoftPWMable.cpp, RunAVR of Board.cpp).
THEOREM FansTold == FanSpec => [](FanTypeOK /\ FanHonest)
BY FanInvHonest, FanInvariant, PTL

\* A tone that is heard ends with its timer, unless a reset of the AVR dropped that; and only
\* one whose end was ignored, or one of times that no timer limited, can make the audio thread
\* divide by zero (OnDigitalInSPWM, OnWaveformChange and SDL_FillBuffer of Beeper.cpp, RunAVR
\* of Board.cpp).
THEOREM TonesEnd == BeepSpec => [](BeepTypeOK /\ BeepHonest)
<1>1. BeepInv => BeepTypeOK /\ BeepHonest
  <2> SUFFICES ASSUME BeepInv PROVE BeepTypeOK /\ BeepHonest
    OBVIOUS
  <2>1. {beepTimer, beepMuted, beepPlaying, beepIgnored, beepDropped, beepLong} \subseteq BOOLEAN
    BY Zenon DEF BeepInv
  <2>2. {beepCtOn, beepCtOff} \subseteq 0..(Word - 1)
    BY Zenon DEF BeepInv
  <2> QED BY <2>1, <2>2, Zenon DEF BeepInv, BeepTypeOK
<1> QED BY <1>1, BeepInvariant, PTL

\* What was saved is what the file holds, and what the next run loads, for memories of every
\* size (_OnAVRInit and _OnAVRDeinit of Board.cpp, Load and Save of EEPROM.cpp).
THEOREM SavesKept == StSpec => [](StTypeOK /\ StKept)
BY StInvKept, StInvariant, PTL

\* The bytes of each side reach the other in the order they were sent, none twice, and none
\* is lost in between but those for which there was no room, for queues of every capacity
\* (Run of SerialPipe.cpp).
THEOREM PipeDelivers == PipeSpec => [](PipeTypeOK /\ PipeHonest)
BY PipeInvHonest, PipeInvariant, PTL

\* A part wired to a pin of the expander is never left at a level its registers do not show.
THEOREM ExpanderHonest == ExpSpec => []ExpPinsShowLatch
<1>1. ExpInv => ExpPinsShowLatch
  BY DEF ExpInv
<1> QED BY <1>1, ExpInvariant, PTL

\* The outputs of the shift register are those of its latch, for any width.
THEOREM ShiftRegisterHonest == ShSpec => []ShiftShowsLatch
<1>1. ShInv => ShiftShowsLatch
  BY DEF ShInv
<1> QED BY <1>1, ShInvariant, PTL

\* The expander, the shift registers and the multiplexer of the MMU1 together: what each drives
\* is what was written to it, at every moment (MCP23S17.cpp, HC595.cpp, MMU1.cpp).
THEOREM SignalsFollow == ExpSpec /\ ShSpec /\ MuxSpec => [](SignalsTypeOK /\ SignalsHonest)
BY ExpInvariant, ShInvariant, MuxInvariant, SignalsInvHonest, PTL

\* What the converter has just read is the sensor selected, as it is, through both caches; and
\* a voltage source has on its analogue pin what was converted last, and its digital one is
\* driven high by everything from 0.8 V on, and never floats (Thermistor.cpp, 74HCT4052.cpp,
\* VoltageSrc.cpp, ADCPeripheral.h).
THEOREM ConverterReadsNow == AnaSpec /\ VoltSpec => [](AnaTypeOK /\ VoltTypeOK /\ AnaHonest)
BY AnaInvariant, VoltInvariant, AnaInvHonest, PTL

=============================================================================
