------------------------------- MODULE Beeper -------------------------------
(***************************************************************************)
(* The beeper (parts/components/Beeper.cpp), whose tone is taken from the  *)
(* edges of a pin (SoftPWMable.cpp).  The AVR thread sees the edges and    *)
(* the timeout, and is the one that mutes, for a key or the script; the    *)
(* audio thread plays what the AVR thread has left in the counters, while  *)
(* it is not paused.                                                       *)
(*                                                                         *)
(* avr_reset drops the timeout, and raises no edge.                        *)
(*                                                                         *)
(* A time is a number of AVR cycles, and is known when the next edge comes *)
(* or the timeout has passed.                                              *)
(***************************************************************************)
EXTENDS Integers

CONSTANTS
  BeepClock,      \* the frequency of the AVR
  BeepTimeout,    \* m_uiSoftTimeoutUs, in cycles
  BeepTimes       \* the times between two edges

Word == 65536
SampleRate == 44100

\* m_uiCtOn and m_uiCtOff have sixteen bits; at the 16 MHz and the 100 ms of the code no time
\* up to the timeout has a frequency whose low sixteen bits are 0.
ASSUME BeeperAssumption ==
  /\ {BeepClock, BeepTimeout} \subseteq Nat \ {0} /\ BeepTimes \subseteq Nat \ {0}
  /\ \A time \in BeepTimes : time <= BeepTimeout => (BeepClock \div time) % Word > 0

VARIABLES
  beepPin,        \* DIGITAL_IN
  beepOn,         \* m_cntTOn - m_cntSoftPWM while the pin is low; 0 when m_cntTOn was reset
  beepTimer,      \* m_fcnSoftTimeout is registered
  beepMuted, beepPlaying,   \* m_bMuted; m_bPlaying, and the audio is not paused
  beepCtOn, beepCtOff,      \* m_uiCtOn and m_uiCtOff
  beepCounter,    \* m_uiCounter where it was last set
  beepState,      \* m_bState, and "dead" once the audio thread divided by 0
  beepIgnored,    \* history: the end of a tone was ignored, and no tone began since
  beepDropped,    \* history: a reset dropped the timer, and there was no edge since
  beepLong        \* history: so a time was taken that is longer than the timeout

beepHistory == <<beepIgnored, beepDropped, beepLong>>
beepVars == <<beepPin, beepOn, beepTimer, beepMuted, beepPlaying, beepCtOn, beepCtOff,
              beepCounter, beepState, beepHistory>>

BeepInit ==
  /\ beepPin = 0 /\ beepOn = 0 /\ beepTimer = FALSE /\ beepMuted = FALSE /\ beepPlaying = FALSE
  /\ beepCtOn = 0 /\ beepCtOff = 0 /\ beepCounter = 0 /\ beepState = "low"
  /\ beepIgnored = FALSE /\ beepDropped = FALSE /\ beepLong = FALSE

\* OnWaveformChange of a beeper that is not muted, for a time on of 0, and for others.
\* One that is on for too long for m_uiCtOn changes the two, and neither plays nor stops.
Silence ==
  /\ beepPlaying' = FALSE /\ beepIgnored' = FALSE /\ beepLong' = FALSE
  /\ UNCHANGED <<beepCtOn, beepCtOff, beepCounter>>
Tone(on, off) ==
  /\ beepCtOn' = (BeepClock \div on) % Word /\ beepCtOff' = (BeepClock \div off) % Word
  /\ IF beepCtOn' = 0 THEN UNCHANGED <<beepPlaying, beepCounter, beepIgnored, beepLong>>
     ELSE /\ beepCounter' = SampleRate \div beepCtOn'
          /\ beepPlaying' = TRUE /\ beepIgnored' = FALSE /\ beepLong' = (beepDropped /\ off > BeepTimeout)
Ignore(end) ==
  /\ beepIgnored' = (beepIgnored \/ (end /\ beepPlaying))
  /\ UNCHANGED <<beepPlaying, beepCtOn, beepCtOff, beepCounter, beepLong>>

\* OnDigitalInSPWM.  Between two edges that the timer has not seen there is no more time than
\* its own, unless a reset dropped it.
Between(time) == beepTimer => time <= BeepTimeout
BeepRise ==
  /\ beepPin = 0 /\ beepPin' = 1 /\ beepTimer' = TRUE /\ beepDropped' = FALSE /\ beepOn' = 0
  /\ \E off \in BeepTimes :
       /\ Between(off)
       /\ IF beepMuted THEN Ignore(FALSE)
          ELSE IF beepOn > 0 THEN Tone(beepOn, off)
          ELSE UNCHANGED <<beepPlaying, beepIgnored, beepLong, beepCtOn, beepCtOff, beepCounter>>
  /\ UNCHANGED <<beepMuted, beepState>>
BeepFall ==
  /\ beepPin = 1 /\ beepPin' = 0 /\ beepTimer' = TRUE /\ beepDropped' = FALSE
  /\ \E on \in BeepTimes :
       /\ beepTimer \/ beepDropped \/ on > BeepTimeout
       /\ Between(on) /\ beepOn' = on
       /\ beepLong' = (beepLong \/ (beepDropped /\ on > BeepTimeout))
  /\ UNCHANGED <<beepMuted, beepPlaying, beepCtOn, beepCtOff, beepCounter, beepState, beepIgnored>>
\* OnSoftPWMChangeTimeout.  (A definition named Mut... is the one after it with a plausible
\* mistake in it.)
MutBeepSoftTimeout ==
  /\ beepTimer /\ beepTimer' = FALSE
  /\ IF beepMuted THEN Ignore(TRUE) ELSE Silence
  /\ UNCHANGED <<beepPin, beepOn, beepMuted, beepState, beepDropped>>
BeepSoftTimeout ==
  /\ beepTimer /\ beepTimer' = FALSE /\ beepOn' = 0
  /\ IF beepMuted THEN Ignore(TRUE) ELSE Silence
  /\ UNCHANGED <<beepPin, beepMuted, beepState, beepDropped>>

\* avr_reset: the pin keeps its value, and the time since the last edge goes on.
BeepAvrReset ==
  /\ beepTimer' = FALSE /\ beepDropped' = (beepDropped \/ beepTimer)
  /\ UNCHANGED <<beepPin, beepOn, beepMuted, beepPlaying, beepCtOn, beepCtOff, beepCounter,
                 beepState, beepIgnored, beepLong>>

\* UpdateMute, of the key, the script and the menu: a tone that plays is not stopped.
BeepMute ==
  /\ beepMuted' = ~beepMuted
  /\ UNCHANGED <<beepPin, beepOn, beepTimer, beepPlaying, beepCtOn, beepCtOff, beepCounter,
                 beepState, beepHistory>>

\* SDL_FillBuffer, when the counter has come to 0: it is set for the other half of the period,
\* and one that is set to 0 is counted down all the same.
BeepFlip ==
  /\ beepPlaying
  /\ LET state == IF beepState = "low" THEN "high" ELSE "low"
         ct == IF state = "high" THEN beepCtOn ELSE beepCtOff
     IN IF ct = 0 THEN beepState' = "dead" /\ UNCHANGED beepCounter
        ELSE /\ beepState' = state
             /\ beepCounter' = IF SampleRate \div ct = 0 THEN Word ELSE SampleRate \div ct
  /\ UNCHANGED <<beepPin, beepOn, beepTimer, beepMuted, beepPlaying, beepCtOn, beepCtOff, beepHistory>>

BeepNext ==
  /\ beepState # "dead"
  /\ BeepRise \/ BeepFall \/ BeepSoftTimeout \/ BeepAvrReset \/ BeepMute \/ BeepFlip

BeepSpec == BeepInit /\ [][BeepNext]_beepVars

BeepTypeOK ==
  /\ beepPin \in 0..1 /\ beepOn \in BeepTimes \cup {0}
  /\ {beepTimer, beepMuted, beepPlaying, beepIgnored, beepDropped, beepLong} \subseteq BOOLEAN
  /\ {beepCtOn, beepCtOff} \subseteq 0..(Word - 1) /\ beepCounter \in 0..Word
  /\ beepState \in {"low", "high", "dead"}

-----------------------------------------------------------------------------
\* A tone ends: while it plays, the timer that stops it runs - unless the beeper was muted when
\* the timer ended, for muting stops no tone, or a reset of the AVR dropped the timer; then it
\* plays until there is another.  Only such a tone may still play when a pulse, or after a
\* reset a pause, of more than a second makes m_uiCtOn or m_uiCtOff 0, and the audio thread
\* divide by it.
BeepHonest ==
  /\ beepPlaying => beepTimer \/ beepIgnored \/ beepDropped
  /\ beepDropped => ~beepTimer
  /\ beepPlaying /\ ~beepIgnored /\ ~beepLong => beepCtOn > 0 /\ beepCtOff > 0
  /\ beepState = "dead" => beepIgnored \/ beepLong
=============================================================================
