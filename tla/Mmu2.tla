-------------------------------- MODULE Mmu2 --------------------------------
(***************************************************************************)
(* The multi-material unit (parts/components/MMU2.cpp) and the filament    *)
(* sensor of the printer that listens to it (IRSensor.cpp, the part of     *)
(* ADCPeripheral.h under it, and OnMMUFeed of printers/Prusa_MK3SMMU2.cpp).*)
(*                                                                         *)
(* Each board has an AVR thread of its own.  The unit's runs               *)
(* OnPulleyFeedIn; the printer's runs the keys and the scripts of both,    *)
(* the ADC and the line that resets the unit.  A thread reads what the     *)
(* other writes in one step and uses it in a later one, and raises each    *)
(* pin in a step of its own.  The unit is either in the printer's process, *)
(* or in one of its own, with a sideband to the printer: it then has one   *)
(* thread for all, and nothing of it reaches the sensor.                   *)
(*                                                                         *)
(* A position of the pulley is one of four: up to the trigger of the FINDA *)
(* (0), beyond it (1), at the trigger of the filament sensor (2), beyond   *)
(* that (3).                                                               *)
(***************************************************************************)
EXTENDS Integers

CONSTANTS
  IrScripted,     \* the states the keys and the scripts set
  MmuMaxActs      \* bound: the keys and script actions that change either sensor

MmuPositions == 0..3
MmuFinda(position) == IF position > 0 THEN 1 ELSE 0     \* FINDA_TRIGGER_DISTANCE
MmuAtSensor(position) == position >= 2                  \* FSENSOR_TRIGGER_DISTANCE
MmuBit(state) == IF state THEN 1 ELSE 0

VARIABLES
  mmuSideband,               \* m_bSidebandEnabled
  mmuAuto, mmuManual,        \* m_bAutoFINDA, m_bFINDAManual
  mmuLast,                   \* m_fLastPosOut
  mmuPin, mmuOut,            \* FINDA_PIN, which the firmware reads, and FINDA_OUT, which is drawn
  mmuTold,                   \* whether the last byte of SB_FS was FS_AUTO_SET
  mmuPc,                     \* where the unit's thread is
  mmuArg, mmuBranch, mmuGot, \* there: the position, m_bAutoFINDA as read, the level to set
  mmuIrArg,                  \* there: the value of the sensor to raise
  mmuStarted, mmuReset,      \* IsStarted(), m_bReset of the board
  mmuLine,                   \* the pin RESET
  mmuFed,                    \* history: the position the automatic FINDA was last fed
  mmuSettled,                \* history: the pin was set in the mode that now applies
  mmuTogether,               \* history: who last began to set the FINDA was not alone at it
  mmuAsked,                  \* history: a reset has been asked for and not yet made
  irCurrent, irExternal,     \* m_eCurrent, m_bExternal
  irRunning, irLast,         \* m_bADCRunning, m_uiLast
  irPin,                     \* DIGITAL_OUT
  irPc, irArg,               \* where the printer's thread is, and there: the value to use
  irStale,                   \* history: the state was set and the pin did not follow
  irTogether,                \* history: who last began to set the sensor was not alone at it
  irScript,                  \* history: a script has set the external value
  mmuActs                    \* bound: the actions so far

mmuReset_ == <<mmuStarted, mmuReset, mmuLine, mmuAsked>>
mmuFinda == <<mmuAuto, mmuManual, mmuLast, mmuPin, mmuOut, mmuTold, mmuFed, mmuSettled, mmuTogether>>
mmuThread == <<mmuPc, mmuArg, mmuBranch, mmuGot, mmuIrArg>>
irSensor == <<irCurrent, irExternal, irRunning, irLast, irPin, irPc, irArg, irStale, irTogether,
              irScript>>
mmuVars == <<mmuSideband, mmuReset_, mmuFinda, mmuThread, irSensor, mmuActs>>

\* IRState
IrStates == {"SHORT", "v3_FILAMENT", "v4_FILAMENT", "UNKNOWN", "v3_NO_FILAMENT",
             "v4_NO_FILAMENT", "NOT_CONNECTED", "AUTO"}

ASSUME Mmu2Assumption == IrScripted \subseteq IrStates /\ MmuMaxActs \in Nat

\* m_mIRVals, in millivolts
IrVolts ==
  [state \in IrStates \ {"AUTO"} |->
    CASE state = "SHORT" -> 100 [] state = "v4_FILAMENT" -> 400 [] state = "v3_FILAMENT" -> 200
      [] state = "UNKNOWN" -> 3000 [] state = "v4_NO_FILAMENT" -> 4500
      [] state = "v3_NO_FILAMENT" -> 4700 [] state = "NOT_CONNECTED" -> 4900]

\* GetCurrentValue
IrValue(current, external) ==
  IF current # "AUTO" THEN IrVolts[current]
  ELSE IrVolts[IF external THEN "v4_FILAMENT" ELSE "v4_NO_FILAMENT"]
\* _SyncDigitalIRQ, which drives the pin low below 0.8 V and high from there on.
IrLevel(value) == IF value < 800 THEN 0 ELSE 1

\* As SetupHardware leaves them: the sensor is set to automatic, its pin follows it.
MmuInit ==
  /\ mmuSideband \in BOOLEAN
  /\ mmuAuto = TRUE /\ mmuManual = FALSE /\ mmuLast = 0 /\ mmuPin = 0 /\ mmuOut = 0
  /\ mmuTold = FALSE
  /\ mmuPc = "idle" /\ mmuArg = 0 /\ mmuBranch = TRUE /\ mmuGot = 0 /\ mmuIrArg = 0
  /\ mmuStarted = FALSE /\ mmuReset = FALSE /\ mmuLine = 0
  /\ mmuFed = 0 /\ mmuSettled = TRUE /\ mmuTogether = FALSE /\ mmuAsked = FALSE
  /\ irCurrent = "AUTO" /\ irExternal = FALSE /\ irRunning = FALSE /\ irLast = 0
  /\ irPin = 1 /\ irPc = "idle" /\ irArg = 0
  /\ irStale = FALSE /\ irTogether = FALSE /\ irScript = FALSE
  /\ mmuActs = 0

\* The printer's thread is between the first and the last step of setting the FINDA.
MmuPrinterSets == irPc \in {"toggle", "pin", "out"}
\* Either thread is between the first and the last step of raising the sensor.
IrPrinterSets == irPc \in {"store", "value", "raise", "read"}
IrUnitSets == mmuPc \in {"store", "value", "raise"}

-----------------------------------------------------------------------------
(* The unit's thread: OnPulleyFeedIn.                                      *)

\* It looks at m_bAutoFINDA; the manual branch does not use the position.
MmuFeedIn ==
  /\ mmuStarted /\ mmuPc = "idle" /\ (mmuSideband => irPc = "idle")
  /\ mmuBranch' = mmuAuto
  /\ IF mmuAuto
     THEN mmuPc' = "pin" /\ mmuArg' \in MmuPositions /\ mmuGot' = MmuFinda(mmuArg')
     ELSE mmuPc' = "look" /\ UNCHANGED <<mmuArg, mmuGot>>
  /\ mmuTogether' = MmuPrinterSets
  /\ UNCHANGED <<mmuSideband, mmuActs, mmuReset_, mmuIrArg, irSensor,
                 mmuAuto, mmuManual, mmuLast, mmuPin, mmuOut, mmuTold, mmuFed, mmuSettled>>

\* The manual branch reads m_bFINDAManual once for each signal.
MmuFeedManual ==
  /\ \/ mmuPc = "look" /\ mmuPc' = "pin"
     \/ mmuPc = "again" /\ mmuPc' = "out"
  /\ mmuGot' = MmuBit(mmuManual)
  /\ UNCHANGED <<mmuSideband, mmuActs, mmuReset_, mmuFinda, mmuArg, mmuBranch, mmuIrArg, irSensor>>

\* SetPin(FINDA_PIN)
MmuFeedPin ==
  /\ mmuPc = "pin" /\ mmuPc' = (IF mmuBranch THEN "sensor" ELSE "again")
  /\ mmuPin' = mmuGot
  /\ mmuFed' = (IF mmuBranch THEN mmuArg ELSE mmuFed)
  /\ mmuSettled' = (mmuBranch = mmuAuto)
  /\ UNCHANGED <<mmuSideband, mmuActs, mmuReset_, mmuArg, mmuBranch, mmuGot, mmuIrArg, irSensor,
                 mmuAuto, mmuManual, mmuLast, mmuOut, mmuTold, mmuTogether>>

\* RaiseIRQ(FEED_DISTANCE), which in the printer's process is OnMMUFeed, which is Auto_Input:
\* the test of m_bExternal.
MmuFeedSensor ==
  /\ mmuPc = "sensor"
  /\ IF ~mmuSideband /\ irExternal # (mmuArg = 3)
     THEN mmuPc' = "store" /\ irTogether' = IrPrinterSets /\ UNCHANGED irScript
     ELSE mmuPc' = "out" /\ irScript' = (irScript /\ mmuSideband) /\ UNCHANGED irTogether
  /\ UNCHANGED <<mmuSideband, mmuActs, mmuReset_, mmuFinda, mmuArg, mmuBranch, mmuGot, mmuIrArg,
                 irCurrent, irExternal, irRunning, irLast, irPin, irPc, irArg, irStale>>
\* Auto_Input stores the value,
MmuFeedStore ==
  /\ mmuPc = "store" /\ mmuPc' = "value"
  /\ irExternal' = (mmuArg = 3) /\ irScript' = FALSE
  /\ UNCHANGED <<mmuSideband, mmuActs, mmuReset_, mmuFinda, mmuArg, mmuBranch, mmuGot, mmuIrArg,
                 irCurrent, irRunning, irLast, irPin, irPc, irArg, irStale, irTogether>>
\* reads the one to raise,
MmuFeedValue ==
  /\ mmuPc = "value" /\ mmuPc' = "raise"
  /\ mmuIrArg' = IrValue(irCurrent, irExternal)
  /\ UNCHANGED <<mmuSideband, mmuActs, mmuReset_, mmuFinda, mmuArg, mmuBranch, mmuGot, irSensor>>
\* and raises the pin.
MmuFeedRaise ==
  /\ mmuPc = "raise" /\ mmuPc' = "out"
  /\ irPin' = IrLevel(mmuIrArg) /\ mmuIrArg' = 0 /\ irStale' = FALSE
  /\ UNCHANGED <<mmuSideband, mmuActs, mmuReset_, mmuFinda, mmuArg, mmuBranch, mmuGot,
                 irCurrent, irExternal, irRunning, irLast, irPc, irArg, irTogether, irScript>>

\* (A definition named Mut... is the one after it with a plausible mistake in it.)
MutMmuTell ==
  mmuTold' = (mmuBranch /\ mmuSideband /\ ~MmuAtSensor(mmuLast) /\ MmuAtSensor(mmuArg)) /\ mmuLast' = mmuArg
\* What is told over the sideband: the crossings of the trigger.
MmuTell ==
  IF mmuBranch /\ mmuSideband
  THEN /\ mmuTold' = (IF MmuAtSensor(mmuLast) # MmuAtSensor(mmuArg)
                      THEN MmuAtSensor(mmuArg) ELSE mmuTold)
       /\ mmuLast' = mmuArg
  ELSE UNCHANGED <<mmuTold, mmuLast>>
\* RaiseIRQ(FINDA_OUT), and the rest
MmuFeedOut ==
  /\ mmuPc = "out" /\ mmuPc' = "idle"
  /\ mmuOut' = mmuGot
  /\ MmuTell
  /\ mmuArg' = 0 /\ mmuBranch' = TRUE /\ mmuGot' = 0
  /\ UNCHANGED <<mmuSideband, mmuActs, mmuReset_, mmuIrArg, irSensor,
                 mmuAuto, mmuManual, mmuPin, mmuFed, mmuSettled, mmuTogether>>

\* The turn of the board's loop that makes the reset.
MmuResetTurn ==
  /\ mmuStarted /\ mmuPc = "idle" /\ mmuReset
  /\ mmuReset' = FALSE /\ mmuAsked' = FALSE
  /\ UNCHANGED <<mmuSideband, mmuActs, mmuStarted, mmuLine, mmuFinda, mmuThread, irSensor>>

-----------------------------------------------------------------------------
(* The printer's thread.                                                   *)

\* It is free to begin something.
MmuFree == irPc = "idle" /\ (mmuSideband => mmuPc = "idle")
\* The bound on the actions
MmuAct == mmuActs < MmuMaxActs /\ mmuActs' = mmuActs + 1

\* OnResetIn.  The first time the line is low it starts the unit.
MmuOnResetIn ==
  /\ MmuFree
  /\ mmuLine' \in {0, 1}
  /\ IF mmuLine' = 0 /\ ~mmuStarted
     THEN mmuStarted' = TRUE /\ UNCHANGED <<mmuReset, mmuAsked>>
     ELSE /\ mmuReset' = (mmuReset \/ (mmuLine = 1 /\ mmuLine' = 0))
          /\ mmuAsked' = (mmuAsked \/ (mmuStarted /\ mmuLine = 1 /\ mmuLine' = 0))
          /\ UNCHANGED mmuStarted
  /\ UNCHANGED <<mmuSideband, mmuActs, mmuFinda, mmuThread, irSensor>>

\* The key F and ActToggleFINDA, and ActSetFINDA when m_bFINDAManual is not the state that is
\* set: m_bAutoFINDA, then ToggleFINDA.
MmuActToggle ==
  /\ MmuFree /\ MmuAct /\ mmuAuto' = FALSE
  /\ irPc' = "toggle"
  /\ mmuSettled' = (mmuSettled /\ ~mmuAuto)
  /\ mmuTogether' = (mmuPc # "idle")
  /\ UNCHANGED <<mmuSideband, mmuReset_, mmuManual, mmuLast, mmuPin, mmuOut, mmuTold, mmuFed, mmuThread,
                 irCurrent, irExternal, irRunning, irLast, irPin, irArg, irStale, irTogether, irScript>>
\* ToggleFINDA: the state, then each of the signals.
MmuToggleFINDA ==
  /\ \/ /\ irPc = "toggle" /\ irPc' = "pin"
        /\ mmuManual' = ~mmuManual
        /\ UNCHANGED <<mmuPin, mmuOut, mmuSettled>>
     \/ /\ irPc = "pin" /\ irPc' = "out"
        /\ mmuPin' = MmuBit(mmuManual) /\ mmuSettled' = TRUE
        /\ UNCHANGED <<mmuManual, mmuOut>>
     \/ /\ irPc = "out" /\ irPc' = "idle"
        /\ mmuOut' = MmuBit(mmuManual)
        /\ UNCHANGED <<mmuManual, mmuPin, mmuSettled>>
  /\ UNCHANGED <<mmuSideband, mmuActs, mmuReset_, mmuAuto, mmuLast, mmuTold, mmuFed, mmuTogether,
                 mmuThread, irCurrent, irExternal, irRunning, irLast, irPin, irArg, irStale,
                 irTogether, irScript>>
\* ActSetFINDA of the state that is the manual one already, the key A and ActSetFINDAAuto: the
\* mode changes, and the pin stays as it is.
MmuActMode ==
  /\ MmuFree /\ MmuAct
  /\ mmuAuto' \in BOOLEAN
  /\ mmuSettled' = (mmuSettled /\ mmuAuto' = mmuAuto)
  /\ UNCHANGED <<mmuSideband, mmuReset_, mmuManual, mmuLast, mmuPin, mmuOut, mmuTold, mmuFed,
                 mmuTogether, mmuThread, irSensor>>

\* Set: the pin follows unless the ADC has been read.
IrSet(state) ==
  /\ MmuFree /\ MmuAct
  /\ irCurrent' = state
  /\ IF irRunning THEN irStale' = TRUE /\ irTogether' = (irTogether \/ IrUnitSets) /\ UNCHANGED irPc
                  ELSE irPc' = "value" /\ irTogether' = IrUnitSets /\ UNCHANGED irStale
  /\ UNCHANGED <<mmuSideband, mmuReset_, mmuFinda, mmuThread,
                 irExternal, irRunning, irLast, irPin, irArg, irScript>>
\* Toggle
IrToggled(state) ==
  CASE state = "v4_NO_FILAMENT" -> "v4_FILAMENT"
    [] state = "v3_NO_FILAMENT" -> "v3_FILAMENT"
    [] state = "v3_FILAMENT" -> "v3_NO_FILAMENT"
    [] OTHER -> "v4_NO_FILAMENT"
IrActSet == \E state \in IrScripted : IrSet(state)
IrActToggle == IrSet(IrToggled(irCurrent))

\* ActSetExtVal: Auto_Input in the printer's thread, the test
IrActSetExtVal ==
  /\ MmuFree /\ MmuAct
  /\ irPc' = "store" /\ irArg' = MmuBit(~irExternal)
  /\ irTogether' = IrUnitSets
  /\ UNCHANGED <<mmuSideband, mmuReset_, mmuFinda, mmuThread,
                 irCurrent, irExternal, irRunning, irLast, irPin, irStale, irScript>>
\* and the store
IrStore ==
  /\ irPc = "store" /\ irPc' = "value"
  /\ irExternal' = (irArg = 1) /\ irArg' = 0 /\ irScript' = TRUE
  /\ UNCHANGED <<mmuSideband, mmuActs, mmuReset_, mmuFinda, mmuThread,
                 irCurrent, irRunning, irLast, irPin, irStale, irTogether>>
\* Set and Auto_Input read the value
IrCurrentValue ==
  /\ irPc = "value" /\ irPc' = "raise"
  /\ irArg' = IrValue(irCurrent, irExternal)
  /\ UNCHANGED <<mmuSideband, mmuActs, mmuReset_, mmuFinda, mmuThread,
                 irCurrent, irExternal, irRunning, irLast, irPin, irStale, irTogether, irScript>>
\* and raise the pin.
IrRaise ==
  /\ irPc = "raise" /\ irPc' = "idle"
  /\ irPin' = IrLevel(irArg) /\ irArg' = 0 /\ irStale' = FALSE
  /\ UNCHANGED <<mmuSideband, mmuActs, mmuReset_, mmuFinda, mmuThread,
                 irCurrent, irExternal, irRunning, irLast, irTogether, irScript>>

\* _OnADCRead: a value that is the one of the last read ends it.
IrADCRead ==
  /\ MmuFree /\ irRunning' = TRUE
  /\ LET value == IrValue(irCurrent, irExternal)
     IN IF value = irLast THEN UNCHANGED <<irPc, irArg, irTogether>>
        ELSE irPc' = "read" /\ irArg' = value /\ irTogether' = IrUnitSets
  /\ UNCHANGED <<mmuSideband, mmuActs, mmuReset_, mmuFinda, mmuThread,
                 irCurrent, irExternal, irLast, irPin, irStale, irScript>>
\* It raises the pin, and stores the value, which no other thread reads.
IrADCRaise ==
  /\ irPc = "read" /\ irPc' = "idle"
  /\ irPin' = IrLevel(irArg) /\ irLast' = irArg /\ irArg' = 0 /\ irStale' = FALSE
  /\ UNCHANGED <<mmuSideband, mmuActs, mmuReset_, mmuFinda, mmuThread,
                 irCurrent, irExternal, irRunning, irTogether, irScript>>

MmuNext ==
  \/ MmuFeedIn \/ MmuFeedManual \/ MmuFeedPin \/ MmuFeedSensor \/ MmuFeedStore \/ MmuFeedValue
  \/ MmuFeedRaise \/ MmuFeedOut \/ MmuResetTurn
  \/ MmuOnResetIn \/ MmuActToggle \/ MmuToggleFINDA \/ MmuActMode
  \/ IrActSet \/ IrActToggle \/ IrActSetExtVal \/ IrStore \/ IrCurrentValue \/ IrRaise
  \/ IrADCRead \/ IrADCRaise

MmuSpec == MmuInit /\ [][MmuNext]_mmuVars

-----------------------------------------------------------------------------
\* The voltages, no value, and the one a script sets
IrValues == {IrVolts[state] : state \in IrStates \ {"AUTO"}} \cup {0, 1}

MmuTypeOK ==
  /\ mmuSideband \in BOOLEAN /\ mmuAuto \in BOOLEAN /\ mmuManual \in BOOLEAN
  /\ mmuLast \in MmuPositions /\ mmuPin \in 0..1 /\ mmuOut \in 0..1 /\ mmuTold \in BOOLEAN
  /\ mmuPc \in {"idle", "look", "pin", "again", "sensor", "store", "value", "raise", "out"}
  /\ mmuArg \in MmuPositions /\ mmuBranch \in BOOLEAN /\ mmuGot \in 0..1 /\ mmuIrArg \in IrValues
  /\ mmuStarted \in BOOLEAN /\ mmuReset \in BOOLEAN /\ mmuLine \in 0..1
  /\ mmuFed \in MmuPositions /\ mmuSettled \in BOOLEAN /\ mmuTogether \in BOOLEAN
  /\ mmuAsked \in BOOLEAN
  /\ irCurrent \in IrStates /\ irExternal \in BOOLEAN /\ irRunning \in BOOLEAN
  /\ irLast \in IrValues /\ irPin \in 0..1
  /\ irPc \in {"idle", "toggle", "pin", "out", "store", "value", "raise", "read"}
  /\ irArg \in IrValues
  /\ irStale \in BOOLEAN /\ irTogether \in BOOLEAN /\ irScript \in BOOLEAN /\ mmuActs \in Nat

\* Both sensors tell the printer where the filament is.  When neither thread is setting the
\* FINDA, and the last that began to was alone at it, the firmware's pin and the one that is
\* drawn agree, and if the pin has been set in the mode that applies it is the manual state or
\* the one of the position that was fed last.  (Without the proviso neither holds: the unit's
\* thread may read the manual state, the printer's toggle it and set both signals, and the
\* unit's put back the old one, MMU2.cpp:156,210.)  The far end of the sideband knows the
\* side of the trigger on which that position is, however often the mode changed in between.
\* In the printer's process the external value is that of the position, unless a script has
\* set it.  When neither thread is raising the filament sensor, and the last that began to
\* was alone at it, its pin shows the state of the sensor, unless the state was set after
\* the ADC was first read.  A reset that was asked for will be made.
MmuHonest ==
  /\ mmuPc = "idle" /\ ~MmuPrinterSets /\ ~mmuTogether =>
       /\ mmuOut = mmuPin
       /\ mmuSettled => mmuPin = IF mmuAuto THEN MmuFinda(mmuFed) ELSE MmuBit(mmuManual)
  /\ mmuSideband /\ mmuPc = "idle" => mmuTold = MmuAtSensor(mmuFed)
  /\ ~mmuSideband /\ ~irScript /\ mmuPc \notin {"sensor", "store"} => irExternal = (mmuFed = 3)
  /\ ~IrUnitSets /\ ~IrPrinterSets /\ ~irTogether /\ ~irStale =>
       irPin = IrLevel(IrValue(irCurrent, irExternal))
  /\ mmuAsked => mmuReset
=============================================================================
