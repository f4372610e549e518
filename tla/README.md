# TLA+ models of MK404

MK404 simulates the electronics of Prusa 3D printers around a simulated AVR
(simavr).  Its own logic is the peripherals on the board, the engine that runs
scripts and terminal commands, and the threads that tie the AVR to a window and
to programs on the host.  These modules model that logic, TLC checks small
instances, and TLAPS proves, for every value of the constants, every safety property
and every refinement that those instances satisfy.  Each definition is translated from the source; `PROJECT.json` gives
the lines of every definition, the runs, the hazards and the theorems.

## How to run

    tlc -workers 2 -config Terminal.cfg MCScriptHost.tla
    tlapm ScriptHost_proofs.tla

## The system

One process.  `MK404.cpp` builds a printer, which is a board plus its drawing,
and starts these threads:

| thread | what it runs | shared state |
|---|---|---|
| AVR thread, one for each board | `Board::RunAVR`: flags, script host, key slot, menu slot, one AVR step; every peripheral is a callback (IRQ or timer) of this thread | `m_bPaused`, `m_bQuit`, `m_bReset`, key and menu slots, `m_script` |
| window thread | GLUT: keys, menus, frames, terminal typing | key and menu slots, `m_script`, `m_scriptGL`, `GLHelper::m_iState` |
| stdin thread, when there is neither a script nor a terminal (`MK404.cpp:573-578`) | `ScriptHost::KeyCB` | `m_script` |
| one thread for each serial port | `uart_pty::Run` | ring buffers under `m_lock` |
| serial pipe, USB/IP | byte shuttling for the MMU | pseudo-terminals, sockets |
| main | start, join, exit code | all of the above |

### Inventory

For each component: its state, its operations, what is hard, what makes it
correct.  "Modelled" names the module.

- **Script host** (`parts/ScriptHost.cpp`).  State: the script, the current line,
  the cached parse, timeout and its count, hold and quit flags, the status of the
  last command.  Operations: one turn for each turn of the board; typing; menus;
  drawing.  Hard: three threads, a cached parse, six ways for a line to end.
  Correct if lines run in order, each as itself, each with its whole timeout,
  and the exit code is honest.  *Modelled: `ScriptHost`.*
- **Board** (`parts/Board.cpp`).  State: pause, reset, quit, wait counter, reset
  watch.  Operations: the turn, keys, script actions, load and save of flash.
  Hard: flags written by other threads, counters left by actions that timed out, a
  reset that drops every cycle timer under the parts that registered them (below).
  *Modelled with the script host: `Board`.  Start-up and files: plan 6.*
- **Snapshots** (`GLHelper.cpp`).  A four-state handshake between the AVR thread
  and two frames.  *Modelled: `GLHelper`.*
- **Key controller**.  One slot, taken in two steps.  *Modelled in `ScriptHost`.*
- **Serial port** (`uart_pty.cpp`).  State: two rings, a read buffer, XON, a flush
  timer, `m_chrLast`.  Hard: XOFF arrives inside the flush, resets, blocking
  writes under the lock, closing under the thread.  Correct if bytes arrive once
  and in order, and are lost only to a full port, the newline trap, a reset or the close.  *Modelled: `UartPty`.*
- **Serial flash** (`w25x20cl.cpp`).  State: SPI state, address, latch, memory,
  page buffer, file.  Hard: script actions inside a transaction, the off-by-one
  of Load and Save, a save cut short.  *Modelled: `SpiFlash`.*
- **SD card** (`SDCard.cpp`).  SPI command and data states; mount, remount,
  unmount, lock and map of the image.  Hard: mount over mount, unmount inside a
  transfer, errors half-way.  Correct if the firmware sees a block device whose
  contents are the image.  *Modelled: `SdCard`.*
- **Waiting clients** (`SerialLineMonitor`, `GCodeSniffer`, `TelemetryHost`).
  State: the pattern or signal of the wait.  Hard: what a timed-out wait leaves
  for the next.  Correct if a line is answered for itself.  *Modelled under the
  same names; the trace file is not.*
- **HD44780 display**.  Nibble, cursor, memory, lines for scripts, busy flag and
  timer, line-change mask.  Hard: halves lost while busy, for good if a reset drops the
  timer; two copies of the text.
  Correct if the lines equal the memory and a wait for text ends when the text is
  there.  *Modelled: `Hd44780`; its drawing is not.*
- **I2C bus and PAT9125**.  Bit-banged start, stop, address, register, data; a
  motion flag that reading clears.  Correct if it implements register reads and
  writes and tells every movement.  *Modelled: `I2cSensor`.*
- **TMC2130, A4982**.  A pipelined register protocol; stall, standstill and sleep
  with timers; steps and end stops.  Correct if an answer is for the command
  before, and flags, pins and timers agree.  *Modelled: `Tmc2130`, `A4982`.*
- **Encoder and buttons**.  Timers that release against presses, and the window's
  thread turning the knob while the AVR's timer does.  *Modelled: `Inputs`.*
- **EEPROM and program flash**.  Files read at the start and rewritten at the end.
  Correct if what was saved comes back.  *Modelled: `Storage`.*
- **MMU2, IR sensor**.  A second board in a second thread; FINDA and filament
  sensor in automatic or manual mode, told across threads or a sideband, where each
  signal is read, stored and raised in steps of its own.
  *Modelled: `Mmu2`.*
- **Serial pipe**.  A thread that carries bytes between two ports.  *Modelled:
  `SerialPipe`.*
- **Heaters and fans**.  Ticks that stop and start, hard and soft PWM, a script in
  place of the firmware.  *Modelled: `Thermal`; the dynamics are reduced.*
- **MCP23S17, HC595, MMU1**.  An expander, a shift register, a multiplexer.
  Correct if what hangs on them sees the levels they hold.  *Modelled: `Signals`.*
- **PINDA**.  A probe that follows three axes over a bed, with and without the steel
  sheet; it looks at some moves only.  Correct if the pin tells what triggers
  where the probe is, once it looked.  *Modelled: `Pinda`, over a few places.*
- **Thermistors, voltage sources, 74HCT4052**.  Two caches between a sensor and the
  converter that reads it through the multiplexer.  Correct if the firmware reads
  the sensor it selected, as it is.  *Modelled: `Analog`.*
- **Beeper**.  Tones from the edges of a pin, a timer that ends them, muting, and the
  thread that plays.  Correct if a tone ends.  *Modelled: `Beeper`.*
- **Print drawing and export**.  The vectors of the print, which the AVR thread
  appends to and the GL thread draws, clears and writes to a file; request, result
  and file name of the export; the slot in which actions of mouse and camera wait.
  Hard: a Clear in the middle of a step, a result that belongs to another line.  *Modelled: `PrintModel`; geometry, objects, camera
  and the ARC view are not.*
- **LEDs**.  Drawing only.  *Not modelled.*
- **USB/IP, UART logger, IPC printer, FAT image**.  Pure I/O, or the other side is
  not in the repository.  *Not modelled.*
- **Printers, boards, wiring, pins**.  Connections and constants.  *Only their
  hooks are modelled that reset or save a modelled part, take the mouse
  (`Inputs`) or pass on the position of the MMU (`Mmu2`).*
- **Drawing** (`utility/`, `HD44780GL`, `GLMotor`, `GLIndicator`), **vendored code**
  (`3rdParty`).  *Not modelled: geometry in floating point and OpenGL.*

## Modules

| module | models | kind |
|---|---|---|
| `Board` | the control record of a board and its operations | operators |
| `GLHelper` | the snapshot handshake | operators |
| `ScriptHost` | script host, terminal, key and menu slots, run loop, frames | state machine |
| `MCScriptHost` | lines for TLC | instance |
| `PtyChannel` | what a serial port promises | abstract specification |
| `UartPty` | the port, its thread, the AVR's callbacks, the PTY | state machine |
| `MCUartPty` | | instance |
| `NorFlash` | what the flash promises | abstract specification |
| `SpiFlash` | the chip, its script actions, its file, starts and kills | state machine |
| `MCSpiFlash` | | instance |
| `BlockDevice` | what a memory card promises | abstract specification |
| `SdCard` | the card, its commands and data, its image and the kernel's locks | state machine |
| `MCSdCard` | one image of each kind | instance |
| `Hd44780` | display, firmware that sends halves, the wait for a text | state machine |
| `SerialLineMonitor`, `TelemetryHost` | the script clients that wait, under a script host reduced to polling | state machines |
| `GCodeSniffer` | the watcher of tool changes | state machine |
| `Tmc2130`, `A4982` | the stepper drivers | state machines |
| `I2cSensor` | I2C bus, firmware's transactions, PAT9125 | state machine |
| `Inputs` | knob, push buttons, ADC buttons, mouse | state machines |
| `Mmu2` | MMU, IR sensor, ADC, two threads, sideband | state machine |
| `Storage` | flash and EEPROM files over starts, ends and kills | state machine |
| `Thermal` | heaters; fans with soft PWM and enable line | state machines |
| `Beeper` | pin, timer, mute, audio thread | state machine |
| `SerialPipe` | the thread between two ports | state machine |
| `Signals` | MCP23S17, HC595, MMU1 | state machines |
| `Analog` | thermistors behind a multiplexer, voltage source | state machines |
| `Pinda` | the probe, bed and sheet | state machine |
| `PrintModel` | the vectors of the print in two threads; the export and its handshake | state machines |
| `MCParts` | chooses one of the twenty-three state machines from `Hd44780` on | instance |
| `ScriptHost_proofs`, `UartPty_proofs`, `SpiFlash_proofs`, `SdCard_proofs` | theorems about the module of that name | proofs |
| `Motion_proofs` | `Tmc2130`, `A4982`, `I2cSensor`, `Inputs`, `Mmu2`, `Pinda` | proofs |
| `Power_proofs` | `Thermal`, `Beeper`, `Storage`, `SerialPipe`, `Signals`, `Analog` | proofs |
| `TextView_proofs` | `Hd44780`, `SerialLineMonitor`, `TelemetryHost`, `GCodeSniffer`, `PrintModel` | proofs |
| `Parts_proofs` | that the parts of `MCParts` behave as each does alone | proofs |

**`ScriptHost`.**  `pc` is the place of the AVR thread in `RunAVR` (loop test, menu
slot, key slot, lock, read of the script, execution, board turn), `tpc` the place
of the thread that runs `KeyCB`, `gpc` the frame that draws.  A step ends where
another thread can see or change something: an atomic is read, a lock is taken, a
shared string is touched.  `mode` is the way the program was started: a script
alone, with the window's terminal, the terminal alone, or neither, when stdin is read.  A line is
`[act, arg]`; `Garbage` and `Unknown` do not parse, `Fail` is an action whose
client answers with an error.  `log` is a history variable: one record for each
line resolved, with how it ended, how often it waited and under which timeout.

**`UartPty`.**  `apc`, `ppc` and `mpc` are the places of the AVR thread (callbacks),
the port's thread and the destructor; `lock` is `m_lock`.  The UART of simavr and
the kernel's PTY are external: a FIFO that raises XOFF when full and XON when
read, and two bounded queues.  A failed read makes the buffer length huge; the
bytes it then contains are the model value `Stale`.  The optional tap port is
left out.  A byte of the firmware whose callback has not returned is the channel's
`pending`: that the locked send drops it is a step of `PtyChannel`, which allows it only
when `Capacity` bytes are on their way to the host.  Its `HangUp` is the close of the
port (`uart_pty.cpp:349`), which happens once and loses what was typed, and of the bytes
for the host at most the `PortRoom` last ones.

**`SpiFlash`.**  One action for each byte that the SPI bus delivers and for each
rising or falling chip select; script actions between any two of them, since the
script host runs in every turn.  A byte is the set of its bits that are 1, so
programming is intersection.  `file` has the length, the contents and the one
byte beyond the chip; `Kill` may cut a Save short.  `sent`, `rewritten`, `kept`,
`fresh` are history variables for the properties.

**`SdCard`.**  One action for each byte on the bus and each change of the chip select,
and the steps of `Mount` up to the point where it returns.  `op` is `m_currOp`: it
points into a mapping, which has an identity, so that a pointer that outlives its
mapping is visible.  `fds`, `locks` and `live` are the kernel's: descriptors are the
lowest free number, a lock belongs to a descriptor, and a mapping outlives it.
An image has a length in units of a card's size, may be read-only, odd, empty,
missing or unreadable.  `clean` is TRUE until a card is mounted over another,
or an empty file is mounted: the two cases in which the code keeps fewer promises.

**The small parts.**  Each module has variables with a prefix of its own, its
Init and its Next, so that `MCParts` can put them beside each other: a state is a
choice of one part and the states of all, and only the chosen one moves.  They
are one run because they share nothing that the boards do not wire, and none
needs an instance of its own.  What they have in common:
- Callbacks of the AVR thread are single actions, whatever they call; an action
  ends where another callback, timer, script action or thread can come in.
- A callback of simavr sees the *old* level of its own pin (the level is stored
  after the callbacks), so tests of edges and of other pins are written that way.
- A reset of the AVR (`...AvrReset`, `LcdStartReset`) may come at any time and drops the
  timers of the part, as `avr_reset` does (`Board.cpp:542-547`), while its flags stay.
  The hook of the board (`EinsyRambo.cpp:250-289`) is an action of its own, since it is
  called in a later turn, or never if the register of causes shows no change.
- Where the code loses something and no text promises otherwise, a history
  variable records the circumstances (`owed`, `inpRaced`, `irStale`, `a4Hasty`,
  `stCut`, `heatLost`, `fanWrapped`, `pipeLost`, `patLost`, and `...Dropped` or
  `tmcStuck` for a timer that a reset took) and the property is stated
  for all other cases: it says exactly when the promise is not kept.

**`Hd44780`.**  The firmware sends bytes in halves and remembers the last one;
`lcdHalf` is what the display has of the current byte.  Scripts may Desync, which
is how the repository tests the recovery.  A reset of the AVR while it is busy leaves
BUSY set with no timer (`lcdDropped`), and every half from then on is dropped.

**`I2cSensor`.**  A transaction is a program of line changes (`I2cCode`) that the
firmware runs; the sensor sees only SCL and SDA.  With the TWI hardware the same
transactions are messages.  After an address that nobody acknowledges the firmware goes
to its stop.  `i2cShadow` is the register file a bus without bits would have; what the
sensor answered is compared with the register of it that the transaction asked for.
`patUntold` remembers a movement until it is reported, also where the code forgets it
(`patLost`).

**`Inputs`, `Mmu2`.**  The two with threads.  A read-modify-write of a count and a
test-and-set of a mode are two or three steps, in the thread that runs them.  In `Mmu2`
the unit's `OnPulleyFeedIn`, the printer's `ToggleFINDA`, and the sensor's `Set`,
`Auto_Input` and `_OnADCRead` take a step for each test, read, store and signal; what
the printer's process sees (`FINDA_OUT`) is apart from the unit's pin (`FINDA_PIN`).
`mmuTogether` and `irTogether` say that one thread began while the other was at it.

**`Tmc2130`.**  A transaction has five bytes, but a reset may cut one short; then the chip
selects are raised (`TmcRaiseCS`) and the end of one command and the beginning of another
are taken for a third (`TmcMixes`).

**`GCodeSniffer`.**  `stoi` takes blanks, a sign and digits, leaves the rest of the word
aside, and throws if there is no digit or the number is too long for an int, here of
`SnifIntDigits` digits.

**`Storage`.**  `StKill` is `exit(2)` in `OnSigINT`, between opening and writing a
file.

**`PrintModel`.**  A step of the extruder is cut where `OnEStep` takes the lock of the
print, for there `Clear` of the GL thread can come in.  Where the head is does not
matter: a step may extrude or not, turn or not, so only the lengths of the vectors
and the starts and counts into them are left.  `printTorn` is TRUE after a Clear that
fell into a step.  In the export, `plyStory` keeps what was written for which line,
until an export happens that no line waits for (`stray`), and whether it was the queue
(`plyQueued`) that finished it.

**`Beeper`, `Analog`, `Pinda`.**  Times, voltages, temperatures and heights are a few
numbers, chosen at the thresholds of the code: pulses just as long as the timer
and longer than a second, a temperature below zero, heights around those above which
the probe does not look; a supply below, between and above the two logic levels.
Each thermistor has a table of its own; `AnaHonest` compares what the converter has just
read with a hotter and a colder sensor of the same table.

## Runs

All runs allow deadlock: a program that ended, a script without a next line, or a
bound that is used up has no next step.

| run | instance | shows |
|---|---|---|
| `Terminal` | up to 2 lines, 1 key or menu choice, waits and timeouts up to 2 turns, all modes but stdin | types, the right line is executed, the status shown is the last line's, the lock excludes, every line is resolved |
| `Script` | up to 3 lines from ten kinds | order, whole timeouts, honest exit code |
| `UartPty` | FIFO 1, buffers 2, UART 1, PTY 2; 3 bytes each way, 1 reset | types, nothing refused, flush armed, refinement of `PtyChannel` with the losses it allows |
| `UartLive` | FIFO 2, buffers 2, UART 1, PTY 1; 2 bytes each way, 1 reset | input arrives, callbacks return, the destructor ends |
| `SpiFlash` | 32 one-bit bytes in 2/4/8/16, two raw addresses, 4 transactions, 1 script action, 2 starts | types, round trip of the file, refinement of `NorFlash` |
| `SdCard` | images of 4, 3, 2 and 0 blocks, one each read-only, missing, unreadable; units, blocks, CSD and commands of 2; two addresses, one out of range; 3 mounts | types, pointers of an operation are mapped, no wait for its own lock, honest registers, all five records of a mounted card agree, refinement of `BlockDevice` |
| `Parts` | each part with a few values of each input and bounds of 1 to 9 events, below | one property for each part or group of parts |
| `Cleanup` | as `SdCard`, 2 mounts | the code does not do what its comment says, below |
| `WaitMs`, `Snapshot`, `Hold`, `Stdin` | scripts of 1 to 3 lines | the code does not do what its text says, below |

Why the bounds are enough.  In `ScriptHost`, what one line leaves to another is the
cached parse, the counters of host and board, the state of the snapshot and the
flags; two lines show every pair, three show a line between the one that leaves
and the one that finds.  One key or menu choice reaches each handler, at each
place of the loop.  Waits of two turns have a first, a middle and a last turn.  In
`UartPty` every queue can be empty, full, and fuller than the next one, with a
newline in each position; three bytes are one more than the FIFO and the read in
progress hold.  In `SpiFlash` each unit is twice the one below, so every erase has
a boundary inside the chip; one raw address is in the first unit of each size,
the other is beyond the chip and wraps to one that is in none of them; enabling,
programming, enabling and erasing take four transactions; two starts bring back a
file, also one that was cut short.  `CutLengths` has the empty file and the one
length that passes the first test of Load and fails the second.

In `SdCard`, three mounts give one that follows a failed one that follows a good
one; blocks of two bytes have a first and a last byte, as have commands and the
CSD; address 1 is a block of some images and beyond others.  In `Parts` the bounds
are on what the environment does (bytes of the firmware, scripts, requests,
movements): two requests or transactions are the least in which one can leave
something to the next, and three of the waiting clients' show the line between;
the display has four lines, of which two continue others in its memory; the A4982
has two and a half full steps so that every step size can miss an end; the
TMC2130's axis has its two ends, one script action or reset, and two commands, of which
a reset can mix the bytes; an int of two digits has room for a number and none for one
of three; the MMU's two script actions are a mode and the one that follows it; the
knob's count has three bits, so that it wraps; the expander's addresses are the
ends of both banks and those past them; a pipe's queue of one byte is full at
once; four vertices are two extrusions or one with two turns; two clears hit it
before and after a torn one; the beeper's pulses are a short one, one of a
thousandth of a second, one as long as the timer and one above a second.  The voltages
are 120, 240, 1200 and 2400 mV, on both sides of and between the logic levels.  Timers
are not bounded: they may end at any time while they run.  Resets of the AVR are bounded
where they count as a script action or a byte (`Tmc2130`, `Hd44780`), and free elsewhere.

Each property of a passing run has a mutant, a definition `Mut...` with a plausible
mistake, under which the run fails.

### Where code and text disagree

- `WaitMs`: a WaitMs that timed out leaves its count, and the next WaitMs waits for
  that rest (`Board.cpp:392`), not for "the specified number of milliseconds".
- `Snapshot`: a Snapshot that timed out is finished later by the window, and the
  next Snapshot collects it and takes no picture (`GLHelper.cpp:244`).
- `Hold`: a line that holds execution "until finished" and times out leaves the
  board paused (`ScriptHost.cpp:776`).
- `Cleanup`: the lambda that cleans up after an error of `Mount` captured the
  descriptor while it was 0 (`SDCard.cpp:559`): it closes standard input, and the image
  stays open and locked, so that mounting it again waits for ever.
- `Stdin`: without the terminal the AVR thread reads the script unlocked
  (`ScriptHost.cpp:680`) while the stdin thread appends to it.

**What a reset of the AVR leaves.**  `avr_reset` (`Board.cpp:542-547`) removes every cycle
timer of simavr, and only the hook of the board starts any of them again.  No text promises
more, so these are no findings; the properties named say that it happens then and in no
other case:
- The knob is dead after a reset in a turn: `m_bTimerRunning` stays set, so no turn
  registers the timer (`RotaryEncoder.cpp:134`).  `InpSettles`.
- A button that was pressed and not held stays pressed, until it is pressed or pushed
  again.  `BtnSettles`.  (The hook presses the knob and the power-panic button.)
- The display is dead after a reset while it is busy: BUSY is cleared by the timer only
  (`HD44780.cpp:83`) or by reading, for which no board connects the pin, and every half
  byte is dropped while it is set (`HD44780.cpp:337`).  `LcdInSync`.
- A bed heater, or the heaters of a board other than the Einsy, loses its tick and
  stays as hot as it is until its power next changes to one above zero; the hook calls
  `hExtruder.Reset()` alone (`EinsyRambo.cpp:288`).  `HeatTicks`.
- A fan turns on without pulses of the tach until its next power.  `FanHonest`.
- A tone plays until the next one; a pause of more than a second then divides by zero
  (`Beeper.cpp`).  `BeepHonest`.
- A TMC2130 that moved goes on to report a movement and the last stall until it is moved
  or disabled (`TMC2130.cpp:163`).  `TmcStandstill`.
- An A4982 in the millisecond of its wakeup sleeps on, with SLEEP_IN clear
  (`A4982.cpp:130`).  `A4SleepHonest`.
- A serial port whose flush timer was dropped waits for the firmware to enable its receiver,
  which raises XON and registers the timer.  `FlushArmed`.

Smaller ones, seen while translating, without a run: `Internal_tests.cpp:121` says
that Desync "also indicates all lines have changed", which it does not;
`PAT9125.cpp:121` says that toggling "will toggle from current", but from automatic
mode it ends with the filament present in either case; `I2CPeripheral.h:84` says
that reads of several bytes are taken care of, which the bit-banged bus does not
do; `Fan.cpp:106` means to follow the enable line and reads the line's old level;
`Heater.cpp:133` says that Resume resumes automatic control, which keeps a manual
power; `EEPROM.cpp:82` takes a file of zeros for a new one; `MMU2.cpp:197` calls the
filament sensed at 400 mm, `Prusa_MK3SMMU2.cpp:87` beyond it; muting a tone that plays
(`Beeper.cpp:131`) does not stop it; `MK3SGL.cpp:331` says that the pointer to the file
name should be thread safe as the script persists, but it points into the
arguments of a line, and is set again by the call that collects the result, so that
an export without a name then writes through it; an export whose end falls between
the looks at the result and at the request (`MK3SGL.cpp:340`) is asked for again.

And these are what the code does where a reader may expect something else; the properties
named state them as they are:
- The digital pin of an analogue source between 0.8 and 2.2 V does not float: the flags are
  raised as its value (`ADCPeripheral.h:69`), and as IRQ_FLAG_FLOATING is in the value and not
  in the flags, the pin is driven high.  `AnaHonest`, and the level of the filament sensor in
  `MmuHonest`.
- A movement of the filament that was not read yet is forgotten when the extruder moves
  without filament in the sensor (`PAT9125.cpp:205-210`).  `PatMotionTold`.
- The unit's thread may read the manual state of the FINDA, the printer's toggle it and set
  both signals, and the unit's set an old one again (`MMU2.cpp:156,210`).  The filament
  sensor has the same race.  `MmuHonest` is stated for when neither began while the other
  was at it.
- An export finds that an action of the mouse or the camera is done, which an earlier line
  gave up waiting for or the menu queued, and finishes with no file (`MK3SGL.cpp:299`).
  `PlyHonest`.
- `Draw` asks for the size of the script and then for the line (`ScriptHost.cpp:393-395`),
  while the AVR thread may move m_iLine past the last; `at()` then throws in the window's
  thread, and the program ends.  `EveryLineResolved` excepts that.

## Fairness

- `ScriptHost`: weak fairness of the AVR thread, of the terminal thread and of a
  frame that has begun.  The operating system runs every thread and no step of
  them waits but for the lock, which is held for a bounded time.  Nothing is
  assumed of the user, and none of the window drawing frames.
- `UartPty`: strong fairness of the AVR's callbacks and of the port's thread,
  because both take `m_lock`, and the port's thread sleeps in `select()` without it
  in every round; weak fairness of main.  The firmware enables its receiver and
  reads its UART (strong, since a reset may come between), and someone on the host
  reads the PTY.  Without that last assumption `CallbacksReturn` is false: `write()`
  blocks with the lock held.  That is a property of the code, not of the model.

- The other modules state no liveness: their timers are events of simavr that come
  if the AVR runs, and what matters is stated as safety: a timer is registered while
  something waits for it, unless a reset of the AVR dropped it (`TmcStandstill`,
  `InpSettles`, `HeatTicks`).

## Proofs

`tlapm` checks every leaf; the provers are Z3, Zenon and LS4.  Every invariant, action
property and refinement of a passing run is a theorem; what the runs check and no theorem
states is liveness.

**Assumptions.**  The constants of a module are assumed to be what the code lets them be,
and TLC evaluates each assumption in the run of that module.  Most say that sizes are
positive, that inputs have their types and that bounds are numbers.  Those that say more:

| assumption | why the code justifies it |
|---|---|
| `SpiFlashAssumption`: page, sector and blocks divide the chip | they are its constants |
| `StaleAssumption` (`UartPty`): the stale byte is none that was sent | it stands for whatever the buffer held |
| `SdCardAssumption`: a command has at least 2 bytes | it has 6: one to recognise it, the rest to collect |
| `A4982Assumption`: the rail has at least two full steps | the shortest has 20 mm; on a shorter one a step away from one end could reach the other |
| `InputsAssumption`: the count's modulus is a multiple of 4 above 4 | the count has 8 bits, so its modulus is 256; a click adds 4, and the phase survives the wrap |
| `BeeperAssumption`: a pulse within the timeout has a frequency above zero | the timeout is 100 ms, the clock 16 MHz |
| `Hd44780Assumption`: the firmware does not send a Function set of eight wires inside the four-wire protocol | it has four wires; the power-on sequence, which does, is an action of its own |
| `AnalogAssumption`: tables fall strictly in a converter of 10 bits, temperatures fit the type | that is what the tables of the firmware are |
| `I2cSensorAssumption`: the other address is another one, written registers are ones the model keeps | two devices with an address would both answer |
| `StorageAssumption`: a memory has more than one byte, which can be 0 or 255 | memories have thousands; a file of one byte less is the only length the program refuses |
| `SerialLineMonitorAssumption`: no text is "no text" | scripts give non-empty texts |

**`ScriptHost_proofs`.**
- `TypeCorrect`.  `TypeOK` is not inductive alone: that the script the AVR thread
  indexes still has the size it saw needs the places of the threads, so `TypeInv`
  adds what each place knows.
- `Exclusion`.  `LockInv`: the lock names the thread whose place is inside its
  critical section.
- `InOrder`.  `LogInv` relates the last entry of the log to `iLine` at every place,
  and the state an ending line leaves to what can still follow it.
- `RightLine`.  The same invariant: while a parse is reused, it is the parse of the
  current line, and typed lines are only appended.
- `Timeouts`.  `WaitInv`: the count of the host is the number of waits of the
  current line, whatever SetTimeoutMs did.
- `Status`.  `StatusInv`: from when no typed line is on its way and all are resolved,
  the status is that of the last entry of the log.  The window's own writes fall where
  a line is on its way, which the premise excludes.
- `ExitCode`.  `ExitInv`: while nothing was typed the AVR thread knows the size of the
  script, the log has an entry for each line passed, and a line that ends the script
  moves to its end, where no line is executed.

All but `Exclusion` assume that the stdin mode is not among `Modes`: with it, the
unlocked read makes even the type invariant depend on how the race ends.

**`UartPty_proofs`.**
- `TypeCorrect`, with `StaleInv`: a stale byte is in a queue only after the
  descriptor is closed.
- `Flow`.  `XonInv`: XON is believed only while the receiver is on and has room,
  because XOFF is raised inside the call that fills it.
- `Armed`.  The same invariant says who will flush, at each place.
- `Refinement`.  The bytes on their way to the host are `ttyOut \o batch \o in`, to
  the firmware `rxq \o out \o buffer \o ttyIn`.  `ChanInv` says that the buffer is empty
  whenever a read may begin, so no byte is overwritten; lemmas on sequences
  (`Shift`, `Cut`, `PrefixOfConcat`, `Move`) show that moving bytes between two
  neighbours changes nothing.  Each action then maps to one action of the channel
  or to none; the byte that a full port drops is the channel's `Taken`, with the number of
  bytes on their way that this takes.

**`SpiFlash_proofs`.**
- `TypeCorrect`.  No address leaves the chip.  The arithmetic of pages (`InPage`,
  `SameOffset`, `BaseIn`) is proved from division with remainder for every geometry.
- `Persistence`.  `FileInv`: the file is longer than the chip exactly if the last
  Save was complete, and then holds what it saved; `Filled` is idempotent.
- `Refinement`.  `PageInv`: while a page is programmed, each byte of the page buffer
  is the byte sent for its address, or what the flash still holds there, unless a
  script rewrote the flash meanwhile.  `NorFlash` allows that case explicitly: such a
  transaction still only clears bits of its own page.

**`SdCard_proofs`.**  One inductive invariant `IInv`: `OpInv` says what `m_currOp` points at
in each protocol state, `KernelInv` that descriptors do not run out and mappings have the
rights of their image, `CleanInv` that while the history is clean at most one image is open,
locked and mapped, and every record of the card says so.
- `TypeCorrect`, `TransfersMapped` and `CsdHonest` hold in every behaviour, clean or not.
- `MountNeverWaits` and `CardAgrees` are about clean ones, as the properties are.
- `Refinement`.  The task of the abstract device is read off the protocol state (`TaskIs`);
  a step that leaves task, mappings and contents alone stutters (`DeviceQuiet`), the steps
  that transfer a byte map to the device's, and Mount and Unmount to attaching and
  detaching.

**`Motion_proofs`.**
- `TmcHonest`.  `TmcShifted`: within a transaction, what came back and what is still to go
  out are together the answer that was due, however many bytes have passed.  After a
  reset nothing is known of what came in until the chip selects are raised; what then is
  taken for a command makes the next answer.
- `A4Honest`.  `A4Inv`: the far switch is on only within the last full step, which no
  change of the step size leaves.
- `KnobSettles`.  `InpKnobInv`: as long as the window and the timer have not used the count
  at once, at most one is between its steps, and the pulses left end at the phase the knob
  was last turned to, also between them.  `InpKeyInv` for the buttons; `BtnInv` for
  `ButtonsSettle`.
- `FilamentHonest`.  The invariant says for each place of the two threads what value a thread
  carries to the pin it will set next, as long as neither began while the other was at it;
  the FINDA and the filament sensor have a part each.
- `ProbeHonest`: the property is inductive with its types.
- `FilamentIsTold`.  `I2cInv` says for each place of the firmware in its transaction what
  levels, bit count, shift register, register and state of the bus are (`I2cWriteAt`, `I2cReadAt`,
  `I2cOtherAt`; `I2cMessageAt` for the TWI), and that the registers equal the shadow up to
  the last bit of a write.  Most of the module is here: a transaction is a concatenation of
  programs of 91 or 120 steps, and what each step is must be shown from that.

**`Power_proofs`.**
- `HeatersTick`, `FansTold`.  `FanInv`: only a soft PWM has a timeout, so nothing but the
  enable line gives power to a fan that has one.
- `TonesEnd`.  `BeepInv`: a pulse whose length is known was timed, and one that is heard
  lies within the timeout, so that its divisor is not zero.
- `SavesKept`.  `StKeptOf`: a save that nothing cut short is in the file, and in the memory
  from when the program has loaded it.
- `PipeDelivers`.  `PipeKept`: the bytes carried from one side, over queues, the byte in
  hand and what has arrived, are in order, and none of them is lost as well.
- `SignalsFollow`: expander, shift register, multiplexer.
- `TableFalls` is about the operator `TableValue` and no behaviour: linear interpolation, cut
  to integers, then oversampled, never reads higher when it is hotter, for each table.
  `ConverterReadsNow` needs it, with `AnaCached`: a cache and its pin agree, so an answer
  that is not raised was raised before.

**`TextView_proofs`.**
- `ScriptReadsTheScreen`, `WaitFindsItsText`.  `LcdMarked`: a line without a mark was seen
  by a wait that is over, or by this one, which did not find its text.
- `PowerOnBringsInStep`.  `LcdPowerOn` is how far the sequence has brought a display that may
  have begun in either mode and between two halves, and is not busy for good; `LcdInStep` what being in step means
  inside a byte.
- `MonitorAnswersItsLine`, `TelemetryAnswersItsLine`.  `MonClient`, `TelHolder`: a wait that
  is on belongs to the line that is polled, or to one that was given up.
- `SnifferIsFaithful`.  `SnifInv`: the two flags and the kept line are a function of the
  bytes since the last newline; what `stoi` makes of a text is not looked into.
- `PrintIsWhole`.  `PrintCore`: segments join without a gap and all but the last are
  counted, at every place of the AVR thread at which a Clear may come; it is kept unless the
  Clear falls into a step.
- `ExportIsOfItsLine`.  `PlyCore`: a line that waits has one file to write, and it is
  written once; the queue holds something under an export only if it was left there.

**`Parts_proofs`.**  `PartsAreParts`: a behaviour of the composition is, for each of the 23
parts, one of its own specification, since a step of another part leaves it alone.  So each
theorem above carries over; `...Together` states them as the run does, `PartsWellFormed` the
types.

**What the proofs found.**  The lemma that a transaction on the I2C bus reaches its stop was
false: in the model, a refused transaction went back to the beginning of its stop for ever.
No bound of the run showed it, as nothing was wrong in the states it did reach.  The
model was corrected (`I2cGo`).  The assumptions of the table above that look odd (a rail
of two full steps, a modulus above 4, a pulse of a non-zero frequency) are those that
a step of a proof could not do without.

**Only model-checked.**  Liveness (`EveryLineResolved`, `InputArrives`,
`CallbacksReturn`, `Joins`): the provers have no rule for fairness with `ENABLED`.  The
disagreements above are counterexamples and have no proof.

## Left out of the modelled parts

Wording, logging, drawing and the text of lines; validation of a script before it
starts; autocompletion; the tap port and `ConnectPTYOnly`; the byte the flash
answers; overflow of the timeout product (`ScriptHost.cpp:245`); failure to open the
flash's file for writing; CRC bytes of the card and images over 32 GB, which end the
program; SPI transactions of the TMC2130 of other than five bytes but for those that a
reset cuts short; glyphs and reading of the display, and a reset of the AVR while E is high
after which RS changes before E falls; ResetView, which falls through to the action of the
mouse and reads arguments that may not be there (`MK3SGL.cpp:356-359`); the trace file of the telemetry; damage to simavr's list of
timers when the window's thread registers one (`Inputs`).

## Not modelled

The geometry of prints, LEDs, OpenGL and models only make output; USB/IP is an adapted server that needs root and a kernel
module, the IPC printer follows a program that is not in the repository; wiring
and pins are constants; the FAT image tool writes a constant boot sector.  A third
of the lines that count as implementation is vendored (`3rdParty`: a test framework,
gsl, headers of the firmware) and much of the rest is geometry, fonts and pin
tables, so the share of lines that the map covers stays small however much
of the program's logic is modelled.

## Plan

Done: the models of all parts listed as modelled; proofs of all safety properties and
refinements that the runs check.  Left:

1. Tidying the long proofs of `Motion_proofs` and `TextView_proofs`: facts used in several
   places as lemmas.
2. The order of the shutdown in `MK404.cpp`, and the draw race on `m_scriptGL`.
