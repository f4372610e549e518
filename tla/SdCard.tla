------------------------------- MODULE SdCard -------------------------------
(***************************************************************************)
(* The SD card (parts/components/SDCard.cpp): the SPI commands of the      *)
(* firmware, byte by byte, on an image file that the user mounts and       *)
(* unmounts by a key or by script between any two bytes.  All of it runs   *)
(* in the AVR thread.  The kernel is external: descriptors (the lowest     *)
(* free number is taken), locks of files, which belong to a descriptor,    *)
(* and mappings, which outlive it.                                         *)
(*                                                                         *)
(* CRC bytes, the bytes of the registers, and descriptors that belong to   *)
(* other parts of the program are left out.                                *)
(***************************************************************************)
EXTENDS Naturals

CONSTANTS
  Images, FirstImage,     \* file names; the one the card begins with
  Missing, Unreadable, ReadOnly,   \* no file; no access to read it; none to write it
  Length,                 \* blocks of each file; 0: an empty file
  Unit,                   \* blocks of 512 KB, the unit of the size register
  BlockSize, CsdSize,     \* bytes of a block, of the CSD register
  CmdSize,                \* bytes of a command
  Bytes, Blank,           \* what a byte may be; what all bytes are in the beginning
  Addresses,              \* the block numbers the firmware sends
  MaxMounts               \* bound: calls of Mount

Blocks(i) == 0..Length[i] - 1
Block == [0..BlockSize - 1 -> Bytes]

ASSUME SdCardAssumption ==
  /\ FirstImage \in Images /\ {Missing, Unreadable, ReadOnly} \subseteq SUBSET Images
  /\ Blank \in Bytes /\ Length \in [Images -> Nat] /\ Addresses \subseteq Nat
  /\ {Unit, BlockSize, CsdSize} \subseteq Nat \ {0} /\ CmdSize \in Nat \ {0, 1}
  /\ MaxMounts \in Nat
  /\ {"stdin", "free"} \cap Images = {}

CrcSize == 2
BlockLen == 512   \* the only argument of CMD16 that is accepted

Plain == {"CMD0", "CMD8", "CMD9", "CMD12", "CMD13", "CMD41", "CMD55", "CMD58", "other"}
Commands ==
  [name : Plain, arg : {0}] \cup [name : {"CMD17", "CMD24"}, arg : Addresses]
    \cup [name : {"CMD16"}, arg : {BlockLen, 0}]
    \cup [name : {"CMD48"}, arg : {0, 1}]      \* 1: the request for the IP address

NoCommand == [name |-> "none"]

Codes == {"ok", "idle", "illegal", "range", "error"}
Responses == [code : Codes, length : 0..5]

Fd == 0..MaxMounts
None == MaxMounts + 1          \* no descriptor
Mapping == [image : Images, w : BOOLEAN, id : 1..MaxMounts]
NoData == [id |-> 0]

\* m_currOp: what it points into, which block of it, and how far.
NoOp == [on |-> "none"]
Op == [on : {"image"}, map : Mapping, block : Nat, pos : Nat]
        \cup [on : {"csd", "tmp", "crc"}, pos : Nat]

VARIABLES
  status,        \* the program: run, waiting in flock, or ended by assert or fault
  csel, state, cmdCount, resp, op,     \* the SPI protocol
  cmd,           \* m_CmdIn, while it holds a command that was not processed yet
  file,          \* m_strFile
  rdOnly,        \* m_bRdOnly
  mounted,       \* m_bMounted
  data, dataFd,  \* m_data as the mapping it spans, m_data_fd
  present,       \* the pin CARD_PRESENT is low
  csd,           \* the size field of the register, as bits, and its write protection
  fds, locks,    \* kernel: what each descriptor has open, which one locks a file
  live,          \* kernel: the mappings
  contents,      \* kernel: the bytes of each file
  mounts,        \* counter for the bound
  clean          \* history: no card was mounted over another, no mount failed

spiVars   == <<csel, state, cmd, cmdCount, resp, op>>
cardVars  == <<file, rdOnly, mounted, data, dataFd, present, csd>>
osVars    == <<fds, locks, live>>
vars == <<status, spiVars, cardVars, osVars, contents, mounts, clean>>

\* The bits of a number of 16 bits, each by its weight.
Weights == {1, 2, 4, 8, 16, 32, 64, 128, 256, 512, 1024, 2048, 4096, 8192, 16384, 32768}
BitsOf(n) == {w \in Weights : (n \div w) % 2 = 1}
EmptyCsd == [size |-> {}, protect |-> FALSE]

Init ==
  /\ status = "run" /\ csel = FALSE /\ state = "IDLE"
  /\ cmd = NoCommand /\ cmdCount = 0
  /\ resp = [code |-> "ok", length |-> 0] /\ op = NoOp
  /\ file = FirstImage /\ rdOnly = FALSE /\ mounted = FALSE
  /\ data = NoData /\ dataFd = None /\ present = FALSE /\ csd = EmptyCsd
  /\ fds = [n \in Fd |-> IF n = 0 THEN "stdin" ELSE "free"]
  /\ locks = [i \in Images |-> None] /\ live = {}
  /\ contents = [i \in Images |-> [k \in Blocks(i) |-> [p \in 0..BlockSize - 1 |-> Blank]]]
  /\ mounts = 0 /\ clean = TRUE

-----------------------------------------------------------------------------
(***************************************************************************)
(* The SPI bus: the card hears a byte only while it is selected.           *)
(***************************************************************************)
\* (A definition named Mut... is the one after it with a plausible mistake in it.)
Quiet == UNCHANGED <<status, cardVars, osVars, mounts, clean>>

Select ==
  /\ status = "run" /\ ~csel /\ csel' = TRUE
  /\ UNCHANGED <<state, cmd, cmdCount, resp, op, contents>> /\ Quiet

Deselect ==
  /\ status = "run" /\ csel /\ csel' = FALSE /\ state' = "IDLE" /\ cmd' = NoCommand
  /\ UNCHANGED <<cmdCount, resp, op, contents>> /\ Quiet

In(s) == status = "run" /\ csel /\ state = s

\* IDLE: 0xFF is only answered; any other byte is the first of a command.
FirstByte ==
  /\ In("IDLE")
  /\ state' = "COMMAND_REQUEST" /\ cmdCount' = 1
  /\ UNCHANGED <<csel, cmd, resp, op, contents>> /\ Quiet

\* The command is known when its last byte is in.
RequestByte ==
  /\ In("COMMAND_REQUEST")
  /\ IF cmdCount + 1 < CmdSize
     THEN cmdCount' = cmdCount + 1 /\ UNCHANGED <<state, cmd>>
     ELSE cmdCount' = 0 /\ state' = "COMMAND_RESPONSE" /\ cmd' \in Commands
  /\ UNCHANGED <<csel, resp, op, contents>> /\ Quiet

Size == IF data = NoData THEN 0 ELSE Length[data.image]
R1(code) == resp' = [code |-> code, length |-> 1]
Transfer(next) ==
  /\ R1("ok")
  /\ op' = [on |-> "image", map |-> data, block |-> cmd.arg, pos |-> 0]
  /\ state' = next

\* ProcessCommand for the commands that only answer; CMD48 may leave the old answer.
Answer(c) ==
  CASE c = "CMD0" -> [code |-> IF data = NoData THEN "error" ELSE "idle", length |-> 1]
    [] c = "CMD8" -> [code |-> "idle", length |-> 5]
    [] c = "CMD12" -> [code |-> "idle", length |-> 2]
    [] c = "CMD13" -> [code |-> "ok", length |-> 2]
    [] c = "CMD58" -> [code |-> "ok", length |-> 5]
    [] c = "other" -> [code |-> "illegal", length |-> 1]
    [] c = "CMD48" -> resp
    [] OTHER -> [code |-> "ok", length |-> 1]

FirstResponse == In("COMMAND_RESPONSE") /\ cmdCount = 0

\* The first byte of a response: the command is processed, and the state it asks
\* for is taken only if the response has no further byte.
PlainCommand ==
  /\ FirstResponse
  /\ \/ cmd.name \in Plain \ {"CMD9"}
     \/ cmd.name = "CMD16" /\ cmd.arg = BlockLen
     \/ cmd.name = "CMD48" /\ cmd.arg = 0
  /\ resp' = Answer(cmd.name)
  /\ cmdCount' = 1 /\ cmd' = NoCommand
  /\ state' = IF 1 >= resp'.length THEN "IDLE" ELSE state
  /\ UNCHANGED <<csel, op, contents>> /\ Quiet

\* Expects(blocklen == 512)
WrongBlockLength ==
  /\ FirstResponse /\ cmd.name = "CMD16" /\ cmd.arg # BlockLen
  /\ status' = "assert"
  /\ UNCHANGED <<spiVars, cardVars, osVars, contents, mounts, clean>>

RegisterCommand ==
  /\ FirstResponse
  /\ cmd.name = "CMD9" \/ (cmd.name = "CMD48" /\ cmd.arg = 1)
  /\ R1("ok")
  /\ op' = [on |-> IF cmd.name = "CMD9" THEN "csd" ELSE "tmp", pos |-> 0]
  /\ state' = "DATA_READ_TOKEN" /\ cmdCount' = 1 /\ cmd' = NoCommand
  /\ UNCHANGED <<csel, contents>> /\ Quiet

ReadBlock ==
  /\ FirstResponse /\ cmd.name = "CMD17"
  /\ IF cmd.arg >= Size THEN R1("range") /\ state' = "IDLE" /\ UNCHANGED op
                        ELSE Transfer("DATA_READ_TOKEN")
  /\ cmdCount' = 1 /\ cmd' = NoCommand
  /\ UNCHANGED <<csel, contents>> /\ Quiet

MutWriteBlock ==
  /\ FirstResponse /\ cmd.name = "CMD24"
  /\ IF rdOnly THEN R1("illegal") /\ state' = "IDLE" /\ UNCHANGED op
     ELSE IF cmd.arg > Size THEN R1("range") /\ state' = "IDLE" /\ UNCHANGED op
     ELSE Transfer("DATA_WRITE_TOKEN")
  /\ cmdCount' = 1 /\ cmd' = NoCommand
  /\ UNCHANGED <<csel, contents>> /\ Quiet

WriteBlock ==
  /\ FirstResponse /\ cmd.name = "CMD24"
  /\ IF rdOnly THEN R1("illegal") /\ state' = "IDLE" /\ UNCHANGED op
     ELSE IF cmd.arg >= Size THEN R1("range") /\ state' = "IDLE" /\ UNCHANGED op
     ELSE Transfer("DATA_WRITE_TOKEN")
  /\ cmdCount' = 1 /\ cmd' = NoCommand
  /\ UNCHANGED <<csel, contents>> /\ Quiet

\* The later bytes of a response; next_state is IDLE again by now.
ResponseByte ==
  /\ In("COMMAND_RESPONSE") /\ cmdCount > 0
  /\ cmdCount' = cmdCount + 1
  /\ state' = IF cmdCount + 1 >= resp.length THEN "IDLE" ELSE state
  /\ UNCHANGED <<csel, cmd, resp, op, contents>> /\ Quiet

\* DATA_READ_TOKEN, and DATA_WRITE_TOKEN with the token 0xFE; other bytes are ignored.
TokenByte ==
  /\ \/ In("DATA_READ_TOKEN") /\ state' = "DATA_READ"
     \/ In("DATA_WRITE_TOKEN") /\ state' = "DATA_WRITE"
  /\ UNCHANGED <<csel, cmd, cmdCount, resp, op, contents>> /\ Quiet

OpSize == IF op.on = "csd" THEN CsdSize ELSE BlockSize
MutMoved(last) ==
  IF op.pos = OpSize
  THEN /\ state' = last
       /\ op' = [on |-> "crc", pos |-> IF last = "DATA_READ_CRC" THEN CrcSize ELSE 0]
  ELSE /\ op' = [op EXCEPT !.pos = @ + 1]
       /\ UNCHANGED state

Moved(last) ==
  IF op.pos + 1 = OpSize
  THEN /\ state' = last
       /\ op' = [on |-> "crc", pos |-> IF last = "DATA_READ_CRC" THEN CrcSize ELSE 0]
  ELSE /\ op' = [op EXCEPT !.pos = @ + 1]
       /\ UNCHANGED state

ReadByte ==
  /\ In("DATA_READ")
  /\ Moved("DATA_READ_CRC")
  /\ UNCHANGED <<csel, cmd, cmdCount, resp, contents>> /\ Quiet

\* The byte goes into the mapping at once; one that was mapped PROT_READ faults.
WriteByte(b) ==
  /\ In("DATA_WRITE")
  /\ IF op.map.w
     THEN /\ contents' = [contents EXCEPT ![op.map.image][op.block][op.pos] = b]
          /\ Moved("DATA_WRITE_CRC")
          /\ UNCHANGED <<csel, cmd, cmdCount, resp>> /\ Quiet
     ELSE /\ status' = "fault"
          /\ UNCHANGED <<spiVars, cardVars, osVars, contents, mounts, clean>>

ReadCrc ==
  /\ In("DATA_READ_CRC")
  /\ op' = [op EXCEPT !.pos = @ - 1]
  /\ state' = IF op.pos = 1 THEN "IDLE" ELSE state
  /\ UNCHANGED <<csel, cmd, cmdCount, resp, contents>> /\ Quiet

WriteCrc ==
  /\ In("DATA_WRITE_CRC")
  /\ op' = [op EXCEPT !.pos = @ + 1]
  /\ state' = IF op.pos + 1 = CrcSize THEN "IDLE" ELSE state
  /\ UNCHANGED <<csel, cmd, cmdCount, resp, contents>> /\ Quiet

-----------------------------------------------------------------------------
(***************************************************************************)
(* Mount and Unmount.                                                      *)
(***************************************************************************)
LowestFree == CHOOSE n \in Fd : fds[n] = "free" /\ \A m \in Fd : m < n => fds[m] # "free"
Opened(n, i) == [fds EXCEPT ![n] = i]
Closed(table, n) == [k \in Fd |-> IF k = n THEN "free" ELSE table[k]]
Unlocked(table, n) == [i \in Images |-> IF table[i] = n THEN None ELSE table[i]]

\* SetCSDCSize, which adds the bits of the size to those that are there.
MutWithSize(c, blocks, ro) ==
  [size |-> c.size \cup BitsOf(blocks \div Unit), protect |-> c.protect \/ ro]
WithSize(c, blocks, ro) ==
  [size |-> c.size \cup BitsOf(blocks \div Unit), protect |-> ro]

CallMount(i) ==
  /\ status = "run" /\ mounts < MaxMounts /\ mounts' = mounts + 1
  /\ file' = i
  /\ UNCHANGED <<spiVars, contents>>

\* access() fails: nothing but the pin and the name has changed.
MountMissing(i) ==
  /\ CallMount(i) /\ i \in Missing
  /\ present' = FALSE
  /\ clean' = (clean /\ data = NoData)
  /\ UNCHANGED <<status, rdOnly, mounted, data, dataFd, csd, osVars>>

Accessed(i) == CallMount(i) /\ i \notin Missing /\ rdOnly' = (i \in ReadOnly)

\* open() fails.
MountUnreadable(i) ==
  /\ Accessed(i) /\ i \in Unreadable
  /\ present' = FALSE
  /\ clean' = (clean /\ data = NoData)
  /\ UNCHANGED <<status, mounted, data, dataFd, csd, osVars>>

Opening(i) == Accessed(i) /\ i \notin Unreadable

\* flock() waits for a lock that this thread itself would have to release.
MountWaits(i) ==
  /\ Opening(i) /\ locks[i] # None
  /\ fds' = Opened(LowestFree, i) /\ status' = "waiting" /\ present' = FALSE
  /\ clean' = (clean /\ data = NoData)
  /\ UNCHANGED <<mounted, data, dataFd, csd, locks, live>>

\* An empty file.  OnError holds the value that fd had before open(), 0: it unlocks
\* and closes descriptor 0 instead.
MountEmpty(i) ==
  /\ Opening(i) /\ locks[i] = None /\ Length[i] = 0
  /\ fds' = Closed(Opened(LowestFree, i), 0)
  /\ locks' = Unlocked([locks EXCEPT ![i] = LowestFree], 0)
  /\ present' = FALSE /\ clean' = FALSE
  /\ UNCHANGED <<status, mounted, data, dataFd, csd, live>>

MutMountDone(i) ==
  /\ Opening(i) /\ locks[i] = None /\ Length[i] > 0
  /\ fds' = Opened(LowestFree, i)
  /\ data' = [image |-> i, w |-> ~rdOnly', id |-> mounts']
  /\ dataFd' = LowestFree /\ live' = live \cup {data'}
  /\ IF Length[i] % Unit # 0
     THEN status' = "assert" /\ present' = FALSE /\ UNCHANGED <<mounted, csd>>
     ELSE /\ csd' = WithSize(csd, Length[i], rdOnly')
          /\ mounted' = TRUE /\ present' = TRUE /\ UNCHANGED status
  /\ clean' = (clean /\ data = NoData)
  /\ UNCHANGED locks

MountDone(i) ==
  /\ Opening(i) /\ locks[i] = None /\ Length[i] > 0
  /\ fds' = Opened(LowestFree, i) /\ locks' = [locks EXCEPT ![i] = LowestFree]
  /\ data' = [image |-> i, w |-> ~rdOnly', id |-> mounts']
  /\ dataFd' = LowestFree /\ live' = live \cup {data'}
  /\ IF Length[i] % Unit # 0
     THEN status' = "assert" /\ present' = FALSE /\ UNCHANGED <<mounted, csd>>
     ELSE /\ csd' = WithSize(csd, Length[i], rdOnly')
          /\ mounted' = TRUE /\ present' = TRUE /\ UNCHANGED status
  /\ clean' = (clean /\ data = NoData)

Mount(i) ==
  MountMissing(i) \/ MountUnreadable(i) \/ MountWaits(i) \/ MountEmpty(i) \/ MountDone(i)

\* The boot, the actions Mount and Remount, and the key 'c' without a card.
MountCalled == \E i \in Images : Mount(i)

MutUnmount ==
  /\ status = "run"
  /\ mounted' = FALSE /\ present' = FALSE
  /\ IF data = NoData
     THEN UNCHANGED <<data, dataFd, csd, osVars>>
     ELSE /\ fds' = Closed(fds, dataFd) /\ locks' = Unlocked(locks, dataFd)
          /\ live' = live \ {data}
          /\ data' = NoData /\ dataFd' = None
          /\ csd' = WithSize(EmptyCsd, 0, rdOnly)
  /\ UNCHANGED <<status, state, csel, cmd, cmdCount, resp, op, file, rdOnly, contents, mounts, clean>>

MutUnmountLeaks ==
  /\ status = "run"
  /\ state' = "IDLE" /\ cmd' = NoCommand /\ mounted' = FALSE /\ present' = FALSE
  /\ live' = live \ {data}
  /\ data' = NoData /\ dataFd' = None
  /\ csd' = WithSize(EmptyCsd, 0, rdOnly)
  /\ UNCHANGED <<status, csel, cmdCount, resp, op, file, rdOnly, fds, locks, contents, mounts, clean>>

\* The action Unmount, and the key 'c' with a card.
Unmount ==
  /\ status = "run"
  /\ state' = "IDLE" /\ cmd' = NoCommand /\ mounted' = FALSE /\ present' = FALSE
  /\ IF data = NoData
     THEN UNCHANGED <<data, dataFd, csd, osVars>>
     ELSE /\ fds' = Closed(fds, dataFd) /\ locks' = Unlocked(locks, dataFd)
          /\ live' = live \ {data}
          /\ data' = NoData /\ dataFd' = None
          /\ csd' = WithSize(EmptyCsd, 0, rdOnly)
  /\ UNCHANGED <<status, csel, cmdCount, resp, op, file, rdOnly, contents, mounts, clean>>

Next ==
  \/ Select \/ Deselect \/ FirstByte \/ RequestByte
  \/ PlainCommand \/ WrongBlockLength \/ RegisterCommand \/ ReadBlock \/ WriteBlock
  \/ ResponseByte \/ TokenByte \/ ReadByte \/ ReadCrc \/ WriteCrc
  \/ \E b \in Bytes : WriteByte(b)
  \/ MountCalled \/ Unmount

Spec == Init /\ [][Next]_vars
-----------------------------------------------------------------------------
(***************************************************************************)
(* Properties.                                                             *)
(***************************************************************************)
States == {"IDLE", "COMMAND_REQUEST", "COMMAND_RESPONSE", "DATA_READ_TOKEN", "DATA_READ",
           "DATA_READ_CRC", "DATA_WRITE_TOKEN", "DATA_WRITE", "DATA_WRITE_CRC"}

\* The types.  No position of m_currOp passes the end of what it points into.
TypeOK ==
  /\ status \in {"run", "waiting", "assert", "fault"}
  /\ csel \in BOOLEAN /\ state \in States /\ cmd \in Commands \cup {NoCommand} 
  /\ cmdCount \in 0..IF state = "COMMAND_REQUEST" \/ cmdCount > 5 THEN CmdSize - 1 ELSE 5
  /\ resp \in Responses
  /\ op \in Op \cup {NoOp}
  /\ op # NoOp => op.pos <= IF op.on = "crc" THEN CrcSize ELSE OpSize - 1
  /\ file \in Images /\ rdOnly \in BOOLEAN /\ mounted \in BOOLEAN /\ present \in BOOLEAN
  /\ data \in Mapping \cup {NoData} /\ dataFd \in Fd \cup {None}
  /\ csd.size \subseteq Weights /\ csd.protect \in BOOLEAN
  /\ fds \in [Fd -> Images \cup {"stdin", "free"}] /\ locks \in [Images -> Fd \cup {None}]
  /\ live \subseteq Mapping
  /\ \A i \in Images : contents[i] \in [Blocks(i) -> Block]
  /\ mounts \in 0..MaxMounts /\ clean \in BOOLEAN

Transferring == state \in {"DATA_READ_TOKEN", "DATA_READ", "DATA_WRITE_TOKEN", "DATA_WRITE"}

\* m_currOp.pos outlives the command that set it: whenever a byte would be read or
\* written through it, it points into memory that is still mapped, and at a block
\* of that image, whatever was mounted or unmounted since the command.
OperationMapped ==
  Transferring /\ op.on = "image" => op.map \in live /\ op.block \in Blocks(op.map.image)

\* flock() in Mount waits for another program only: if cards are taken out before
\* the next is mounted, no mount ever waits for a lock this program holds.
NeverWaits == clean => status # "waiting"

\* What the CSD register says of size and protection is true of the image that is
\* mounted, and m_bRdOnly agrees, so that no write goes to a read-only mapping.
RegisterHonest ==
  clean => /\ status # "fault"
           /\ mounted => /\ csd.size = BitsOf(Length[data.image] \div Unit)
                         /\ csd.protect = (data.image \in ReadOnly)
                         /\ rdOnly = ~data.w

\* The pin, the flag, the mapping, the descriptor and the lock tell one story: the
\* firmware sees a card exactly when its image is mapped, open and locked.
CardWhole ==
  clean /\ status = "run" =>
    /\ present <=> mounted
    /\ mounted <=> data # NoData
    /\ \A n \in Fd : fds[n] \in Images <=> mounted /\ n = dataFd
    /\ mounted => fds[dataFd] = data.image /\ locks[data.image] = dataFd

\* The card is a block device: an image changes only by the transfer of a block
\* that the firmware named while it was mapped, in order, and not once it is gone.
Attached == {m.image : m \in live}
Task ==
  IF Transferring /\ op.on = "image"
  THEN [kind |-> IF state \in {"DATA_READ_TOKEN", "DATA_READ"} THEN "read" ELSE "write",
        image |-> op.map.image, block |-> op.block, done |-> op.pos]
  ELSE [kind |-> "none"]
Device == INSTANCE BlockDevice WITH attached <- Attached, task <- Task
DeviceImplemented == Device!Spec

\* "Clean up after an error." (OnError in Mount): without a card, the program has
\* no image open, and the descriptors it did not open are as they were.
CleanedUp ==
  status = "run" /\ data = NoData => fds = [n \in Fd |-> IF n = 0 THEN "stdin" ELSE "free"]
=============================================================================
