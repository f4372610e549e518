--------------------------- MODULE SdCard_proofs ---------------------------
(***************************************************************************)
(* Theorems about SdCard for all images, sizes and commands: what the      *)
(* firmware does byte by byte and what the user mounts and unmounts in     *)
(* between.                                                                *)
(***************************************************************************)
EXTENDS SdCard, WellFoundedInduction, TLAPS

-----------------------------------------------------------------------------
(***************************************************************************)
(* The inductive invariant, in parts.                                      *)
(***************************************************************************)
\* m_currOp is what the state of the protocol says.
OpInv ==
  /\ state = "COMMAND_RESPONSE" => cmdCount = 0 \/ cmdCount < resp.length
  /\ state \in {"DATA_READ_TOKEN", "DATA_READ"} => op.on \in {"image", "csd", "tmp"}
  /\ state \in {"DATA_WRITE_TOKEN", "DATA_WRITE"} => op.on = "image"
  /\ state \in {"DATA_READ_CRC", "DATA_WRITE_CRC"} => op.on = "crc"
  /\ state = "DATA_READ_CRC" => op.pos > 0
  /\ state = "DATA_WRITE_CRC" => op.pos < CrcSize

\* The kernel has a descriptor left for every call of Mount, and what is mapped for
\* writing may be written.
KernelInv ==
  /\ \A n \in Fd : n > mounts => fds[n] = "free"
  /\ \A m \in live : m.w <=> m.image \notin ReadOnly
  /\ data # NoData => data \in live
  /\ contents = [i \in Images |-> contents[i]]

\* As long as no card was mounted over another and no mount failed: at most one image is
\* open, locked and mapped, and the card's own records say so.
CleanInv ==
  clean =>
    /\ status \in {"run", "assert"}
    /\ mounted => data # NoData
    /\ status = "run" => (present <=> mounted) /\ (data # NoData => mounted)
    /\ IF data = NoData
       THEN /\ live = {} /\ csd.size = {}
            /\ \A n \in Fd : fds[n] \notin Images
            /\ \A i \in Images : locks[i] = None
       ELSE /\ live = {data} /\ dataFd \in Fd
            /\ \A n \in Fd : fds[n] \in Images <=> n = dataFd
            /\ fds[dataFd] = data.image /\ locks[data.image] = dataFd
            /\ \A i \in Images : locks[i] # None => i = data.image
            /\ rdOnly = ~data.w
            /\ mounted => /\ csd.size = BitsOf(Length[data.image] \div Unit)
                          /\ csd.protect = rdOnly
    /\ state \in {"DATA_WRITE_TOKEN", "DATA_WRITE"} => op.map.w

IInv == TypeOK /\ OpInv /\ KernelInv /\ OperationMapped /\ CleanInv

-----------------------------------------------------------------------------
(***************************************************************************)
(* Facts about the operators.                                              *)
(***************************************************************************)
LEMMA Minimum ==
  ASSUME NEW S \in SUBSET Nat, S # {}
  PROVE  \E n \in S : \A m \in S : n <= m
<1> DEFINE Less == {ss \in Nat \X Nat : ss[1] < ss[2]}
<1>1. OpToRel(<, Nat) = Less
  BY Zenon DEF OpToRel
<1>2. IsWellFoundedOn(Less, Nat)
  BY <1>1, NatLessThanWellFounded, Zenon
<1>3. \E n \in S : \A m \in S : <<m, n>> \notin Less
  <2> HIDE DEF Less
  <2>1. S \subseteq Nat /\ S # {}
    OBVIOUS
  <2> QED BY <1>2, <2>1, WFMin
<1>4. PICK n \in S : \A m \in S : <<m, n>> \notin Less
  BY <1>3
<1>5. ASSUME NEW m \in S PROVE n <= m
  <2>1. m \in Nat /\ n \in Nat /\ <<m, n>> \notin Less
    BY <1>4
  <2>2. m < n => <<m, n>> \in Less
    BY <2>1
  <2> QED BY <2>1, <2>2
<1> QED BY <1>4, <1>5

\* There is a lowest free descriptor, and at most one more than there were mounts.
LEMMA Lowest ==
  ASSUME TypeOK, KernelInv, mounts < MaxMounts
  PROVE  /\ LowestFree \in Fd /\ fds[LowestFree] = "free" /\ LowestFree <= mounts + 1
<1> DEFINE Free == {n \in Fd : fds[n] = "free"}
<1>1. mounts \in Nat /\ MaxMounts \in Nat /\ mounts + 1 \in Free /\ Free \subseteq Nat
  BY SdCardAssumption DEF TypeOK, KernelInv, Fd
<1>2. PICK n \in Free : \A m \in Free : n <= m
  BY <1>1, Minimum
<1>3. n \in Fd /\ fds[n] = "free" /\ \A m \in Fd : m < n => fds[m] # "free"
  BY <1>1, <1>2 DEF Fd
<1>4. /\ LowestFree \in Fd /\ fds[LowestFree] = "free"
      /\ \A m \in Fd : m < LowestFree => fds[m] # "free"
  BY <1>3, Zenon DEF LowestFree
<1>5. mounts + 1 \in Fd /\ fds[mounts + 1] = "free" /\ LowestFree \in Nat
  BY <1>1, <1>4 DEF Fd
<1> QED BY <1>1, <1>4, <1>5

LEMMA BitsOfZero == BitsOf(0) = {}
<1>1. ASSUME NEW w \in Weights PROVE (0 \div w) % 2 # 1
  BY DEF Weights
<1> QED BY <1>1 DEF BitsOf

\* What an operation is, by what it points into.
LEMMA OpType ==
  ASSUME TypeOK
  PROVE  /\ op.on \in {"none", "image", "csd", "tmp", "crc"}
         /\ op.on = "none" => op = NoOp
         /\ op.on # "none" => op.pos \in Nat /\ op \in Op
         /\ op.on = "image" => /\ op.map \in Mapping /\ op.block \in Nat /\ op.pos < BlockSize
                               /\ op = [on |-> "image", map |-> op.map, block |-> op.block, pos |-> op.pos]
         /\ op.on \in {"csd", "tmp", "crc"} => op = [on |-> op.on, pos |-> op.pos]
         /\ op.on = "crc" => op.pos <= CrcSize
         /\ op.on \in {"csd", "tmp"} => op.pos < OpSize
<1>1. CASE op = NoOp
  BY <1>1 DEF NoOp
<1>2. CASE op \in Op
  <2>1. CASE op \in [on : {"image"}, map : Mapping, block : Nat, pos : Nat]
    <3>1. op # NoOp
      BY <2>1 DEF NoOp
    <3> QED BY <2>1, <3>1, <1>2, SdCardAssumption DEF TypeOK, OpSize
  <2>2. CASE op \in [on : {"csd", "tmp", "crc"}, pos : Nat]
    <3>1. op # NoOp
      BY <2>2 DEF NoOp
    <3> QED BY <2>2, <3>1, <1>2, SdCardAssumption DEF TypeOK, OpSize
  <2> QED BY <1>2, <2>1, <2>2 DEF Op
<1> QED BY <1>1, <1>2 DEF TypeOK

-----------------------------------------------------------------------------
(***************************************************************************)
(* The initial states.                                                     *)
(***************************************************************************)
LEMMA InitTypeOK ==
  ASSUME Init
  PROVE  TypeOK
<1> USE SdCardAssumption
<1>1. /\ status = "run" /\ csel \in BOOLEAN /\ state \in States /\ cmd \in Commands \cup {NoCommand}
      /\ op \in Op \cup {NoOp} /\ op = NoOp
  BY DEF Init, States
<1>5. resp \in Responses
  BY DEF Init, Responses, Codes
<1>6. cmdCount \in 0..IF state = "COMMAND_REQUEST" \/ cmdCount > 5 THEN CmdSize - 1 ELSE 5
  BY DEF Init
<1>2. /\ file \in Images /\ rdOnly \in BOOLEAN /\ mounted \in BOOLEAN /\ present \in BOOLEAN
      /\ data \in Mapping \cup {NoData} /\ dataFd \in Fd \cup {None}
      /\ csd.size \subseteq Weights /\ csd.protect \in BOOLEAN
  BY DEF Init, EmptyCsd
<1>3. /\ fds \in [Fd -> Images \cup {"stdin", "free"}] /\ locks \in [Images -> Fd \cup {None}]
      /\ live \subseteq Mapping /\ mounts \in 0..MaxMounts /\ clean \in BOOLEAN
  BY DEF Init
<1>4. \A i \in Images : contents[i] \in [Blocks(i) -> Block]
  BY DEF Init, Block
<1> QED BY <1>1, <1>2, <1>3, <1>4, <1>5, <1>6 DEF TypeOK

LEMMA InitIInv ==
  ASSUME Init
  PROVE  IInv
<1>1. TypeOK
  BY InitTypeOK
<1>2. OpInv /\ OperationMapped
  BY DEF Init, OpInv, OperationMapped, Transferring, NoOp
<1>3. KernelInv
  BY SdCardAssumption DEF Init, KernelInv, Fd
<1>4. CleanInv
  <2>1. \A n \in Fd : fds[n] \notin Images
    BY SdCardAssumption DEF Init
  <2> QED BY <2>1 DEF Init, CleanInv, EmptyCsd
<1> QED BY <1>1, <1>2, <1>3, <1>4 DEF IInv

-----------------------------------------------------------------------------
(***************************************************************************)
(* The steps of the bus: they leave the card and the kernel alone.         *)
(***************************************************************************)
BusType ==
  /\ csel \in BOOLEAN /\ state \in States /\ cmd \in Commands \cup {NoCommand}
  /\ cmdCount \in 0..IF state = "COMMAND_REQUEST" \/ cmdCount > 5 THEN CmdSize - 1 ELSE 5
  /\ resp \in Responses
  /\ op \in Op \cup {NoOp}
  /\ op # NoOp => op.pos <= IF op.on = "crc" THEN CrcSize ELSE OpSize - 1

BoardType ==
  /\ status \in {"run", "waiting", "assert", "fault"}
  /\ file \in Images /\ rdOnly \in BOOLEAN /\ mounted \in BOOLEAN /\ present \in BOOLEAN
  /\ data \in Mapping \cup {NoData} /\ dataFd \in Fd \cup {None}
  /\ csd.size \subseteq Weights /\ csd.protect \in BOOLEAN
  /\ fds \in [Fd -> Images \cup {"stdin", "free"}] /\ locks \in [Images -> Fd \cup {None}]
  /\ live \subseteq Mapping
  /\ mounts \in 0..MaxMounts /\ clean \in BOOLEAN

ContentsType == \A i \in Images : contents[i] \in [Blocks(i) -> Block]

LEMMA TypeParts == TypeOK <=> BusType /\ BoardType /\ ContentsType
BY DEF TypeOK, BusType, BoardType, ContentsType

\* A byte is written only through a mapping that allows it.
MayWrite == clean /\ state \in {"DATA_WRITE_TOKEN", "DATA_WRITE"} => op.map.w

LEMMA QuietStep ==
  ASSUME IInv, Quiet, BusType', ContentsType', OpInv', OperationMapped', MayWrite',
         contents' = [i \in Images |-> contents'[i]]
  PROVE  IInv'
<1>1. BoardType'
  BY TypeParts DEF IInv, BoardType, Quiet, cardVars, osVars
<1>2. TypeOK'
  BY <1>1 DEF TypeOK, BusType, BoardType, ContentsType
<1>3. KernelInv'
  BY DEF IInv, KernelInv, Quiet, cardVars, osVars
<1>4. CleanInv'
  BY DEF IInv, CleanInv, MayWrite, Quiet, cardVars, osVars
<1> QED BY <1>2, <1>3, <1>4 DEF IInv

LEMMA BusStep ==
  ASSUME IInv, Quiet, UNCHANGED contents, BusType', OpInv', OperationMapped', MayWrite'
  PROVE  IInv'
<1>1. ContentsType'
  BY TypeParts DEF IInv, ContentsType
<1>2. contents' = [i \in Images |-> contents'[i]]
  BY DEF IInv, KernelInv
<1> QED BY <1>1, <1>2, QuietStep

LEMMA SelectStep ==
  ASSUME IInv, Select \/ Deselect
  PROVE  IInv'
<1>1. CASE Select
  <2>1. BusType'
    BY <1>1, TypeParts DEF IInv, Select, BusType, OpSize
  <2>2. OpInv' /\ OperationMapped' /\ MayWrite'
    BY <1>1 DEF IInv, Select, Quiet, cardVars, osVars, OpInv, OperationMapped, Transferring, MayWrite, CleanInv
  <2> QED BY <1>1, <2>1, <2>2, BusStep DEF Select
<1>2. CASE Deselect
  <2>1. cmdCount \in 0..IF cmdCount > 5 THEN CmdSize - 1 ELSE 5
    BY SdCardAssumption DEF IInv, TypeOK
  <2>2. BusType'
    BY <1>2, <2>1, TypeParts DEF IInv, Deselect, BusType, OpSize, States
  <2>3. OpInv' /\ OperationMapped' /\ MayWrite'
    BY <1>2 DEF Deselect, OpInv, OperationMapped, Transferring, MayWrite
  <2> QED BY <1>2, <2>2, <2>3, BusStep DEF Deselect
<1> QED BY <1>1, <1>2

LEMMA FirstByteStep ==
  ASSUME IInv, FirstByte
  PROVE  IInv'
<1>1. BusType'
  BY TypeParts, SdCardAssumption DEF IInv, FirstByte, BusType, OpSize, States
<1>2. OpInv' /\ OperationMapped' /\ MayWrite'
  BY DEF FirstByte, OpInv, OperationMapped, Transferring, MayWrite
<1> QED BY <1>1, <1>2, BusStep DEF FirstByte

LEMMA RequestByteStep ==
  ASSUME IInv, RequestByte
  PROVE  IInv'
<1>1. cmdCount' \in 0..IF state' = "COMMAND_REQUEST" \/ cmdCount' > 5 THEN CmdSize - 1 ELSE 5
  BY SdCardAssumption DEF IInv, TypeOK, RequestByte, In
<1>2. BusType'
  BY <1>1, TypeParts DEF IInv, RequestByte, In, BusType, OpSize, States
<1>3. OpInv' /\ OperationMapped' /\ MayWrite'
  BY DEF RequestByte, In, OpInv, OperationMapped, Transferring, MayWrite
<1> QED BY <1>2, <1>3, BusStep DEF RequestByte

LEMMA ResponseByteStep ==
  ASSUME IInv, ResponseByte
  PROVE  IInv'
<1>1. resp.length \in 0..5 /\ cmdCount \in Nat /\ cmdCount > 0 /\ cmdCount < resp.length
  BY SdCardAssumption DEF IInv, TypeOK, ResponseByte, In, OpInv, Responses
<1>2. cmdCount' \in 0..IF state' = "COMMAND_REQUEST" \/ cmdCount' > 5 THEN CmdSize - 1 ELSE 5
  BY <1>1 DEF ResponseByte, In
<1>3. BusType'
  BY <1>2, TypeParts DEF IInv, ResponseByte, In, BusType, OpSize, States
<1>4. OpInv' /\ OperationMapped' /\ MayWrite'
  BY <1>1 DEF ResponseByte, In, OpInv, OperationMapped, Transferring, MayWrite
<1> QED BY <1>3, <1>4, BusStep DEF ResponseByte

LEMMA TokenByteStep ==
  ASSUME IInv, TokenByte
  PROVE  IInv'
<1>1. cmdCount' \in 0..IF state' = "COMMAND_REQUEST" \/ cmdCount' > 5 THEN CmdSize - 1 ELSE 5
  BY DEF IInv, TypeOK, TokenByte, In
<1>2. BusType'
  BY <1>1, TypeParts DEF IInv, TokenByte, In, BusType, OpSize, States
<1>3. OpInv' /\ OperationMapped' /\ MayWrite'
  BY DEF IInv, TokenByte, In, Quiet, cardVars, osVars, OpInv, OperationMapped, Transferring, MayWrite, CleanInv
<1> QED BY <1>2, <1>3, BusStep DEF TokenByte
\* The block that a command names.
LEMMA CmdArg ==
  ASSUME TypeOK, cmd.name \in {"CMD17", "CMD24"}
  PROVE  cmd.arg \in Nat
<1>1. cmd \in Commands
  BY DEF TypeOK, NoCommand
<1>2. cmd \in [name : {"CMD17", "CMD24"}, arg : Addresses]
  BY <1>1 DEF Commands, Plain
<1> QED BY <1>2, SdCardAssumption

LEMMA PlainCommandStep ==
  ASSUME IInv, PlainCommand
  PROVE  IInv'
<1>1. resp' \in Responses
  <2>1. resp \in Responses
    BY DEF IInv, TypeOK
  <2> QED BY <2>1 DEF PlainCommand, Answer, Responses, Codes
<1>2. resp'.length \in 0..5
  BY <1>1 DEF Responses
<1>3. BusType'
  BY <1>1, TypeParts DEF IInv, PlainCommand, FirstResponse, In, BusType, OpSize, States
<1>4. OpInv' /\ OperationMapped' /\ MayWrite'
  BY <1>2 DEF PlainCommand, FirstResponse, In, OpInv, OperationMapped, Transferring, MayWrite
<1> QED BY <1>3, <1>4, BusStep DEF PlainCommand

LEMMA WrongBlockLengthStep ==
  ASSUME IInv, WrongBlockLength
  PROVE  IInv'
<1>1. TypeOK'
  BY DEF IInv, TypeOK, WrongBlockLength, spiVars, cardVars, osVars, ContentsType, OpSize
<1>2. OpInv' /\ KernelInv' /\ OperationMapped' /\ CleanInv'
  BY DEF IInv, WrongBlockLength, FirstResponse, In, spiVars, cardVars, osVars, OpInv, KernelInv,
         OperationMapped, Transferring, CleanInv
<1> QED BY <1>1, <1>2 DEF IInv

LEMMA RegisterCommandStep ==
  ASSUME IInv, RegisterCommand
  PROVE  IInv'
<1>1. resp' \in Responses
  BY DEF RegisterCommand, R1, Responses, Codes
<1>2. op' \in Op /\ op'.pos = 0 /\ op'.on \in {"csd", "tmp"} /\ op' # NoOp
  BY DEF RegisterCommand, Op, NoOp
<1>3. op'.pos <= IF op'.on = "crc" THEN CrcSize ELSE OpSize' - 1
  BY <1>2, SdCardAssumption DEF OpSize
<1>4. csel' \in BOOLEAN /\ state' \in States /\ cmd' = NoCommand /\ cmdCount' = 1 /\ state' = "DATA_READ_TOKEN"
  BY DEF IInv, TypeOK, RegisterCommand, States
<1>5. BusType'
  BY <1>1, <1>2, <1>3, <1>4 DEF BusType
<1>6. OpInv' /\ OperationMapped' /\ MayWrite'
  BY <1>2 DEF RegisterCommand, FirstResponse, In, OpInv, OperationMapped, Transferring, MayWrite
<1> QED BY <1>5, <1>6, BusStep DEF RegisterCommand

\* A transfer begins at the first byte of a block of the card.
LEMMA TransferType ==
  ASSUME IInv, NEW s, Transfer(s), cmd.name \in {"CMD17", "CMD24"}, ~(cmd.arg >= Size)
  PROVE  /\ resp' \in Responses /\ op' \in Op /\ op' # NoOp /\ op'.on = "image" /\ op'.pos = 0
         /\ data # NoData /\ data \in live /\ op'.map = data /\ op'.block \in Blocks(data.image)
<1>1. cmd.arg \in Nat
  BY CmdArg DEF IInv
<1>2. data # NoData
  BY <1>1 DEF Size
<1>3. data \in Mapping /\ data \in live /\ Length[data.image] \in Nat
  BY <1>2, SdCardAssumption DEF IInv, TypeOK, KernelInv, Mapping
<1>4. cmd.arg \in Blocks(data.image)
  BY <1>1, <1>2, <1>3 DEF Size, Blocks
<1> QED BY <1>1, <1>2, <1>3, <1>4 DEF Transfer, R1, Responses, Codes, Op, NoOp

LEMMA ReadBlockStep ==
  ASSUME IInv, ReadBlock
  PROVE  IInv'
<1>1. CASE cmd.arg >= Size
  <2>1. BusType'
    BY <1>1, TypeParts DEF IInv, ReadBlock, FirstResponse, In, BusType, OpSize, States, R1, Responses, Codes
  <2>2. OpInv' /\ OperationMapped' /\ MayWrite'
    BY <1>1 DEF ReadBlock, OpInv, OperationMapped, Transferring, MayWrite
  <2> QED BY <2>1, <2>2, BusStep DEF ReadBlock
<1>2. CASE ~(cmd.arg >= Size)
  <2>1. Transfer("DATA_READ_TOKEN")
    BY <1>2 DEF ReadBlock
  <2>2. /\ resp' \in Responses /\ op' \in Op /\ op' # NoOp /\ op'.on = "image" /\ op'.pos = 0
        /\ data # NoData /\ data \in live /\ op'.map = data /\ op'.block \in Blocks(data.image)
    BY <1>2, <2>1, TransferType DEF ReadBlock
  <2>3. BusType'
    BY <2>1, <2>2, TypeParts, SdCardAssumption
    DEF IInv, ReadBlock, FirstResponse, In, BusType, OpSize, States, Transfer
  <2>4. OpInv' /\ OperationMapped' /\ MayWrite'
    BY <2>1, <2>2 DEF ReadBlock, Transfer, Quiet, osVars, OpInv, OperationMapped, Transferring, MayWrite
  <2> QED BY <2>3, <2>4, BusStep DEF ReadBlock
<1> QED BY <1>1, <1>2

LEMMA WriteBlockStep ==
  ASSUME IInv, WriteBlock
  PROVE  IInv'
<1>1. CASE rdOnly \/ cmd.arg >= Size
  <2>1. BusType'
    BY <1>1, TypeParts DEF IInv, WriteBlock, FirstResponse, In, BusType, OpSize, States, R1, Responses, Codes
  <2>2. OpInv' /\ OperationMapped' /\ MayWrite'
    BY <1>1 DEF WriteBlock, OpInv, OperationMapped, Transferring, MayWrite
  <2> QED BY <2>1, <2>2, BusStep DEF WriteBlock
<1>2. CASE ~rdOnly /\ ~(cmd.arg >= Size)
  <2>1. Transfer("DATA_WRITE_TOKEN")
    BY <1>2 DEF WriteBlock
  <2>2. /\ resp' \in Responses /\ op' \in Op /\ op' # NoOp /\ op'.on = "image" /\ op'.pos = 0
        /\ data # NoData /\ data \in live /\ op'.map = data /\ op'.block \in Blocks(data.image)
    BY <1>2, <2>1, TransferType DEF WriteBlock
  <2>3. BusType'
    BY <2>1, <2>2, TypeParts, SdCardAssumption
    DEF IInv, WriteBlock, FirstResponse, In, BusType, OpSize, States, Transfer
  <2>4. clean => data.w
    BY <1>2, <2>2 DEF IInv, CleanInv
  <2>5. OpInv' /\ OperationMapped' /\ MayWrite'
    BY <2>1, <2>2, <2>4
    DEF WriteBlock, Transfer, Quiet, osVars, OpInv, OperationMapped, Transferring, MayWrite
  <2> QED BY <2>3, <2>5, BusStep DEF WriteBlock
<1> QED BY <1>1, <1>2

\* m_currOp moves by a byte, or to the checksum.
LEMMA MovedType ==
  ASSUME IInv, NEW s \in {"DATA_READ_CRC", "DATA_WRITE_CRC"}, Moved(s),
         op.on \in {"image", "csd", "tmp"}
  PROVE  /\ op' \in Op /\ op' # NoOp
         /\ op'.pos <= IF op'.on = "crc" THEN CrcSize ELSE OpSize' - 1
         /\ \/ /\ state' = s /\ op'.on = "crc"
               /\ op'.pos = IF s = "DATA_READ_CRC" THEN CrcSize ELSE 0
            \/ /\ state' = state /\ op'.on = op.on /\ op'.pos = op.pos + 1
               /\ op.on = "image" => op'.map = op.map /\ op'.block = op.block
<1>1. op \in Op /\ op.pos \in Nat /\ op.pos < OpSize /\ OpSize \in Nat
  BY OpType, SdCardAssumption DEF IInv, OpSize
<1>2. CASE op.pos + 1 = OpSize
  BY <1>1, <1>2 DEF Moved, Op, NoOp, CrcSize
<1>3. CASE op.pos + 1 # OpSize
  <2>1. CASE op.on = "image"
    <3>1. op = [on |-> "image", map |-> op.map, block |-> op.block, pos |-> op.pos] /\ op.map \in Mapping /\ op.block \in Nat
      BY <2>1, OpType DEF IInv
    <3>2. op' = [on |-> "image", map |-> op.map, block |-> op.block, pos |-> op.pos + 1]
      BY <1>3, <3>1 DEF Moved
    <3>3. op' \in [on : {"image"}, map : Mapping, block : Nat, pos : Nat]
      BY <1>1, <3>1, <3>2
    <3> QED BY <1>1, <1>3, <2>1, <3>2, <3>3 DEF Moved, Op, NoOp, OpSize
  <2>2. CASE op.on \in {"csd", "tmp"}
    <3>1. op = [on |-> op.on, pos |-> op.pos]
      BY <2>2, OpType DEF IInv
    <3>2. op' = [on |-> op.on, pos |-> op.pos + 1]
      BY <1>3, <3>1 DEF Moved
    <3>3. op' \in [on : {"image", "csd", "tmp", "crc"}, pos : Nat] /\ op'.on \in {"csd", "tmp"}
      BY <1>1, <2>2, <3>2
    <3> QED BY <1>1, <1>3, <2>2, <3>2, <3>3 DEF Moved, Op, NoOp, OpSize
  <2> QED BY <2>1, <2>2
<1> QED BY <1>2, <1>3
LEMMA ReadByteStep ==
  ASSUME IInv, ReadByte
  PROVE  IInv'
<1>1. op.on \in {"image", "csd", "tmp"}
  BY DEF IInv, OpInv, ReadByte, In
<1>2. /\ op' \in Op /\ op' # NoOp
      /\ op'.pos <= IF op'.on = "crc" THEN CrcSize ELSE OpSize' - 1
      /\ \/ state' = "DATA_READ_CRC" /\ op'.on = "crc" /\ op'.pos = CrcSize
         \/ /\ state' = state /\ op'.on = op.on
            /\ op.on = "image" => op'.map = op.map /\ op'.block = op.block
  BY <1>1, MovedType DEF ReadByte
<1>3. BusType'
  BY <1>2, TypeParts DEF IInv, ReadByte, In, BusType, States
<1>4. OpInv' /\ OperationMapped' /\ MayWrite'
  BY <1>1, <1>2 DEF IInv, ReadByte, In, Quiet, osVars, OpInv, OperationMapped, Transferring, MayWrite, CrcSize
<1> QED BY <1>3, <1>4, BusStep DEF ReadByte

LEMMA WriteByteStep ==
  ASSUME IInv, NEW b \in Bytes, WriteByte(b)
  PROVE  IInv'
<1>1. op.on = "image" /\ op \in Op /\ op.map \in live /\ op.map.image \in Images
      /\ op.block \in Blocks(op.map.image) /\ op.pos \in 0..BlockSize - 1
  BY OpType, SdCardAssumption
  DEF IInv, OpInv, WriteByte, In, OperationMapped, Transferring, Mapping
<1>2. CASE op.map.w
  <2>1. /\ op' \in Op /\ op' # NoOp
        /\ op'.pos <= IF op'.on = "crc" THEN CrcSize ELSE OpSize' - 1
        /\ \/ state' = "DATA_WRITE_CRC" /\ op'.on = "crc" /\ op'.pos = 0
           \/ state' = state /\ op'.on = op.on /\ op'.map = op.map /\ op'.block = op.block
    BY <1>1, <1>2, MovedType DEF WriteByte
  <2>2. BusType'
    BY <1>2, <2>1, TypeParts DEF IInv, WriteByte, In, BusType, States
  <2>3. OpInv' /\ OperationMapped' /\ MayWrite'
    BY <1>1, <1>2, <2>1
    DEF IInv, WriteByte, In, Quiet, osVars, OpInv, OperationMapped, Transferring, MayWrite, CrcSize
  <2>4. contents' = [contents EXCEPT ![op.map.image][op.block][op.pos] = b]
    BY <1>2 DEF WriteByte
  <2>5. ContentsType'
    <3>1. \A i \in Images : contents[i] \in [Blocks(i) -> Block]
      BY DEF IInv, TypeOK
    <3>2. ASSUME NEW i \in Images PROVE contents'[i] \in [Blocks(i) -> Block]
      <4>1. CASE i # op.map.image
        BY <2>4, <3>1, <4>1 DEF IInv, KernelInv
      <4>2. CASE i = op.map.image
        <5>1. contents'[i] = [contents[i] EXCEPT ![op.block][op.pos] = b]
          BY <2>4, <4>2 DEF IInv, KernelInv
        <5>2. [contents[i][op.block] EXCEPT ![op.pos] = b] \in Block
          BY <1>1, <3>1, <4>2 DEF Block
        <5> QED BY <1>1, <3>1, <4>2, <5>1, <5>2
      <4> QED BY <4>1, <4>2
    <3> QED BY <3>2 DEF ContentsType
  <2>6. contents' = [i \in Images |-> contents'[i]]
    BY <2>4 DEF IInv, KernelInv
  <2> QED BY <1>2, <2>2, <2>3, <2>5, <2>6, QuietStep DEF WriteByte
<1>3. CASE ~op.map.w
  <2>1. ~clean
    BY <1>3 DEF IInv, CleanInv, WriteByte, In
  <2>2. TypeOK'
    BY <1>3 DEF IInv, TypeOK, WriteByte, spiVars, cardVars, osVars, OpSize
  <2>3. OpInv' /\ KernelInv' /\ OperationMapped' /\ CleanInv'
    BY <1>3, <2>1
    DEF IInv, WriteByte, spiVars, cardVars, osVars, OpInv, KernelInv, OperationMapped, Transferring, CleanInv
  <2> QED BY <2>2, <2>3 DEF IInv
<1> QED BY <1>2, <1>3

LEMMA CrcStep ==
  ASSUME IInv, ReadCrc \/ WriteCrc
  PROVE  IInv'
<1>1. op.on = "crc" /\ op \in Op /\ op.pos \in 0..CrcSize /\ op = [on |-> "crc", pos |-> op.pos]
      /\ (state = "DATA_READ_CRC" => op.pos > 0) /\ (state = "DATA_WRITE_CRC" => op.pos < CrcSize)
  BY OpType DEF IInv, OpInv, ReadCrc, WriteCrc, In, CrcSize
<1>2. PICK p \in 0..CrcSize :
        /\ op' = [on |-> "crc", pos |-> p]
        /\ \/ ReadCrc /\ p = op.pos - 1
           \/ WriteCrc /\ p = op.pos + 1
  <2>1. CASE ReadCrc
    <3>1. op' = [on |-> "crc", pos |-> op.pos - 1] /\ op.pos - 1 \in 0..CrcSize
      BY <1>1, <2>1 DEF ReadCrc, In, CrcSize
    <3> QED BY <2>1, <3>1
  <2>2. CASE WriteCrc
    <3>1. op' = [on |-> "crc", pos |-> op.pos + 1] /\ op.pos + 1 \in 0..CrcSize
      BY <1>1, <2>2 DEF WriteCrc, In, CrcSize
    <3> QED BY <2>2, <3>1
  <2> QED BY <2>1, <2>2
<1>3. op' \in Op /\ op'.on = "crc" /\ op'.pos = p
  BY <1>2 DEF Op, CrcSize
<1>4. state' \in {state, "IDLE"} /\ state \in {"DATA_READ_CRC", "DATA_WRITE_CRC"}
      /\ UNCHANGED <<csel, cmd, cmdCount, resp, contents>> /\ Quiet
  BY DEF ReadCrc, WriteCrc, In
<1>5. BusType'
  BY <1>3, <1>4, TypeParts DEF IInv, BusType, States
<1>6. OpInv' /\ OperationMapped' /\ MayWrite'
  BY <1>1, <1>2, <1>3, <1>4 DEF ReadCrc, WriteCrc, In, OpInv, OperationMapped, Transferring, MayWrite, CrcSize
<1> QED BY <1>4, <1>5, <1>6, BusStep
-----------------------------------------------------------------------------
(***************************************************************************)
(* Mount and Unmount: they leave the protocol alone, or end it.            *)
(***************************************************************************)
\* What a call of Mount leaves as it was.
LEMMA MountKeeps ==
  ASSUME IInv, NEW i \in Images, CallMount(i),
         live \subseteq live', BoardType', KernelInv', CleanInv'
  PROVE  IInv'
<1>1. BusType' /\ ContentsType'
  BY TypeParts DEF IInv, BusType, ContentsType, CallMount, spiVars, OpSize
<1>2. TypeOK'
  BY <1>1 DEF TypeOK, BusType, BoardType, ContentsType
<1>3. OpInv' /\ OperationMapped'
  BY DEF IInv, OpInv, OperationMapped, Transferring, CallMount, spiVars
<1> QED BY <1>2, <1>3 DEF IInv

LEMMA MountsType ==
  ASSUME IInv, NEW i \in Images, CallMount(i)
  PROVE  mounts \in Nat /\ MaxMounts \in Nat /\ mounts' = mounts + 1 /\ mounts' \in 1..MaxMounts
         /\ status = "run"
BY SdCardAssumption DEF IInv, TypeOK, CallMount

\* access() or open() fails.
LEMMA MountFailsStep ==
  ASSUME IInv, NEW i \in Images, MountMissing(i) \/ MountUnreadable(i)
  PROVE  IInv'
<1>1. /\ CallMount(i) /\ present' = FALSE /\ clean' = (clean /\ data = NoData)
      /\ rdOnly' \in BOOLEAN
      /\ UNCHANGED <<status, mounted, data, dataFd, csd, osVars>>
  <2>1. CASE MountMissing(i)
    BY <2>1 DEF MountMissing, IInv, TypeOK
  <2>2. CASE MountUnreadable(i)
    BY <2>2 DEF MountUnreadable, Accessed
  <2> QED BY <2>1, <2>2
<1>2. mounts' \in 1..MaxMounts /\ mounts' > mounts /\ mounts \in Nat
  BY <1>1, MountsType
<1>3. BoardType'
  <2>1. mounts' \in 0..MaxMounts
    BY <1>2, SdCardAssumption
  <2>3. file' \in Images
    BY <1>1 DEF CallMount
  <2>2. clean' \in BOOLEAN
    BY <1>1 DEF IInv, TypeOK
  <2> QED BY <1>1, <2>1, <2>2, <2>3, TypeParts DEF IInv, BoardType, osVars
<1>4. KernelInv'
  BY <1>1, <1>2 DEF IInv, KernelInv, CallMount, osVars, Fd
<1>5. CleanInv'
  <2>1. CASE clean /\ data = NoData
    <3>1. CleanInv /\ ~mounted /\ UNCHANGED <<state, op>>
      BY <1>1, <2>1 DEF IInv, CleanInv, CallMount, spiVars
    <3> QED BY <1>1, <2>1, <3>1 DEF CleanInv, osVars
  <2>2. CASE ~(clean /\ data = NoData)
    BY <1>1, <2>2 DEF CleanInv
  <2> QED BY <2>1, <2>2
<1>6. live \subseteq live'
  BY <1>1 DEF osVars
<1> QED BY <1>1, <1>3, <1>4, <1>5, <1>6, MountKeeps
\* What the kernel has when a file was opened.
LEMMA OpenedType ==
  ASSUME IInv, NEW i \in Images, Opening(i)
  PROVE  /\ LowestFree \in Fd /\ fds[LowestFree] = "free" /\ CallMount(i)
         /\ Opened(LowestFree, i) \in [Fd -> Images \cup {"stdin", "free"}]
         /\ \A n \in Fd : Opened(LowestFree, i)[n] = IF n = LowestFree THEN i ELSE fds[n]
         /\ \A n \in Fd : n > mounts' => Opened(LowestFree, i)[n] = "free"
         /\ rdOnly' = (i \in ReadOnly) /\ rdOnly' \in BOOLEAN
<1>1. CallMount(i) /\ rdOnly' = (i \in ReadOnly) /\ rdOnly' \in BOOLEAN
  BY DEF Opening, Accessed
<1>2. mounts \in Nat /\ mounts < MaxMounts /\ mounts' = mounts + 1
  BY <1>1, MountsType DEF CallMount
<1>3. LowestFree \in Fd /\ fds[LowestFree] = "free" /\ LowestFree <= mounts + 1
  BY <1>2, Lowest DEF IInv
<1>4. fds \in [Fd -> Images \cup {"stdin", "free"}]
  BY DEF IInv, TypeOK
<1>5. Opened(LowestFree, i) \in [Fd -> Images \cup {"stdin", "free"}]
  BY <1>3, <1>4 DEF Opened
<1>6. \A n \in Fd : Opened(LowestFree, i)[n] = IF n = LowestFree THEN i ELSE fds[n]
  BY <1>3, <1>4 DEF Opened
<1>7. ASSUME NEW n \in Fd, n > mounts' PROVE Opened(LowestFree, i)[n] = "free"
  <2>1. n > mounts /\ n # LowestFree
    BY <1>2, <1>3, <1>7 DEF Fd
  <2> QED BY <1>6, <2>1 DEF IInv, KernelInv
<1> QED BY <1>1, <1>3, <1>5, <1>6, <1>7

LEMMA MountWaitsStep ==
  ASSUME IInv, NEW i \in Images, MountWaits(i)
  PROVE  IInv'
<1>1. /\ CallMount(i) /\ fds' = Opened(LowestFree, i) /\ status' = "waiting" /\ present' = FALSE
      /\ clean' = (clean /\ data = NoData)
      /\ UNCHANGED <<mounted, data, dataFd, csd, locks, live>>
      /\ Opening(i) /\ locks[i] # None
  BY DEF MountWaits, Opening, Accessed
<1>2. mounts' \in 0..MaxMounts /\ file' \in Images
  BY <1>1, MountsType DEF CallMount
<1>3. ~clean' /\ clean' \in BOOLEAN
  BY <1>1 DEF IInv, CleanInv
<1>4. BoardType'
  BY <1>1, <1>2, <1>3, OpenedType, TypeParts DEF IInv, BoardType
<1>5. KernelInv'
  <2>1. UNCHANGED <<data, live, contents>>
    BY <1>1 DEF CallMount
  <2>2. \A n \in Fd : n > mounts' => fds'[n] = "free"
    BY <1>1, OpenedType
  <2> QED BY <2>1, <2>2 DEF IInv, KernelInv
<1>6. CleanInv'
  BY <1>3 DEF CleanInv
<1> QED BY <1>1, <1>4, <1>5, <1>6, MountKeeps

LEMMA MountEmptyStep ==
  ASSUME IInv, NEW i \in Images, MountEmpty(i)
  PROVE  IInv'
<1>1. /\ CallMount(i) /\ fds' = Closed(Opened(LowestFree, i), 0)
      /\ locks' = Unlocked([locks EXCEPT ![i] = LowestFree], 0) /\ present' = FALSE /\ clean' = FALSE
      /\ UNCHANGED <<status, mounted, data, dataFd, csd, live>>
      /\ Opening(i)
  BY DEF MountEmpty, Opening, Accessed
<1>2. mounts' \in 0..MaxMounts /\ file' \in Images
  BY <1>1, MountsType DEF CallMount
<1>3. fds' \in [Fd -> Images \cup {"stdin", "free"}] /\ \A n \in Fd : n > mounts' => fds'[n] = "free"
  BY <1>1, OpenedType DEF Closed
<1>4. locks' \in [Images -> Fd \cup {None}]
  BY <1>1, OpenedType DEF Unlocked, IInv, TypeOK
<1>5. BoardType'
  BY <1>1, <1>2, <1>3, <1>4, OpenedType, TypeParts DEF IInv, BoardType
<1>6. KernelInv'
  <2>1. UNCHANGED <<data, live, contents>>
    BY <1>1 DEF CallMount
  <2> QED BY <1>3, <2>1 DEF IInv, KernelInv
<1>7. CleanInv'
  BY <1>1 DEF CleanInv
<1> QED BY <1>1, <1>5, <1>6, <1>7, MountKeeps

LEMMA MountDoneStep ==
  ASSUME IInv, NEW i \in Images, MountDone(i)
  PROVE  IInv'
<1>1. /\ CallMount(i) /\ Opening(i) /\ Length[i] > 0
      /\ fds' = Opened(LowestFree, i) /\ locks' = [locks EXCEPT ![i] = LowestFree]
      /\ data' = [image |-> i, w |-> ~rdOnly', id |-> mounts']
      /\ dataFd' = LowestFree /\ live' = live \cup {data'}
      /\ clean' = (clean /\ data = NoData)
  BY DEF MountDone, Opening, Accessed
<1>2. \/ status' = "assert" /\ present' = FALSE /\ UNCHANGED <<mounted, csd>>
      \/ /\ csd' = WithSize(csd, Length[i], rdOnly')
         /\ mounted' = TRUE /\ present' = TRUE /\ UNCHANGED status
  BY DEF MountDone
<1>3. mounts' \in 0..MaxMounts /\ mounts' \in 1..MaxMounts /\ file' \in Images /\ status = "run"
  BY <1>1, MountsType DEF CallMount
<1>4. data' \in Mapping /\ data' # NoData
  <2>1. data' \in Mapping
    BY <1>1, <1>3, OpenedType DEF Mapping
  <2> QED BY <1>1, <2>1 DEF Mapping, NoData
<1>5. csd'.size \subseteq Weights /\ csd'.protect \in BOOLEAN
  BY <1>1, <1>2, OpenedType DEF IInv, TypeOK, WithSize, BitsOf
<1>6. BoardType'
  <2>1. locks' \in [Images -> Fd \cup {None}] /\ live' \subseteq Mapping /\ clean' \in BOOLEAN
    BY <1>1, <1>4, OpenedType DEF IInv, TypeOK
  <2>2. mounted' \in BOOLEAN /\ present' \in BOOLEAN /\ status' \in {"run", "waiting", "assert", "fault"}
    BY <1>2, <1>3 DEF IInv, TypeOK
  <2> QED BY <1>1, <1>3, <1>4, <1>5, <2>1, <2>2, OpenedType DEF BoardType
<1>7. KernelInv'
  <2>1. data' \in live' /\ contents' = [j \in Images |-> contents'[j]]
    BY <1>1 DEF IInv, KernelInv, CallMount
  <2>2. data'.w <=> data'.image \notin ReadOnly
    BY <1>1, OpenedType
  <2>3. \A n \in Fd : n > mounts' => fds'[n] = "free"
    BY <1>1, OpenedType
  <2> QED BY <1>1, <2>1, <2>2, <2>3 DEF IInv, KernelInv
<1>8. CleanInv'
  <2> SUFFICES ASSUME clean, data = NoData PROVE CleanInv'
    BY <1>1 DEF CleanInv
  <2>1. /\ ~mounted /\ live = {} /\ csd.size = {} /\ \A n \in Fd : fds[n] \notin Images
        /\ \A j \in Images : locks[j] = None
        /\ state \in {"DATA_WRITE_TOKEN", "DATA_WRITE"} => op.map.w
    BY <1>3 DEF IInv, CleanInv
  <2>2. status' \in {"run", "assert"} /\ (status' = "run" => present' /\ mounted')
        /\ (present' => mounted')
    BY <1>2, <1>3
  <2>3. live' = {data'} /\ dataFd' \in Fd /\ rdOnly' = ~data'.w /\ data'.image = i
    BY <1>1, <2>1, OpenedType
  <2>4. /\ \A n \in Fd : fds'[n] \in Images <=> n = dataFd'
        /\ fds'[dataFd'] = i /\ locks'[i] = dataFd'
        /\ \A j \in Images : locks'[j] # None => j = i
    <3>1. /\ LowestFree \in Fd /\ fds' = Opened(LowestFree, i) /\ dataFd' = LowestFree
          /\ \A n \in Fd : fds'[n] = IF n = LowestFree THEN i ELSE fds[n]
      BY <1>1, OpenedType
    <3>2. locks \in [Images -> Fd \cup {None}] /\ locks' = [locks EXCEPT ![i] = LowestFree]
      BY <1>1 DEF IInv, TypeOK
    <3> QED BY <2>1, <3>1, <3>2
  <2>5. mounted' => csd'.size = BitsOf(Length[i] \div Unit) /\ csd'.protect = rdOnly'
    <3>1. ASSUME NEW X, NEW Y, X = {} PROVE X \cup Y = Y
      BY <3>1
    <3>2. csd.size \cup BitsOf(Length[i] \div Unit) = BitsOf(Length[i] \div Unit)
      BY <2>1, <3>1
    <3>3. CASE csd' = WithSize(csd, Length[i], rdOnly')
      <4>1. csd' = [size |-> BitsOf(Length[i] \div Unit), protect |-> rdOnly']
        BY <3>2, <3>3 DEF WithSize
      <4> QED BY <4>1
    <3> QED BY <1>2, <2>1, <3>3
  <2>6. UNCHANGED <<state, op>>
    BY <1>1 DEF CallMount, spiVars
  <2> QED BY <1>4, <2>1, <2>2, <2>3, <2>4, <2>5, <2>6 DEF CleanInv
<1>9. live \subseteq live'
  BY <1>1
<1> QED BY <1>1, <1>6, <1>7, <1>8, <1>9, MountKeeps

LEMMA UnmountStep ==
  ASSUME IInv, Unmount
  PROVE  IInv'
<1>1. /\ state' = "IDLE" /\ cmd' = NoCommand /\ mounted' = FALSE /\ present' = FALSE /\ status = "run"
      /\ UNCHANGED <<status, csel, cmdCount, resp, op, file, rdOnly, contents, mounts, clean>>
  BY DEF Unmount
<1>2. BusType'
  <2>1. cmdCount \in 0..IF cmdCount > 5 THEN CmdSize - 1 ELSE 5
    BY SdCardAssumption DEF IInv, TypeOK
  <2> QED BY <1>1, <2>1, TypeParts DEF IInv, BusType, OpSize, States
<1>3. ContentsType' /\ OpInv' /\ OperationMapped'
  BY <1>1 DEF IInv, TypeOK, ContentsType, OpInv, OperationMapped, Transferring
<1>4. CASE data = NoData
  <2>1. UNCHANGED <<data, dataFd, csd, fds, locks, live>>
    BY <1>4 DEF Unmount, osVars
  <2>2. BoardType' /\ KernelInv'
    BY <1>1, <2>1, TypeParts DEF IInv, BoardType, KernelInv
  <2>3. CleanInv'
    BY <1>1, <1>4, <2>1 DEF IInv, CleanInv
  <2> QED BY <1>2, <1>3, <2>2, <2>3, TypeParts DEF IInv, TypeOK, BusType, BoardType, ContentsType
<1>5. CASE data # NoData
  <2>1. /\ fds' = Closed(fds, dataFd) /\ locks' = Unlocked(locks, dataFd)
        /\ live' = live \ {data}
        /\ data' = NoData /\ dataFd' = None
        /\ csd' = WithSize(EmptyCsd, 0, rdOnly)
    BY <1>5 DEF Unmount
  <2>2. csd'.size = {} /\ csd'.protect = rdOnly
    <3>1. 0 \div Unit = 0
      BY SdCardAssumption
    <3> QED BY <2>1, <3>1, BitsOfZero DEF WithSize, EmptyCsd
  <2>3. /\ fds' \in [Fd -> Images \cup {"stdin", "free"}] /\ locks' \in [Images -> Fd \cup {None}]
        /\ \A n \in Fd : fds'[n] = IF n = dataFd THEN "free" ELSE fds[n]
        /\ \A j \in Images : locks'[j] = IF locks[j] = dataFd THEN None ELSE locks[j]
    BY <2>1 DEF IInv, TypeOK, Closed, Unlocked
  <2>4. BoardType'
    BY <1>1, <2>1, <2>2, <2>3, TypeParts DEF IInv, BoardType
  <2>5. KernelInv'
    BY <1>1, <2>1, <2>3 DEF IInv, KernelInv
  <2>6. CleanInv'
    BY <1>1, <1>5, <2>1, <2>2, <2>3, SdCardAssumption DEF IInv, CleanInv
  <2> QED BY <1>2, <1>3, <2>4, <2>5, <2>6, TypeParts DEF IInv, TypeOK, BusType, BoardType, ContentsType
<1> QED BY <1>4, <1>5
-----------------------------------------------------------------------------
LEMMA StepIInv == IInv /\ [Next]_vars => IInv'
<1> SUFFICES ASSUME IInv, [Next]_vars PROVE IInv'
  OBVIOUS
<1>1. CASE UNCHANGED vars
  <2>1. TypeOK'
    BY <1>1 DEF IInv, TypeOK, vars, spiVars, cardVars, osVars, OpSize
  <2>2. OpInv' /\ KernelInv' /\ OperationMapped' /\ CleanInv'
    BY <1>1 DEF IInv, vars, spiVars, cardVars, osVars, OpInv, KernelInv, OperationMapped,
                Transferring, CleanInv
  <2> QED BY <2>1, <2>2 DEF IInv
<1>2. CASE MountCalled
  <2>1. PICK i \in Images : Mount(i)
    BY <1>2 DEF MountCalled
  <2> QED BY <2>1, MountFailsStep, MountWaitsStep, MountEmptyStep, MountDoneStep DEF Mount
<1>3. CASE Select \/ Deselect \/ FirstByte \/ RequestByte \/ ResponseByte \/ TokenByte
  BY <1>3, SelectStep, FirstByteStep, RequestByteStep, ResponseByteStep, TokenByteStep
<1>4. CASE PlainCommand \/ WrongBlockLength \/ RegisterCommand \/ ReadBlock \/ WriteBlock
  BY <1>4, PlainCommandStep, WrongBlockLengthStep, RegisterCommandStep, ReadBlockStep, WriteBlockStep
<1>5. CASE ReadByte \/ ReadCrc \/ WriteCrc \/ \E b \in Bytes : WriteByte(b)
  BY <1>5, ReadByteStep, CrcStep, WriteByteStep
<1> QED BY <1>1, <1>2, <1>3, <1>4, <1>5, UnmountStep DEF Next

LEMMA Invariant == Spec => []IInv
BY InitIInv, StepIInv, PTL DEF Spec

\* The state of the card is well formed; no position in m_currOp passes its end
\* (SDCard.cpp:167-683).
THEOREM TypeCorrect == Spec => []TypeOK
<1>1. IInv => TypeOK
  BY DEF IInv
<1> QED BY <1>1, Invariant, PTL

\* A byte is read or written only through memory that is mapped, at a block of the image
\* the command was for, whatever was mounted since (SDCard.cpp:338-683).
THEOREM TransfersMapped == Spec => []OperationMapped
<1>1. IInv => OperationMapped
  BY DEF IInv
<1> QED BY <1>1, Invariant, PTL

\* If cards are taken out before the next is mounted, no Mount waits for a lock that the
\* program itself holds (SDCard.cpp:553-683).
THEOREM MountNeverWaits == Spec => []NeverWaits
<1>1. IInv => NeverWaits
  BY DEF IInv, CleanInv, NeverWaits
<1> QED BY <1>1, Invariant, PTL

\* The size and the write protection in the CSD register are those of the image, and
\* m_bRdOnly keeps writes from a mapping that would fault (SDCard.cpp:254-281, 477-653).
THEOREM CsdHonest == Spec => []RegisterHonest
<1>1. ASSUME IInv PROVE RegisterHonest
  <2> SUFFICES ASSUME clean PROVE RegisterHonest
    BY DEF RegisterHonest
  <2>1. status # "fault"
    BY <1>1 DEF IInv, CleanInv
  <2>2. ASSUME mounted
        PROVE  /\ csd.size = BitsOf(Length[data.image] \div Unit)
               /\ csd.protect = (data.image \in ReadOnly)
               /\ rdOnly = ~data.w
    <3>1. /\ data # NoData /\ rdOnly = ~data.w /\ csd.protect = rdOnly
          /\ csd.size = BitsOf(Length[data.image] \div Unit)
      BY <1>1, <2>2 DEF IInv, CleanInv
    <3>2. data.w <=> data.image \notin ReadOnly
      BY <1>1, <3>1 DEF IInv, KernelInv
    <3>3. csd.protect \in BOOLEAN /\ data.w \in BOOLEAN
      BY <1>1, <3>1 DEF IInv, TypeOK, Mapping
    <3> QED BY <3>1, <3>2, <3>3
  <2> QED BY <2>1, <2>2 DEF RegisterHonest
<1> QED BY <1>1, Invariant, PTL

\* The card-detect pin, m_bMounted, the mapping, the descriptor and the lock agree
\* (SDCard.cpp:553-683).
THEOREM CardAgrees == Spec => []CardWhole
<1>1. IInv => CardWhole
  BY DEF IInv, CleanInv, CardWhole
<1> QED BY <1>1, Invariant, PTL
-----------------------------------------------------------------------------
(***************************************************************************)
(* The card implements the block device.                                   *)
(***************************************************************************)
LEMMA DeviceInit == Init => Device!Init
<1> SUFFICES ASSUME Init PROVE Device!Init
  OBVIOUS
<1>1. \A i \in Images : contents[i] \in [Device!Blocks(i) -> Device!Block]
  BY InitTypeOK DEF TypeOK, Device!Blocks, Device!Block, Blocks, Block
<1>2. DOMAIN contents = Images /\ Attached = {} /\ Task = Device!NoTask
  BY DEF Init, Attached, Task, Transferring, Device!NoTask
<1> QED BY <1>1, <1>2 DEF Device!Init

\* The transfer in progress, by the state of the protocol.
LEMMA TaskIs ==
  /\ ~(Transferring /\ op.on = "image") => Task = Device!NoTask
  /\ Transferring /\ op.on = "image" /\ state \in {"DATA_READ_TOKEN", "DATA_READ"} =>
       Task = [kind |-> "read", image |-> op.map.image, block |-> op.block, done |-> op.pos]
  /\ Transferring /\ op.on = "image" /\ state \notin {"DATA_READ_TOKEN", "DATA_READ"} =>
       Task = [kind |-> "write", image |-> op.map.image, block |-> op.block, done |-> op.pos]
BY DEF Task, Device!NoTask

LEMMA TaskIsNext ==
  /\ ~(Transferring' /\ op'.on = "image") => Task' = Device!NoTask
  /\ Transferring' /\ op'.on = "image" /\ state' \in {"DATA_READ_TOKEN", "DATA_READ"} =>
       Task' = [kind |-> "read", image |-> op'.map.image, block |-> op'.block, done |-> op'.pos]
  /\ Transferring' /\ op'.on = "image" /\ state' \notin {"DATA_READ_TOKEN", "DATA_READ"} =>
       Task' = [kind |-> "write", image |-> op'.map.image, block |-> op'.block, done |-> op'.pos]
BY DEF Task, Device!NoTask

\* A step that leaves the transfer and the mappings as they were.
DeviceStutters == UNCHANGED <<contents, live, Task>>

LEMMA DeviceQuiet ==
  ASSUME IInv,
         \/ Select \/ FirstByte \/ RequestByte \/ PlainCommand \/ WrongBlockLength
         \/ RegisterCommand \/ ResponseByte \/ TokenByte \/ ReadCrc \/ WriteCrc
         \/ UNCHANGED vars
  PROVE  DeviceStutters
<1>1. UNCHANGED <<contents, live>>
  BY DEF Select, FirstByte, RequestByte, PlainCommand, WrongBlockLength, RegisterCommand, ResponseByte,
         TokenByte, ReadCrc, WriteCrc, Quiet, osVars, vars
<1>2. CASE Select \/ WrongBlockLength \/ UNCHANGED vars
  BY <1>1, <1>2 DEF DeviceStutters, Task, Transferring, Select, WrongBlockLength, spiVars, vars
<1>3. CASE TokenByte
  <2>1. /\ UNCHANGED op
        /\ \/ state = "DATA_READ_TOKEN" /\ state' = "DATA_READ"
           \/ state = "DATA_WRITE_TOKEN" /\ state' = "DATA_WRITE"
    BY <1>3 DEF TokenByte, In
  <2> QED BY <1>1, <2>1 DEF DeviceStutters, Task, Transferring
<1>4. CASE FirstByte \/ RequestByte \/ PlainCommand \/ RegisterCommand \/ ResponseByte \/ ReadCrc \/ WriteCrc
  <2>1. ~Transferring
    BY <1>4 DEF FirstByte, RequestByte, PlainCommand, RegisterCommand, ResponseByte, ReadCrc, WriteCrc,
                FirstResponse, In, Transferring
  <2>2. ~(Transferring' /\ op'.on = "image")
    <3>1. CASE RegisterCommand
      BY <3>1 DEF RegisterCommand
    <3>2. CASE FirstByte \/ RequestByte \/ PlainCommand \/ ResponseByte \/ ReadCrc \/ WriteCrc
      BY <3>2 DEF FirstByte, RequestByte, PlainCommand, ResponseByte, ReadCrc, WriteCrc,
                  FirstResponse, In, Transferring
    <3> QED BY <1>4, <3>1, <3>2
  <2> QED BY <1>1, <2>1, <2>2, TaskIs, TaskIsNext DEF DeviceStutters
<1> QED BY <1>2, <1>3, <1>4

LEMMA DeviceDeselect ==
  ASSUME Deselect
  PROVE  Device!GiveUp
<1>1. ~Transferring' /\ UNCHANGED <<contents, live>>
  BY DEF Deselect, Transferring, Quiet, osVars
<1> QED BY <1>1, TaskIsNext DEF Device!GiveUp, Attached

LEMMA DeviceAccept ==
  ASSUME IInv, ReadBlock \/ WriteBlock
  PROVE  Device!Accept \/ DeviceStutters
<1>1. UNCHANGED <<contents, live>> /\ ~Transferring
  BY DEF ReadBlock, WriteBlock, FirstResponse, In, Transferring, Quiet, osVars
<1>2. CASE state' = "IDLE"
  <2>1. ~Transferring'
    BY <1>2 DEF Transferring
  <2> QED BY <1>1, <2>1, TaskIs, TaskIsNext DEF DeviceStutters
<1>3. CASE state' # "IDLE"
  <2>1. PICK s \in {"DATA_READ_TOKEN", "DATA_WRITE_TOKEN"} :
          Transfer(s) /\ ~(cmd.arg >= Size) /\ cmd.name \in {"CMD17", "CMD24"}
    BY <1>3 DEF ReadBlock, WriteBlock
  <2>2. /\ op'.on = "image" /\ op'.pos = 0 /\ data # NoData /\ data \in live
        /\ op'.map = data /\ op'.block \in Blocks(data.image) /\ state' = s
    BY <2>1, TransferType DEF Transfer
  <2>3. data.image \in Images /\ data.image \in Attached
    BY <2>2 DEF IInv, TypeOK, Mapping, Attached
  <2>4. Transferring'
    BY <2>2 DEF Transferring
  <2>5. PICK k \in {"read", "write"} :
          Task' = [kind |-> k, image |-> data.image, block |-> op'.block, done |-> 0]
    BY <2>2, <2>4, TaskIsNext
  <2>6. Task' \in Device!Task
    BY <2>2, <2>3, <2>5, SdCardAssumption DEF Device!Task, Blocks
  <2> QED BY <1>1, <2>2, <2>3, <2>5, <2>6, TaskIs DEF Device!Accept, Device!Blocks, Blocks, Attached
<1> QED BY <1>2, <1>3

\* What a byte of the data does to the transfer.
LEMMA DeviceAdvance ==
  ASSUME IInv, NEW s \in {"DATA_READ_CRC", "DATA_WRITE_CRC"}, Moved(s), op.on = "image",
         \/ state = "DATA_READ" /\ s = "DATA_READ_CRC"
         \/ state = "DATA_WRITE" /\ s = "DATA_WRITE_CRC"
  PROVE  /\ Device!Advance
         /\ Task = [kind |-> IF state = "DATA_READ" THEN "read" ELSE "write",
                    image |-> op.map.image, block |-> op.block, done |-> op.pos]
<1>1. Transferring
  BY DEF Transferring
<1>2. Task = [kind |-> IF state = "DATA_READ" THEN "read" ELSE "write",
              image |-> op.map.image, block |-> op.block, done |-> op.pos]
  BY <1>1, TaskIs
<1>3. OpSize = BlockSize
  BY DEF OpSize
<1>4. CASE op.pos + 1 = BlockSize
  <2>1. state' = s /\ ~Transferring'
    BY <1>3, <1>4 DEF Moved, Transferring
  <2> QED BY <1>2, <1>4, <2>1, TaskIsNext DEF Device!Advance
<1>5. CASE op.pos + 1 # BlockSize
  <2>1. op' = [op EXCEPT !.pos = @ + 1] /\ UNCHANGED state
    BY <1>3, <1>5 DEF Moved
  <2>2. op' = [on |-> "image", map |-> op.map, block |-> op.block, pos |-> op.pos + 1]
    BY <2>1, OpType DEF IInv
  <2>3. Task' = [kind |-> IF state = "DATA_READ" THEN "read" ELSE "write",
                 image |-> op.map.image, block |-> op.block, done |-> op.pos + 1]
    BY <1>1, <2>1, <2>2, TaskIsNext DEF Transferring
  <2>4. [Task EXCEPT !.done = @ + 1] = Task'
    BY <1>2, <2>3
  <2> QED BY <1>2, <1>5, <2>4 DEF Device!Advance
<1> QED BY <1>2, <1>4, <1>5

LEMMA DeviceRead ==
  ASSUME IInv, ReadByte
  PROVE  Device!ReadByte \/ DeviceStutters
<1>1. UNCHANGED <<contents, live>> /\ Moved("DATA_READ_CRC") /\ state = "DATA_READ"
      /\ op.on \in {"image", "csd", "tmp"}
  BY DEF IInv, OpInv, ReadByte, In, Quiet, osVars
<1>2. CASE op.on = "image"
  BY <1>1, <1>2, DeviceAdvance DEF Device!ReadByte, Attached
<1>3. CASE op.on # "image"
  <2>1. op'.on # "image"
    BY <1>1, <1>3, MovedType
  <2> QED BY <1>1, <1>3, <2>1, TaskIs, TaskIsNext DEF DeviceStutters
<1> QED BY <1>2, <1>3

LEMMA DeviceWrite ==
  ASSUME IInv, NEW b \in Bytes, WriteByte(b)
  PROVE  Device!WriteByte \/ DeviceStutters
<1>1. op.on = "image" /\ state = "DATA_WRITE" /\ op.map \in live
  BY DEF IInv, OpInv, WriteByte, In, OperationMapped, Transferring
<1>2. CASE op.map.w
  <2>1. /\ contents' = [contents EXCEPT ![op.map.image][op.block][op.pos] = b]
        /\ Moved("DATA_WRITE_CRC") /\ UNCHANGED live
    BY <1>2 DEF WriteByte, Quiet, osVars
  <2>2. op.map.image \notin ReadOnly
    BY <1>1, <1>2 DEF IInv, KernelInv
  <2>3. Device!Advance /\ Task = [kind |-> "write", image |-> op.map.image, block |-> op.block, done |-> op.pos]
    BY <1>1, <2>1, DeviceAdvance
  <2>4. contents' = [contents EXCEPT ![Task.image][Task.block][Task.done] = b]
    BY <2>1, <2>3
  <2>5. UNCHANGED Attached /\ Task.kind = "write" /\ Task.image \notin ReadOnly
    BY <2>1, <2>2, <2>3 DEF Attached
  <2> QED BY <2>3, <2>4, <2>5 DEF Device!WriteByte
<1>3. CASE ~op.map.w
  BY <1>3 DEF WriteByte, spiVars, osVars, DeviceStutters, Task, Transferring
<1> QED BY <1>2, <1>3

LEMMA DeviceMount ==
  ASSUME IInv, MountCalled
  PROVE  Device!Attach \/ DeviceStutters
<1>1. PICK i \in Images : Mount(i)
  BY DEF MountCalled
<1>2. CallMount(i)
  BY <1>1 DEF Mount, MountMissing, MountUnreadable, MountWaits, MountEmpty, MountDone, Opening, Accessed
<1>3. UNCHANGED <<contents, Task>>
  BY <1>2 DEF CallMount, spiVars, Task, Transferring
<1>4. CASE MountDone(i)
  <2>1. live' = live \cup {data'} /\ data'.image = i
    BY <1>4 DEF MountDone
  <2>2. Attached' = Attached \cup {i}
    BY <2>1 DEF Attached
  <2> QED BY <1>3, <2>2 DEF Device!Attach
<1>5. CASE ~MountDone(i)
  <2>1. UNCHANGED live
    BY <1>1, <1>5 DEF Mount, MountMissing, MountUnreadable, MountWaits, MountEmpty, osVars
  <2> QED BY <1>3, <2>1 DEF DeviceStutters
<1> QED BY <1>4, <1>5

LEMMA DeviceUnmount ==
  ASSUME IInv, Unmount
  PROVE  Device!Detach \/ Device!GiveUp
<1>1. UNCHANGED contents /\ Task' = Device!NoTask
  <2>1. ~Transferring'
    BY DEF Unmount, Transferring
  <2> QED BY <2>1, TaskIsNext DEF Unmount
<1>2. CASE UNCHANGED Attached
  BY <1>1, <1>2 DEF Device!GiveUp
<1>3. CASE Attached' # Attached
  <2>1. data # NoData /\ live' = live \ {data}
    BY <1>3 DEF Unmount, osVars, Attached
  <2>2. data.image \in Images /\ data \in live
    BY <2>1 DEF IInv, TypeOK, KernelInv, Mapping
  <2>3. Attached' = Attached \ {data.image}
    <3>1. ASSUME NEW j \in Attached, j # data.image PROVE j \in Attached'
      BY <2>1, <3>1 DEF Attached
    <3>2. Attached' \subseteq Attached
      BY <2>1 DEF Attached
    <3>3. data.image \notin Attached'
      BY <1>3, <3>1, <3>2
    <3> QED BY <3>1, <3>2, <3>3
  <2> QED BY <1>1, <2>2, <2>3 DEF Device!Detach
<1> QED BY <1>2, <1>3

LEMMA DeviceStep == IInv /\ [Next]_vars => [Device!Next]_(Device!deviceVars)
<1> SUFFICES ASSUME IInv, [Next]_vars PROVE Device!Next \/ DeviceStutters
  BY DEF DeviceStutters, Attached, Device!deviceVars
<1>1. CASE \/ Select \/ FirstByte \/ RequestByte \/ PlainCommand \/ WrongBlockLength
           \/ RegisterCommand \/ ResponseByte \/ TokenByte \/ ReadCrc \/ WriteCrc
           \/ UNCHANGED vars
  BY <1>1, DeviceQuiet
<1>2. CASE Deselect \/ ReadBlock \/ WriteBlock
  BY <1>2, DeviceDeselect, DeviceAccept DEF Device!Next
<1>3. CASE ReadByte \/ \E b \in Bytes : WriteByte(b)
  BY <1>3, DeviceRead, DeviceWrite DEF Device!Next
<1>4. CASE MountCalled \/ Unmount
  BY <1>4, DeviceMount, DeviceUnmount DEF Device!Next
<1> QED BY <1>1, <1>2, <1>3, <1>4 DEF Next

\* The image files change only by transfers of blocks that the firmware named while the image
\* was mapped, never a protected one and never one that is gone (SDCard.cpp:167-683).
THEOREM Refinement == Spec => DeviceImplemented
<1>1. [][Next]_vars /\ []IInv => [][Device!Next]_(Device!deviceVars)
  BY DeviceStep, PTL
<1> QED BY <1>1, Invariant, DeviceInit, PTL DEF Spec, DeviceImplemented, Device!Spec
=============================================================================
