--------------------- MODULE InstructionSetProofs ---------------------
(***************************************************************************)
(* Every instruction maps a machine to a machine: whatever the raw         *)
(* operation, the registers stay 16-bit words, memory is only touched      *)
(* inside its bounds, and the exit code is a byte.                         *)
(***************************************************************************)
EXTENDS InstructionSet, TLAPS

Memories == UNION {[S -> Word] : S \in SUBSET WordIndex}
RegisterSets == [RegisterId -> Word]
Machines == [reg : RegisterSets, mem : Memories, stdin : Seq(Byte),
             stdout : Seq(Byte), exitCode : Byte,
             result : {"continue", "exit", "abort"}]

----------------------------------------------------------------------------
(* Words. *)

(* Membership in the integer ranges of the C types, as inequalities. *)
LEMMA WordIff == \A n : n \in Word <=> n \in Int /\ 0 <= n /\ n <= 65535
  BY 2^16 = 65536 DEF Word

LEMMA ByteIff == \A n : n \in Byte <=> n \in Int /\ 0 <= n /\ n <= 255
  BY 2^8 = 256 DEF Byte

(* Assigning to a uint16_t leaves a word. *)
LEMMA U16Type == \A n \in Int : U16(n) \in Word
  BY WordIff, 2^16 = 65536 DEF U16

(* A word with one byte replaced. *)
LEMMA HalvesType ==
  ASSUME NEW w \in Word, NEW b \in Byte
  PROVE  WithLow(w, b) \in Word /\ WithHigh(w, b) \in Word
<1>1. LowByte(w) \in Byte /\ HighByte(w) \in Byte
  BY WordIff, ByteIff DEF LowByte, HighByte
<1>2. \A h, l \in Byte : h * 256 + l \in Word
  BY WordIff, ByteIff
<1> QED
  BY <1>1, <1>2 DEF WithLow, WithHigh

(* Every set of bit positions is the ones of some word. *)
LEMMA FromOnesType == ASSUME NEW S PROVE FromOnes(S) \in Word
<1> DEFINE UpTo(n, a) == n \in Int /\ 0 <= n /\ n <= a
<1>1. /\ UpTo(Weight(S, 0), 1) /\ UpTo(Weight(S, 1), 2)
      /\ UpTo(Weight(S, 2), 4) /\ UpTo(Weight(S, 3), 8)
      /\ UpTo(Weight(S, 4), 16) /\ UpTo(Weight(S, 5), 32)
      /\ UpTo(Weight(S, 6), 64) /\ UpTo(Weight(S, 7), 128)
      /\ UpTo(Weight(S, 8), 256) /\ UpTo(Weight(S, 9), 512)
      /\ UpTo(Weight(S, 10), 1024) /\ UpTo(Weight(S, 11), 2048)
      /\ UpTo(Weight(S, 12), 4096) /\ UpTo(Weight(S, 13), 8192)
      /\ UpTo(Weight(S, 14), 16384) /\ UpTo(Weight(S, 15), 32768)
  BY DEF Weight
<1> DEFINE low == Weight(S, 0) + Weight(S, 1) + Weight(S, 2) + Weight(S, 3)
                    + Weight(S, 4) + Weight(S, 5) + Weight(S, 6) + Weight(S, 7)
<1>2. UpTo(low, 255)
  BY <1>1
<1>3. FromOnes(S) = low + Weight(S, 8) + Weight(S, 9) + Weight(S, 10)
                        + Weight(S, 11) + Weight(S, 12) + Weight(S, 13)
                        + Weight(S, 14) + Weight(S, 15)
  BY DEF FromOnes
<1> HIDE DEF low
<1>4. UpTo(FromOnes(S), 65535)
  BY <1>1, <1>2, <1>3
<1> QED
  BY <1>4, WordIff

LEMMA BitwiseType ==
  ASSUME NEW x \in Word, NEW y \in Word
  PROVE  /\ BitAnd(x, y) \in Word
         /\ BitOr(x, y) \in Word
         /\ BitXor(x, y) \in Word
         /\ BitNot(x) \in Word
<1>1. BitNot(x) \in Word
  BY WordIff, 2^16 = 65536 DEF BitNot
<1> QED
  BY <1>1, FromOnesType DEF BitAnd, BitOr, BitXor

LEMMA PowerPositive == ASSUME NEW s \in 0 .. 15 PROVE 2^s \in Int /\ 2^s > 0
<1>a. CASE s = 0 BY <1>a
<1>b. CASE s = 1 BY <1>b
<1>c. CASE s = 2 BY <1>c
<1>d. CASE s = 3 BY <1>d
<1>e. CASE s = 4 BY <1>e
<1>f. CASE s = 5 BY <1>f
<1>g. CASE s = 6 BY <1>g
<1>h. CASE s = 7 BY <1>h
<1>i. CASE s = 8 BY <1>i
<1>j. CASE s = 9 BY <1>j
<1>k. CASE s = 10 BY <1>k
<1>l. CASE s = 11 BY <1>l
<1>m. CASE s = 12 BY <1>m
<1>n. CASE s = 13 BY <1>n
<1>o. CASE s = 14 BY <1>o
<1>p. CASE s = 15 BY <1>p
<1> QED
  BY <1>a, <1>b, <1>c, <1>d, <1>e, <1>f, <1>g, <1>h,
     <1>i, <1>j, <1>k, <1>l, <1>m, <1>n, <1>o, <1>p

LEMMA ShiftType ==
  ASSUME NEW x \in Word, NEW s \in 0 .. 15
  PROVE  ShiftLeft(x, s) \in Word /\ ShiftRight(x, s) \in Word
<1>1. \A p \in Int : p > 0 => x * p \in Int /\ x \div p \in Word
  BY WordIff
<1> QED
  BY PowerPositive, <1>1, U16Type DEF ShiftLeft, ShiftRight

(* The operand fields of an instruction. *)
LEMMA FieldTypes ==
  ASSUME NEW raw \in Word
  PROVE  /\ FirstRX(raw) \in 0 .. 7
         /\ SecondRX(raw) \in 0 .. 7
         /\ Bits(raw, 1, 3) \in 0 .. 7
         /\ Bits(raw, 9, 3) \in 0 .. 7
         /\ Bits(raw, 6, 3) \in 0 .. 7
         /\ Bits(raw, 3, 3) \in 0 .. 7
         /\ Imm4(raw) \in 0 .. 15
         /\ OnlyRS(raw) \in 0 .. 15
         /\ Bits(raw, 8, 4) \in 0 .. 15
         /\ Bits(raw, 0, 8) \in Byte
         /\ BigDelta(raw) \in Byte
         /\ CallDelta(raw) \in Byte
<1>1. \A n \in Int : n % 8 \in 0 .. 7 /\ n % 16 \in 0 .. 15 /\ n % 256 \in Byte
  BY ByteIff
<1>2. /\ 2^3 = 8 /\ 2^4 = 16 /\ 2^8 = 256
      /\ raw \div 2^0 \in Int /\ raw \div 2^1 \in Int /\ raw \div 2^2 \in Int
      /\ raw \div 2^3 \in Int /\ raw \div 2^4 \in Int /\ raw \div 2^5 \in Int
      /\ raw \div 2^6 \in Int /\ raw \div 2^8 \in Int /\ raw \div 2^9 \in Int
  BY WordIff
<1> QED
  BY <1>1, <1>2 DEF FirstRX, SecondRX, Imm4, OnlyRS, BigDelta, CallDelta, Bits

----------------------------------------------------------------------------
(* Memory and machines. *)

LEMMA WordIndexIff == \A n : n \in WordIndex <=> n \in Int /\ 0 <= n /\ n <= 32767
  BY 2^15 = 32768 DEF WordIndex, MEMORY_SIZE

(* The invariant TLC can evaluate says that memory is in the set the       *)
(* proofs use.                                                             *)
LEMMA IsMemoryIff == \A mem : IsMemory(mem) <=> mem \in Memories
  BY DEF IsMemory, Memories

LEMMA ReadType ==
  ASSUME NEW mem \in Memories, NEW n \in WordIndex PROVE Read(mem, n) \in Word
<1>1. PICK S \in SUBSET WordIndex : mem \in [S -> Word]
  BY DEF Memories
<1> QED
  BY <1>1, WordIff DEF Read

LEMMA WrittenType ==
  ASSUME NEW mem \in Memories, NEW n \in WordIndex, NEW w \in Word
  PROVE  Written(mem, n, w) \in Memories
<1>1. PICK S \in SUBSET WordIndex : mem \in [S -> Word]
  BY DEF Memories
<1>2. Written(mem, n, w) \in [S \cup {n} -> Word]
  BY <1>1 DEF Written
<1>3. S \cup {n} \in SUBSET WordIndex
  BY <1>1
<1> QED
  BY <1>2, <1>3 DEF Memories

(* An address in a register is always the address of a word of memory. *)
LEMMA AddressType == \A a \in Word : a \div 2 \in WordIndex
  BY WordIff, WordIndexIff

LEMMA RegisterIds == /\ SP_ID \in RegisterId /\ IP_ID \in RegisterId
                     /\ \A r \in 0 .. 7 : r \in RegisterId
                     /\ \A r \in 0 .. 15 : r % 8 \in RegisterId
  BY DEF SP_ID, IP_ID, RegisterId

(* The steps instructions are made of keep a machine a machine. *)
LEMMA RegType ==
  ASSUME NEW m \in Machines, NEW r \in RegisterId PROVE Reg(m, r) \in Word
  BY DEF Machines, RegisterSets, Reg

LEMMA SetRegType ==
  ASSUME NEW m \in Machines, NEW r \in RegisterId, NEW w \in Word
  PROVE  SetReg(m, r, w) \in Machines
  BY DEF Machines, RegisterSets, SetReg

LEMMA AtAddressType ==
  ASSUME NEW m \in Machines, NEW a \in Word PROVE AtAddress(m, a) \in Word
<1>1. a \div 2 \in WordIndex /\ m.mem \in Memories
  BY AddressType DEF Machines
<1> QED
  BY <1>1, ReadType DEF AtAddress

LEMMA SetAtAddressType ==
  ASSUME NEW m \in Machines, NEW a \in Word, NEW w \in Word
  PROVE  SetAtAddress(m, a, w) \in Machines
<1>1. a \div 2 \in WordIndex /\ m.mem \in Memories
  BY AddressType DEF Machines
<1>2. Written(m.mem, a \div 2, w) \in Memories
  BY <1>1, WrittenType
<1> QED
  BY <1>2 DEF Machines, SetAtAddress

LEMMA HalfType ==
  ASSUME NEW m \in Machines, NEW rs \in 0 .. 15 PROVE Half(m, rs) \in Byte
<1>1. Reg(m, rs % 8) \in Word
  BY RegisterIds, RegType
<1>2. \A w \in Word : LowByte(w) \in Byte /\ HighByte(w) \in Byte
  BY WordIff, ByteIff DEF LowByte, HighByte
<1> QED
  BY <1>1, <1>2 DEF Half

LEMMA SetHalfType ==
  ASSUME NEW m \in Machines, NEW rs \in 0 .. 15, NEW b \in Byte
  PROVE  SetHalf(m, rs, b) \in Machines
<1>1. rs % 8 \in RegisterId
  BY RegisterIds
<1>2. Reg(m, rs % 8) \in Word
  BY <1>1, RegType
<1> QED
  BY <1>1, <1>2, HalvesType, SetRegType DEF SetHalf

LEMMA EndTypes ==
  ASSUME NEW m \in Machines
  PROVE  /\ Fail(m) \in Machines
         /\ Abort(m) \in Machines
         /\ Continue(m) \in Machines
         /\ Submit(m) \in Machines
         /\ IncreaseSP(m) \in Machines
<1>0. 1 \in Byte
  BY ByteIff
<1>1. Fail(m) \in Machines /\ Abort(m) \in Machines
  BY <1>0 DEF Machines, Fail, Abort
<1>2. \A x \in Machines : Continue(x) \in Machines
  BY DEF Machines, Continue
<1>3. \A r \in RegisterId : SetReg(m, r, U16(Reg(m, r) + 2)) \in Machines
  <2> TAKE r \in RegisterId
  <2>1. Reg(m, r) \in Word
    BY RegType
  <2>2. U16(Reg(m, r) + 2) \in Word
    BY <2>1, WordIff, U16Type
  <2> QED
    BY <2>2, SetRegType
<1> QED
  BY <1>1, <1>2, <1>3, RegisterIds DEF Submit, IncreaseSP

LEMMA AdjustIPType ==
  ASSUME NEW m \in Machines, NEW delta \in Byte
  PROVE  AdjustIP(m, delta) \in Machines
<1> DEFINE target == Reg(m, IP_ID) + 2 * S8(delta)
<1>1. target \in Int
  <2>1. Reg(m, IP_ID) \in Word
    BY RegType, RegisterIds
  <2>2. S8(delta) \in Int
    BY ByteIff DEF S8
  <2> QED
    BY <2>1, <2>2, WordIff
<1> HIDE DEF target
<1>2. SetReg(m, IP_ID, U16(target)) \in Machines
  BY <1>1, U16Type, SetRegType, RegisterIds
<1>3. Continue(SetReg(m, IP_ID, U16(target))) \in Machines
  BY <1>2, EndTypes
<1> QED
  BY <1>3, EndTypes DEF AdjustIP, target

LEMMA PushTypes ==
  ASSUME NEW m \in Machines, NEW w \in Word, ~CannotPush(m)
  PROVE  Lowered(m) \in Machines /\ StoreOnTop(Lowered(m), w) \in Machines
<1>1. Reg(m, SP_ID) \in Word
  BY RegType, RegisterIds
<1>2. Reg(m, SP_ID) - 2 \in Word
  BY <1>1, WordIff DEF CannotPush
<1>3. Lowered(m) \in Machines
  BY <1>2, SetRegType, RegisterIds DEF Lowered
<1>4. Reg(Lowered(m), SP_ID) \in Word
  BY <1>3, RegType, RegisterIds
<1> QED
  BY <1>3, <1>4, SetAtAddressType DEF StoreOnTop

----------------------------------------------------------------------------
(* The instructions. *)

LEMMA OperandTypes ==
  ASSUME NEW raw \in Word, NEW m \in Machines
  PROVE  /\ Reg(m, FirstRX(raw)) \in Word
         /\ Reg(m, SecondRX(raw)) \in Word
         /\ \A w \in Word : Submit(SetReg(m, FirstRX(raw), w)) \in Machines
<1>1. FirstRX(raw) \in RegisterId /\ SecondRX(raw) \in RegisterId
  BY FieldTypes, RegisterIds
<1>2. \A w \in Word : Submit(SetReg(m, FirstRX(raw), w)) \in Machines
  BY <1>1, SetRegType, EndTypes
<1> QED
  BY <1>1, <1>2, RegType

(* The instructions that compute a register from registers. *)
LEMMA ArithmeticTypes ==
  ASSUME NEW raw \in Word, NEW m \in Machines
  PROVE  /\ Execute_xor(raw, m) \in Machines
         /\ Execute_or(raw, m) \in Machines
         /\ Execute_and(raw, m) \in Machines
         /\ Execute_sub(raw, m) \in Machines
         /\ Execute_add(raw, m) \in Machines
         /\ Execute_mul(raw, m) \in Machines
         /\ Execute_div(raw, m) \in Machines
<1> DEFINE a == Reg(m, FirstRX(raw))
           b == Reg(m, SecondRX(raw))
<1>1. a \in Word /\ b \in Word
  BY OperandTypes
<1>2. \A w \in Word : Submit(SetReg(m, FirstRX(raw), w)) \in Machines
  BY OperandTypes
<1>3. \A x, y \in Word : /\ U16(x - y) \in Word
                         /\ U16(x + y) \in Word
                         /\ y # 0 => x \div y \in Word
  BY WordIff, U16Type
<1>4. \A x, y \in Word : x * y \in Int
  BY WordIff
<1>5. U16(a * b) \in Word
  BY <1>1, <1>4, U16Type
<1>6. Submit(SetReg(m, FirstRX(raw), U16(a * b))) \in Machines
  BY <1>2, <1>5
<1>7. Execute_mul(raw, m) \in Machines
  BY <1>6, EndTypes DEF Execute_mul, Arithmetic
<1>8. Execute_div(raw, m) \in Machines
  BY <1>1, <1>2, <1>3, EndTypes DEF Execute_div, Arithmetic
<1>9. Execute_sub(raw, m) \in Machines /\ Execute_add(raw, m) \in Machines
  BY <1>1, <1>2, <1>3 DEF Execute_sub, Execute_add, Arithmetic
<1>10. /\ BitXor(a, b) \in Word /\ BitOr(a, b) \in Word /\ BitAnd(a, b) \in Word
  BY <1>1, BitwiseType
<1>11. /\ Execute_xor(raw, m) \in Machines
       /\ Execute_or(raw, m) \in Machines
       /\ Execute_and(raw, m) \in Machines
  BY <1>2, <1>10 DEF Execute_xor, Execute_or, Execute_and, Arithmetic
<1> QED
  BY <1>7, <1>8, <1>9, <1>11

LEMMA RegisterTypes ==
  ASSUME NEW raw \in Word, NEW m \in Machines
  PROVE  /\ Execute_movv(raw, m) \in Machines
         /\ Execute_movr(raw, m) \in Machines
         /\ Execute_not(raw, m) \in Machines
         /\ Execute_shl(raw, m) \in Machines
         /\ Execute_shr(raw, m) \in Machines
         /\ Execute_nop(raw, m) \in Machines
<1>1. Execute_movv(raw, m) \in Machines
  BY FieldTypes, SetHalfType, EndTypes DEF Execute_movv
<1>2. Execute_movr(raw, m) \in Machines
  BY OperandTypes DEF Execute_movr
<1>3. Execute_not(raw, m) \in Machines
  BY OperandTypes, BitwiseType DEF Execute_not
<1>4. Execute_shl(raw, m) \in Machines /\ Execute_shr(raw, m) \in Machines
  BY OperandTypes, FieldTypes, ShiftType DEF Execute_shl, Execute_shr
<1> QED
  BY <1>1, <1>2, <1>3, <1>4, EndTypes DEF Execute_nop

LEMMA JumpTypes ==
  ASSUME NEW raw \in Word, NEW m \in Machines
  PROVE  /\ Execute_jne(raw, m) \in Machines
         /\ Execute_je(raw, m) \in Machines
         /\ Execute_jmp(raw, m) \in Machines
         /\ Execute_call(raw, m) \in Machines
         /\ Execute_ret(raw, m) \in Machines
<1>1. /\ Execute_jne(raw, m) \in Machines
      /\ Execute_je(raw, m) \in Machines
      /\ Execute_jmp(raw, m) \in Machines
  BY FieldTypes, AdjustIPType, EndTypes DEF Execute_jne, Execute_je, Execute_jmp
<1>2. Execute_call(raw, m) \in Machines
  <2>1. U16(Reg(m, IP_ID) + 2) \in Word
    BY RegType, RegisterIds, WordIff, U16Type
  <2>2. ~CannotPush(m) =>
           StoreOnTop(Lowered(m), U16(Reg(m, IP_ID) + 2)) \in Machines
    BY <2>1, PushTypes
  <2> QED
    BY <2>2, FieldTypes, AdjustIPType, EndTypes DEF Execute_call
<1>3. Execute_ret(raw, m) \in Machines
  <2>1. AtAddress(m, Reg(m, SP_ID)) \in Word
    BY RegType, RegisterIds, AtAddressType
  <2>2. SetReg(m, IP_ID, AtAddress(m, Reg(m, SP_ID))) \in Machines
    BY <2>1, SetRegType, RegisterIds
  <2> QED
    BY <2>2, EndTypes DEF Execute_ret
<1> QED
  BY <1>1, <1>2, <1>3

LEMMA MemoryInstructionTypes ==
  ASSUME NEW raw \in Word, NEW m \in Machines
  PROVE  /\ Execute_cmpxchg(raw, m) \in Machines
         /\ Execute_mov1(raw, m) \in Machines
         /\ Execute_mov2(raw, m) \in Machines
         /\ Execute_push(raw, m) \in Machines
         /\ Execute_pop(raw, m) \in Machines
<1>1. Execute_cmpxchg(raw, m) \in Machines
  <2> DEFINE address == Reg(m, Bits(raw, 9, 3))
             expected == Reg(m, Bits(raw, 6, 3))
             c == Bits(raw, 3, 3)
  <2>1. c \in RegisterId
    BY FieldTypes, RegisterIds
  <2>2. address \in Word /\ expected \in Word /\ Reg(m, c) \in Word
    BY <2>1, FieldTypes, RegisterIds, RegType
  <2>3. SetAtAddress(m, address, Reg(m, c)) \in Machines
    BY <2>2, SetAtAddressType
  <2>4. SetReg(SetAtAddress(m, address, Reg(m, c)), c, expected) \in Machines
    BY <2>1, <2>2, <2>3, SetRegType
  <2> QED
    BY <2>4, EndTypes DEF Execute_cmpxchg, Exchanged
<1>2. Execute_mov1(raw, m) \in Machines
  BY OperandTypes, SetAtAddressType, EndTypes DEF Execute_mov1
<1>3. Execute_mov2(raw, m) \in Machines
  BY OperandTypes, AtAddressType, EndTypes DEF Execute_mov2
<1>4. Execute_push(raw, m) \in Machines
  <2>1. ~CannotPush(m) => Lowered(m) \in Machines
    BY PushTypes, U16Type
  <2>2. ~CannotPush(m) => Reg(Lowered(m), FirstRX(raw)) \in Word
    BY <2>1, OperandTypes
  <2> QED
    BY <2>2, PushTypes, EndTypes DEF Execute_push
<1>5. Execute_pop(raw, m) \in Machines
  <2>1. AtAddress(m, Reg(m, SP_ID)) \in Word
    BY RegType, RegisterIds, AtAddressType
  <2>2. SetReg(m, FirstRX(raw), AtAddress(m, Reg(m, SP_ID))) \in Machines
    BY <2>1, FieldTypes, SetRegType, RegisterIds
  <2> QED
    BY <2>2, EndTypes DEF Execute_pop
<1> QED
  BY <1>1, <1>2, <1>3, <1>4, <1>5

LEMMA StreamTypes ==
  ASSUME NEW raw \in Word, NEW m \in Machines
  PROVE  /\ Execute_out(raw, m) \in Machines
         /\ Execute_in(raw, m) \in Machines
         /\ Execute_reset(raw, m) \in Machines
<1>1. OnlyRS(raw) \in 0 .. 15
  BY FieldTypes
<1>2. Execute_out(raw, m) \in Machines
  <2>1. Half(m, OnlyRS(raw)) \in Byte
    BY <1>1, HalfType
  <2>2. Append(m.stdout, Half(m, OnlyRS(raw))) \in Seq(Byte)
    BY <2>1 DEF Machines
  <2>3. [m EXCEPT !.stdout = Append(@, Half(m, OnlyRS(raw)))] \in Machines
    BY <2>2 DEF Machines
  <2> QED
    BY <2>3, EndTypes DEF Execute_out
<1>3. Execute_in(raw, m) \in Machines
  <2>1. CASE m.stdin = << >>
    BY <2>1, EndTypes DEF Execute_in
  <2>2. CASE m.stdin # << >>
    <3>1. Head(m.stdin) \in Byte /\ Tail(m.stdin) \in Seq(Byte)
      BY <2>2 DEF Machines
    <3>2. PICK x \in Machines : x = SetHalf(m, OnlyRS(raw), Head(m.stdin))
      BY <1>1, <3>1, SetHalfType
    <3>3. x.stdin = m.stdin
      BY <3>2 DEF SetHalf, SetReg, Machines
    <3>4. [x EXCEPT !.stdin = Tail(@)] \in Machines
      BY <3>1, <3>3 DEF Machines
    <3> QED
      BY <2>2, <3>2, <3>4, EndTypes DEF Execute_in
  <2> QED
    BY <2>1, <2>2
<1>4. Execute_reset(raw, m) \in Machines
  <2>1. Half(m, 0) \in Byte
    BY HalfType
  <2> QED
    BY <2>1 DEF Execute_reset, Machines
<1> QED
  BY <1>2, <1>3, <1>4

LEMMA InstructionIds ==
  ASSUME NEW raw \in Word, GetInstructionId(raw) # INVALID_INSTRUCTION_ID
  PROVE  GetInstructionId(raw) \in 0 .. 25
  BY WordIff, 2^3 = 8, 2^12 = 4096
     DEF GetInstructionId, Bits, BIG_INSTRUCTION_CNT, INSTRUCTION_CNT,
         INVALID_INSTRUCTION_ID

(* Whatever the raw operation, running the instruction it names leaves a   *)
(* machine: no register leaves 16 bits and no access leaves memory.        *)
THEOREM ExecuteType ==
  ASSUME NEW raw \in Word, NEW m \in Machines,
         GetInstructionId(raw) # INVALID_INSTRUCTION_ID
  PROVE  Execute(raw, m) \in Machines
<1> DEFINE id == GetInstructionId(raw)
<1>1. id \in 0 .. 25
  BY InstructionIds
<1> HIDE DEF id
<1> QED
  BY <1>1, ArithmeticTypes, RegisterTypes, JumpTypes, MemoryInstructionTypes,
     StreamTypes
     DEF Execute, id

----------------------------------------------------------------------------
(* What an instruction that ends its subprocess leaves in the exit code.   *)

(* An instruction that exits leaves 1. *)
LeavesOne(n) == n.result = "exit" => n.exitCode = 1
HasEnd(m) == {"result", "exitCode"} \subseteq DOMAIN m

LEMMA StepsKeepEnd ==
  ASSUME NEW m, HasEnd(m)
  PROVE  /\ \A r, w : HasEnd(SetReg(m, r, w))
         /\ \A a, w : HasEnd(SetAtAddress(m, a, w))
         /\ \A rs, b : HasEnd(SetHalf(m, rs, b))
         /\ HasEnd(Lowered(m)) /\ HasEnd(IncreaseSP(m))
         /\ \A bytes : HasEnd([m EXCEPT !.stdin = bytes])
         /\ \A bytes : HasEnd([m EXCEPT !.stdout = bytes])
<1>1. \A r, w : HasEnd(SetReg(m, r, w))
  BY DEF HasEnd, SetReg
<1>2. \A a, w : HasEnd(SetAtAddress(m, a, w))
  BY DEF HasEnd, SetAtAddress
<1>3. \A bytes : HasEnd([m EXCEPT !.stdin = bytes])
  BY DEF HasEnd
<1>4. \A bytes : HasEnd([m EXCEPT !.stdout = bytes])
  BY DEF HasEnd
<1> QED
  BY <1>1, <1>2, <1>3, <1>4 DEF SetHalf, Lowered, IncreaseSP

LEMMA EndsLeaveOne ==
  ASSUME NEW m, HasEnd(m)
  PROVE  /\ LeavesOne(Fail(m)) /\ LeavesOne(Abort(m))
         /\ LeavesOne(Continue(m)) /\ LeavesOne(Submit(m))
         /\ \A delta : LeavesOne(AdjustIP(m, delta))
<1>1. LeavesOne(Fail(m)) /\ LeavesOne(Abort(m))
  BY DEF HasEnd, LeavesOne, Fail, Abort
<1>2. \A n : HasEnd(n) => LeavesOne(Continue(n))
  BY DEF HasEnd, LeavesOne, Continue
<1>3. \A r, w : LeavesOne(Continue(SetReg(m, r, w)))
  BY <1>2, StepsKeepEnd
<1> QED
  BY <1>1, <1>2, <1>3 DEF Submit, AdjustIP

(* Every instruction but reset: what it changes before it ends has no part *)
(* in how it ends.                                                         *)
LEMMA ArithmeticLeavesOne ==
  ASSUME NEW m, HasEnd(m), NEW raw
  PROVE  /\ LeavesOne(Execute_xor(raw, m)) /\ LeavesOne(Execute_sub(raw, m))
         /\ LeavesOne(Execute_or(raw, m)) /\ LeavesOne(Execute_mul(raw, m))
         /\ LeavesOne(Execute_div(raw, m)) /\ LeavesOne(Execute_and(raw, m))
         /\ LeavesOne(Execute_add(raw, m))
<1>1. \A r, w : LeavesOne(Submit(SetReg(m, r, w)))
  BY StepsKeepEnd, EndsLeaveOne
<1> QED
  BY <1>1, EndsLeaveOne
     DEF Arithmetic, Execute_xor, Execute_sub, Execute_or, Execute_mul,
         Execute_div, Execute_and, Execute_add

LEMMA OthersLeaveOne ==
  ASSUME NEW m, HasEnd(m), NEW raw
  PROVE  /\ LeavesOne(Execute_movv(raw, m)) /\ LeavesOne(Execute_movr(raw, m))
         /\ LeavesOne(Execute_shr(raw, m)) /\ LeavesOne(Execute_shl(raw, m))
         /\ LeavesOne(Execute_not(raw, m)) /\ LeavesOne(Execute_nop(raw, m))
         /\ LeavesOne(Execute_jne(raw, m)) /\ LeavesOne(Execute_je(raw, m))
         /\ LeavesOne(Execute_jmp(raw, m)) /\ LeavesOne(Execute_call(raw, m))
         /\ LeavesOne(Execute_ret(raw, m)) /\ LeavesOne(Execute_cmpxchg(raw, m))
         /\ LeavesOne(Execute_mov1(raw, m)) /\ LeavesOne(Execute_mov2(raw, m))
         /\ LeavesOne(Execute_push(raw, m)) /\ LeavesOne(Execute_pop(raw, m))
         /\ LeavesOne(Execute_out(raw, m)) /\ LeavesOne(Execute_in(raw, m))
<1>1. \A n : HasEnd(n) => LeavesOne(Submit(n)) /\ LeavesOne(Continue(n))
                          /\ \A delta : LeavesOne(AdjustIP(n, delta))
  BY EndsLeaveOne
<1>2. LeavesOne(Fail(m))
  BY EndsLeaveOne
<1>3. \A word : HasEnd(StoreOnTop(Lowered(m), word))
  BY StepsKeepEnd DEF StoreOnTop
<1>4. \A r, word : HasEnd(IncreaseSP(SetReg(m, r, word)))
  BY StepsKeepEnd
<1>5. \A a, e, c : HasEnd(Exchanged(m, a, e, c))
  BY StepsKeepEnd DEF Exchanged
<1>6. LeavesOne(Execute_in(raw, m))
  <2> DEFINE n == SetHalf(m, OnlyRS(raw), Head(m.stdin))
  <2>1. HasEnd(n)
    BY StepsKeepEnd
  <2> HIDE DEF n
  <2>2. HasEnd([n EXCEPT !.stdin = Tail(@)])
    BY <2>1 DEF HasEnd
  <2> QED
    BY <1>1, <2>2 DEF Execute_in, n
<1>7. LeavesOne(Execute_out(raw, m))
  BY <1>1, StepsKeepEnd DEF Execute_out
<1>8. /\ LeavesOne(Execute_movv(raw, m)) /\ LeavesOne(Execute_movr(raw, m))
      /\ LeavesOne(Execute_shr(raw, m)) /\ LeavesOne(Execute_shl(raw, m))
      /\ LeavesOne(Execute_not(raw, m)) /\ LeavesOne(Execute_nop(raw, m))
  BY <1>1, StepsKeepEnd
     DEF Execute_movv, Execute_movr, Execute_shr, Execute_shl, Execute_not,
         Execute_nop
<1>9. /\ LeavesOne(Execute_jne(raw, m)) /\ LeavesOne(Execute_je(raw, m))
      /\ LeavesOne(Execute_jmp(raw, m)) /\ LeavesOne(Execute_call(raw, m))
      /\ LeavesOne(Execute_ret(raw, m))
  BY <1>1, <1>2, <1>3, <1>4
     DEF Execute_jne, Execute_je, Execute_jmp, Execute_call, Execute_ret
<1>10. /\ LeavesOne(Execute_cmpxchg(raw, m)) /\ LeavesOne(Execute_mov1(raw, m))
       /\ LeavesOne(Execute_mov2(raw, m)) /\ LeavesOne(Execute_push(raw, m))
       /\ LeavesOne(Execute_pop(raw, m))
  BY <1>1, <1>2, <1>3, <1>4, <1>5, StepsKeepEnd
     DEF Execute_cmpxchg, Execute_mov1, Execute_mov2, Execute_push, Execute_pop
<1> QED
  BY <1>6, <1>7, <1>8, <1>9, <1>10

(* The exit code of an instruction that exits is the low byte of register  *)
(* 0 for reset and 1 for any other; the code an earlier exit left in the   *)
(* global is never taken for it.                                           *)
LEMMA ExitCodeOfExecute ==
  ASSUME NEW raw \in Word, NEW m \in Machines,
         GetInstructionId(raw) # INVALID_INSTRUCTION_ID,
         Execute(raw, m).result = "exit"
  PROVE  Execute(raw, m).exitCode =
             IF GetInstructionId(raw) = 24 THEN LowByte(Reg(m, 0)) ELSE 1
<1>1. HasEnd(m)
  BY DEF HasEnd, Machines
<1> DEFINE id == GetInstructionId(raw)
<1>2. id \in 0 .. 25
  BY InstructionIds
<1>3. CASE id = 24
  <2>1. Execute(raw, m) = Execute_reset(raw, m)
    BY <1>3 DEF Execute
  <2>2. Half(m, 0) = LowByte(Reg(m, 0))
    BY DEF Half
  <2> QED
    BY <1>1, <1>3, <2>1, <2>2 DEF Execute_reset, HasEnd
<1>4. CASE id # 24
  <2> HIDE DEF id
  <2>1. LeavesOne(Execute(raw, m))
    BY <1>1, <1>2, <1>4, ArithmeticLeavesOne, OthersLeaveOne DEF Execute, id
  <2> QED
    BY <1>4, <2>1 DEF LeavesOne, id
<1> QED
  BY <1>3, <1>4
======================================================================
