------------------------ MODULE InstructionSet ------------------------
(***************************************************************************)
(* The instruction set of the vm (instruction_set.c): what one instruction *)
(* does to the machine it runs on.                                         *)
(*                                                                         *)
(* A machine is a record                                                   *)
(*   reg      the register set of the running subprocess, SP and IP        *)
(*            included,                                                    *)
(*   mem      the memory all subprocesses share; a word that was never     *)
(*            written is zero and is not in the function's domain,         *)
(*   stdin    the bytes still to be read, stdout the bytes written,        *)
(*   exitCode the global InstructionSet_ExitCode,                          *)
(*   result   "continue" when the instruction returned true, "exit" when   *)
(*            it returned false, "abort" when the sanitizers the vm is     *)
(*            always built with stop the whole program.                    *)
(* Every Execute_X maps a machine and the raw operation to a machine.      *)
(***************************************************************************)
EXTENDS Words, Sequences

RegisterId == 0 .. 8
SP_ID == 7
IP_ID == 8
MEMORY_SIZE == 2^15             \* in words
WordIndex == 0 .. MEMORY_SIZE - 1
INT_MAX == 2147483647

BIG_INSTRUCTION_CNT == 5
INSTRUCTION_CNT == 26
INVALID_INSTRUCTION_ID == 256

----------------------------------------------------------------------------
(* Memory. *)

Read(mem, index) == IF index \in DOMAIN mem THEN mem[index] ELSE 0

Written(mem, index, word) ==
    [w \in DOMAIN mem \cup {index} |-> IF w = index THEN word ELSE mem[w]]

IsMemory(mem) ==
    /\ DOMAIN mem \subseteq WordIndex
    /\ mem = [w \in DOMAIN mem |-> mem[w]]
    /\ \A w \in DOMAIN mem : mem[w] \in Word

----------------------------------------------------------------------------
(* Steps every instruction is made of. *)

Reg(m, r) == m.reg[r]
SetReg(m, r, word) == [m EXCEPT !.reg = [@ EXCEPT ![r] = word]]

(* ACCESS_MEMORY takes a byte address. *)
AtAddress(m, address) == Read(m.mem, address \div 2)

(* Fault: a store takes the address for the index of a word. *)
SetAtIndex(m, address, word) == [m EXCEPT !.mem = Written(@, address, word)]

SetAtAddress(m, address, word) ==
    [m EXCEPT !.mem = Written(@, address \div 2, word)]
Unaligned(address) == address % 2 = 1

(* RS_PTR: ids 0 to 7 name the low byte of a register, 8 to 15 the high. *)
Half(m, rs) == IF rs >= 8 THEN HighByte(Reg(m, rs % 8)) ELSE LowByte(Reg(m, rs % 8))
SetHalf(m, rs, byte) ==
    LET r == rs % 8
    IN  SetReg(m, r, IF rs >= 8 THEN WithHigh(Reg(m, r), byte)
                                ELSE WithLow(Reg(m, r), byte))

(* Fault: the exit code of an earlier exit is left in place. *)
FailKeepingCode(m) == [m EXCEPT !.result = "exit"]

Fail(m) == [m EXCEPT !.exitCode = 1, !.result = "exit"]
Abort(m) == [m EXCEPT !.result = "abort"]
Continue(m) == [m EXCEPT !.result = "continue"]

(* SUBMIT_INSTRUCTION.  Its test IP + 2u == 0u is made in unsigned int,    *)
(* where it never holds; the 16-bit register then wraps.                   *)
Submit(m) == Continue(SetReg(m, IP_ID, U16(Reg(m, IP_ID) + 2)))

(* INCREASE_SP.  Its test is made in unsigned int too. *)
IncreaseSP(m) == SetReg(m, SP_ID, U16(Reg(m, SP_ID) + 2))

(* AdjustIP lets the address one past the memory through; it wraps to 0. *)
AdjustIP(m, delta) ==
    LET target == Reg(m, IP_ID) + 2 * S8(delta)
    IN  IF target < 0 \/ target > 2 * MEMORY_SIZE
        THEN Fail(m)
        ELSE Continue(SetReg(m, IP_ID, U16(target)))

(* CHECK_SP_ALIGNMENT, DECREASE_SP and the store at the new SP; the value  *)
(* is read after SP has moved.                                             *)
CannotPush(m) == Unaligned(Reg(m, SP_ID)) \/ Reg(m, SP_ID) < 2
Lowered(m) == SetReg(m, SP_ID, Reg(m, SP_ID) - 2)
StoreOnTop(m, word) == SetAtAddress(m, Reg(m, SP_ID), word)

----------------------------------------------------------------------------
(* Operand fields. *)

FirstRX(raw) == Bits(raw, 5, 3)
SecondRX(raw) == Bits(raw, 2, 3)
Imm4(raw) == Bits(raw, 1, 4)
OnlyRS(raw) == Bits(raw, 4, 4)
BigDelta(raw) == Bits(raw, 4, 8)
CallDelta(raw) == Bits(raw, 0, 8)

(* An instruction a := op(a, b) on registers. *)
Arithmetic(raw, m, op(_, _)) ==
    Submit(SetReg(m, FirstRX(raw),
                  op(Reg(m, FirstRX(raw)), Reg(m, SecondRX(raw)))))

----------------------------------------------------------------------------
(* The instructions. *)

Execute_movv(raw, m) == Submit(SetHalf(m, Bits(raw, 8, 4), Bits(raw, 0, 8)))

Execute_jne(raw, m) ==
    IF Reg(m, Bits(raw, 1, 3)) # 0 THEN AdjustIP(m, BigDelta(raw)) ELSE Submit(m)

Execute_je(raw, m) ==
    IF Reg(m, Bits(raw, 1, 3)) = 0 THEN AdjustIP(m, BigDelta(raw)) ELSE Submit(m)

(* Faults: no comparison; no store; the third register keeps its value. *)
HoldsAlways(m, address, expected) == TRUE
ExchangedInRegister(m, address, expected, c) == SetReg(m, c, expected)
ExchangedInMemory(m, address, expected, c) == SetAtAddress(m, address, Reg(m, c))

Holds(m, address, expected) == AtAddress(m, address) = expected
Exchanged(m, address, expected, c) ==
    SetReg(SetAtAddress(m, address, Reg(m, c)), c, expected)

Execute_cmpxchg(raw, m) ==
    LET address  == Reg(m, Bits(raw, 9, 3))
        expected == Reg(m, Bits(raw, 6, 3))
    IN  IF Unaligned(address) THEN Fail(m)
        ELSE IF Holds(m, address, expected)
        THEN Submit(Exchanged(m, address, expected, Bits(raw, 3, 3)))
        ELSE Submit(m)

Execute_jmp(raw, m) == AdjustIP(m, BigDelta(raw))

Execute_call(raw, m) ==
    IF CannotPush(m) THEN Fail(m)
    ELSE AdjustIP(StoreOnTop(Lowered(m), U16(Reg(m, IP_ID) + 2)), CallDelta(raw))

Execute_shr(raw, m) ==
    Submit(SetReg(m, FirstRX(raw), ShiftRight(Reg(m, FirstRX(raw)), Imm4(raw))))

Execute_shl(raw, m) ==
    Submit(SetReg(m, FirstRX(raw), ShiftLeft(Reg(m, FirstRX(raw)), Imm4(raw))))

Execute_xor(raw, m) == Arithmetic(raw, m, BitXor)

Execute_sub(raw, m) == Arithmetic(raw, m, LAMBDA x, y : U16(x - y))

Execute_or(raw, m) == Arithmetic(raw, m, BitOr)

(* uint16_t operands are promoted to int: a product above INT_MAX is a     *)
(* signed overflow, which the sanitizer turns into an abort.               *)
Overflows(x, y) == x # 0 /\ y > INT_MAX \div x
Execute_mul(raw, m) ==
    IF Overflows(Reg(m, FirstRX(raw)), Reg(m, SecondRX(raw)))
    THEN Abort(m)
    ELSE Arithmetic(raw, m, LAMBDA x, y : U16(x * y))

Execute_movr(raw, m) == Submit(SetReg(m, FirstRX(raw), Reg(m, SecondRX(raw))))

Execute_mov2(raw, m) ==
    LET address == Reg(m, SecondRX(raw))
    IN  IF Unaligned(address) THEN Fail(m)
        ELSE Submit(SetReg(m, FirstRX(raw), AtAddress(m, address)))

Execute_mov1(raw, m) ==
    LET address == Reg(m, FirstRX(raw))
    IN  IF Unaligned(address) THEN Fail(m)
        ELSE Submit(SetAtAddress(m, address, Reg(m, SecondRX(raw))))

Execute_div(raw, m) ==
    IF Reg(m, SecondRX(raw)) = 0 THEN Fail(m)
    ELSE Arithmetic(raw, m, LAMBDA x, y : x \div y)

Execute_and(raw, m) == Arithmetic(raw, m, BitAnd)

Execute_add(raw, m) == Arithmetic(raw, m, LAMBDA x, y : U16(x + y))

Execute_out(raw, m) ==
    Submit([m EXCEPT !.stdout = Append(@, Half(m, OnlyRS(raw)))])

(* scanf leaves the byte alone at the end of the input. *)
Execute_in(raw, m) ==
    IF m.stdin = << >> THEN Submit(m)
    ELSE Submit([SetHalf(m, OnlyRS(raw), Head(m.stdin)) EXCEPT !.stdin = Tail(@)])

Execute_push(raw, m) ==
    IF CannotPush(m) THEN Fail(m)
    ELSE Submit(StoreOnTop(Lowered(m), Reg(Lowered(m), FirstRX(raw))))

Execute_pop(raw, m) ==
    IF Unaligned(Reg(m, SP_ID)) THEN Fail(m)
    ELSE Submit(IncreaseSP(SetReg(m, FirstRX(raw), AtAddress(m, Reg(m, SP_ID)))))

Execute_not(raw, m) ==
    Submit(SetReg(m, FirstRX(raw), BitNot(Reg(m, FirstRX(raw)))))

Execute_ret(raw, m) ==
    IF Unaligned(Reg(m, SP_ID)) THEN Fail(m)
    ELSE Continue(IncreaseSP(SetReg(m, IP_ID, AtAddress(m, Reg(m, SP_ID)))))

Execute_reset(raw, m) == [m EXCEPT !.exitCode = Half(m, 0), !.result = "exit"]

Execute_nop(raw, m) == Submit(m)

----------------------------------------------------------------------------
(* Which instruction a raw operation names, and the table of instructions. *)

GetInstructionId(raw) ==
    LET big   == Bits(raw, 12, 3)
        small == raw \div 256
    IN  IF raw >= 32768
        THEN IF big < BIG_INSTRUCTION_CNT THEN big ELSE INVALID_INSTRUCTION_ID
        ELSE IF small \in BIG_INSTRUCTION_CNT .. INSTRUCTION_CNT - 1
             THEN small ELSE INVALID_INSTRUCTION_ID

Execute(raw, m) ==
    LET id == GetInstructionId(raw)
    IN  CASE id = 0  -> Execute_movv(raw, m)
          [] id = 1  -> Execute_jne(raw, m)
          [] id = 2  -> Execute_je(raw, m)
          [] id = 3  -> Execute_cmpxchg(raw, m)
          [] id = 4  -> Execute_jmp(raw, m)
          [] id = 5  -> Execute_call(raw, m)
          [] id = 6  -> Execute_shr(raw, m)
          [] id = 7  -> Execute_shl(raw, m)
          [] id = 8  -> Execute_xor(raw, m)
          [] id = 9  -> Execute_sub(raw, m)
          [] id = 10 -> Execute_or(raw, m)
          [] id = 11 -> Execute_mul(raw, m)
          [] id = 12 -> Execute_movr(raw, m)
          [] id = 13 -> Execute_mov2(raw, m)
          [] id = 14 -> Execute_mov1(raw, m)
          [] id = 15 -> Execute_div(raw, m)
          [] id = 16 -> Execute_and(raw, m)
          [] id = 17 -> Execute_add(raw, m)
          [] id = 18 -> Execute_out(raw, m)
          [] id = 19 -> Execute_in(raw, m)
          [] id = 20 -> Execute_push(raw, m)
          [] id = 21 -> Execute_pop(raw, m)
          [] id = 22 -> Execute_not(raw, m)
          [] id = 23 -> Execute_ret(raw, m)
          [] id = 24 -> Execute_reset(raw, m)
          [] id = 25 -> Execute_nop(raw, m)
======================================================================
