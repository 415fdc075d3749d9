------------------------ MODULE SpinlockProofs ------------------------
(***************************************************************************)
(* The spin lock, for any number of contenders, nops, rounds and           *)
(* bystanders, any quantum and budget, and wherever the programs are       *)
(* loaded: mutual exclusion, and no addition lost.                         *)
(***************************************************************************)
EXTENDS Spinlock, ExecuterProofs, FiniteSetTheorems

----------------------------------------------------------------------------
(* The programs. *)

LEMMA RoundsFact == Rounds \in Nat /\ 1 <= Rounds /\ Rounds <= 255
  BY RoundsAssumption

(* The lines of a contender, its nops not counted. *)
LEMMA BodyLines ==
  /\ Len(Body) = 14
  /\ Body[1] = movv(0, 4) /\ Body[2] = movv(4, 8)
  /\ Body[3] = movv(5, 1) /\ Body[4] = movv(6, Rounds)
  /\ Body[5] = movr(2, 5) /\ Body[6] = cmpxchg(0, 1, 2)
  /\ Body[7] = jne(-1, 2) /\ Body[8] = mov2(3, 4)
  /\ Body[9] = add(3, 5) /\ Body[10] = mov1(4, 3)
  /\ Body[11] = mov1(0, 1) /\ Body[12] = sub(6, 5)
  /\ Body[13] = jne(-8, 6) /\ Body[14] = reset
  BY DEF Body, LockAddress, CounterAddress

LEMMA ContenderLines ==
  ASSUME NEW n \in Nat
  PROVE  /\ DOMAIN Contender(n) = 1 .. n + 14
         /\ \A k \in 1 .. n : Contender(n)[k] = nop
         /\ \A k \in 1 .. 14 : Contender(n)[n + k] = Body[k]
  BY BodyLines DEF Contender

LEMMA BystanderLines ==
  /\ Bystander \in Seq(Int) /\ Len(Bystander) = 2
  /\ Bystander[1] = nop /\ Bystander[2] = jmp(-1)
  BY DEF Bystander, nop, jmp, Big

----------------------------------------------------------------------------
(* What the instruction set decodes of their instructions. *)

LEMMA Powers ==
  /\ 2^0 = 1 /\ 2^1 = 2 /\ 2^2 = 4 /\ 2^3 = 8 /\ 2^4 = 16 /\ 2^5 = 32
  /\ 2^6 = 64 /\ 2^8 = 256 /\ 2^9 = 512 /\ 2^12 = 4096 /\ 2^15 = 32768 /\ 2^16 = 65536
  OBVIOUS

LEMMA U16Small ==
  ASSUME NEW n \in Int, 0 <= n, n <= 65535
  PROVE  U16(n) = n
  BY Powers DEF U16

LEMMA U16Down ==
  ASSUME NEW n \in Int, 1 <= n, n <= 255
  PROVE  U16(n - 1) = n - 1
  BY Powers DEF U16

LEMMA DecodeMovv ==
  ASSUME NEW rs \in 0 .. 7, NEW v \in Int, 0 <= v, v <= 255
  PROVE  /\ movv(rs, v) > 0 /\ GetInstructionId(movv(rs, v)) = 0
         /\ Bits(movv(rs, v), 8, 4) = rs /\ Bits(movv(rs, v), 0, 8) = v
  BY Powers DEF movv, Big, GetInstructionId, Bits, BIG_INSTRUCTION_CNT

LEMMA DecodeJumps ==
  /\ jne(-1, 2) > 0 /\ GetInstructionId(jne(-1, 2)) = 1
  /\ Bits(jne(-1, 2), 1, 3) = 2 /\ S8(BigDelta(jne(-1, 2))) = -1
  /\ jne(-8, 6) > 0 /\ GetInstructionId(jne(-8, 6)) = 1
  /\ Bits(jne(-8, 6), 1, 3) = 6 /\ S8(BigDelta(jne(-8, 6))) = -8
  /\ jmp(-1) > 0 /\ GetInstructionId(jmp(-1)) = 4 /\ S8(BigDelta(jmp(-1))) = -1
<1>2. (-1) % 256 = 255
  <2>1. \A d \in Int : d + 1 = 0 => d % 256 = 255
    OBVIOUS
  <2> QED
    BY <2>1, -1 \in Int, -1 + 1 = 0
<1>3. (-8) % 256 = 248
  <2>1. \A d \in Int : d + 8 = 0 => d % 256 = 248
    OBVIOUS
  <2> QED
    BY <2>1, -8 \in Int, -8 + 8 = 0
<1>1. jne(-1, 2) = 40948 /\ jne(-8, 6) = 40844 /\ jmp(-1) = 53232
  BY <1>2, <1>3 DEF jne, jmp, Big
<1> QED
  BY <1>1, Powers DEF GetInstructionId, Bits, BigDelta, S8, BIG_INSTRUCTION_CNT

LEMMA DecodeOthers ==
  /\ cmpxchg(0, 1, 2) > 0 /\ GetInstructionId(cmpxchg(0, 1, 2)) = 3
  /\ Bits(cmpxchg(0, 1, 2), 9, 3) = 0 /\ Bits(cmpxchg(0, 1, 2), 6, 3) = 1
  /\ Bits(cmpxchg(0, 1, 2), 3, 3) = 2
  /\ movr(2, 5) > 0 /\ GetInstructionId(movr(2, 5)) = 12
  /\ FirstRX(movr(2, 5)) = 2 /\ SecondRX(movr(2, 5)) = 5
  /\ mov2(3, 4) > 0 /\ GetInstructionId(mov2(3, 4)) = 13
  /\ FirstRX(mov2(3, 4)) = 3 /\ SecondRX(mov2(3, 4)) = 4
  /\ add(3, 5) > 0 /\ GetInstructionId(add(3, 5)) = 17
  /\ FirstRX(add(3, 5)) = 3 /\ SecondRX(add(3, 5)) = 5
  /\ mov1(4, 3) > 0 /\ GetInstructionId(mov1(4, 3)) = 14
  /\ FirstRX(mov1(4, 3)) = 4 /\ SecondRX(mov1(4, 3)) = 3
  /\ mov1(0, 1) > 0 /\ GetInstructionId(mov1(0, 1)) = 14
  /\ FirstRX(mov1(0, 1)) = 0 /\ SecondRX(mov1(0, 1)) = 1
  /\ sub(6, 5) > 0 /\ GetInstructionId(sub(6, 5)) = 9
  /\ FirstRX(sub(6, 5)) = 6 /\ SecondRX(sub(6, 5)) = 5
  /\ reset > 0 /\ GetInstructionId(reset) = 24
  /\ nop > 0 /\ GetInstructionId(nop) = 25
<1>1. /\ cmpxchg(0, 1, 2) = 45136 /\ movr(2, 5) = 3156 /\ mov2(3, 4) = 3440
      /\ add(3, 5) = 4468 /\ mov1(4, 3) = 3724 /\ mov1(0, 1) = 3588
      /\ sub(6, 5) = 2516 /\ reset = 6144 /\ nop = 6400
  BY DEF cmpxchg, movr, mov2, add, mov1, sub, reset, nop, Big, TwoRX
<1> QED
  BY <1>1, Powers DEF GetInstructionId, Bits, FirstRX, SecondRX, BIG_INSTRUCTION_CNT,
                      INSTRUCTION_CNT

(* Every line of a program is an instruction, and no line is a zero word.  *)
Runs(raw) == raw > 0 /\ GetInstructionId(raw) # INVALID_INSTRUCTION_ID

LEMMA LinesRun ==
  /\ \A k \in 1 .. 14 : Runs(Body[k])
  /\ \A n \in Nat : \A k \in DOMAIN Contender(n) : Runs(Contender(n)[k])
  /\ \A k \in DOMAIN Bystander : Runs(Bystander[k])
<1> USE DEF Runs, INVALID_INSTRUCTION_ID
<1>1. \A k \in 1 .. 14 : Runs(Body[k])
  <2>1. Runs(movv(0, 4)) /\ Runs(movv(4, 8)) /\ Runs(movv(5, 1)) /\ Runs(movv(6, Rounds))
    BY DecodeMovv, RoundsFact
  <2> QED
    BY <2>1, BodyLines, DecodeJumps, DecodeOthers
<1>2. \A n \in Nat : \A k \in DOMAIN Contender(n) : Runs(Contender(n)[k])
  <2> SUFFICES ASSUME NEW n \in Nat, NEW k \in DOMAIN Contender(n)
               PROVE  Runs(Contender(n)[k])
    OBVIOUS
  <2>1. k \in 1 .. n + 14
    BY ContenderLines
  <2>2. CASE k <= n
    <3>1. k \in 1 .. n
      BY <2>1, <2>2
    <3>2. Contender(n)[k] = nop
      BY <3>1, ContenderLines
    <3> QED
      BY <3>2, DecodeOthers
  <2>3. CASE k > n
    <3>1. PICK j \in 1 .. 14 : k = n + j
      <4>1. k - n \in 1 .. 14 /\ k = n + (k - n)
        BY <2>1, <2>3
      <4> QED
        BY <4>1
    <3>2. Contender(n)[k] = Body[j]
      BY <3>1, ContenderLines
    <3> QED
      BY <3>2, <1>1
  <2> QED
    BY <2>1, <2>2, <2>3
<1> QED
  BY <1>1, <1>2, BystanderLines, DecodeJumps, DecodeOthers

----------------------------------------------------------------------------
(* What their instructions do to a machine. *)

Effect(o, reg, mem) == o.result = "continue" /\ o.reg = reg /\ o.mem = mem

(* The registers with one of them set, on the way to the next line.        *)
Set(m, r, w) == [m.reg EXCEPT ![r] = w, ![IP_ID] = @ + 2]
Step(m) == [m.reg EXCEPT ![IP_ID] = @ + 2]
HasNext(m) == m \in Machines /\ m.reg[IP_ID] + 2 <= 65535

LEMMA MachineFacts ==
  ASSUME NEW m \in Machines
  PROVE  /\ m.reg \in [RegisterId -> Word]
         /\ \A r \in 0 .. 8 : m.reg[r] \in Int /\ 0 <= m.reg[r] /\ m.reg[r] <= 65535
         /\ RegisterId = 0 .. 8 /\ IP_ID = 8
  BY WordIff DEF Machines, RegisterSets, RegisterId, IP_ID

LEMMA SubmitEffect ==
  ASSUME NEW m, HasNext(m)
  PROVE  /\ Effect(Submit(m), Step(m), m.mem)
         /\ \A r \in 0 .. 6 : \A w \in Word : Effect(Submit(SetReg(m, r, w)), Set(m, r, w), m.mem)
         /\ \A a, w : Effect(Submit(SetAtAddress(m, a, w)), Step(m),
                             Written(m.mem, a \div 2, w))
<1>1. /\ m.reg \in [0 .. 8 -> Word] /\ m.reg[8] \in Int /\ 0 <= m.reg[8]
      /\ m.reg[8] + 2 <= 65535 /\ m \in Machines
  BY MachineFacts DEF HasNext
<1>2. U16(m.reg[8] + 2) = m.reg[8] + 2
  BY <1>1, Powers DEF U16
<1>3. Effect(Submit(m), Step(m), m.mem)
  BY <1>1, <1>2 DEF Effect, Submit, Continue, SetReg, Reg, Step, Machines, IP_ID
<1>4. ASSUME NEW r \in 0 .. 6, NEW w \in Word
      PROVE  Effect(Submit(SetReg(m, r, w)), Set(m, r, w), m.mem)
  <2> DEFINE n == SetReg(m, r, w)
  <2>1. n \in Machines
    <3>1. r \in RegisterId
      BY DEF RegisterId
    <3> QED
      BY <1>1, <3>1, SetRegType
  <2>2. n.reg = [m.reg EXCEPT ![r] = w] /\ n.mem = m.mem
    BY <1>1 DEF SetReg, Machines
  <2>3. n.reg[8] = m.reg[8] /\ Step(n) = Set(m, r, w)
    BY <1>1, <2>2 DEF Step, Set, IP_ID
  <2> HIDE DEF n
  <2>4. Effect(Submit(n), Step(n), n.mem)
    BY <1>2, <2>1, <2>3 DEF Effect, Submit, Continue, SetReg, Reg, Step, Machines, IP_ID
  <2> QED
    BY <2>2, <2>3, <2>4 DEF n
<1>5. ASSUME NEW a, NEW w
      PROVE  Effect(Submit(SetAtAddress(m, a, w)), Step(m), Written(m.mem, a \div 2, w))
  BY <1>1, <1>2 DEF Effect, Submit, Continue, SetReg, Reg, Step, Machines, IP_ID,
     SetAtAddress
<1> QED
  BY <1>3, <1>4, <1>5

LEMMA RunNop ==
  ASSUME NEW m, HasNext(m)
  PROVE  Effect(Execute(nop, m), Step(m), m.mem)
  BY SubmitEffect, DecodeOthers DEF Execute, Execute_nop

LEMMA RunMovv ==
  ASSUME NEW m, HasNext(m), NEW r \in 0 .. 6, NEW v \in Int, 0 <= v, v <= 255,
         m.reg[r] = 0
  PROVE  Effect(Execute(movv(r, v), m), Set(m, r, v), m.mem)
<1> DEFINE raw == movv(r, v)
<1>1. Execute(raw, m) = Submit(SetHalf(m, r, v))
  <2>1. GetInstructionId(raw) = 0 /\ Bits(raw, 8, 4) = r /\ Bits(raw, 0, 8) = v
    BY DecodeMovv
  <2> HIDE DEF raw
  <2> QED
    BY <2>1 DEF Execute, Execute_movv
<1>2. SetHalf(m, r, v) = SetReg(m, r, v)
  BY DEF SetHalf, WithLow, HighByte, Reg
<1> QED
  BY <1>1, <1>2, SubmitEffect, WordIff

LEMMA RunRegisters ==
  ASSUME NEW m, HasNext(m)
  PROVE  /\ Effect(Execute(movr(2, 5), m), Set(m, 2, m.reg[5]), m.mem)
         /\ Effect(Execute(add(3, 5), m), Set(m, 3, U16(m.reg[3] + m.reg[5])), m.mem)
         /\ Effect(Execute(sub(6, 5), m), Set(m, 6, U16(m.reg[6] - m.reg[5])), m.mem)
<1>1. Execute(movr(2, 5), m) = Submit(SetReg(m, 2, m.reg[5]))
  BY DecodeOthers DEF Execute, Execute_movr, Reg
<1>2. Execute(add(3, 5), m) = Submit(SetReg(m, 3, U16(m.reg[3] + m.reg[5])))
  BY DecodeOthers DEF Execute, Execute_add, Arithmetic, Reg
<1>3. Execute(sub(6, 5), m) = Submit(SetReg(m, 6, U16(m.reg[6] - m.reg[5])))
  BY DecodeOthers DEF Execute, Execute_sub, Arithmetic, Reg
<1>4. /\ m.reg[5] \in Word /\ U16(m.reg[3] + m.reg[5]) \in Word
      /\ U16(m.reg[6] - m.reg[5]) \in Word
  <2>1. m.reg[3] \in Int /\ m.reg[5] \in Int /\ m.reg[6] \in Int /\ m.reg[5] \in Word
    BY MachineFacts, WordIff DEF HasNext
  <2> QED
    BY <2>1, U16Type
<1> QED
  BY <1>1, <1>2, <1>3, <1>4, SubmitEffect

LEMMA RunLoad ==
  ASSUME NEW m, HasNext(m), m.reg[4] = 8
  PROVE  Effect(Execute(mov2(3, 4), m), Set(m, 3, Read(m.mem, 4)), m.mem)
<1>1. Execute(mov2(3, 4), m) = Submit(SetReg(m, 3, Read(m.mem, 4)))
  BY DecodeOthers DEF Execute, Execute_mov2, Reg, Unaligned, AtAddress
<1>2. Read(m.mem, 4) \in Word
  BY ReadType, WordIndexIff DEF HasNext, Machines
<1> QED
  BY <1>1, <1>2, SubmitEffect

LEMMA RunStores ==
  ASSUME NEW m, HasNext(m)
  PROVE  /\ m.reg[4] = 8 =>
              Effect(Execute(mov1(4, 3), m), Step(m), Written(m.mem, 4, m.reg[3]))
         /\ m.reg[0] = 4 =>
              Effect(Execute(mov1(0, 1), m), Step(m), Written(m.mem, 2, m.reg[1]))
<1>1. m.reg[4] = 8 => Execute(mov1(4, 3), m) = Submit(SetAtAddress(m, 8, m.reg[3]))
  BY DecodeOthers DEF Execute, Execute_mov1, Reg, Unaligned
<1>2. m.reg[0] = 4 => Execute(mov1(0, 1), m) = Submit(SetAtAddress(m, 4, m.reg[1]))
  BY DecodeOthers DEF Execute, Execute_mov1, Reg, Unaligned
<1>3. 8 \div 2 = 4 /\ 4 \div 2 = 2
  OBVIOUS
<1> QED
  BY <1>1, <1>2, <1>3, SubmitEffect

LEMMA RunExchange ==
  ASSUME NEW m, HasNext(m), m.reg[0] = 4, m.reg[1] = 0
  PROVE  IF Read(m.mem, 2) = 0
         THEN Effect(Execute(cmpxchg(0, 1, 2), m), Set(m, 2, 0), Written(m.mem, 2, m.reg[2]))
         ELSE Effect(Execute(cmpxchg(0, 1, 2), m), Step(m), m.mem)
<1>1. 4 \div 2 = 2 /\ ~Unaligned(4)
  BY DEF Unaligned
<1>2. Execute(cmpxchg(0, 1, 2), m) =
        IF Read(m.mem, 2) = 0
        THEN Submit(SetReg(SetAtAddress(m, 4, m.reg[2]), 2, 0)) ELSE Submit(m)
  BY <1>1, DecodeOthers
     DEF Execute, Execute_cmpxchg, Reg, Holds, AtAddress, Exchanged
<1> DEFINE n == SetAtAddress(m, 4, m.reg[2])
<1>3. /\ n \in Machines /\ n.reg = m.reg /\ n.mem = Written(m.mem, 2, m.reg[2])
  <2>1. m.reg[2] \in Word /\ 4 \in Word /\ m \in Machines
    BY MachineFacts, WordIff DEF HasNext
  <2>2. n \in Machines
    BY <2>1, SetAtAddressType
  <2> QED
    BY <1>1, <2>1, <2>2 DEF SetAtAddress, Machines
<1> HIDE DEF n
<1>4. HasNext(n) /\ Set(n, 2, 0) = Set(m, 2, 0)
  BY <1>3 DEF HasNext, Set
<1>5. Effect(Submit(SetReg(n, 2, 0)), Set(m, 2, 0), Written(m.mem, 2, m.reg[2]))
  BY <1>3, <1>4, SubmitEffect, WordIff
<1> QED
  BY <1>2, <1>5, SubmitEffect DEF n

(* A jump back by d lines. *)
Back(m, d) == [m.reg EXCEPT ![IP_ID] = @ - 2 * d]

LEMMA AdjustEffect ==
  ASSUME NEW m \in Machines, NEW delta, NEW d \in 0 .. 128, S8(delta) = -d,
         m.reg[8] >= 2 * d
  PROVE  Effect(AdjustIP(m, delta), Back(m, d), m.mem)
<1> DEFINE target == m.reg[8] - 2 * d
<1>1. /\ m.reg \in [0 .. 8 -> Word] /\ m.reg[8] \in Int /\ m.reg[8] <= 65535 /\ IP_ID = 8
  <2>1. m.reg \in [0 .. 8 -> Word]
    BY DEF Machines, RegisterSets, RegisterId
  <2>2. m.reg[8] \in Word
    BY <2>1
  <2> QED
    BY <2>1, <2>2, WordIff DEF IP_ID
<1>2. target \in Int /\ target >= 0 /\ target <= 65535
  BY <1>1
<1>3. m.reg[8] + 2 * S8(delta) = target
  BY <1>1
<1>4. 2 * MEMORY_SIZE = 65536
  BY Powers DEF MEMORY_SIZE
<1> HIDE DEF target
<1>5. U16(target) = target
  BY <1>2, Powers DEF U16
<1>6. AdjustIP(m, delta) = Continue(SetReg(m, 8, target))
  BY <1>1, <1>2, <1>3, <1>4, <1>5 DEF AdjustIP, Reg
<1>7. Effect(Continue(SetReg(m, 8, target)), [m.reg EXCEPT ![8] = target], m.mem)
  BY <1>1 DEF Effect, Continue, SetReg, Machines
<1> QED
  BY <1>1, <1>6, <1>7 DEF target, Back

LEMMA RunJumps ==
  ASSUME NEW m \in Machines
  PROVE  /\ m.reg[2] # 0 /\ m.reg[8] >= 2 =>
              Effect(Execute(jne(-1, 2), m), Back(m, 1), m.mem)
         /\ m.reg[2] = 0 /\ HasNext(m) =>
              Effect(Execute(jne(-1, 2), m), Step(m), m.mem)
         /\ m.reg[6] # 0 /\ m.reg[8] >= 16 =>
              Effect(Execute(jne(-8, 6), m), Back(m, 8), m.mem)
         /\ m.reg[6] = 0 /\ HasNext(m) =>
              Effect(Execute(jne(-8, 6), m), Step(m), m.mem)
         /\ m.reg[8] >= 2 =>
              Effect(Execute(jmp(-1), m), Back(m, 1), m.mem)
<1>1. /\ Execute(jne(-1, 2), m) = IF m.reg[2] # 0 THEN AdjustIP(m, BigDelta(jne(-1, 2)))
                                  ELSE Submit(m)
      /\ Execute(jne(-8, 6), m) = IF m.reg[6] # 0 THEN AdjustIP(m, BigDelta(jne(-8, 6)))
                                  ELSE Submit(m)
      /\ Execute(jmp(-1), m) = AdjustIP(m, BigDelta(jmp(-1)))
  BY DecodeJumps DEF Execute, Execute_jne, Execute_jmp, Reg
<1>2. 1 \in 0 .. 128 /\ 2 * 1 = 2 /\ 8 \in 0 .. 128 /\ 2 * 8 = 16
  OBVIOUS
<1>3. ASSUME NEW delta, S8(delta) = -1, m.reg[8] >= 2
      PROVE  Effect(AdjustIP(m, delta), Back(m, 1), m.mem)
  BY <1>2, <1>3, AdjustEffect DEF IP_ID
<1>4. ASSUME NEW delta, S8(delta) = -8, m.reg[8] >= 16
      PROVE  Effect(AdjustIP(m, delta), Back(m, 8), m.mem)
  BY <1>2, <1>4, AdjustEffect
<1> QED
  BY <1>1, <1>3, <1>4, SubmitEffect, DecodeJumps

LEMMA RunReset ==
  ASSUME NEW m \in Machines
  PROVE  /\ Execute(reset, m).result = "exit" /\ Execute(reset, m).reg = m.reg
         /\ Execute(reset, m).mem = m.mem
<1>1. Execute(reset, m) = Execute_reset(reset, m)
  BY DecodeOthers DEF Execute
<1> QED
  BY <1>1 DEF Execute_reset, Machines
----------------------------------------------------------------------------
(* The lock itself: one contender at line at with registers g, the lock    *)
(* word and the counter.                                                   *)

(* What the registers hold there. *)
Holding(at, g, counter) ==
    /\ g[1] = 0
    /\ (at <= 1 => g[0] = 0) /\ (at > 1 => g[0] = 4)
    /\ (at <= 2 => g[4] = 0) /\ (at > 2 => g[4] = 8)
    /\ (at <= 3 => g[5] = 0) /\ (at > 3 => g[5] = 1)
    /\ at <= 4 => g[6] = 0
    /\ 5 <= at /\ at <= 12 => g[6] \in 1 .. Rounds
    /\ at = 13 => g[6] \in 0 .. Rounds - 1
    /\ at = 14 => g[6] = 0
    /\ at = 6 => g[2] = 1
    /\ at = 7 => g[2] \in {0, 1}
    /\ at = 9 => g[3] = counter
    /\ at = 10 => g[3] = U16(counter + 1)

Has(at, g) == (at = 7 /\ g[2] = 0) \/ (8 <= at /\ at <= 11)

(* The additions made so far. *)
Made(at, g) ==
    IF at <= 4 THEN 0
    ELSE IF at = 11 \/ at = 12 THEN Rounds - g[6] + 1
    ELSE Rounds - g[6]

(* What the instruction there does; the last one changes nothing. *)
Sets(g, h, r, w) ==
    /\ h[r] = w
    /\ (r # 0 => h[0] = g[0]) /\ (r # 2 => h[2] = g[2]) /\ (r # 3 => h[3] = g[3])
    /\ (r # 4 => h[4] = g[4]) /\ (r # 5 => h[5] = g[5]) /\ (r # 6 => h[6] = g[6])
    /\ h[1] = g[1]
Same(g, h) == /\ h[0] = g[0] /\ h[1] = g[1] /\ h[2] = g[2] /\ h[3] = g[3]
              /\ h[4] = g[4] /\ h[5] = g[5] /\ h[6] = g[6]

Move(at, g, lock, counter, to, h, lock2, counter2) ==
    \/ at <= 0 /\ to = at + 1 /\ Same(g, h) /\ lock2 = lock /\ counter2 = counter
    \/ at = 1 /\ to = 2 /\ Sets(g, h, 0, 4) /\ lock2 = lock /\ counter2 = counter
    \/ at = 2 /\ to = 3 /\ Sets(g, h, 4, 8) /\ lock2 = lock /\ counter2 = counter
    \/ at = 3 /\ to = 4 /\ Sets(g, h, 5, 1) /\ lock2 = lock /\ counter2 = counter
    \/ at = 4 /\ to = 5 /\ Sets(g, h, 6, Rounds) /\ lock2 = lock /\ counter2 = counter
    \/ at = 5 /\ to = 6 /\ Sets(g, h, 2, g[5]) /\ lock2 = lock /\ counter2 = counter
    \/ at = 6 /\ to = 7 /\ lock = 0 /\ Sets(g, h, 2, 0) /\ lock2 = g[2] /\ counter2 = counter
    \/ at = 6 /\ to = 7 /\ lock # 0 /\ Same(g, h) /\ lock2 = lock /\ counter2 = counter
    \/ at = 7 /\ g[2] = 0 /\ to = 8 /\ Same(g, h) /\ lock2 = lock /\ counter2 = counter
    \/ at = 7 /\ g[2] # 0 /\ to = 6 /\ Same(g, h) /\ lock2 = lock /\ counter2 = counter
    \/ at = 8 /\ to = 9 /\ Sets(g, h, 3, counter) /\ lock2 = lock /\ counter2 = counter
    \/ at = 9 /\ to = 10 /\ Sets(g, h, 3, U16(g[3] + g[5])) /\ lock2 = lock /\ counter2 = counter
    \/ at = 10 /\ to = 11 /\ Same(g, h) /\ lock2 = lock /\ counter2 = g[3]
    \/ at = 11 /\ to = 12 /\ Same(g, h) /\ lock2 = g[1] /\ counter2 = counter
    \/ at = 12 /\ to = 13 /\ Sets(g, h, 6, U16(g[6] - g[5])) /\ lock2 = lock /\ counter2 = counter
    \/ at = 13 /\ g[6] = 0 /\ to = 14 /\ Same(g, h) /\ lock2 = lock /\ counter2 = counter
    \/ at = 13 /\ g[6] # 0 /\ to = 5 /\ Same(g, h) /\ lock2 = lock /\ counter2 = counter
    \/ at = 14 /\ to = 14 /\ Same(g, h) /\ lock2 = lock /\ counter2 = counter

(* A move keeps what the registers hold.  It takes the lock when it is     *)
(* free, keeps it or gives it back, and adds to the counter only with it.  *)
LEMMA MoveKeeps ==
  ASSUME NEW at \in Int, NEW to \in Int, NEW g, NEW h,
         NEW lock, NEW counter, NEW lock2, NEW counter2,
         Holding(at, g, counter), Move(at, g, lock, counter, to, h, lock2, counter2)
  PROVE  /\ Holding(to, h, counter2)
         /\ \/ lock2 = lock /\ (Has(to, h) <=> Has(at, g))
            \/ lock = 0 /\ lock2 = 1 /\ ~Has(at, g) /\ Has(to, h)
            \/ lock2 = 0 /\ Has(at, g) /\ ~Has(to, h)
         /\ \/ counter2 = counter /\ Made(to, h) = Made(at, g)
            \/ /\ Has(at, g) /\ counter2 = U16(counter + 1)
               /\ Made(to, h) = Made(at, g) + 1 /\ Made(to, h) \in 1 .. Rounds
<1>1. Rounds \in Int /\ 1 <= Rounds /\ Rounds <= 255
  BY RoundsFact
<1>2. CASE at <= 0
  <2>1. to = at + 1 /\ Same(g, h) /\ lock2 = lock /\ counter2 = counter
    BY <1>2 DEF Move
  <2> QED
    BY <1>1, <1>2, <2>1 DEF Holding, Has, Made, Same
<1>3. CASE at = 1
  <2>1. to = 2 /\ Sets(g, h, 0, 4) /\ lock2 = lock /\ counter2 = counter
    BY <1>3 DEF Move
  <2> QED
    BY <1>1, <1>3, <2>1 DEF Holding, Has, Made, Sets
<1>4. CASE at = 2
  <2>1. to = 3 /\ Sets(g, h, 4, 8) /\ lock2 = lock /\ counter2 = counter
    BY <1>4 DEF Move
  <2> QED
    BY <1>1, <1>4, <2>1 DEF Holding, Has, Made, Sets
<1>5. CASE at = 3
  <2>1. to = 4 /\ Sets(g, h, 5, 1) /\ lock2 = lock /\ counter2 = counter
    BY <1>5 DEF Move
  <2> QED
    BY <1>1, <1>5, <2>1 DEF Holding, Has, Made, Sets
<1>6. CASE at = 4
  <2>1. to = 5 /\ Sets(g, h, 6, Rounds) /\ lock2 = lock /\ counter2 = counter
    BY <1>6 DEF Move
  <2> QED
    BY <1>1, <1>6, <2>1 DEF Holding, Has, Made, Sets
<1>7. CASE at = 5
  <2>1. to = 6 /\ Sets(g, h, 2, g[5]) /\ lock2 = lock /\ counter2 = counter
    BY <1>7 DEF Move
  <2> QED
    BY <1>1, <1>7, <2>1 DEF Holding, Has, Made, Sets
<1>8. CASE at = 6 /\ lock = 0
  <2>1. to = 7 /\ Sets(g, h, 2, 0) /\ lock2 = g[2] /\ counter2 = counter
    BY <1>8 DEF Move
  <2> QED
    BY <1>1, <1>8, <2>1 DEF Holding, Has, Made, Sets
<1>9. CASE at = 6 /\ lock # 0
  <2>1. to = 7 /\ Same(g, h) /\ lock2 = lock /\ counter2 = counter
    BY <1>9 DEF Move
  <2> QED
    BY <1>1, <1>9, <2>1 DEF Holding, Has, Made, Same
<1>10. CASE at = 7 /\ g[2] = 0
  <2>1. to = 8 /\ Same(g, h) /\ lock2 = lock /\ counter2 = counter
    BY <1>10 DEF Move
  <2> QED
    BY <1>1, <1>10, <2>1 DEF Holding, Has, Made, Same
<1>11. CASE at = 7 /\ g[2] # 0
  <2>1. to = 6 /\ Same(g, h) /\ lock2 = lock /\ counter2 = counter
    BY <1>11 DEF Move
  <2> QED
    BY <1>1, <1>11, <2>1 DEF Holding, Has, Made, Same
<1>12. CASE at = 8
  <2>1. to = 9 /\ Sets(g, h, 3, counter) /\ lock2 = lock /\ counter2 = counter
    BY <1>12 DEF Move
  <2> QED
    BY <1>1, <1>12, <2>1 DEF Holding, Has, Made, Sets
<1>13. CASE at = 9
  <2>1. to = 10 /\ Sets(g, h, 3, U16(g[3] + g[5])) /\ lock2 = lock /\ counter2 = counter
    BY <1>13 DEF Move
  <2> QED
    BY <1>1, <1>13, <2>1 DEF Holding, Has, Made, Sets
<1>14. CASE at = 10
  <2>1. to = 11 /\ Same(g, h) /\ lock2 = lock /\ counter2 = g[3]
    BY <1>14 DEF Move
  <2> QED
    BY <1>1, <1>14, <2>1 DEF Holding, Has, Made, Same
<1>15. CASE at = 11
  <2>1. to = 12 /\ Same(g, h) /\ lock2 = g[1] /\ counter2 = counter
    BY <1>15 DEF Move
  <2> QED
    BY <1>1, <1>15, <2>1 DEF Holding, Has, Made, Same
<1>16. CASE at = 12
  <2>1. to = 13 /\ Sets(g, h, 6, U16(g[6] - g[5])) /\ lock2 = lock /\ counter2 = counter
    BY <1>16 DEF Move
  <2>2. g[6] \in Int /\ 1 <= g[6] /\ g[6] <= 255 /\ g[5] = 1
    BY <1>1, <1>16 DEF Holding
  <2>3. U16(g[6] - g[5]) = g[6] - 1
    BY <2>2, U16Down
  <2> QED
    BY <1>1, <1>16, <2>1, <2>2, <2>3 DEF Holding, Has, Made, Sets
<1>17. CASE at = 13 /\ g[6] = 0
  <2>1. to = 14 /\ Same(g, h) /\ lock2 = lock /\ counter2 = counter
    BY <1>17 DEF Move
  <2> QED
    BY <1>1, <1>17, <2>1 DEF Holding, Has, Made, Same
<1>18. CASE at = 13 /\ g[6] # 0
  <2>1. to = 5 /\ Same(g, h) /\ lock2 = lock /\ counter2 = counter
    BY <1>18 DEF Move
  <2> QED
    BY <1>1, <1>18, <2>1 DEF Holding, Has, Made, Same
<1>19. CASE at = 14
  <2>1. to = 14 /\ Same(g, h) /\ lock2 = lock /\ counter2 = counter
    BY <1>19 DEF Move
  <2> QED
    BY <1>1, <1>19, <2>1 DEF Holding, Has, Made, Same
<1> QED
  BY <1>2, <1>3, <1>4, <1>5, <1>6, <1>7, <1>8, <1>9, <1>10, <1>11, <1>12, <1>13,
     <1>14, <1>15, <1>16, <1>17, <1>18, <1>19 DEF Move

----------------------------------------------------------------------------
(* One instruction of a contender is a move.                               *)

(* What the effects above are in those terms. *)
LEMMA SetIs ==
  ASSUME NEW m \in Machines, NEW r \in {0, 2, 3, 4, 5, 6}, NEW w
  PROVE  Sets(m.reg, Set(m, r, w), r, w) /\ Set(m, r, w)[8] = m.reg[8] + 2
<1>1. DOMAIN m.reg = 0 .. 8 /\ IP_ID = 8
  BY MachineFacts
<1>2. /\ Set(m, r, w)[r] = w /\ Set(m, r, w)[8] = m.reg[8] + 2
      /\ \A q \in 0 .. 6 : q # r => Set(m, r, w)[q] = m.reg[q]
  BY <1>1 DEF Set
<1>3. r # 1 => Set(m, r, w)[1] = m.reg[1]
  BY <1>2
<1> QED
  BY <1>2 DEF Sets

LEMMA StepIs ==
  ASSUME NEW m \in Machines
  PROVE  Same(m.reg, Step(m)) /\ Step(m)[8] = m.reg[8] + 2
<1>1. DOMAIN m.reg = 0 .. 8 /\ IP_ID = 8
  BY MachineFacts
<1> QED
  BY <1>1 DEF Same, Step

LEMMA BackIs ==
  ASSUME NEW m \in Machines, NEW d
  PROVE  Same(m.reg, Back(m, d)) /\ Back(m, d)[8] = m.reg[8] - 2 * d
<1>1. DOMAIN m.reg = 0 .. 8 /\ IP_ID = 8
  BY MachineFacts
<1> QED
  BY <1>1 DEF Same, Back

LEMMA WrittenIs ==
  ASSUME NEW mem, NEW n, NEW x
  PROVE  \A w : Read(Written(mem, n, x), w) = IF w = n THEN x ELSE Read(mem, w)
  BY DEF Read, Written

(* The lock word and the counter of a memory. *)
LockOf(mem) == Read(mem, 2)
CounterOf(mem) == Read(mem, 4)
OnlyThose(mem, new) == \A w : w # 2 /\ w # 4 => Read(new, w) = Read(mem, w)

(* e is what a contender at line at of its program leaves of machine m.    *)
MovesTo(at, m, e) ==
    \E to \in Int :
        /\ to <= 14 /\ (to < 1 => to = at + 1)
        /\ e.reg[8] = m.reg[8] + 2 * (to - at)
        /\ Move(at, m.reg, LockOf(m.mem), CounterOf(m.mem),
                to, e.reg, LockOf(e.mem), CounterOf(e.mem))
        /\ OnlyThose(m.mem, e.mem)
        /\ e.result = IF at = 14 THEN "exit" ELSE "continue"

LEMMA MovesToBy ==
  ASSUME NEW m \in Machines, NEW at \in Int, at < 14, NEW to \in Int, NEW reg, NEW mem,
         to <= 14, to < 1 => to = at + 1,
         NEW e, Effect(e, reg, mem), reg[8] = m.reg[8] + 2 * (to - at),
         Move(at, m.reg, LockOf(m.mem), CounterOf(m.mem),
              to, reg, LockOf(mem), CounterOf(mem)),
         OnlyThose(m.mem, mem)
  PROVE  MovesTo(at, m, e)
  BY DEF MovesTo, Effect

LEMMA ContenderStep ==
  ASSUME NEW m \in Machines, NEW at \in Int, at <= 14, NEW raw,
         at < 1 => raw = nop, at >= 1 => raw = Body[at],
         Holding(at, m.reg, CounterOf(m.mem)),
         at < 14 => m.reg[8] + 2 <= 65535,
         m.reg[8] >= 2 * (at - 1)
  PROVE  MovesTo(at, m, Execute(raw, m))
<1> DEFINE e == Execute(raw, m)
<1>1. /\ at < 14 => HasNext(m)
      /\ IP_ID = 8 /\ m.reg[8] \in Int
  BY MachineFacts DEF HasNext
<1>2. OnlyThose(m.mem, m.mem)
  BY DEF OnlyThose
<1>3. CASE at < 1
  <2>1. raw = nop
    BY <1>3
  <2>2. Effect(e, Step(m), m.mem)
    BY <1>1, <1>3, <2>1, RunNop
  <2>3. Same(m.reg, Step(m)) /\ Step(m)[8] = m.reg[8] + 2
    BY StepIs
  <2>4. Move(at, m.reg, LockOf(m.mem), CounterOf(m.mem),
            at + 1, Step(m), LockOf(m.mem), CounterOf(m.mem))
    BY <1>3, <2>3 DEF Move
  <2> QED
    BY <1>1, <1>2, <1>3, <2>2, <2>3, <2>4, MovesToBy
<1>4. CASE at = 1
  <2>1. raw = movv(0, 4)
    BY <1>4, BodyLines
  <2>2. m.reg[0] = 0
    BY <1>4 DEF Holding
  <2>3. Effect(e, Set(m, 0, 4), m.mem)
    BY <1>1, <1>4, <2>1, <2>2, RunMovv
  <2>4. Sets(m.reg, Set(m, 0, 4), 0, 4) /\ Set(m, 0, 4)[8] = m.reg[8] + 2
    BY SetIs
  <2>5. Move(at, m.reg, LockOf(m.mem), CounterOf(m.mem),
            2, Set(m, 0, 4), LockOf(m.mem), CounterOf(m.mem))
    BY <1>4, <2>4 DEF Move
  <2> QED
    BY <1>1, <1>2, <1>4, <2>3, <2>4, <2>5, MovesToBy
<1>5. CASE at = 2
  <2>1. raw = movv(4, 8)
    BY <1>5, BodyLines
  <2>2. m.reg[4] = 0
    BY <1>5 DEF Holding
  <2>3. Effect(e, Set(m, 4, 8), m.mem)
    BY <1>1, <1>5, <2>1, <2>2, RunMovv
  <2>4. Sets(m.reg, Set(m, 4, 8), 4, 8) /\ Set(m, 4, 8)[8] = m.reg[8] + 2
    BY SetIs
  <2>5. Move(at, m.reg, LockOf(m.mem), CounterOf(m.mem),
            3, Set(m, 4, 8), LockOf(m.mem), CounterOf(m.mem))
    BY <1>5, <2>4 DEF Move
  <2> QED
    BY <1>1, <1>2, <1>5, <2>3, <2>4, <2>5, MovesToBy
<1>6. CASE at = 3
  <2>1. raw = movv(5, 1)
    BY <1>6, BodyLines
  <2>2. m.reg[5] = 0
    BY <1>6 DEF Holding
  <2>3. Effect(e, Set(m, 5, 1), m.mem)
    BY <1>1, <1>6, <2>1, <2>2, RunMovv
  <2>4. Sets(m.reg, Set(m, 5, 1), 5, 1) /\ Set(m, 5, 1)[8] = m.reg[8] + 2
    BY SetIs
  <2>5. Move(at, m.reg, LockOf(m.mem), CounterOf(m.mem),
            4, Set(m, 5, 1), LockOf(m.mem), CounterOf(m.mem))
    BY <1>6, <2>4 DEF Move
  <2> QED
    BY <1>1, <1>2, <1>6, <2>3, <2>4, <2>5, MovesToBy
<1>7. CASE at = 4
  <2>1. raw = movv(6, Rounds)
    BY <1>7, BodyLines
  <2>2. m.reg[6] = 0 /\ 6 \in 0 .. 6 /\ Rounds \in Int /\ 0 <= Rounds /\ Rounds <= 255
    BY <1>7, RoundsFact DEF Holding
  <2>3. Effect(e, Set(m, 6, Rounds), m.mem)
    BY <1>1, <1>7, <2>1, <2>2, RunMovv
  <2>4. Sets(m.reg, Set(m, 6, Rounds), 6, Rounds) /\ Set(m, 6, Rounds)[8] = m.reg[8] + 2
    BY SetIs
  <2>5. Move(at, m.reg, LockOf(m.mem), CounterOf(m.mem),
            5, Set(m, 6, Rounds), LockOf(m.mem), CounterOf(m.mem))
    BY <1>7, <2>4 DEF Move
  <2> QED
    BY <1>1, <1>2, <1>7, <2>3, <2>4, <2>5, MovesToBy
<1>8. CASE at = 5
  <2>1. raw = movr(2, 5)
    BY <1>8, BodyLines
  <2>2. Effect(e, Set(m, 2, m.reg[5]), m.mem)
    BY <1>1, <1>8, <2>1, RunRegisters
  <2>3. /\ Sets(m.reg, Set(m, 2, m.reg[5]), 2, m.reg[5])
        /\ Set(m, 2, m.reg[5])[8] = m.reg[8] + 2
    BY SetIs
  <2>4. Move(at, m.reg, LockOf(m.mem), CounterOf(m.mem),
            6, Set(m, 2, m.reg[5]), LockOf(m.mem), CounterOf(m.mem))
    BY <1>8, <2>3 DEF Move
  <2> QED
    BY <1>1, <1>2, <1>8, <2>2, <2>3, <2>4, MovesToBy
<1>9. CASE at = 6 /\ LockOf(m.mem) = 0
  <2>1. raw = cmpxchg(0, 1, 2)
    BY <1>9, BodyLines
  <2>2. m.reg[0] = 4 /\ m.reg[1] = 0
    BY <1>9 DEF Holding
  <2>3. Effect(e, Set(m, 2, 0), Written(m.mem, 2, m.reg[2]))
    BY <1>1, <1>9, <2>1, <2>2, RunExchange DEF LockOf
  <2>4. /\ OnlyThose(m.mem, Written(m.mem, 2, m.reg[2]))
         /\ LockOf(Written(m.mem, 2, m.reg[2])) = m.reg[2]
         /\ CounterOf(Written(m.mem, 2, m.reg[2])) = CounterOf(m.mem)
    BY WrittenIs DEF OnlyThose, LockOf, CounterOf
  <2>5. Sets(m.reg, Set(m, 2, 0), 2, 0) /\ Set(m, 2, 0)[8] = m.reg[8] + 2
    BY SetIs
  <2>6. Move(at, m.reg, LockOf(m.mem), CounterOf(m.mem),
            7, Set(m, 2, 0), LockOf(Written(m.mem, 2, m.reg[2])), CounterOf(Written(m.mem, 2, m.reg[2])))
    BY <1>9, <2>5, <2>4 DEF Move
  <2> QED
    BY <1>1, <1>2, <1>9, <2>3, <2>4, <2>5, <2>6, MovesToBy
<1>10. CASE at = 6 /\ LockOf(m.mem) # 0
  <2>1. raw = cmpxchg(0, 1, 2)
    BY <1>10, BodyLines
  <2>2. m.reg[0] = 4 /\ m.reg[1] = 0
    BY <1>10 DEF Holding
  <2>3. Effect(e, Step(m), m.mem)
    BY <1>1, <1>10, <2>1, <2>2, RunExchange DEF LockOf
  <2>4. Same(m.reg, Step(m)) /\ Step(m)[8] = m.reg[8] + 2
    BY StepIs
  <2>5. Move(at, m.reg, LockOf(m.mem), CounterOf(m.mem),
            7, Step(m), LockOf(m.mem), CounterOf(m.mem))
    BY <1>10, <2>4 DEF Move
  <2> QED
    BY <1>1, <1>2, <1>10, <2>3, <2>4, <2>5, MovesToBy
<1>11. CASE at = 7 /\ m.reg[2] = 0
  <2>1. raw = jne(-1, 2)
    BY <1>11, BodyLines
  <2>2. Effect(e, Step(m), m.mem)
    BY <1>1, <1>11, <2>1, RunJumps
  <2>3. Same(m.reg, Step(m)) /\ Step(m)[8] = m.reg[8] + 2
    BY StepIs
  <2>4. Move(at, m.reg, LockOf(m.mem), CounterOf(m.mem),
            8, Step(m), LockOf(m.mem), CounterOf(m.mem))
    BY <1>11, <2>3 DEF Move
  <2> QED
    BY <1>1, <1>2, <1>11, <2>2, <2>3, <2>4, MovesToBy
<1>12. CASE at = 7 /\ m.reg[2] # 0
  <2>1. raw = jne(-1, 2)
    BY <1>12, BodyLines
  <2>2. Effect(e, Back(m, 1), m.mem)
    BY <1>1, <1>12, <2>1, RunJumps
  <2>3. Same(m.reg, Back(m, 1)) /\ Back(m, 1)[8] = m.reg[8] - 2
    BY BackIs
  <2>4. Move(at, m.reg, LockOf(m.mem), CounterOf(m.mem),
            6, Back(m, 1), LockOf(m.mem), CounterOf(m.mem))
    BY <1>12, <2>3 DEF Move
  <2> QED
    BY <1>1, <1>2, <1>12, <2>2, <2>3, <2>4, MovesToBy
<1>13. CASE at = 8
  <2>1. raw = mov2(3, 4)
    BY <1>13, BodyLines
  <2>2. m.reg[4] = 8
    BY <1>13 DEF Holding
  <2>3. Effect(e, Set(m, 3, CounterOf(m.mem)), m.mem)
    BY <1>1, <1>13, <2>1, <2>2, RunLoad DEF CounterOf
  <2>4. /\ Sets(m.reg, Set(m, 3, CounterOf(m.mem)), 3, CounterOf(m.mem))
        /\ Set(m, 3, CounterOf(m.mem))[8] = m.reg[8] + 2
    BY SetIs
  <2>5. Move(at, m.reg, LockOf(m.mem), CounterOf(m.mem),
            9, Set(m, 3, CounterOf(m.mem)), LockOf(m.mem), CounterOf(m.mem))
    BY <1>13, <2>4 DEF Move
  <2> QED
    BY <1>1, <1>2, <1>13, <2>3, <2>4, <2>5, MovesToBy
<1>14. CASE at = 9
  <2>1. raw = add(3, 5)
    BY <1>14, BodyLines
  <2>2. Effect(e, Set(m, 3, U16(m.reg[3] + m.reg[5])), m.mem)
    BY <1>1, <1>14, <2>1, RunRegisters
  <2>3. /\ Sets(m.reg, Set(m, 3, U16(m.reg[3] + m.reg[5])), 3, U16(m.reg[3] + m.reg[5]))
        /\ Set(m, 3, U16(m.reg[3] + m.reg[5]))[8] = m.reg[8] + 2
    BY SetIs
  <2>4. Move(at, m.reg, LockOf(m.mem), CounterOf(m.mem),
            10, Set(m, 3, U16(m.reg[3] + m.reg[5])), LockOf(m.mem), CounterOf(m.mem))
    BY <1>14, <2>3 DEF Move
  <2> QED
    BY <1>1, <1>2, <1>14, <2>2, <2>3, <2>4, MovesToBy
<1>15. CASE at = 10
  <2>1. raw = mov1(4, 3)
    BY <1>15, BodyLines
  <2>2. m.reg[4] = 8
    BY <1>15 DEF Holding
  <2>3. Effect(e, Step(m), Written(m.mem, 4, m.reg[3]))
    BY <1>1, <1>15, <2>1, <2>2, RunStores
  <2>4. /\ OnlyThose(m.mem, Written(m.mem, 4, m.reg[3]))
         /\ LockOf(Written(m.mem, 4, m.reg[3])) = LockOf(m.mem)
         /\ CounterOf(Written(m.mem, 4, m.reg[3])) = m.reg[3]
    BY WrittenIs DEF OnlyThose, LockOf, CounterOf
  <2>5. Same(m.reg, Step(m)) /\ Step(m)[8] = m.reg[8] + 2
    BY StepIs
  <2>6. Move(at, m.reg, LockOf(m.mem), CounterOf(m.mem),
            11, Step(m), LockOf(Written(m.mem, 4, m.reg[3])), CounterOf(Written(m.mem, 4, m.reg[3])))
    BY <1>15, <2>5, <2>4 DEF Move
  <2> QED
    BY <1>1, <1>2, <1>15, <2>3, <2>4, <2>5, <2>6, MovesToBy
<1>16. CASE at = 11
  <2>1. raw = mov1(0, 1)
    BY <1>16, BodyLines
  <2>2. m.reg[0] = 4
    BY <1>16 DEF Holding
  <2>3. Effect(e, Step(m), Written(m.mem, 2, m.reg[1]))
    BY <1>1, <1>16, <2>1, <2>2, RunStores
  <2>4. /\ OnlyThose(m.mem, Written(m.mem, 2, m.reg[1]))
         /\ LockOf(Written(m.mem, 2, m.reg[1])) = m.reg[1]
         /\ CounterOf(Written(m.mem, 2, m.reg[1])) = CounterOf(m.mem)
    BY WrittenIs DEF OnlyThose, LockOf, CounterOf
  <2>5. Same(m.reg, Step(m)) /\ Step(m)[8] = m.reg[8] + 2
    BY StepIs
  <2>6. Move(at, m.reg, LockOf(m.mem), CounterOf(m.mem),
            12, Step(m), LockOf(Written(m.mem, 2, m.reg[1])), CounterOf(Written(m.mem, 2, m.reg[1])))
    BY <1>16, <2>5, <2>4 DEF Move
  <2> QED
    BY <1>1, <1>2, <1>16, <2>3, <2>4, <2>5, <2>6, MovesToBy
<1>17. CASE at = 12
  <2>1. raw = sub(6, 5)
    BY <1>17, BodyLines
  <2>2. Effect(e, Set(m, 6, U16(m.reg[6] - m.reg[5])), m.mem)
    BY <1>1, <1>17, <2>1, RunRegisters
  <2>3. /\ Sets(m.reg, Set(m, 6, U16(m.reg[6] - m.reg[5])), 6, U16(m.reg[6] - m.reg[5]))
        /\ Set(m, 6, U16(m.reg[6] - m.reg[5]))[8] = m.reg[8] + 2
    BY SetIs
  <2>4. Move(at, m.reg, LockOf(m.mem), CounterOf(m.mem),
            13, Set(m, 6, U16(m.reg[6] - m.reg[5])), LockOf(m.mem), CounterOf(m.mem))
    BY <1>17, <2>3 DEF Move
  <2> QED
    BY <1>1, <1>2, <1>17, <2>2, <2>3, <2>4, MovesToBy
<1>18. CASE at = 13 /\ m.reg[6] = 0
  <2>1. raw = jne(-8, 6)
    BY <1>18, BodyLines
  <2>2. Effect(e, Step(m), m.mem)
    BY <1>1, <1>18, <2>1, RunJumps
  <2>3. Same(m.reg, Step(m)) /\ Step(m)[8] = m.reg[8] + 2
    BY StepIs
  <2>4. Move(at, m.reg, LockOf(m.mem), CounterOf(m.mem),
            14, Step(m), LockOf(m.mem), CounterOf(m.mem))
    BY <1>18, <2>3 DEF Move
  <2> QED
    BY <1>1, <1>2, <1>18, <2>2, <2>3, <2>4, MovesToBy
<1>19. CASE at = 13 /\ m.reg[6] # 0
  <2>1. raw = jne(-8, 6)
    BY <1>19, BodyLines
  <2>2. Effect(e, Back(m, 8), m.mem)
    BY <1>1, <1>19, <2>1, RunJumps
  <2>3. Same(m.reg, Back(m, 8)) /\ Back(m, 8)[8] = m.reg[8] - 16
    BY BackIs
  <2>4. Move(at, m.reg, LockOf(m.mem), CounterOf(m.mem),
            5, Back(m, 8), LockOf(m.mem), CounterOf(m.mem))
    BY <1>19, <2>3 DEF Move
  <2> QED
    BY <1>1, <1>2, <1>19, <2>2, <2>3, <2>4, MovesToBy
<1>20. CASE at = 14
  <2>1. raw = reset
    BY <1>20, BodyLines
  <2>2. e.result = "exit" /\ e.reg = m.reg /\ e.mem = m.mem
    BY <2>1, RunReset
  <2>3. Move(14, m.reg, LockOf(m.mem), CounterOf(m.mem),
             14, m.reg, LockOf(m.mem), CounterOf(m.mem))
    BY DEF Move, Same
  <2>4. m.reg[8] = m.reg[8] + 2 * (14 - 14)
    BY <1>1
  <2> QED
    BY <1>1, <1>2, <1>20, <2>2, <2>3, <2>4 DEF MovesTo
<1>21. at < 1 \/ at \in {1, 2, 3, 4, 5, 6, 7, 8, 9, 10, 11, 12, 13, 14}
  OBVIOUS
<1> QED
  BY <1>3, <1>4, <1>5, <1>6, <1>7, <1>8, <1>9, <1>10, <1>11, <1>12, <1>13, <1>14,
     <1>15, <1>16, <1>17, <1>18, <1>19, <1>20, <1>21

----------------------------------------------------------------------------
(* The programs of a command line, and where each subprocess is in its     *)
(* own.                                                                    *)

Offset(p) == argv.files[p].offset
Nops(p) == Len(Words(p)) - 14
Regs(p) == Subprocesses[p].RegisterSet

(* The line p is on, its nops counted.                                     *)
Line(p) == (Regs(p)[IP_ID] - Offset(p)) \div 2 + 1
OnLine(p) ==
    Line(p) \in DOMAIN Words(p) /\ Regs(p)[IP_ID] = Offset(p) + 2 * (Line(p) - 1)

LEMMA AddressFacts == Lock = LockOf(Memory) /\ Counter = CounterOf(Memory)
<1>1. LockAddress \div 2 = 2 /\ CounterAddress \div 2 = 4
  BY DEF LockAddress, CounterAddress
<1> QED
  BY <1>1 DEF Lock, Counter, LockOf, CounterOf

LEMMA AtIs == ASSUME NEW p PROVE At(p) = Line(p) - Nops(p)
<1>1. Len(Body) = 14
  BY BodyLines
<1>2. At(p) = Line(p) - (Len(Words(p)) - Len(Body))
  BY DEF At, Line, Regs, Offset, Words
<1> QED
  BY <1>1, <1>2 DEF Nops

LEMMA ProgramFacts ==
  ASSUME IInv, NEW p \in Id
  PROVE  /\ Len(Words(p)) \in Nat /\ DOMAIN Words(p) = 1 .. Len(Words(p))
         /\ 1 \in DOMAIN Words(p)
         /\ Offset(p) \in Nat /\ Base(p) \in Nat
         /\ Contends(p) => Nops(p) \in Nat /\ Words(p) = Contender(Nops(p))
         /\ ~Contends(p) => Words(p) = Bystander
         /\ \A k \in DOMAIN Words(p) :
              Runs(Words(p)[k]) /\ Base(p) + k - 1 # 2 /\ Base(p) + k - 1 # 4
<1>1. /\ Words(p) \in Seq(Word) /\ Len(Words(p)) \in Nat /\ Base(p) \in Nat
      /\ DOMAIN Words(p) = 1 .. Len(Words(p))
  BY FilesOfImages
<1>2. Offset(p) \in Nat
  <2>1. argv.files[p] \in CodeFiles
    BY CommandLinesAssumption DEF IInv, TypeOK, Id
  <2> QED
    BY <2>1, WordIff DEF CodeFiles, Offset
<1>3. ~Contends(p) => Words(p) = Bystander
  BY DEF Contends, Words
<1>4. /\ Words(p) = Bystander \/ \E n \in 0 .. Len(Words(p)) : Words(p) = Contender(n)
      /\ \A k \in DOMAIN Words(p) : Base(p) + k - 1 # 2 /\ Base(p) + k - 1 # 4
  <2>1. argv \in CommandLines
    BY DEF IInv, TypeOK
  <2>2. LockAddress \div 2 = 2 /\ CounterAddress \div 2 = 4
    BY DEF LockAddress, CounterAddress
  <2> QED
    BY <2>1, <2>2, ProgramsAssumption DEF Words, Base
<1>5. CASE Words(p) = Bystander
  <2>1. 1 \in DOMAIN Words(p) /\ ~Contends(p)
    BY <1>1, <1>5, BystanderLines DEF Contends, Words
  <2> QED
    BY <1>1, <1>2, <1>4, <1>5, <2>1, LinesRun
<1>6. CASE Contends(p)
  <2>1. PICK n \in Nat : Words(p) = Contender(n)
    BY <1>1, <1>4, <1>6 DEF Contends, Words
  <2>2. \A k : k \in 1 .. Len(Words(p)) <=> k \in 1 .. n + 14
    BY <1>1, <2>1, ContenderLines
  <2>3. Len(Words(p)) = n + 14
    <3>1. n + 14 \in 1 .. n + 14
      OBVIOUS
    <3>2. n + 14 \in 1 .. Len(Words(p))
      BY <2>2, <3>1
    <3>3. Len(Words(p)) \in 1 .. n + 14
      BY <1>1, <2>2, <3>2
    <3>4. Len(Words(p)) \in Int
      BY <1>1
    <3> QED
      BY <3>2, <3>3, <3>4
  <2>4. Nops(p) = n
    BY <2>3 DEF Nops
  <2>5. 1 \in DOMAIN Words(p)
    BY <1>1, <2>3
  <2> QED
    BY <1>1, <1>2, <1>4, <1>6, <2>1, <2>4, <2>5, LinesRun
<1> QED
  BY <1>3, <1>5, <1>6

----------------------------------------------------------------------------
(* The inductive invariant. *)

(* All subprocesses are loaded and RunExecution has begun. *)
Started == loadId = SubprocessCnt /\ pc # "load"

(* Before that a subprocess that is loaded is new, and its offset even.    *)
New ==
    /\ \A p \in Id : p < loadId =>
         /\ Subprocesses[p] = NewSubprocess(Offset(p), argv.iterationsPerProcess)
         /\ Offset(p) % 2 = 0
    /\ pc = "read" => Offset(loadId) % 2 = 0
    /\ pc # "done"

(* Everyone's code is intact and everyone is on a line of it. *)
Placed(p) ==
    /\ InPlace(Memory, p, Len(Words(p)))
    /\ Offset(p) % 2 = 0
    /\ OnLine(p)
    /\ Subprocesses[p].TicksToExecute = argv.iterationsPerProcess

(* Without a budget, only reset ends a contender. *)
InOrder(p) ==
    /\ Holding(At(p), Regs(p), Counter)
    /\ Subprocesses[p].Exited /\ argv.iterationsPerProcess = 0 => At(p) = 14

Holds1(p) == Has(At(p), Regs(p))
OneHolder == \A p, q \in Contenders : Holds1(p) /\ Holds1(q) => p = q
LockWord == Lock = IF \E p \in Contenders : Holds1(p) THEN 1 ELSE 0

(* The additions made so far, by whom and which of his. *)
Additions ==
    {a \in Contenders \X (1 .. Rounds) : a[2] <= Made(At(a[1]), Regs(a[1]))}

RunInv ==
    /\ \A p \in Id : Placed(p)
    /\ \A p \in Contenders : InOrder(p)
    /\ OneHolder
    /\ LockWord
    /\ Counter = U16(Cardinality(Additions))

SpinInv == (Started => RunInv) /\ (~Started => New)

LEMMA AtType ==
  ASSUME IInv, NEW p \in Id, OnLine(p)
  PROVE  At(p) \in Int /\ At(p) <= 14
<1>1. Len(Words(p)) \in Nat /\ Line(p) \in Int /\ Line(p) <= Len(Words(p))
  BY ProgramFacts DEF OnLine
<1>2. At(p) = Line(p) - (Len(Words(p)) - 14)
  BY AtIs DEF Nops
<1> QED
  BY <1>1, <1>2

(* A line is as far along the program as IP says. *)
LEMMA LineOfIP ==
  ASSUME IInv, NEW p \in Id, NEW k \in DOMAIN Words(p),
         Regs(p)[IP_ID] = Offset(p) + 2 * (k - 1)
  PROVE  Line(p) = k /\ OnLine(p)
<1>1. Offset(p) \in Nat /\ k \in Int
  BY ProgramFacts
<1>2. Line(p) = k
  BY <1>1 DEF Line
<1> QED
  BY <1>2 DEF OnLine

(* What the executer fetches is the line, and where it is not the last one *)
(* the next one is in memory too.                                          *)
LEMMA Fetches ==
  ASSUME IInv, NEW p \in Id, Placed(p), Subprocesses[p] \in SubprocessRecords
  PROVE  /\ RawOperation(Subprocesses[p], Memory) = Words(p)[Line(p)]
         /\ ~CannotFetch(Subprocesses[p], Memory)
         /\ Line(p) + 1 \in DOMAIN Words(p) => Regs(p)[8] + 2 <= 65535
<1> DEFINE k == Line(p)
<1>1. /\ k \in DOMAIN Words(p) /\ Regs(p)[8] = Offset(p) + 2 * (k - 1)
      /\ Offset(p) % 2 = 0 /\ InPlace(Memory, p, Len(Words(p)))
  BY DEF Placed, OnLine, IP_ID
<1>2. /\ DOMAIN Words(p) = 1 .. Len(Words(p)) /\ Len(Words(p)) \in Nat
      /\ Offset(p) \in Nat /\ Base(p) \in Nat
      /\ \A j \in DOMAIN Words(p) : Runs(Words(p)[j])
  BY ProgramFacts
<1>3. \A j \in DOMAIN Words(p) : Read(Memory, Base(p) + j - 1) = Words(p)[j] /\ Words(p)[j] # 0
  BY <1>1, <1>2 DEF InPlace, Runs
<1>4. k \in Int /\ Offset(p) = 2 * Base(p)
  BY <1>1, <1>2 DEF Base, Offset
<1> HIDE DEF k
<1>5. Regs(p)[8] \div 2 = Base(p) + k - 1 /\ Regs(p)[8] % 2 = 0
  <2>1. \A x \in Int : (2 * x) \div 2 = x /\ (2 * x) % 2 = 0
    OBVIOUS
  <2>2. Regs(p)[8] = 2 * (Base(p) + k - 1) /\ Base(p) + k - 1 \in Int
    BY <1>1, <1>2, <1>4
  <2> QED
    BY <2>1, <2>2
<1>6. RawOperation(Subprocesses[p], Memory) = Words(p)[k]
  BY <1>1, <1>3, <1>5 DEF RawOperation, Regs, IP_ID
<1>7. ~CannotFetch(Subprocesses[p], Memory)
  BY <1>1, <1>2, <1>5, <1>6 DEF CannotFetch, Runs, Unaligned, Regs, IP_ID
<1>8. ASSUME k + 1 \in DOMAIN Words(p) PROVE Regs(p)[8] + 2 <= 65535
  <2>1. Read(Memory, Base(p) + (k + 1) - 1) # 0
    BY <1>3, <1>8
  <2>2. Base(p) + (k + 1) - 1 \in WordIndex
    BY <2>1 DEF Read, IInv, TypeOK, IsMemory
  <2> QED
    BY <1>1, <1>4, <2>2, <1>2, WordIndexIff
<1> QED
  BY <1>6, <1>7, <1>8 DEF k

----------------------------------------------------------------------------
(* An instruction that runs. *)

Ran == InstructionContinues \/ InstructionExits

(* The machine the current subprocess runs on.                             *)
Before == [reg |-> Current.RegisterSet, mem |-> Memory, stdin |-> Stdin,
           stdout |-> Stdout, exitCode |-> InstructionSet_ExitCode,
           result |-> "continue"]

LEMMA CurrentFacts ==
  ASSUME IInv, RunInv, pc = "slice"
  PROVE  /\ CurrentSubprocessId \in Id /\ Placed(CurrentSubprocessId)
         /\ Current \in SubprocessRecords
         /\ RawOperation(Current, Memory) =
              Words(CurrentSubprocessId)[Line(CurrentSubprocessId)]
         /\ ~CannotFetch(Current, Memory)
<1>1. /\ CurrentSubprocessId \in Id /\ Current \in SubprocessRecords
      /\ Current = Subprocesses[CurrentSubprocessId]
  BY SubprocessFacts DEF Executing, Current
<1>2. Placed(CurrentSubprocessId)
  BY <1>1 DEF RunInv
<1> QED
  BY <1>1, <1>2, Fetches

LEMMA BeforeFacts ==
  ASSUME IInv, RunInv, InstructionRuns
  PROVE  /\ Before \in Machines
         /\ Outcome = Execute(Words(CurrentSubprocessId)[Line(CurrentSubprocessId)], Before)
         /\ Before.reg = Regs(CurrentSubprocessId) /\ Before.mem = Memory
<1>1. Before \in Machines
  BY MachineBefore DEF Before
<1>2. Outcome = Execute(RawOperation(Current, Memory), Before)
  BY DEF Outcome, Before
<1> QED
  BY <1>1, <1>2, CurrentFacts DEF InstructionRuns, Before, Regs, Current

LEMMA ContenderLine ==
  ASSUME NEW n \in Nat, NEW k \in 1 .. n + 14, NEW at, at = k - n
  PROVE  /\ at < 1 => Contender(n)[k] = nop
         /\ at >= 1 => Contender(n)[k] = Body[at]
<1>1. Len(Body) = 14
  BY BodyLines
<1>2. Contender(n)[k] = IF k <= n THEN nop ELSE Body[k - n]
  BY <1>1 DEF Contender
<1> QED
  BY <1>2

LEMMA ContenderRuns ==
  ASSUME IInv, RunInv, InstructionRuns, Contends(CurrentSubprocessId)
  PROVE  MovesTo(At(CurrentSubprocessId), Before, Outcome)
<1> DEFINE c == CurrentSubprocessId
           n == Nops(c)
           at == At(c)
           raw == Words(c)[Line(c)]
<1>1. pc = "slice" /\ c \in Id /\ Placed(c) /\ Subprocesses[c] \in SubprocessRecords
  BY CurrentFacts DEF InstructionRuns, Current
<1>2. /\ n \in Nat /\ Words(c) = Contender(n) /\ Len(Words(c)) = n + 14
      /\ DOMAIN Words(c) = 1 .. n + 14 /\ Offset(c) \in Nat
  <2>1. /\ n \in Nat /\ Words(c) = Contender(n) /\ Len(Words(c)) \in Nat
        /\ DOMAIN Words(c) = 1 .. Len(Words(c)) /\ Offset(c) \in Nat
    BY <1>1, ProgramFacts
  <2>2. Len(Words(c)) = n + 14
    BY <2>1 DEF Nops
  <2> QED
    BY <2>1, <2>2
<1>3. /\ Line(c) \in 1 .. n + 14 /\ Regs(c)[8] = Offset(c) + 2 * (Line(c) - 1)
      /\ at = Line(c) - n
  BY <1>1, <1>2, AtIs DEF Placed, OnLine, IP_ID
<1>4. /\ Before \in Machines /\ Outcome = Execute(raw, Before)
      /\ Before.reg = Regs(c) /\ Before.mem = Memory
  BY BeforeFacts
<1>5. Holding(at, Before.reg, CounterOf(Before.mem))
  BY <1>1, <1>4, AddressFacts DEF RunInv, InOrder, Contenders
<1>6. at < 14 => Before.reg[8] + 2 <= 65535
  <2>1. at < 14 => Line(c) + 1 \in DOMAIN Words(c)
    BY <1>2, <1>3
  <2> QED
    BY <1>1, <1>4, <2>1, Fetches
<1>7. (at < 1 => raw = nop) /\ (at >= 1 => raw = Body[at])
  BY <1>2, <1>3, ContenderLine
<1> HIDE DEF n, at, raw, c
<1>9. at \in Int /\ at <= 14 /\ Before.reg[8] >= 2 * (at - 1)
  BY <1>2, <1>3, <1>4
<1>10. MovesTo(at, Before, Execute(raw, Before))
  BY <1>4, <1>5, <1>6, <1>7, <1>9, ContenderStep
<1> QED
  BY <1>4, <1>10 DEF at, c

LEMMA BystanderRuns ==
  ASSUME IInv, RunInv, InstructionRuns, ~Contends(CurrentSubprocessId)
  PROVE  /\ Outcome.mem = Memory /\ Outcome.result = "continue"
         /\ \E k \in DOMAIN Words(CurrentSubprocessId) :
              Outcome.reg[IP_ID] = Offset(CurrentSubprocessId) + 2 * (k - 1)
<1> DEFINE c == CurrentSubprocessId
           k == Line(c)
           raw == Words(c)[k]
<1>1. pc = "slice" /\ c \in Id /\ Placed(c) /\ Subprocesses[c] \in SubprocessRecords
  BY CurrentFacts DEF InstructionRuns, Current
<1>2. Words(c) = Bystander /\ DOMAIN Words(c) = 1 .. 2 /\ Offset(c) \in Nat
  BY <1>1, ProgramFacts, BystanderLines
<1>3. k \in 1 .. 2 /\ Regs(c)[8] = Offset(c) + 2 * (k - 1)
  BY <1>1, <1>2 DEF Placed, OnLine, IP_ID
<1>4. /\ Before \in Machines /\ Outcome = Execute(raw, Before)
      /\ Before.reg = Regs(c) /\ Before.mem = Memory
  BY BeforeFacts
<1>5. k = 1 => Regs(c)[8] + 2 <= 65535
  <2>1. k = 1 => Line(c) + 1 \in DOMAIN Words(c)
    BY <1>2
  <2> QED
    BY <1>1, <2>1, Fetches
<1>6. IP_ID = 8
  BY DEF IP_ID
<1> HIDE DEF k, c
<1>7. CASE k = 1
  <2>1. raw = nop /\ HasNext(Before)
    BY <1>2, <1>4, <1>5, <1>6, <1>7, BystanderLines DEF HasNext
  <2>2. Effect(Outcome, Step(Before), Memory)
    BY <1>4, <2>1, RunNop
  <2>3. Outcome.reg[8] = Offset(c) + 2 * (2 - 1) /\ 2 \in DOMAIN Words(c)
    BY <1>2, <1>3, <1>4, <1>7, <2>2, StepIs DEF Effect
  <2> QED
    BY <1>6, <2>2, <2>3 DEF Effect, c
<1>8. CASE k = 2
  <2>1. raw = jmp(-1) /\ Before.reg[8] >= 2
    BY <1>2, <1>3, <1>4, <1>8, BystanderLines
  <2>2. Effect(Outcome, Back(Before, 1), Memory)
    BY <1>4, <2>1, RunJumps
  <2>3. Outcome.reg[8] = Offset(c) + 2 * (1 - 1) /\ 1 \in DOMAIN Words(c)
    BY <1>2, <1>3, <1>4, <1>8, <2>2, BackIs DEF Effect
  <2> QED
    BY <1>6, <2>2, <2>3 DEF Effect, c
<1> QED
  BY <1>3, <1>7, <1>8

(* What it leaves of the state: only the current record and memory change. *)
LEMMA RanFacts ==
  ASSUME IInv, Ran, NEW c, c = CurrentSubprocessId
  PROVE  /\ InstructionRuns /\ pc = "slice" /\ c \in Id
         /\ UNCHANGED <<argv, loadId>> /\ Memory' = Outcome.mem
         /\ Subprocesses'[c].RegisterSet = Outcome.reg
         /\ Subprocesses'[c].Exited = (Outcome.result = "exit")
         /\ Subprocesses'[c].TicksToExecute = Subprocesses[c].TicksToExecute
         /\ \A p \in Id : p # c => Subprocesses'[p] = Subprocesses[p]
         /\ pc' \in {"slice", "find"}
<1>1. /\ InstructionRuns /\ TakeEffect(Outcome) /\ pc' \in {"slice", "find"}
  BY DEF Ran, InstructionContinues, InstructionExits, CountTick, LeaveSlice
<1>2. Subprocesses[c] \in SubprocessRecords /\ c \in Id /\ pc = "slice"
  BY <1>1, SubprocessFacts DEF InstructionRuns, Executing
<1> DEFINE s == AfterInstruction(Subprocesses[c], Outcome, UINT32_MAX)
<1>3. /\ s.RegisterSet = Outcome.reg /\ s.Exited = (Outcome.result = "exit")
      /\ s.TicksToExecute = Subprocesses[c].TicksToExecute
  BY <1>2 DEF AfterInstruction, SubprocessRecords
<1>4. /\ Subprocesses' = [Subprocesses EXCEPT ![c] = s]
      /\ UNCHANGED <<argv, loadId>> /\ Memory' = Outcome.mem
  BY <1>1 DEF TakeEffect, fixed, loading
<1> HIDE DEF s
<1>5. /\ Subprocesses'[c] = s
      /\ \A p \in Id : p # c => Subprocesses'[p] = Subprocesses[p]
  BY <1>2, <1>4 DEF IInv, TypeOK
<1> QED
  BY <1>1, <1>2, <1>3, <1>4, <1>5

----------------------------------------------------------------------------
(* Steps of the running phase keep RunInv. *)

LEMMA LineArithmetic ==
  ASSUME NEW o \in Nat, NEW k \in Int
  PROVE  ((o + 2 * (k - 1)) - o) \div 2 + 1 = k
<1>1. (o + 2 * (k - 1)) - o = 2 * (k - 1)
  OBVIOUS
<1>2. (2 * (k - 1)) \div 2 = k - 1
  OBVIOUS
<1> QED
  BY <1>1, <1>2

(* The command line is fixed, and what is said about a subprocess depends  *)
(* on its own registers.                                                   *)
LEMMA FixedFacts ==
  ASSUME argv' = argv
  PROVE  /\ Contenders' = Contenders
         /\ \A p : /\ Words(p)' = Words(p) /\ Base(p)' = Base(p)
                   /\ Offset(p)' = Offset(p) /\ Nops(p)' = Nops(p)
                   /\ At(p)' = Line(p)' - Nops(p)
         /\ \A p : Regs(p)' = Regs(p) => /\ Line(p)' = Line(p) /\ At(p)' = At(p)
                                         /\ OnLine(p)' <=> OnLine(p)
<1>1. \A p : /\ Words(p)' = Words(p) /\ Base(p)' = Base(p) /\ Offset(p)' = Offset(p)
             /\ Contends(p)' <=> Contends(p)
  BY DEF Words, Base, Offset, Contends
<1>2. Contenders' = Contenders
  BY <1>1 DEF Contenders
<1>3. \A p : Nops(p)' = Nops(p)
  BY <1>1 DEF Nops
<1>4. Len(Body) = 14
  BY BodyLines
<1>5. ASSUME NEW p PROVE At(p)' = Line(p)' - (Len(Words(p)') - Len(Body))
  BY DEF At, Line, Regs, Offset, Words
<1>6. ASSUME NEW p PROVE At(p)' = Line(p)' - Nops(p)
  BY <1>1, <1>4, <1>5 DEF Nops
<1>7. ASSUME NEW p, Regs(p)' = Regs(p)
      PROVE  Line(p)' = Line(p) /\ At(p)' = At(p) /\ (OnLine(p)' <=> OnLine(p))
  <2>1. Line(p)' = Line(p)
    BY <1>1, <1>7 DEF Line
  <2> QED
    BY <1>1, <1>6, <1>7, <2>1, AtIs DEF OnLine
<1> QED
  BY <1>1, <1>2, <1>3, <1>6, <1>7

LEMMA PlacedKept ==
  ASSUME IInv, RunInv, argv' = argv, OnlyThose(Memory, Memory'),
         NEW p \in Id, OnLine(p)',
         Subprocesses'[p].TicksToExecute = Subprocesses[p].TicksToExecute
  PROVE  Placed(p)'
<1>1. /\ Words(p)' = Words(p) /\ Base(p)' = Base(p) /\ Offset(p)' = Offset(p)
  BY FixedFacts
<1>2. Placed(p)
  BY DEF RunInv
<1>3. InPlace(Memory', p, Len(Words(p)))
  <2> SUFFICES ASSUME NEW k \in 1 .. Len(Words(p)), Words(p)[k] # 0
               PROVE  Read(Memory', Base(p) + k - 1) = Words(p)[k]
    BY DEF InPlace
  <2>1. Base(p) + k - 1 # 2 /\ Base(p) + k - 1 # 4
    BY ProgramFacts
  <2>2. Read(Memory, Base(p) + k - 1) = Words(p)[k]
    BY <1>2 DEF Placed, InPlace
  <2> QED
    BY <2>1, <2>2 DEF OnlyThose
<1>4. InPlace(Memory, p, Len(Words(p)))'
  BY <1>1, <1>3 DEF InPlace
<1> QED
  BY <1>1, <1>2, <1>4 DEF Placed

(* Steps that leave the lock, the counter and every contender's registers  *)
(* alone.                                                                  *)
LEMMA QuietKeepsRunInv ==
  ASSUME IInv, RunInv, UNCHANGED <<argv, Memory>>,
         \A p \in Id : /\ OnLine(p)'
                       /\ Subprocesses'[p].TicksToExecute = Subprocesses[p].TicksToExecute,
         \A p \in Contenders :
             /\ Regs(p)' = Regs(p)
             /\ Subprocesses'[p].Exited /\ argv.iterationsPerProcess = 0
                    => Subprocesses[p].Exited
  PROVE  RunInv'
<1>1. /\ Contenders' = Contenders /\ Lock' = Lock /\ Counter' = Counter
      /\ \A p \in Contenders : At(p)' = At(p) /\ Regs(p)' = Regs(p)
  BY FixedFacts DEF Lock, Counter
<1>2. \A p \in Id : Placed(p)'
  BY PlacedKept DEF OnlyThose
<1>3. \A p \in Contenders : InOrder(p)'
  BY <1>1 DEF RunInv, InOrder
<1>4. \A p \in Contenders : Holds1(p)' <=> Holds1(p)
  BY <1>1 DEF Holds1
<1>5. OneHolder' /\ LockWord'
  BY <1>1, <1>4 DEF RunInv, OneHolder, LockWord
<1>6. Additions' = Additions
  <2>1. \A a \in Contenders \X (1 .. Rounds) :
          /\ At(a[1])' = At(a[1]) /\ Regs(a[1])' = Regs(a[1])
    BY <1>1
  <2> QED
    BY <1>1, <2>1 DEF Additions
<1> QED
  BY <1>1, <1>2, <1>3, <1>5, <1>6 DEF RunInv

LEMMA StillQuiet ==
  ASSUME IInv, RunInv, UNCHANGED <<argv, Memory, Subprocesses>>
  PROVE  RunInv'
<1>1. \A p \in Id : OnLine(p)'
  <2>1. \A p : Regs(p)' = Regs(p)
    BY DEF Regs
  <2> QED
    BY <2>1, FixedFacts DEF RunInv, Placed
<1> QED
  BY <1>1, QuietKeepsRunInv DEF Regs

(* A move of one contender, as a step of the state. *)
Moves(c) ==
    /\ UNCHANGED argv
    /\ OnlyThose(Memory, Memory')
    /\ \A p \in Id : p # c => Subprocesses'[p] = Subprocesses[p]
    /\ Subprocesses'[c].TicksToExecute = Subprocesses[c].TicksToExecute
    /\ OnLine(c)' /\ At(c)' \in Int
    /\ Subprocesses'[c].Exited => At(c)' = 14
    /\ Move(At(c), Regs(c), Lock, Counter, At(c)', Regs(c)', Lock', Counter')

LEMMA ContenderMoves ==
  ASSUME IInv, RunInv, Ran, NEW c, c = CurrentSubprocessId, Contends(c)
  PROVE  c \in Id /\ Moves(c)
<1>1. /\ InstructionRuns /\ c \in Id /\ argv' = argv /\ Memory' = Outcome.mem
      /\ Subprocesses'[c].RegisterSet = Outcome.reg
      /\ Subprocesses'[c].Exited = (Outcome.result = "exit")
      /\ Subprocesses'[c].TicksToExecute = Subprocesses[c].TicksToExecute
      /\ \A p \in Id : p # c => Subprocesses'[p] = Subprocesses[p]
  BY RanFacts
<1>2. Before.reg = Regs(c) /\ Before.mem = Memory
  BY <1>1, BeforeFacts
<1>3. PICK to \in Int :
        /\ to <= 14 /\ (to < 1 => to = At(c) + 1)
        /\ Outcome.reg[8] = Regs(c)[8] + 2 * (to - At(c))
        /\ Move(At(c), Regs(c), LockOf(Memory), CounterOf(Memory),
                to, Outcome.reg, LockOf(Memory'), CounterOf(Memory'))
        /\ OnlyThose(Memory, Memory')
        /\ Outcome.result = IF At(c) = 14 THEN "exit" ELSE "continue"
  BY <1>1, <1>2, ContenderRuns DEF MovesTo
<1>4. /\ Len(Words(c)) = Nops(c) + 14 /\ Nops(c) \in Nat /\ Offset(c) \in Nat
      /\ DOMAIN Words(c) = 1 .. Nops(c) + 14
  <2>1. /\ Len(Words(c)) \in Nat /\ Nops(c) \in Nat /\ Offset(c) \in Nat
        /\ DOMAIN Words(c) = 1 .. Len(Words(c))
    BY <1>1, ProgramFacts
  <2>2. Len(Words(c)) = Nops(c) + 14
    BY <2>1 DEF Nops
  <2> QED
    BY <2>1, <2>2
<1>5. /\ Line(c) \in 1 .. Nops(c) + 14 /\ Regs(c)[8] = Offset(c) + 2 * (Line(c) - 1)
      /\ At(c) = Line(c) - Nops(c)
  <2>1. Placed(c)
    BY <1>1 DEF RunInv
  <2> QED
    BY <1>4, <2>1, AtIs DEF Placed, OnLine, IP_ID
<1> DEFINE k == to + Nops(c)
<1>6. k \in 1 .. Nops(c) + 14 /\ Outcome.reg[8] = Offset(c) + 2 * (k - 1)
  <2>1. to <= 14 /\ (to < 1 => to = At(c) + 1)
    BY <1>3
  <2>2. /\ k \in 1 .. Nops(c) + 14
        /\ Regs(c)[8] + 2 * (to - At(c)) = Offset(c) + 2 * (k - 1)
    <3> DEFINE n == Nops(c)
               l == Line(c)
               o == Offset(c)
               a == At(c)
    <3>1. /\ n \in Nat /\ l \in Int /\ l >= 1 /\ o \in Nat /\ a = l - n
          /\ Regs(c)[8] = o + 2 * (l - 1) /\ (to < 1 => to = a + 1)
      BY <1>4, <1>5, <2>1
    <3> HIDE DEF n, l, o, a
    <3>2. to + n >= 1 /\ to + n <= n + 14 /\ to + n \in Int
      BY <2>1, <3>1
    <3>3. o + 2 * (l - 1) + 2 * (to - a) = o + 2 * ((to + n) - 1)
      BY <3>1
    <3> QED
      BY <3>1, <3>2, <3>3 DEF n, l, o, a
  <2> QED
    BY <1>3, <2>2
<1>7. /\ Words(c)' = Words(c) /\ Offset(c)' = Offset(c) /\ At(c)' = Line(c)' - Nops(c)
  BY <1>1, FixedFacts
<1>8. Regs(c)' = Outcome.reg
  BY <1>1 DEF Regs
<1>9. Line(c)' = k
  <2>1. Line(c)' = ((Offset(c) + 2 * (k - 1)) - Offset(c)) \div 2 + 1
    BY <1>6, <1>7, <1>8 DEF Line, IP_ID
  <2>2. Offset(c) \in Nat /\ k \in Int
    BY <1>4
  <2> HIDE DEF k
  <2> QED
    BY <2>1, <2>2, LineArithmetic
<1>10. OnLine(c)'
  BY <1>4, <1>6, <1>7, <1>8, <1>9 DEF OnLine, IP_ID
<1>11. At(c)' = to
  BY <1>3, <1>4, <1>7, <1>9
<1>12. /\ Lock = LockOf(Memory) /\ Counter = CounterOf(Memory)
       /\ Lock' = LockOf(Memory') /\ Counter' = CounterOf(Memory')
  <2>1. LockAddress \div 2 = 2 /\ CounterAddress \div 2 = 4
    BY DEF LockAddress, CounterAddress
  <2> QED
    BY <2>1 DEF Lock, Counter, LockOf, CounterOf
<1>13. Move(At(c), Regs(c), Lock, Counter, At(c)', Regs(c)', Lock', Counter')
  BY <1>3, <1>8, <1>11, <1>12
<1>14. Subprocesses'[c].Exited => At(c)' = 14
  <2>1. Subprocesses'[c].Exited => At(c) = 14
    BY <1>1, <1>3
  <2>2. At(c) = 14 => to = 14
    BY <1>3 DEF Move
  <2> QED
    BY <1>11, <2>1, <2>2
<1> QED
  BY <1>1, <1>3, <1>10, <1>11, <1>13, <1>14 DEF Moves

(* What MoveKeeps says of it. *)
LEMMA MoveFacts ==
  ASSUME IInv, RunInv, NEW c \in Contenders, Moves(c)
  PROVE  /\ Holding(At(c), Regs(c), Counter)' /\ InOrder(c)'
         /\ \/ Lock' = Lock /\ (Holds1(c)' <=> Holds1(c))
            \/ Lock = 0 /\ Lock' = 1 /\ ~Holds1(c) /\ Holds1(c)'
            \/ Lock' = 0 /\ Holds1(c) /\ ~Holds1(c)'
         /\ \/ Counter' = Counter /\ Made(At(c)', Regs(c)') = Made(At(c), Regs(c))
            \/ /\ Holds1(c) /\ Counter' = U16(Counter + 1)
               /\ Made(At(c)', Regs(c)') = Made(At(c), Regs(c)) + 1
               /\ Made(At(c)', Regs(c)') \in 1 .. Rounds
<1>1. At(c) \in Int /\ At(c)' \in Int /\ Holding(At(c), Regs(c), Counter)
  BY AtType DEF RunInv, Placed, InOrder, Contenders, Moves
<1>2. Move(At(c), Regs(c), Lock, Counter, At(c)', Regs(c)', Lock', Counter')
  BY DEF Moves
<1>3. /\ Holding(At(c)', Regs(c)', Counter')
      /\ \/ Lock' = Lock /\ (Has(At(c)', Regs(c)') <=> Has(At(c), Regs(c)))
         \/ Lock = 0 /\ Lock' = 1 /\ ~Has(At(c), Regs(c)) /\ Has(At(c)', Regs(c)')
         \/ Lock' = 0 /\ Has(At(c), Regs(c)) /\ ~Has(At(c)', Regs(c)')
      /\ \/ Counter' = Counter /\ Made(At(c)', Regs(c)') = Made(At(c), Regs(c))
         \/ /\ Has(At(c), Regs(c)) /\ Counter' = U16(Counter + 1)
            /\ Made(At(c)', Regs(c)') = Made(At(c), Regs(c)) + 1
            /\ Made(At(c)', Regs(c)') \in 1 .. Rounds
  BY <1>1, <1>2, MoveKeeps
<1> QED
  BY <1>3 DEF Holds1, InOrder, Moves

LEMMA HoldingOfOthers ==
  ASSUME NEW at \in Int, NEW g, NEW x, NEW y, Holding(at, g, x), ~Has(at, g)
  PROVE  Holding(at, g, y)
<1>1. at # 9 /\ at # 10
  BY DEF Has
<1> QED
  BY <1>1 DEF Holding

LEMMA MadeType ==
  ASSUME NEW at \in Int, at <= 14, NEW g, NEW x, Holding(at, g, x)
  PROVE  /\ Made(at, g) \in Int /\ 0 <= Made(at, g) /\ Made(at, g) <= Rounds
         /\ at = 14 => Made(at, g) = Rounds
         /\ at <= 4 => Made(at, g) = 0
<1>1. Rounds \in Int /\ 1 <= Rounds
  BY RoundsFact
<1>2. CASE at <= 4
  BY <1>1, <1>2 DEF Made
<1>3. CASE 5 <= at /\ at <= 12
  <2>1. g[6] \in Int /\ 1 <= g[6] /\ g[6] <= Rounds
    BY <1>1, <1>3 DEF Holding
  <2> QED
    BY <1>1, <1>3, <2>1 DEF Made
<1>4. CASE at = 13
  <2>1. g[6] \in Int /\ 0 <= g[6] /\ g[6] <= Rounds - 1
    BY <1>1, <1>4 DEF Holding
  <2> QED
    BY <1>1, <1>4, <2>1 DEF Made
<1>5. CASE at = 14
  <2>1. g[6] = 0
    BY <1>5 DEF Holding
  <2> QED
    BY <1>1, <1>5, <2>1 DEF Made
<1> QED
  BY <1>2, <1>3, <1>4, <1>5

LEMMA ContendersFinite ==
  /\ IsFiniteSet(Contenders) /\ Contenders \subseteq Id
  /\ IsFiniteSet(1 .. Rounds) /\ Cardinality(1 .. Rounds) = Rounds
  /\ IsFiniteSet(Contenders \X (1 .. Rounds))
  /\ Cardinality(Contenders \X (1 .. Rounds)) = Cardinality(Contenders) * Rounds
<1>1. Contenders \subseteq Id
  BY DEF Contenders
<1>2. IsFiniteSet(Id)
  BY CntFact, FS_Interval DEF Id
<1>3. IsFiniteSet(Contenders)
  BY <1>1, <1>2, FS_Subset
<1>4. IsFiniteSet(1 .. Rounds) /\ Cardinality(1 .. Rounds) = Rounds
  BY RoundsFact, FS_Interval
<1> QED
  BY <1>1, <1>3, <1>4, FS_Product

LEMMA AdditionsFinite == IsFiniteSet(Additions) /\ Cardinality(Additions) \in Nat
<1>1. Additions \subseteq Contenders \X (1 .. Rounds)
  BY DEF Additions
<1> QED
  BY <1>1, ContendersFinite, FS_Subset, FS_CardinalityType

LEMMA U16Next == ASSUME NEW n \in Nat PROVE U16(U16(n) + 1) = U16(n + 1)
<1>1. \A x \in Nat : ((x % 65536) + 1) % 65536 = (x + 1) % 65536
  OBVIOUS
<1>2. \A x : U16(x) = x % 65536
  BY Powers DEF U16
<1> QED
  BY <1>1, <1>2

(* A move makes one addition, or none. *)
LEMMA MovesKeepCounter ==
  ASSUME IInv, RunInv, NEW c \in Contenders, Moves(c)
  PROVE  (Counter = U16(Cardinality(Additions)))'
<1>1. /\ Contenders' = Contenders
      /\ \A p \in Contenders : p # c => At(p)' = At(p) /\ Regs(p)' = Regs(p)
  BY FixedFacts, ContendersFinite DEF Moves, Regs
<1>2. Counter = U16(Cardinality(Additions))
  BY DEF RunInv
<1> DEFINE m == Made(At(c), Regs(c))
           k == Made(At(c)', Regs(c)')
<1>3. CASE Counter' = Counter /\ k = m
  <2>1. \A a \in Contenders \X (1 .. Rounds) :
          Made(At(a[1])', Regs(a[1])') = Made(At(a[1]), Regs(a[1]))
    BY <1>1, <1>3
  <2>2. Additions' = Additions
    BY <1>1, <2>1 DEF Additions
  <2> QED
    BY <1>2, <1>3, <2>2
<1>4. CASE Counter' = U16(Counter + 1) /\ k = m + 1 /\ k \in 1 .. Rounds
  <2>1. m \in Int
    BY MadeType, AtType DEF RunInv, Placed, InOrder, Contenders
  <2> DEFINE a0 == <<c, k>>
  <2>2. a0 \in Contenders \X (1 .. Rounds)
    BY <1>4
  <2>3. a0 \notin Additions
    <3>1. ~(a0[2] <= Made(At(a0[1]), Regs(a0[1])))
      BY <1>4, <2>1
    <3> QED
      BY <3>1 DEF Additions
  <2>4. ASSUME NEW a \in Contenders \X (1 .. Rounds)
        PROVE  a[2] <= Made(At(a[1])', Regs(a[1])')
                 <=> a[2] <= Made(At(a[1]), Regs(a[1])) \/ a = a0
    <3>1. a = <<a[1], a[2]>> /\ a[1] \in Contenders /\ a[2] \in Int
      OBVIOUS
    <3>2. CASE a[1] # c
      BY <1>1, <3>1, <3>2
    <3>3. CASE a[1] = c
      <4>1. a = a0 <=> a[2] = k
        BY <3>1, <3>3
      <4>2. a[2] <= k <=> a[2] <= m \/ a[2] = k
        BY <1>4, <2>1, <3>1
      <4> QED
        BY <3>3, <4>1, <4>2
    <3> QED
      BY <3>2, <3>3
  <2> HIDE DEF a0, m, k
  <2>5. Additions' = Additions \cup {a0}
    BY <1>1, <2>2, <2>4 DEF Additions
  <2>6. Cardinality(Additions') = Cardinality(Additions) + 1
    BY <2>3, <2>5, AdditionsFinite, FS_AddElement
  <2> QED
    BY <1>2, <1>4, <2>6, AdditionsFinite, U16Next
<1> QED
  BY <1>3, <1>4, MoveFacts

LEMMA MovesKeepRunInv ==
  ASSUME IInv, RunInv, NEW c \in Contenders, Moves(c)
  PROVE  RunInv'
<1>1. /\ Contenders' = Contenders /\ Contenders \subseteq Id
      /\ \A p \in Id : p # c =>
           /\ At(p)' = At(p) /\ Regs(p)' = Regs(p) /\ (OnLine(p)' <=> OnLine(p))
           /\ Subprocesses'[p] = Subprocesses[p]
  BY FixedFacts, ContendersFinite DEF Moves, Regs
<1>2. ASSUME NEW p \in Id PROVE Placed(p)'
  <2>1. OnLine(p)'
    BY <1>1 DEF RunInv, Placed, Moves
  <2> QED
    BY <1>1, <2>1, PlacedKept DEF Moves
<1>3. \A p \in Contenders : p # c => (Holds1(p)' <=> Holds1(p))
  BY <1>1 DEF Holds1
<1>4. ASSUME NEW p \in Contenders PROVE InOrder(p)'
  <2>1. CASE p = c
    BY <2>1, MoveFacts
  <2>2. CASE p # c
    <3>1. InOrder(p) /\ At(p) \in Int
      BY <1>1, AtType DEF RunInv, Placed
    <3>2. Counter' = Counter \/ ~Has(At(p), Regs(p))
      BY <2>2, MoveFacts DEF RunInv, OneHolder, Holds1
    <3>3. Holding(At(p), Regs(p), Counter')
      BY <3>1, <3>2, HoldingOfOthers DEF InOrder
    <3>4. Holding(At(p)', Regs(p)', Counter')
      BY <1>1, <2>2, <3>3
    <3> QED
      BY <1>1, <2>2, <3>1, <3>4 DEF InOrder, Moves
  <2> QED
    BY <2>1, <2>2
<1>5. OneHolder' /\ LockWord'
  <2>1. OneHolder /\ LockWord
    BY DEF RunInv
  <2>2. CASE Lock' = Lock /\ (Holds1(c)' <=> Holds1(c))
    BY <1>1, <1>3, <2>1, <2>2 DEF OneHolder, LockWord
  <2>3. CASE Lock = 0 /\ Lock' = 1 /\ ~Holds1(c) /\ Holds1(c)'
    <3>1. \A p \in Contenders : ~Holds1(p)
      BY <2>1, <2>3 DEF LockWord
    <3> QED
      BY <1>1, <1>3, <2>3, <3>1 DEF OneHolder, LockWord
  <2>4. CASE Lock' = 0 /\ Holds1(c) /\ ~Holds1(c)'
    <3>1. \A p \in Contenders : ~Holds1(p)'
      BY <1>3, <2>1, <2>4 DEF OneHolder
    <3> QED
      BY <1>1, <2>4, <3>1 DEF OneHolder, LockWord
  <2> QED
    BY <2>2, <2>3, <2>4, MoveFacts
<1> QED
  BY <1>1, <1>2, <1>4, <1>5, MovesKeepCounter DEF RunInv

----------------------------------------------------------------------------
(* The inductive step. *)

(* When execution starts, the images are in place and avoid the lock and   *)
(* the counter, and everyone is on line 1 with registers of 0.             *)
LEMMA StartMakesRunInv ==
  ASSUME IInv, Images, New, StartExecution
  PROVE  RunInv'
<1>1. /\ UNCHANGED <<argv, Memory, Subprocesses>>
      /\ pc = "load" /\ loadId = SubprocessCnt
  BY DEF StartExecution, fixed
<1>2. ASSUME NEW p \in Id
      PROVE  /\ InPlace(Memory, p, Len(Words(p))) /\ Offset(p) % 2 = 0
             /\ Subprocesses[p] = NewSubprocess(Offset(p), argv.iterationsPerProcess)
  <2>1. p < loadId
    BY <1>1, CntFact DEF Id
  <2> QED
    BY <1>1, <2>1 DEF Images, New
<1>3. ASSUME NEW p \in Id
      PROVE  /\ Subprocesses[p].TicksToExecute = argv.iterationsPerProcess
             /\ ~Subprocesses[p].Exited
             /\ Regs(p)[IP_ID] = Offset(p)
             /\ \A r \in 0 .. 6 : Regs(p)[r] = 0
  <2>1. Subprocesses[p] = NewSubprocess(Offset(p), argv.iterationsPerProcess)
    BY <1>2
  <2>2. ASSUME NEW o, NEW b
        PROVE  LET s == NewSubprocess(o, b)
               IN  /\ s.TicksToExecute = b /\ ~s.Exited /\ s.RegisterSet[8] = o
                   /\ \A r \in 0 .. 6 : s.RegisterSet[r] = 0
    BY DEF NewSubprocess, RegisterId, IP_ID, SP_ID
  <2> QED
    BY <2>1, <2>2 DEF Regs, IP_ID
<1>4. ASSUME NEW p \in Id
      PROVE  OnLine(p) /\ Line(p) = 1
  <2>1. Offset(p) \in Nat /\ 1 \in DOMAIN Words(p)
    BY ProgramFacts
  <2>2. Line(p) = ((Offset(p) + 2 * (1 - 1)) - Offset(p)) \div 2 + 1
    BY <1>3, <2>1 DEF Line
  <2>3. Line(p) = 1
    BY <2>1, <2>2, LineArithmetic
  <2> QED
    BY <1>3, <2>1, <2>3 DEF OnLine
<1>5. ASSUME NEW p \in Contenders
      PROVE  At(p) \in Int /\ At(p) <= 1 /\ p \in Id
  <2>1. p \in Id /\ Nops(p) \in Nat
    BY ProgramFacts DEF Contenders
  <2> QED
    BY <1>4, <2>1, AtIs
<1>6. ASSUME NEW p \in Contenders
      PROVE  InOrder(p) /\ ~Holds1(p) /\ Made(At(p), Regs(p)) = 0
  <2>1. /\ Regs(p)[0] = 0 /\ Regs(p)[1] = 0 /\ Regs(p)[2] = 0 /\ Regs(p)[4] = 0
        /\ Regs(p)[5] = 0 /\ Regs(p)[6] = 0 /\ ~Subprocesses[p].Exited
    BY <1>3, <1>5
  <2> QED
    BY <1>5, <2>1 DEF InOrder, Holding, Holds1, Has, Made
<1>7. Lock = 0 /\ Counter = 0
  <2>1. ASSUME NEW w \in DOMAIN Memory, Memory[w] # 0 PROVE w # 2 /\ w # 4
    <3>1. PICK p \in Id : w - Base(p) + 1 \in DOMAIN Words(p)
      BY <1>1, <2>1 DEF Images, FromFile
    <3>2. w \in Int /\ Base(p) \in Int
      BY ProgramFacts, WordIndexIff DEF IInv, TypeOK, IsMemory
    <3>3. Base(p) + (w - Base(p) + 1) - 1 = w
      BY <3>2
    <3> QED
      BY <3>1, <3>3, ProgramFacts
  <2>2. LockOf(Memory) = 0 /\ CounterOf(Memory) = 0
    BY <2>1 DEF LockOf, CounterOf, Read
  <2> QED
    BY <2>2, AddressFacts
<1>8. Additions = {}
  <2>1. ASSUME NEW a \in Contenders \X (1 .. Rounds)
        PROVE  ~(a[2] <= Made(At(a[1]), Regs(a[1])))
    <3>1. a[1] \in Contenders /\ a[2] \in Int /\ a[2] >= 1
      BY RoundsFact
    <3> QED
      BY <1>6, <3>1
  <2> QED
    BY <2>1 DEF Additions
<1>9. Counter = U16(Cardinality(Additions))
  BY <1>7, <1>8, FS_EmptySet, U16Small
<1>10. RunInv
  BY <1>2, <1>3, <1>4, <1>6, <1>7, <1>9
     DEF RunInv, Placed, OneHolder, LockWord
<1> QED
  BY <1>1, <1>10, StillQuiet

LEMMA NewKept ==
  ASSUME IInv, New, ~Started, [Next]_vars, ~StartExecution
  PROVE  ~Started' /\ New'
<1> USE DEF Started, fixed, loading, running, streams
<1>1. ~Executing
  BY DEF IInv, ControlOK, Executing
<1>2. ASSUME argv' = argv PROVE \A p : Offset(p)' = Offset(p)
  BY <1>2 DEF Offset
<1>3. ASSUME UNCHANGED <<argv, loadId, Subprocesses>>,
             pc' = pc \/ (pc' \in {"failed", "aborted"} /\ loadId < SubprocessCnt)
      PROVE  ~Started' /\ New'
  <2>1. Offset(loadId)' = Offset(loadId)
    BY <1>3 DEF Offset
  <2>2. ~Started' /\ pc' # "done"
    BY <1>3, CntFact DEF IInv, TypeOK, New
  <2> QED
    BY <1>2, <1>3, <2>1, <2>2 DEF New
<1>4. CASE OpenCodeFile
  <2>1. loadId \in Id /\ Offset(loadId) = file.offset
    BY <1>4, FileFacts DEF OpenCodeFile, Opening, Offset, file
  <2>2. Offset(loadId) % 2 = 0
    BY <1>4, <2>1, ProgramFacts DEF OpenCodeFile, Unaligned
  <2>3. UNCHANGED <<argv, loadId, Subprocesses>> /\ pc' = "read" /\ pc = "load"
        /\ loadId < SubprocessCnt
    BY <1>4 DEF OpenCodeFile, Opening
  <2>4. Offset(loadId)' = Offset(loadId)
    BY <2>3 DEF Offset
  <2>5. ~Started'
    BY <2>3, CntFact DEF IInv, TypeOK
  <2> QED
    BY <1>2, <2>2, <2>3, <2>4, <2>5 DEF New
<1>5. CASE FinishLoad
  <2>1. /\ UNCHANGED argv /\ loadId' = loadId + 1 /\ pc = "read" /\ pc' = "load"
        /\ Subprocesses' = [Subprocesses EXCEPT ![loadId] =
              NewSubprocess(Offset(loadId), argv.iterationsPerProcess)]
        /\ loadId \in Id
    BY <1>5, FileFacts
       DEF FinishLoad, FileRead, Offset, file, IInv, ControlOK
  <2>2. ASSUME NEW p \in Id, p < loadId + 1
        PROVE  /\ Subprocesses'[p] = NewSubprocess(Offset(p), argv.iterationsPerProcess)
               /\ Offset(p) % 2 = 0
    <3>1. CASE p = loadId
      BY <2>1, <3>1 DEF New, IInv, TypeOK
    <3>2. CASE p # loadId
      <4>1. p < loadId
        BY <2>1, <2>2, <3>2 DEF Id
      <4> QED
        BY <2>1, <3>2, <4>1 DEF New, IInv, TypeOK
    <3> QED
      BY <3>1, <3>2
  <2> QED
    BY <1>2, <2>1, <2>2 DEF New
<1>6. CASE OpenFails \/ LoadsPastEnd \/ LoadIntersects \/ LoadWord \/ LoadFails
  <2>1. /\ UNCHANGED <<argv, loadId, Subprocesses>>
        /\ pc' = pc \/ (pc' \in {"failed", "aborted"} /\ loadId < SubprocessCnt)
    BY <1>6 DEF IInv, ControlOK, Opening, WordLeft, FileRead, OpenFails,
       LoadsPastEnd, LoadIntersects, LoadWord, LoadFails, Ends
  <2> QED
    BY <1>3, <2>1
<1>7. CASE UNCHANGED vars
  <2>1. UNCHANGED <<argv, loadId, Subprocesses>> /\ pc' = pc
    BY <1>7 DEF vars
  <2> QED
    BY <1>3, <2>1
<1> QED
  BY <1>1, <1>4, <1>5, <1>6, <1>7
     DEF Next, Load, Run, Terminated, GiveTurn, PassOver, AllExited, Advance,
         ExitsBeforeTick, InstructionContinues, InstructionExits,
         InstructionAborts, InstructionRuns, Executing

(* While execution goes on, and when it is over. *)
LEMMA RunInvKept ==
  ASSUME IInv, RunInv, Started, [Next]_vars
  PROVE  Started' /\ RunInv'
<1> USE DEF Started, fixed, loading, running, streams
<1>1. pc # "read"
  BY CntFact DEF IInv, ControlOK
<1>2. \A p \in Id : OnLine(p)
  BY DEF RunInv, Placed
<1>3. CASE UNCHANGED <<argv, loadId, Memory, Subprocesses>> /\ pc' # "load"
  BY <1>3, StillQuiet
<1>4. CASE ExitsBeforeTick
  <2>1. /\ pc = "slice" /\ pc' = "find" /\ UNCHANGED <<argv, loadId, Memory>>
        /\ TimedOut(Current) \/ CannotFetch(Current, Memory)
        /\ Subprocesses' = [Subprocesses EXCEPT ![CurrentSubprocessId] = ExitWithError(Current)]
    BY <1>4 DEF ExitsBeforeTick, LeaveSlice, Current
  <2>2. /\ CurrentSubprocessId \in Id /\ Current \in SubprocessRecords
        /\ Placed(CurrentSubprocessId) /\ ~CannotFetch(Current, Memory)
    BY <2>1, CurrentFacts
  <2>3. argv.iterationsPerProcess # 0
    BY <2>1, <2>2 DEF TimedOut, Placed, Current
  <2>4. \A p \in Id : Subprocesses'[p] =
           IF p = CurrentSubprocessId THEN ExitWithError(Current) ELSE Subprocesses[p]
    BY <2>1, <2>2 DEF IInv, TypeOK
  <2>5. /\ ExitWithError(Current).RegisterSet = Current.RegisterSet
        /\ ExitWithError(Current).TicksToExecute = Current.TicksToExecute
    BY <2>2 DEF ExitWithError, SubprocessRecords
  <2>6. ASSUME NEW p \in Id
        PROVE  /\ Regs(p)' = Regs(p)
               /\ Subprocesses'[p].TicksToExecute = Subprocesses[p].TicksToExecute
    BY <2>4, <2>5 DEF Regs, Current
  <2>7. \A p \in Id : OnLine(p)'
    BY <1>2, <2>1, <2>6, FixedFacts
  <2>8. RunInv'
    BY <2>1, <2>3, <2>6, <2>7, QuietKeepsRunInv, ContendersFinite
  <2> QED
    BY <2>1, <2>8
<1>5. CASE Ran
  <2> DEFINE c == CurrentSubprocessId
  <2>1. PICK d : d = c
    OBVIOUS
  <2>2. /\ InstructionRuns /\ pc = "slice" /\ d \in Id
        /\ UNCHANGED <<argv, loadId>> /\ Memory' = Outcome.mem
        /\ Subprocesses'[d].RegisterSet = Outcome.reg
        /\ Subprocesses'[d].TicksToExecute = Subprocesses[d].TicksToExecute
        /\ \A p \in Id : p # d => Subprocesses'[p] = Subprocesses[p]
        /\ pc' \in {"slice", "find"}
    BY <1>5, <2>1, RanFacts
  <2>3. CASE Contends(d)
    <3>1. d \in Contenders /\ Moves(d)
      BY <1>5, <2>1, <2>3, ContenderMoves DEF Contenders
    <3> QED
      BY <2>2, <3>1, MovesKeepRunInv
  <2>4. CASE ~Contends(d)
    <3>1. /\ Outcome.mem = Memory
          /\ \E k \in DOMAIN Words(d) : Outcome.reg[IP_ID] = Offset(d) + 2 * (k - 1)
      BY <2>1, <2>2, <2>4, BystanderRuns
    <3>2. PICK k \in DOMAIN Words(d) : Outcome.reg[IP_ID] = Offset(d) + 2 * (k - 1)
      BY <3>1
    <3>3. Words(d)' = Words(d) /\ Offset(d)' = Offset(d) /\ Offset(d) \in Nat /\ k \in Int
      BY <2>2, FixedFacts, ProgramFacts
    <3>4. Line(d)' = ((Offset(d) + 2 * (k - 1)) - Offset(d)) \div 2 + 1
      BY <2>2, <3>2, <3>3 DEF Line, Regs
    <3>5. Line(d)' = k
      BY <3>3, <3>4, LineArithmetic
    <3>6. OnLine(d)'
      BY <2>2, <3>2, <3>3, <3>5 DEF OnLine, Regs
    <3>7. \A p \in Id : p # d => OnLine(p)' /\ Regs(p)' = Regs(p)
      BY <1>2, <2>2, FixedFacts DEF Regs
    <3>8. \A p \in Contenders : p \in Id /\ p # d
      BY <2>4 DEF Contenders
    <3>9. RunInv'
      BY <2>2, <3>1, <3>6, <3>7, <3>8, QuietKeepsRunInv
    <3> QED
      BY <2>2, <3>9
  <2> QED
    BY <2>3, <2>4
<1>6. CASE GiveTurn \/ PassOver \/ AllExited
  BY <1>3, <1>6 DEF GiveTurn, PassOver, AllExited, Advance
<1>7. CASE InstructionAborts
  BY <1>3, <1>7 DEF InstructionAborts, Ends
<1>8. CASE UNCHANGED vars
  BY <1>3, <1>8 DEF vars
<1> QED
  BY <1>1, <1>4, <1>5, <1>6, <1>7, <1>8
     DEF Next, Load, Run, Terminated, Ran, OpenFails, OpenCodeFile, LoadsPastEnd,
         LoadIntersects, LoadWord, LoadFails, FinishLoad, Opening, WordLeft,
         FileRead, StartExecution

LEMMA InitSpinInv == Init => SpinInv
<1> SUFFICES ASSUME Init PROVE SpinInv
  OBVIOUS
<1>1. pc = "load" /\ loadId = 0 /\ \A p \in Id : ~(p < loadId)
  BY CntFact DEF Init, Id
<1> QED
  BY <1>1 DEF SpinInv, Started, New

LEMMA NextSpinInv == IInv /\ Images /\ SpinInv /\ [Next]_vars => SpinInv'
<1> SUFFICES ASSUME IInv, Images, SpinInv, [Next]_vars PROVE SpinInv'
  OBVIOUS
<1>1. CASE Started
  BY <1>1, RunInvKept DEF SpinInv
<1>2. CASE ~Started /\ StartExecution
  <2>1. RunInv'
    BY <1>2, StartMakesRunInv DEF SpinInv
  <2>2. Started'
    BY <1>2 DEF StartExecution, Started, loading
  <2> QED
    BY <2>1, <2>2 DEF SpinInv
<1>3. CASE ~Started /\ ~StartExecution
  BY <1>3, NewKept DEF SpinInv
<1> QED
  BY <1>1, <1>2, <1>3

LEMMA InvariantImages == Spec => []Images
<1>1. Init => Images
  BY DEF Init, Images, InPlace, Id
<1> QED
  BY <1>1, NextImages, InvariantIInv, PTL DEF Spec

LEMMA InvariantSpinInv == Spec => []SpinInv
  BY InitSpinInv, NextSpinInv, InvariantImages, InvariantIInv, PTL DEF Spec

----------------------------------------------------------------------------
(* The theorems. *)

LEMMA HasLockIs ==
  ASSUME NEW p \in Id, At(p) \in Int, Subprocesses[p] # NULL
  PROVE  HasLock(p) <=> p \in Contenders /\ Holds1(p)
<1>1. At(p) \in 8 .. 11 <=> 8 <= At(p) /\ At(p) <= 11
  OBVIOUS
<1> QED
  BY <1>1 DEF HasLock, Holds1, Has, Regs, Contenders

(* At most one subprocess is between acquire and release, and the lock     *)
(* word says whether one is, for any number of contenders and bystanders   *)
(* and any programs of the two kinds: wherever the turns of the quantum    *)
(* cut them, and also when a budget ends a subprocess that has the lock.   *)
THEOREM LockIsExclusive == Spec => []MutualExclusion
<1>1. IInv /\ SpinInv => MutualExclusion
  <2> SUFFICES ASSUME IInv, SpinInv PROVE MutualExclusion
    OBVIOUS
  <2>1. CASE Started
    <3>1. RunInv
      BY <2>1 DEF SpinInv
    <3>2. ASSUME NEW p \in Id PROVE HasLock(p) <=> p \in Contenders /\ Holds1(p)
      <4>1. At(p) \in Int
        BY <3>1, AtType DEF RunInv, Placed
      <4>2. Subprocesses[p] # NULL
        BY <2>1, CntFact DEF Started, IInv, ControlOK, Id
      <4> QED
        BY <4>1, <4>2, HasLockIs
    <3>3. Contenders \subseteq Id
      BY DEF Contenders
    <3> QED
      BY <3>1, <3>2, <3>3 DEF MutualExclusion, RunInv, OneHolder, LockWord
  <2>2. CASE ~Started
    <3>1. New /\ ~Executing
      BY <2>2 DEF SpinInv, Started, IInv, ControlOK, Executing
    <3>2. ASSUME NEW p \in Id PROVE ~HasLock(p)
      <4> SUFFICES ASSUME Contends(p), Subprocesses[p] # NULL
                   PROVE  ~HasLock(p)
        BY DEF HasLock
      <4>1. Subprocesses[p] = NewSubprocess(Offset(p), argv.iterationsPerProcess)
        BY <3>1, CntFact DEF New, IInv, TypeOK, ControlOK, Id
      <4>2. Regs(p)[IP_ID] = Offset(p) /\ Offset(p) \in Nat /\ Nops(p) \in Nat
        BY <4>1, ProgramFacts DEF Regs, NewSubprocess, RegisterId, IP_ID
      <4>3. Line(p) = ((Offset(p) + 2 * (1 - 1)) - Offset(p)) \div 2 + 1
        BY <4>2 DEF Line
      <4>4. Line(p) = 1
        BY <4>2, <4>3, LineArithmetic
      <4>5. At(p) \in Int /\ At(p) <= 1
        BY <4>2, <4>4, AtIs
      <4> QED
        BY <4>5 DEF HasLock
    <3> QED
      BY <3>1, <3>2 DEF MutualExclusion
  <2> QED
    BY <2>1, <2>2
<1> QED
  BY <1>1, InvariantIInv, InvariantSpinInv, PTL

(* No addition is lost: without a budget, once every contender has exited  *)
(* the counter is the number of additions their programs make, modulo the  *)
(* size of a word, for any number of contenders and rounds.                *)
THEOREM NoUpdateIsLost == Spec => []NoLostUpdate
<1>1. IInv /\ SpinInv => NoLostUpdate
  <2> SUFFICES ASSUME IInv, SpinInv,
                      Executing \/ pc = "done", argv.iterationsPerProcess = 0,
                      \A p \in Contenders : ~Live(p)
               PROVE  Counter = U16(Rounds * Cardinality(Contenders))
    BY DEF NoLostUpdate
  <2>1. Started
    BY DEF SpinInv, New, Started, IInv, ControlOK, Executing
  <2>2. RunInv
    BY <2>1 DEF SpinInv
  <2>3. ASSUME NEW p \in Contenders PROVE Made(At(p), Regs(p)) = Rounds
    <3>1. p \in Id
      BY DEF Contenders
    <3>2. Subprocesses[p].Exited
      BY <2>1, <3>1, CntFact DEF Live, Started, IInv, ControlOK, Id
    <3>3. At(p) = 14 /\ Holding(14, Regs(p), Counter)
      BY <2>2, <3>2 DEF RunInv, InOrder
    <3> QED
      BY <3>3, MadeType
  <2>4. Additions = Contenders \X (1 .. Rounds)
    <3>1. ASSUME NEW a \in Contenders \X (1 .. Rounds)
          PROVE  a[2] <= Made(At(a[1]), Regs(a[1]))
      <4>1. a[1] \in Contenders /\ a[2] \in Int /\ a[2] <= Rounds
        BY RoundsFact
      <4> QED
        BY <2>3, <4>1
    <3> QED
      BY <3>1 DEF Additions
  <2>5. Cardinality(Additions) = Rounds * Cardinality(Contenders)
    BY <2>4, ContendersFinite, FS_CardinalityType, RoundsFact
  <2> QED
    BY <2>2, <2>5 DEF RunInv
<1> QED
  BY <1>1, InvariantIInv, InvariantSpinInv, PTL
======================================================================
