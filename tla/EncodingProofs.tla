------------------------ MODULE EncodingProofs ------------------------
(***************************************************************************)
(* The assembler encodes what the instruction set decodes: a line without  *)
(* a label in it that parses becomes a raw operation with the id of the    *)
(* instruction and the operands as they are written (PlainMeans), a line   *)
(* with one the jump it asks for, with room for the distance (JumpMeans);  *)
(* with a distance in it such a jump has this distance as its operand      *)
(* (JumpMeansOperands); and the lines that parse are those that ask for an *)
(* instruction of the machine (ParsesIff).                                 *)
(***************************************************************************)
EXTENDS CodeLineProofs

----------------------------------------------------------------------------
(* Tokens and their places. *)

(* The second sequence begins with the first. *)
Begins(s, t) == Len(s) <= Len(t) /\ \A k \in 1 .. Len(s) : s[k] = t[k]

LEMMA BeginsNone == ASSUME NEW T, NEW t \in Seq(T) PROVE Begins(<< >>, t)
<1>1. Len(<< >>) = 0 /\ Len(t) \in Nat
  OBVIOUS
<1> QED
  BY <1>1 DEF Begins

LEMMA BeginsOne ==
  ASSUME NEW T, NEW t \in Seq(T), NEW x
  PROVE  Begins(<<x>>, t)
            <=> 1 \in DOMAIN t /\ t[1] = x
<1> DEFINE s == <<x>>
<1>1. Len(t) \in Nat /\ DOMAIN t = 1 .. Len(t) /\ Len(s) = 1 /\ s[1] = x
  OBVIOUS
<1>2. \A k : k \in 1 .. 1 <=> k = 1
  OBVIOUS
<1> HIDE DEF s
<1>3. Begins(s, t) <=> 1 \in DOMAIN t /\ t[1] = x
  BY <1>1, <1>2 DEF Begins
<1> QED
  BY <1>3 DEF s

LEMMA BeginsTwo ==
  ASSUME NEW T, NEW t \in Seq(T), NEW x, NEW y
  PROVE  Begins(<<x, y>>, t)
            <=> 1 \in DOMAIN t /\ 2 \in DOMAIN t /\ t[1] = x /\ t[2] = y
<1> DEFINE s == <<x, y>>
<1>1. Len(t) \in Nat /\ DOMAIN t = 1 .. Len(t) /\ Len(s) = 2 /\ s[1] = x /\ s[2] = y
  OBVIOUS
<1>2. \A k : k \in 1 .. 2 <=> k = 1 \/ k = 2
  OBVIOUS
<1> HIDE DEF s
<1>3. Begins(s, t) <=> 1 \in DOMAIN t /\ 2 \in DOMAIN t /\ t[1] = x /\ t[2] = y
  BY <1>1, <1>2 DEF Begins
<1> QED
  BY <1>3 DEF s

LEMMA BeginsThree ==
  ASSUME NEW T, NEW t \in Seq(T), NEW x, NEW y, NEW z
  PROVE  Begins(<<x, y, z>>, t)
            <=> 1 \in DOMAIN t /\ 2 \in DOMAIN t /\ 3 \in DOMAIN t /\ t[1] = x /\ t[2] = y /\ t[3] = z
<1> DEFINE s == <<x, y, z>>
<1>1. Len(t) \in Nat /\ DOMAIN t = 1 .. Len(t) /\ Len(s) = 3 /\ s[1] = x /\ s[2] = y /\ s[3] = z
  OBVIOUS
<1>2. \A k : k \in 1 .. 3 <=> k = 1 \/ k = 2 \/ k = 3
  OBVIOUS
<1> HIDE DEF s
<1>3. Begins(s, t) <=> 1 \in DOMAIN t /\ 2 \in DOMAIN t /\ 3 \in DOMAIN t /\ t[1] = x /\ t[2] = y /\ t[3] = z
  BY <1>1, <1>2 DEF Begins
<1> QED
  BY <1>3 DEF s

LEMMA TokenIs ==
  ASSUME NEW t \in Tokens
  PROVE  /\ t = Token(t.kind, t.value)
         /\ t.kind \in {"RX", "RX_REF"} => t.value \in 0 .. 7
         /\ t.kind = "RS" => t.value \in 0 .. 15
         /\ t.value \in Nat
<1>1. t = Token(t.kind, t.value)
  BY DEF Tokens, Token
<1> QED
  BY <1>1 DEF Tokens

(* An argument that parses is the token the instruction set has a place    *)
(* for.                                                                    *)
LEMMA ArgFits ==
  ASSUME NEW args \in Seq(Tokens), NEW k, NEW c, ParsesAs(c, ReadToken(args, k)),
         NEW v, v = args[k].value
  PROVE  /\ k \in DOMAIN args
         /\ c \in {"RX", "RX_REF"} => args[k] = Token(c, v) /\ v \in 0 .. 7
         /\ c = "RS" => args[k] = Token("RS", v) /\ v \in 0 .. 15
         /\ c = "IMM4" => args[k] = Token("IMM", v) /\ v \in 0 .. 15
         /\ c = "IMM8" => args[k] = Token("IMM", v) /\ v \in 0 .. 255
         /\ c = "Label" => IsLabelToken(args[k])
<1>1. k \in DOMAIN args
  BY NothingParses DEF ReadToken
<1>2. args[k] \in Tokens /\ ReadToken(args, k) = args[k]
  BY <1>1 DEF ReadToken
<1> DEFINE t == args[k]
<1> HIDE DEF t
<1>3. t \in Tokens /\ v = t.value /\ ParsesAs(c, t)
  BY <1>2 DEF t
<1>4. /\ t = Token(t.kind, v) /\ v \in Nat
      /\ t.kind \in {"RX", "RX_REF"} => v \in 0 .. 7
      /\ t.kind = "RS" => v \in 0 .. 15
  BY <1>3, TokenIs
<1>5. /\ c \in {"RX", "RX_REF", "RS"} => t.kind = c
      /\ c = "IMM4" => t.kind = "IMM" /\ v < 16
      /\ c = "IMM8" => t.kind = "IMM" /\ v < 256
      /\ c = "Label" => IsLabelToken(t)
  BY <1>3, 2^4 = 16, 2^8 = 256 DEF ParsesAs, ParseUInt, IsLabelToken
<1>6. c \in {"RX", "RX_REF"} => t = Token(c, v) /\ v \in 0 .. 7
  BY <1>4, <1>5
<1>7. c = "RS" => t = Token("RS", v) /\ v \in 0 .. 15
  BY <1>4, <1>5
<1>a. \A n \in Nat : (n < 16 => n \in 0 .. 15) /\ (n < 256 => n \in 0 .. 255)
  OBVIOUS
<1>8. (v < 16 => v \in 0 .. 15) /\ (v < 256 => v \in 0 .. 255)
  BY <1>4, <1>a
<1>9. c = "IMM4" => t = Token("IMM", v) /\ v \in 0 .. 15
  BY <1>4, <1>5, <1>8
<1>10. c = "IMM8" => t = Token("IMM", v) /\ v \in 0 .. 255
  BY <1>4, <1>5, <1>8
<1> QED
  BY <1>1, <1>5, <1>6, <1>7, <1>9, <1>10 DEF t

LEMMA FitsRX ==
  ASSUME NEW args \in Seq(Tokens), NEW k, ParsesAs("RX", ReadToken(args, k))
  PROVE  k \in DOMAIN args /\ args[k] = Token("RX", args[k].value) /\ args[k].value \in 0 .. 7
  BY ArgFits

LEMMA FitsRX_REF ==
  ASSUME NEW args \in Seq(Tokens), NEW k, ParsesAs("RX_REF", ReadToken(args, k))
  PROVE  k \in DOMAIN args /\ args[k] = Token("RX_REF", args[k].value) /\ args[k].value \in 0 .. 7
  BY ArgFits

LEMMA FitsRS ==
  ASSUME NEW args \in Seq(Tokens), NEW k, ParsesAs("RS", ReadToken(args, k))
  PROVE  k \in DOMAIN args /\ args[k] = Token("RS", args[k].value) /\ args[k].value \in 0 .. 15
  BY ArgFits

LEMMA FitsIMM4 ==
  ASSUME NEW args \in Seq(Tokens), NEW k, ParsesAs("IMM4", ReadToken(args, k))
  PROVE  k \in DOMAIN args /\ args[k] = Token("IMM", args[k].value) /\ args[k].value \in 0 .. 15
  BY ArgFits

LEMMA FitsIMM8 ==
  ASSUME NEW args \in Seq(Tokens), NEW k, ParsesAs("IMM8", ReadToken(args, k))
  PROVE  k \in DOMAIN args /\ args[k] = Token("IMM", args[k].value) /\ args[k].value \in 0 .. 255
<1>1. k \in DOMAIN args
  BY NothingParses DEF ReadToken
<1>2. args[k] \in Tokens /\ ReadToken(args, k) = args[k]
  BY <1>1 DEF ReadToken
<1> DEFINE t == args[k]
<1> HIDE DEF t
<1>3. t \in Tokens /\ ParsesAs("IMM8", t)
  BY <1>2 DEF t
<1>4. t = Token(t.kind, t.value) /\ t.value \in Nat
  BY <1>3, TokenIs
<1>5. t.kind = "IMM" /\ t.value < 256
  BY <1>3, 2^8 = 256 DEF ParsesAs, ParseUInt
<1>6. \A n \in Nat : n < 256 => n \in 0 .. 255
  OBVIOUS
<1>7. t.value \in 0 .. 255
  BY <1>4, <1>5, <1>6
<1> QED
  BY <1>1, <1>4, <1>5, <1>7 DEF t

----------------------------------------------------------------------------
(* What is packed above the opcode is found there again. *)

LEMMA CmpxchgFields ==
  ASSUME NEW id \in 0 .. 4, NEW a \in 0 .. 7, NEW b \in 0 .. 7, NEW c \in 0 .. 7,
         NEW p, p = a * 2^13 + b * 2^10 + c * 2^7, NEW w, w = WithOpcode(p, id)
  PROVE  /\ w \in Word /\ GetInstructionId(w) = id
         /\ Bits(w, 9, 3) = a /\ Bits(w, 6, 3) = b /\ Bits(w, 3, 3) = c
<1>1. /\ p \in Word /\ id \in Int /\ a \in Int /\ b \in Int /\ c \in Int
      /\ p \div 2^4 = a * 512 + b * 64 + c * 8
  BY WordIff, 2^15 = 32768, 2^13 = 8192, 2^12 = 4096, 2^10 = 1024, 2^7 = 128, 2^4 = 16
<1>0. w \in Word /\ GetInstructionId(w) = id /\ w = 2^15 + id * 2^12 + p \div 2^4
  BY <1>1, BigOpcode, Zenon
<1>2. w \in Word /\ GetInstructionId(w) = id /\ w = 32768 + id * 4096 + p \div 2^4
  BY <1>0, <1>1, 2^15 = 32768, 2^12 = 4096
<1>3. w = 32768 + id * 4096 + a * 512 + b * 64 + c * 8
  BY <1>1, <1>2
<1>4. Bits(w, 9, 3) = a
  <2>1. Bits(w, 9, 3) = (w \div 512) % 8
    BY 2^3 = 8, 2^9 = 512 DEF Bits
  <2>2. w \div 512 = 64 + id * 8 + a
    BY <1>1, <1>3
  <2>3. (64 + id * 8 + a) % 8 = a
    BY <1>1
  <2> QED
    BY <2>1, <2>2, <2>3
<1>5. Bits(w, 6, 3) = b
  <2>1. Bits(w, 6, 3) = (w \div 64) % 8
    BY 2^3 = 8, 2^6 = 64 DEF Bits
  <2>2. w \div 64 = 512 + id * 64 + a * 8 + b
    BY <1>1, <1>3
  <2>3. (512 + id * 64 + a * 8 + b) % 8 = b
    BY <1>1
  <2> QED
    BY <2>1, <2>2, <2>3
<1>6. Bits(w, 3, 3) = c
  <2>1. Bits(w, 3, 3) = (w \div 8) % 8
    BY 2^3 = 8 DEF Bits
  <2>2. w \div 8 = 4096 + id * 512 + a * 64 + b * 8 + c
    BY <1>1, <1>3
  <2>3. (4096 + id * 512 + a * 64 + b * 8 + c) % 8 = c
    BY <1>1
  <2> QED
    BY <2>1, <2>2, <2>3
<1> QED
  BY <1>2, <1>4, <1>5, <1>6

LEMMA CallFields ==
  ASSUME NEW id \in 5 .. 25, NEW a \in 0 .. 255,
         NEW p, p = a * 2^8, NEW w, w = WithOpcode(p, id)
  PROVE  /\ w \in Word /\ GetInstructionId(w) = id
         /\ CallDelta(w) = a
<1>1. /\ p \in Word /\ id \in Int /\ a \in Int
      /\ p \div 2^8 = a
  BY WordIff, 2^8 = 256
<1>0. w \in Word /\ GetInstructionId(w) = id /\ w = id * 2^8 + p \div 2^8
  BY <1>1, SmallOpcode, Zenon
<1>2. w \in Word /\ GetInstructionId(w) = id /\ w = id * 256 + p \div 2^8
  BY <1>0, <1>1, 2^8 = 256
<1>3. w = id * 256 + a
  BY <1>1, <1>2
<1>4. CallDelta(w) = a
  <2>1. CallDelta(w) = (w \div 1) % 256
    BY 2^0 = 1, 2^8 = 256 DEF CallDelta, Bits
  <2>2. w \div 1 = id * 256 + a
    BY <1>1, <1>3
  <2>3. (id * 256 + a) % 256 = a
    BY <1>1
  <2> QED
    BY <2>1, <2>2, <2>3
<1> QED
  BY <1>2, <1>4

LEMMA ShiftFields ==
  ASSUME NEW id \in 5 .. 25, NEW a \in 0 .. 7, NEW b \in 0 .. 15,
         NEW p, p = a * 2^13 + b * 2^9, NEW w, w = WithOpcode(p, id)
  PROVE  /\ w \in Word /\ GetInstructionId(w) = id
         /\ FirstRX(w) = a /\ Imm4(w) = b
<1>1. /\ p \in Word /\ id \in Int /\ a \in Int /\ b \in Int
      /\ p \div 2^8 = a * 32 + b * 2
  BY WordIff, 2^13 = 8192, 2^9 = 512, 2^8 = 256
<1>0. w \in Word /\ GetInstructionId(w) = id /\ w = id * 2^8 + p \div 2^8
  BY <1>1, SmallOpcode, Zenon
<1>2. w \in Word /\ GetInstructionId(w) = id /\ w = id * 256 + p \div 2^8
  BY <1>0, <1>1, 2^8 = 256
<1>3. w = id * 256 + a * 32 + b * 2
  BY <1>1, <1>2
<1>4. FirstRX(w) = a
  <2>1. FirstRX(w) = (w \div 32) % 8
    BY 2^3 = 8, 2^5 = 32 DEF FirstRX, Bits
  <2>2. w \div 32 = id * 8 + a
    BY <1>1, <1>3
  <2>3. (id * 8 + a) % 8 = a
    BY <1>1
  <2> QED
    BY <2>1, <2>2, <2>3
<1>5. Imm4(w) = b
  <2>1. Imm4(w) = (w \div 2) % 16
    BY 2^1 = 2, 2^4 = 16 DEF Imm4, Bits
  <2>2. w \div 2 = id * 128 + a * 16 + b
    BY <1>1, <1>3
  <2>3. (id * 128 + a * 16 + b) % 16 = b
    BY <1>1
  <2> QED
    BY <2>1, <2>2, <2>3
<1> QED
  BY <1>2, <1>4, <1>5

LEMMA StreamFields ==
  ASSUME NEW id \in 5 .. 25, NEW a \in 0 .. 15,
         NEW p, p = a * 2^12, NEW w, w = WithOpcode(p, id)
  PROVE  /\ w \in Word /\ GetInstructionId(w) = id
         /\ OnlyRS(w) = a
<1>1. /\ p \in Word /\ id \in Int /\ a \in Int
      /\ p \div 2^8 = a * 16
  BY WordIff, 2^12 = 4096, 2^8 = 256
<1>0. w \in Word /\ GetInstructionId(w) = id /\ w = id * 2^8 + p \div 2^8
  BY <1>1, SmallOpcode, Zenon
<1>2. w \in Word /\ GetInstructionId(w) = id /\ w = id * 256 + p \div 2^8
  BY <1>0, <1>1, 2^8 = 256
<1>3. w = id * 256 + a * 16
  BY <1>1, <1>2
<1>4. OnlyRS(w) = a
  <2>1. OnlyRS(w) = (w \div 16) % 16
    BY 2^4 = 16 DEF OnlyRS, Bits
  <2>2. w \div 16 = id * 16 + a
    BY <1>1, <1>3
  <2>3. (id * 16 + a) % 16 = a
    BY <1>1
  <2> QED
    BY <2>1, <2>2, <2>3
<1> QED
  BY <1>2, <1>4

LEMMA SingleFields ==
  ASSUME NEW id \in 5 .. 25, NEW a \in 0 .. 7,
         NEW p, p = a * 2^13, NEW w, w = WithOpcode(p, id)
  PROVE  /\ w \in Word /\ GetInstructionId(w) = id
         /\ FirstRX(w) = a
<1>1. /\ p \in Word /\ id \in Int /\ a \in Int
      /\ p \div 2^8 = a * 32
  BY WordIff, 2^13 = 8192, 2^8 = 256
<1>0. w \in Word /\ GetInstructionId(w) = id /\ w = id * 2^8 + p \div 2^8
  BY <1>1, SmallOpcode, Zenon
<1>2. w \in Word /\ GetInstructionId(w) = id /\ w = id * 256 + p \div 2^8
  BY <1>0, <1>1, 2^8 = 256
<1>3. w = id * 256 + a * 32
  BY <1>1, <1>2
<1>4. FirstRX(w) = a
  <2>1. FirstRX(w) = (w \div 32) % 8
    BY 2^3 = 8, 2^5 = 32 DEF FirstRX, Bits
  <2>2. w \div 32 = id * 8 + a
    BY <1>1, <1>3
  <2>3. (id * 8 + a) % 8 = a
    BY <1>1
  <2> QED
    BY <2>1, <2>2, <2>3
<1> QED
  BY <1>2, <1>4

LEMMA RegistersFields ==
  ASSUME NEW id \in 5 .. 25, NEW a \in 0 .. 7, NEW b \in 0 .. 7, NEW m \in 0 .. 3,
         NEW p, p = a * 2^13 + b * 2^10 + m, NEW w, w = WithOpcode(p, id)
  PROVE  /\ w \in Word /\ GetInstructionId(w) = id
         /\ FirstRX(w) = a /\ SecondRX(w) = b
<1>1. /\ p \in Word /\ id \in Int /\ a \in Int /\ b \in Int
      /\ p \div 2^8 = a * 32 + b * 4
  BY WordIff, 2^13 = 8192, 2^10 = 1024, 2^8 = 256
<1>0. w \in Word /\ GetInstructionId(w) = id /\ w = id * 2^8 + p \div 2^8
  BY <1>1, SmallOpcode, Zenon
<1>2. w \in Word /\ GetInstructionId(w) = id /\ w = id * 256 + p \div 2^8
  BY <1>0, <1>1, 2^8 = 256
<1>3. w = id * 256 + a * 32 + b * 4
  BY <1>1, <1>2
<1>4. FirstRX(w) = a
  <2>1. FirstRX(w) = (w \div 32) % 8
    BY 2^3 = 8, 2^5 = 32 DEF FirstRX, Bits
  <2>2. w \div 32 = id * 8 + a
    BY <1>1, <1>3
  <2>3. (id * 8 + a) % 8 = a
    BY <1>1
  <2> QED
    BY <2>1, <2>2, <2>3
<1>5. SecondRX(w) = b
  <2>1. SecondRX(w) = (w \div 4) % 8
    BY 2^2 = 4, 2^3 = 8 DEF SecondRX, Bits
  <2>2. w \div 4 = id * 64 + a * 8 + b
    BY <1>1, <1>3
  <2>3. (id * 64 + a * 8 + b) % 8 = b
    BY <1>1
  <2> QED
    BY <2>1, <2>2, <2>3
<1> QED
  BY <1>2, <1>4, <1>5

----------------------------------------------------------------------------
(* Encoding. *)

(* The word is the instruction with these operands. *)
Decodes(w, id, operands) ==
    w \in Word /\ GetInstructionId(w) = id /\ Operands(w) = operands

(* The arguments by id. *)
LEMMA ClassesById ==
  ASSUME NEW id \in 1 .. 25, NEW cs, cs = INSTRUCTION_PARSERS[INSTRUCTION_NAMES[id + 1]]
  PROVE  /\ id \in {1, 2} => cs = <<"Label", "RX">>
         /\ id = 3 => cs = <<"RX_REF", "RX", "RX">>
         /\ id = 4 => cs = <<"Label">>
         /\ id = 5 => cs = <<"IMM8">>
         /\ id \in {6, 7} => cs = <<"RX", "IMM4">>
         /\ id \in 8 .. 11 \cup 15 .. 17 => cs = <<"RX", "RX">>
         /\ id \in {18, 19} => cs = <<"RS">>
         /\ id \in 20 .. 22 => cs = <<"RX">>
         /\ id \in 23 .. 25 => cs = << >>
<1>1. /\ id \in {1, 2} => INSTRUCTION_NAMES[id + 1] \in {"jne", "je"}
      /\ id = 3 => INSTRUCTION_NAMES[id + 1] = "cmpxchg"
      /\ id = 4 => INSTRUCTION_NAMES[id + 1] = "jmp"
      /\ id = 5 => INSTRUCTION_NAMES[id + 1] = "call"
      /\ id \in {6, 7} => INSTRUCTION_NAMES[id + 1] \in {"shr", "shl"}
      /\ id \in 8 .. 11 \cup 15 .. 17 =>
            INSTRUCTION_NAMES[id + 1] \in {"xor", "sub", "or", "mul", "div", "and", "add"}
      /\ id \in {18, 19} => INSTRUCTION_NAMES[id + 1] \in {"out", "in"}
      /\ id \in 20 .. 22 => INSTRUCTION_NAMES[id + 1] \in {"push", "pop", "not"}
      /\ id \in 23 .. 25 => INSTRUCTION_NAMES[id + 1] \in {"ret", "reset", "nop"}
  BY DEF INSTRUCTION_NAMES
<1> QED
  BY <1>1, ParserTable

(* No arguments make the empty word. *)
LEMMA NothingPacked == ASSUME NEW args, NEW stale PROVE Pack(<< >>, args, stale) = 0
<1>1. Len(<< >>) \in 0 .. 3 /\ Len(<< >>) = 0
  OBVIOUS
<1>2. PICK argValue, offset, raw : Packed(<< >>, args, stale, argValue, offset, raw)
  BY <1>1, PackedSoFar
<1> QED
  BY <1>1, <1>2 DEF Packed

(* Every argument parses. *)
Fit(classes, args) == Unparsed(classes, args) = {}

LEMMA AllParse ==
  ASSUME NEW cs, NEW args, Fit(cs, args), NEW k \in DOMAIN cs
  PROVE  ParsesAs(cs[k], ReadToken(args, k))
  BY DEF Unparsed, Fit

LEMMA DecodesCmpxchg ==
  ASSUME NEW id \in {3}, NEW a \in 0 .. 7, NEW b \in 0 .. 7, NEW c \in 0 .. 7,
         NEW p, p = a * 2^13 + b * 2^10 + c * 2^7
  PROVE  Decodes(WithOpcode(p, id), id, <<Token("RX_REF", a), Token("RX", b), Token("RX", c)>>)
<1> DEFINE w == WithOpcode(p, id)
<1>1. id \in 0 .. 4 /\ id \in 0 .. 25 /\ w = WithOpcode(p, id)
  OBVIOUS
<1> HIDE DEF w
<1>2. w \in Word /\ GetInstructionId(w) = id /\ Bits(w, 9, 3) = a /\ Bits(w, 6, 3) = b /\ Bits(w, 3, 3) = c
  BY <1>1, CmpxchgFields
<1>3. Operands(w) = <<Token("RX_REF", a), Token("RX", b), Token("RX", c)>>
  BY <1>1, <1>2, OperandsById
<1> QED
  BY <1>2, <1>3 DEF Decodes, w

LEMMA PacksCmpxchg ==
  ASSUME NEW args \in Seq(Tokens), NEW stale,
         ParsesAs("RX_REF", ReadToken(args, 1)), ParsesAs("RX", ReadToken(args, 2)), ParsesAs("RX", ReadToken(args, 3))
  PROVE  \E a \in 0 .. 7, b \in 0 .. 7, c \in 0 .. 7 :
            Pack(<<"RX_REF", "RX", "RX">>, args, stale) = a * 2^13 + b * 2^10 + c * 2^7 /\ Begins(<<Token("RX_REF", a), Token("RX", b), Token("RX", c)>>, args)
<1> DEFINE a == args[1].value
           b == args[2].value
           c == args[3].value
<1>a. 1 \in DOMAIN args /\ args[1] = Token("RX_REF", a) /\ a \in 0 .. 7
  BY FitsRX_REF
<1>b. 2 \in DOMAIN args /\ args[2] = Token("RX", b) /\ b \in 0 .. 7
  BY FitsRX
<1>c. 3 \in DOMAIN args /\ args[3] = Token("RX", c) /\ c \in 0 .. 7
  BY FitsRX
<1>1. Pack(<<"RX_REF", "RX", "RX">>, args, stale) = a * 2^13 + b * 2^10 + c * 2^7
  BY <1>a, <1>b, <1>c, ThreePacked
<1> HIDE DEF a, b, c
<1>2. Begins(<<Token("RX_REF", a), Token("RX", b), Token("RX", c)>>, args)
  BY <1>a, <1>b, <1>c, BeginsThree
<1> QED
  BY <1>a, <1>b, <1>c, <1>1, <1>2

LEMMA DecodesMov ==
  ASSUME NEW id \in {0}, NEW a \in 0 .. 15, NEW b \in 0 .. 255,
         NEW p, p = a * 2^12 + b * 2^4
  PROVE  Decodes(WithOpcode(p, id), id, <<Token("RS", a), Token("IMM", b)>>)
<1> DEFINE w == WithOpcode(p, id)
<1>1. /\ p \in Word /\ id \in 0 .. 4 /\ id \in 0 .. 25 /\ id \in Int /\ a \in Int /\ b \in Int
      /\ p \div 2^4 = a * 256 + b
  BY WordIff, 2^15 = 32768, 2^12 = 4096, 2^4 = 16
<1>0. w \in Word /\ GetInstructionId(w) = id /\ w = 2^15 + id * 2^12 + p \div 2^4
  BY <1>1, BigOpcode, Zenon
<1>2. w \in Word /\ GetInstructionId(w) = id /\ w = 32768 + id * 4096 + p \div 2^4
  BY <1>0, <1>1, 2^15 = 32768, 2^12 = 4096
<1>3. w = 32768 + id * 4096 + a * 256 + b
  BY <1>1, <1>2
<1>4. Bits(w, 8, 4) = a
  <2>1. Bits(w, 8, 4) = (w \div 256) % 16
    BY 2^4 = 16, 2^8 = 256 DEF Bits
  <2>2. w \div 256 = 128 + id * 16 + a
    BY <1>1, <1>3
  <2>3. (128 + id * 16 + a) % 16 = a
    BY <1>1
  <2> QED
    BY <2>1, <2>2, <2>3
<1>5. Bits(w, 0, 8) = b
  <2>1. Bits(w, 0, 8) = (w \div 1) % 256
    BY 2^0 = 1, 2^8 = 256 DEF Bits
  <2>2. w \div 1 = 32768 + id * 4096 + a * 256 + b
    BY <1>1, <1>3
  <2>3. (32768 + id * 4096 + a * 256 + b) % 256 = b
    BY <1>1
  <2> QED
    BY <2>1, <2>2, <2>3
<1>6. Operands(w) = <<Token("RS", a), Token("IMM", b)>>
  BY <1>1, <1>2, <1>4, <1>5, OperandsById
<1> QED
  BY <1>2, <1>6 DEF Decodes

LEMMA PacksMov ==
  ASSUME NEW args \in Seq(Tokens), NEW stale,
         ParsesAs("RS", ReadToken(args, 1)), ParsesAs("IMM8", ReadToken(args, 2))
  PROVE  \E a \in 0 .. 15, b \in 0 .. 255 :
            Pack(<<"RS", "IMM8">>, args, stale) = a * 2^12 + b * 2^4 /\ Begins(<<Token("RS", a), Token("IMM", b)>>, args)
<1> DEFINE a == args[1].value
           b == args[2].value
<1>a. 1 \in DOMAIN args /\ args[1] = Token("RS", a) /\ a \in 0 .. 15
  BY FitsRS
<1>b. 2 \in DOMAIN args /\ args[2] = Token("IMM", b) /\ b \in 0 .. 255
  BY FitsIMM8
<1>1. Pack(<<"RS", "IMM8">>, args, stale) = a * 2^12 + b * 2^4
  BY <1>a, <1>b, TwoPacked
<1> HIDE DEF a, b
<1>2. Begins(<<Token("RS", a), Token("IMM", b)>>, args)
  BY <1>a, <1>b, BeginsTwo
<1> QED
  BY <1>a, <1>b, <1>1, <1>2

LEMMA DecodesCall ==
  ASSUME NEW id \in {5}, NEW a \in 0 .. 255,
         NEW p, p = a * 2^8
  PROVE  Decodes(WithOpcode(p, id), id, <<Token("IMM", a)>>)
<1> DEFINE w == WithOpcode(p, id)
<1>1. id \in 5 .. 25 /\ id \in 0 .. 25 /\ w = WithOpcode(p, id)
  OBVIOUS
<1> HIDE DEF w
<1>2. w \in Word /\ GetInstructionId(w) = id /\ CallDelta(w) = a
  BY <1>1, CallFields
<1>3. Operands(w) = <<Token("IMM", a)>>
  BY <1>1, <1>2, OperandsById
<1> QED
  BY <1>2, <1>3 DEF Decodes, w

LEMMA PacksCall ==
  ASSUME NEW args \in Seq(Tokens), NEW stale,
         ParsesAs("IMM8", ReadToken(args, 1))
  PROVE  \E a \in 0 .. 255 :
            Pack(<<"IMM8">>, args, stale) = a * 2^8 /\ Begins(<<Token("IMM", a)>>, args)
<1> DEFINE a == args[1].value
<1>a. 1 \in DOMAIN args /\ args[1] = Token("IMM", a) /\ a \in 0 .. 255
  BY FitsIMM8
<1>1. Pack(<<"IMM8">>, args, stale) = a * 2^8
  BY <1>a, OnePacked
<1> HIDE DEF a
<1>2. Begins(<<Token("IMM", a)>>, args)
  BY <1>a, BeginsOne
<1> QED
  BY <1>a, <1>1, <1>2

LEMMA DecodesShift ==
  ASSUME NEW id \in {6, 7}, NEW a \in 0 .. 7, NEW b \in 0 .. 15,
         NEW p, p = a * 2^13 + b * 2^9
  PROVE  Decodes(WithOpcode(p, id), id, <<Token("RX", a), Token("IMM", b)>>)
<1> DEFINE w == WithOpcode(p, id)
<1>1. id \in 5 .. 25 /\ id \in 0 .. 25 /\ w = WithOpcode(p, id)
  OBVIOUS
<1> HIDE DEF w
<1>2. w \in Word /\ GetInstructionId(w) = id /\ FirstRX(w) = a /\ Imm4(w) = b
  BY <1>1, ShiftFields
<1>3. Operands(w) = <<Token("RX", a), Token("IMM", b)>>
  BY <1>1, <1>2, OperandsById
<1> QED
  BY <1>2, <1>3 DEF Decodes, w

LEMMA PacksShift ==
  ASSUME NEW args \in Seq(Tokens), NEW stale,
         ParsesAs("RX", ReadToken(args, 1)), ParsesAs("IMM4", ReadToken(args, 2))
  PROVE  \E a \in 0 .. 7, b \in 0 .. 15 :
            Pack(<<"RX", "IMM4">>, args, stale) = a * 2^13 + b * 2^9 /\ Begins(<<Token("RX", a), Token("IMM", b)>>, args)
<1> DEFINE a == args[1].value
           b == args[2].value
<1>a. 1 \in DOMAIN args /\ args[1] = Token("RX", a) /\ a \in 0 .. 7
  BY FitsRX
<1>b. 2 \in DOMAIN args /\ args[2] = Token("IMM", b) /\ b \in 0 .. 15
  BY FitsIMM4
<1>1. Pack(<<"RX", "IMM4">>, args, stale) = a * 2^13 + b * 2^9
  BY <1>a, <1>b, TwoPacked
<1> HIDE DEF a, b
<1>2. Begins(<<Token("RX", a), Token("IMM", b)>>, args)
  BY <1>a, <1>b, BeginsTwo
<1> QED
  BY <1>a, <1>b, <1>1, <1>2

LEMMA DecodesStream ==
  ASSUME NEW id \in {18, 19}, NEW a \in 0 .. 15,
         NEW p, p = a * 2^12
  PROVE  Decodes(WithOpcode(p, id), id, <<Token("RS", a)>>)
<1> DEFINE w == WithOpcode(p, id)
<1>1. id \in 5 .. 25 /\ id \in 0 .. 25 /\ w = WithOpcode(p, id)
  OBVIOUS
<1> HIDE DEF w
<1>2. w \in Word /\ GetInstructionId(w) = id /\ OnlyRS(w) = a
  BY <1>1, StreamFields
<1>3. Operands(w) = <<Token("RS", a)>>
  BY <1>1, <1>2, OperandsById
<1> QED
  BY <1>2, <1>3 DEF Decodes, w

LEMMA PacksStream ==
  ASSUME NEW args \in Seq(Tokens), NEW stale,
         ParsesAs("RS", ReadToken(args, 1))
  PROVE  \E a \in 0 .. 15 :
            Pack(<<"RS">>, args, stale) = a * 2^12 /\ Begins(<<Token("RS", a)>>, args)
<1> DEFINE a == args[1].value
<1>a. 1 \in DOMAIN args /\ args[1] = Token("RS", a) /\ a \in 0 .. 15
  BY FitsRS
<1>1. Pack(<<"RS">>, args, stale) = a * 2^12
  BY <1>a, OnePacked
<1> HIDE DEF a
<1>2. Begins(<<Token("RS", a)>>, args)
  BY <1>a, BeginsOne
<1> QED
  BY <1>a, <1>1, <1>2

LEMMA DecodesSingle ==
  ASSUME NEW id \in 20 .. 22, NEW a \in 0 .. 7,
         NEW p, p = a * 2^13
  PROVE  Decodes(WithOpcode(p, id), id, <<Token("RX", a)>>)
<1> DEFINE w == WithOpcode(p, id)
<1>1. id \in 5 .. 25 /\ id \in 0 .. 25 /\ w = WithOpcode(p, id)
  OBVIOUS
<1> HIDE DEF w
<1>2. w \in Word /\ GetInstructionId(w) = id /\ FirstRX(w) = a
  BY <1>1, SingleFields
<1>3. Operands(w) = <<Token("RX", a)>>
  BY <1>1, <1>2, OperandsById
<1> QED
  BY <1>2, <1>3 DEF Decodes, w

LEMMA PacksSingle ==
  ASSUME NEW args \in Seq(Tokens), NEW stale,
         ParsesAs("RX", ReadToken(args, 1))
  PROVE  \E a \in 0 .. 7 :
            Pack(<<"RX">>, args, stale) = a * 2^13 /\ Begins(<<Token("RX", a)>>, args)
<1> DEFINE a == args[1].value
<1>a. 1 \in DOMAIN args /\ args[1] = Token("RX", a) /\ a \in 0 .. 7
  BY FitsRX
<1>1. Pack(<<"RX">>, args, stale) = a * 2^13
  BY <1>a, OnePacked
<1> HIDE DEF a
<1>2. Begins(<<Token("RX", a)>>, args)
  BY <1>a, BeginsOne
<1> QED
  BY <1>a, <1>1, <1>2

(* The word is the instruction with the operands that the arguments start  *)
(* with.                                                                   *)
Encodes(w, id, args) ==
    w \in Word /\ GetInstructionId(w) = id /\ Begins(Operands(w), args)

LEMMA EncodesCmpxchg ==
  ASSUME NEW id \in {3}, NEW args \in Seq(Tokens), NEW stale, NEW cs,
         cs = <<"RX_REF", "RX", "RX">>, Fit(cs, args)
  PROVE  Encodes(WithOpcode(Pack(cs, args, stale), id), id, args)
<1> DEFINE p == Pack(cs, args, stale)
<1>1. 1 \in DOMAIN cs /\ cs[1] = "RX_REF" /\ 2 \in DOMAIN cs /\ cs[2] = "RX" /\ 3 \in DOMAIN cs /\ cs[3] = "RX"
  OBVIOUS
<1>2. ParsesAs("RX_REF", ReadToken(args, 1)) /\ ParsesAs("RX", ReadToken(args, 2)) /\ ParsesAs("RX", ReadToken(args, 3))
  BY <1>1, AllParse
<1>3. PICK a \in 0 .. 7, b \in 0 .. 7, c \in 0 .. 7 :
         p = a * 2^13 + b * 2^10 + c * 2^7 /\ Begins(<<Token("RX_REF", a), Token("RX", b), Token("RX", c)>>, args)
  BY <1>2, PacksCmpxchg
<1> HIDE DEF p
<1>4. Decodes(WithOpcode(p, id), id, <<Token("RX_REF", a), Token("RX", b), Token("RX", c)>>)
  BY <1>3, DecodesCmpxchg
<1> QED
  BY <1>3, <1>4 DEF Encodes, Decodes, p

LEMMA EncodesCall ==
  ASSUME NEW id \in {5}, NEW args \in Seq(Tokens), NEW stale, NEW cs,
         cs = <<"IMM8">>, Fit(cs, args)
  PROVE  Encodes(WithOpcode(Pack(cs, args, stale), id), id, args)
<1> DEFINE p == Pack(cs, args, stale)
<1>1. 1 \in DOMAIN cs /\ cs[1] = "IMM8"
  OBVIOUS
<1>2. ParsesAs("IMM8", ReadToken(args, 1))
  BY <1>1, AllParse
<1>3. PICK a \in 0 .. 255 :
         p = a * 2^8 /\ Begins(<<Token("IMM", a)>>, args)
  BY <1>2, PacksCall
<1> HIDE DEF p
<1>4. Decodes(WithOpcode(p, id), id, <<Token("IMM", a)>>)
  BY <1>3, DecodesCall
<1> QED
  BY <1>3, <1>4 DEF Encodes, Decodes, p

LEMMA EncodesShift ==
  ASSUME NEW id \in {6, 7}, NEW args \in Seq(Tokens), NEW stale, NEW cs,
         cs = <<"RX", "IMM4">>, Fit(cs, args)
  PROVE  Encodes(WithOpcode(Pack(cs, args, stale), id), id, args)
<1> DEFINE p == Pack(cs, args, stale)
<1>1. 1 \in DOMAIN cs /\ cs[1] = "RX" /\ 2 \in DOMAIN cs /\ cs[2] = "IMM4"
  OBVIOUS
<1>2. ParsesAs("RX", ReadToken(args, 1)) /\ ParsesAs("IMM4", ReadToken(args, 2))
  BY <1>1, AllParse
<1>3. PICK a \in 0 .. 7, b \in 0 .. 15 :
         p = a * 2^13 + b * 2^9 /\ Begins(<<Token("RX", a), Token("IMM", b)>>, args)
  BY <1>2, PacksShift
<1> HIDE DEF p
<1>4. Decodes(WithOpcode(p, id), id, <<Token("RX", a), Token("IMM", b)>>)
  BY <1>3, DecodesShift
<1> QED
  BY <1>3, <1>4 DEF Encodes, Decodes, p

LEMMA EncodesStream ==
  ASSUME NEW id \in {18, 19}, NEW args \in Seq(Tokens), NEW stale, NEW cs,
         cs = <<"RS">>, Fit(cs, args)
  PROVE  Encodes(WithOpcode(Pack(cs, args, stale), id), id, args)
<1> DEFINE p == Pack(cs, args, stale)
<1>1. 1 \in DOMAIN cs /\ cs[1] = "RS"
  OBVIOUS
<1>2. ParsesAs("RS", ReadToken(args, 1))
  BY <1>1, AllParse
<1>3. PICK a \in 0 .. 15 :
         p = a * 2^12 /\ Begins(<<Token("RS", a)>>, args)
  BY <1>2, PacksStream
<1> HIDE DEF p
<1>4. Decodes(WithOpcode(p, id), id, <<Token("RS", a)>>)
  BY <1>3, DecodesStream
<1> QED
  BY <1>3, <1>4 DEF Encodes, Decodes, p

LEMMA EncodesSingle ==
  ASSUME NEW id \in 20 .. 22, NEW args \in Seq(Tokens), NEW stale, NEW cs,
         cs = <<"RX">>, Fit(cs, args)
  PROVE  Encodes(WithOpcode(Pack(cs, args, stale), id), id, args)
<1> DEFINE p == Pack(cs, args, stale)
<1>1. 1 \in DOMAIN cs /\ cs[1] = "RX"
  OBVIOUS
<1>2. ParsesAs("RX", ReadToken(args, 1))
  BY <1>1, AllParse
<1>3. PICK a \in 0 .. 7 :
         p = a * 2^13 /\ Begins(<<Token("RX", a)>>, args)
  BY <1>2, PacksSingle
<1> HIDE DEF p
<1>4. Decodes(WithOpcode(p, id), id, <<Token("RX", a)>>)
  BY <1>3, DecodesSingle
<1> QED
  BY <1>3, <1>4 DEF Encodes, Decodes, p

(* Which kinds of operands the instructions on two registers have. *)
RegisterKinds(id, C, D) ==
    \/ id \in 8 .. 12 \cup 15 .. 17 /\ C = "RX" /\ D = "RX"
    \/ id = 13 /\ C = "RX" /\ D = "RX_REF"
    \/ id = 14 /\ C = "RX_REF" /\ D = "RX"

LEMMA DecodesRegisters ==
  ASSUME NEW id \in 5 .. 25, NEW C, NEW D, RegisterKinds(id, C, D),
         NEW a \in 0 .. 7, NEW b \in 0 .. 7, NEW m \in 0 .. 3,
         NEW p, p = a * 2^13 + b * 2^10 + m
  PROVE  Decodes(WithOpcode(p, id), id, <<Token(C, a), Token(D, b)>>)
<1> DEFINE w == WithOpcode(p, id)
<1>1. id \in 0 .. 25 /\ w = WithOpcode(p, id)
  OBVIOUS
<1> HIDE DEF w
<1>2. w \in Word /\ GetInstructionId(w) = id /\ FirstRX(w) = a /\ SecondRX(w) = b
  BY <1>1, RegistersFields
<1>3. /\ id \in 8 .. 12 \cup 15 .. 17 => Operands(w) = <<Token("RX", a), Token("RX", b)>>
      /\ id = 13 => Operands(w) = <<Token("RX", a), Token("RX_REF", b)>>
      /\ id = 14 => Operands(w) = <<Token("RX_REF", a), Token("RX", b)>>
  BY <1>1, <1>2, OperandsById
<1>4. Operands(w) = <<Token(C, a), Token(D, b)>>
  BY <1>3 DEF RegisterKinds
<1> QED
  BY <1>2, <1>4 DEF Decodes, w

LEMMA PacksRegisters ==
  ASSUME NEW args \in Seq(Tokens), NEW stale,
         NEW C \in Registers, NEW D \in Registers,
         ParsesAs(C, ReadToken(args, 1)), ParsesAs(D, ReadToken(args, 2))
  PROVE  \E a \in 0 .. 7, b \in 0 .. 7 :
            /\ Pack(<<C, D>>, args, stale) = a * 2^13 + b * 2^10
            /\ Begins(<<Token(C, a), Token(D, b)>>, args)
<1> DEFINE a == args[1].value
           b == args[2].value
<1>a. 1 \in DOMAIN args /\ args[1] = Token(C, a) /\ a \in 0 .. 7
  BY FitsRX, FitsRX_REF DEF Registers
<1>b. 2 \in DOMAIN args /\ args[2] = Token(D, b) /\ b \in 0 .. 7
  BY FitsRX, FitsRX_REF DEF Registers
<1>c. a = args[1].value /\ b = args[2].value
  OBVIOUS
<1> HIDE DEF a, b
<1>1. Pack(<<C, D>>, args, stale) = a * 2^13 + b * 2^10
  BY <1>a, <1>b, <1>c, RegistersPacked
<1>2. Begins(<<Token(C, a), Token(D, b)>>, args)
  BY <1>a, <1>b, BeginsTwo
<1> QED
  BY <1>a, <1>b, <1>1, <1>2

(* Under the registers the lowest bits stay free for the mark of mov. *)
Marked(raw, p, m, id, args) ==
    raw % 4 = m /\ Encodes(WithOpcode(raw, id), id, args) /\ p \in Int /\ raw = p + m

LEMMA EncodesRegisters ==
  ASSUME NEW id \in 5 .. 25, NEW C \in Registers, NEW D \in Registers,
         RegisterKinds(id, C, D), NEW args \in Seq(Tokens), NEW stale, NEW cs,
         cs = <<C, D>>, Fit(cs, args), NEW m \in 0 .. 3,
         NEW p, p = Pack(cs, args, stale), NEW raw, raw = BitOr(p, m)
  PROVE  Marked(raw, p, m, id, args)
<1>1. 1 \in DOMAIN cs /\ cs[1] = C /\ 2 \in DOMAIN cs /\ cs[2] = D
  OBVIOUS
<1>2. ParsesAs(C, ReadToken(args, 1)) /\ ParsesAs(D, ReadToken(args, 2))
  BY <1>1, AllParse
<1>3. PICK a \in 0 .. 7, b \in 0 .. 7 :
         p = a * 2^13 + b * 2^10 /\ Begins(<<Token(C, a), Token(D, b)>>, args)
  BY <1>2, PacksRegisters
<1>4. p = a * 8192 + b * 1024
  BY <1>3, 2^13 = 8192, 2^10 = 1024
<1>5. /\ p \in Word /\ p = (8 * a + b) * 2^10 /\ 8 * a + b \in Int /\ 10 \in 0 .. 15
      /\ m \in Word /\ m < 2^10
  BY <1>4, WordIff, 2^10 = 1024
<1>6. raw = p + m
  <2>1. BitOr(p, m) = p + m
    BY <1>5, OrSideBySide, Zenon
  <2> QED
    BY <2>1
<1>7. raw = a * 2^13 + b * 2^10 + m
  BY <1>3, <1>6
<1>8. raw % 4 = m
  BY <1>7, 2^13 = 8192, 2^10 = 1024
<1>9. Decodes(WithOpcode(raw, id), id, <<Token(C, a), Token(D, b)>>)
  BY <1>7, DecodesRegisters
<1>10. p \in Int
  BY <1>5, WordIff
<1> QED
  BY <1>3, <1>6, <1>8, <1>9, <1>10 DEF Encodes, Decodes, Marked

LEMMA EncodesUnmarked ==
  ASSUME NEW id \in 5 .. 25, NEW C \in Registers, NEW D \in Registers,
         RegisterKinds(id, C, D), NEW args \in Seq(Tokens), NEW stale, NEW cs,
         cs = <<C, D>>, Fit(cs, args)
  PROVE  Encodes(WithOpcode(Pack(cs, args, stale), id), id, args)
<1> DEFINE m == 0
           p == Pack(cs, args, stale)
           raw == BitOr(p, m)
<1>1. m \in 0 .. 3 /\ p = Pack(cs, args, stale) /\ raw = BitOr(p, m)
  OBVIOUS
<1> HIDE DEF m, p, raw
<1>2. Marked(raw, p, m, id, args)
  BY <1>1, EncodesRegisters
<1> QED
  BY <1>2 DEF m, p, Marked

LEMMA EncodesNothing ==
  ASSUME NEW id \in 23 .. 25, NEW args \in Seq(Tokens), NEW stale
  PROVE  Encodes(WithOpcode(Pack(<< >>, args, stale), id), id, args)
<1>1. Pack(<< >>, args, stale) = 0 /\ 0 \in Word
  BY NothingPacked, WordIff
<1> DEFINE w == WithOpcode(0, id)
<1>2. w \in Word /\ GetInstructionId(w) = id /\ id \in 0 .. 25
  BY <1>1, SmallOpcode
<1> HIDE DEF w
<1>3. Operands(w) = << >>
  BY <1>2, OperandsById
<1>4. Begins(Operands(w), args)
  BY <1>3, BeginsNone
<1> QED
  BY <1>1, <1>2, <1>4 DEF Encodes, w

(* Every instruction without a label, but for mov. *)
LEMMA EncodesPlain ==
  ASSUME NEW id \in {3} \cup 5 .. 11 \cup 15 .. 25, NEW args \in Seq(Tokens), NEW stale,
         NEW cs, cs = INSTRUCTION_PARSERS[INSTRUCTION_NAMES[id + 1]], Fit(cs, args)
  PROVE  Encodes(WithOpcode(Pack(cs, args, stale), id), id, args)
<1> DEFINE Goal == Encodes(WithOpcode(Pack(cs, args, stale), id), id, args)
<1>0. id \in 1 .. 25 /\ cs = INSTRUCTION_PARSERS[INSTRUCTION_NAMES[id + 1]]
  OBVIOUS
<1>1. /\ id = 3 => cs = <<"RX_REF", "RX", "RX">>
      /\ id = 5 => cs = <<"IMM8">>
      /\ id \in {6, 7} => cs = <<"RX", "IMM4">>
      /\ id \in 8 .. 11 \cup 15 .. 17 => cs = <<"RX", "RX">>
      /\ id \in {18, 19} => cs = <<"RS">>
      /\ id \in 20 .. 22 => cs = <<"RX">>
      /\ id \in 23 .. 25 => cs = << >>
  BY <1>0, ClassesById
<1>a. ASSUME id = 3 PROVE Goal
  BY <1>1, <1>a, EncodesCmpxchg
<1>b. ASSUME id = 5 PROVE Goal
  BY <1>1, <1>b, EncodesCall
<1>c. ASSUME id \in {6, 7} PROVE Goal
  BY <1>1, <1>c, EncodesShift
<1>d. ASSUME id \in 8 .. 11 \cup 15 .. 17 PROVE Goal
  <2>1. RegisterKinds(id, "RX", "RX") /\ cs = <<"RX", "RX">> /\ id \in 5 .. 25
    BY <1>d, <1>1 DEF RegisterKinds
  <2> DEFINE C == "RX"
  <2>2. RegisterKinds(id, C, C) /\ cs = <<C, C>> /\ C \in Registers
    BY <2>1 DEF Registers
  <2> HIDE DEF C
  <2> QED
    BY <2>1, <2>2, EncodesUnmarked
<1>e. ASSUME id \in {18, 19} PROVE Goal
  BY <1>1, <1>e, EncodesStream
<1>f. ASSUME id \in 20 .. 22 PROVE Goal
  BY <1>1, <1>f, EncodesSingle
<1>g. ASSUME id \in 23 .. 25 PROVE Goal
  BY <1>1, <1>g, EncodesNothing
<1> HIDE DEF Goal
<1>2. Goal
  BY <1>a, <1>b, <1>c, <1>d, <1>e, <1>f, <1>g
<1> QED
  BY <1>2 DEF Goal

MovMarks == /\ MovId(0) = 0 /\ MovId(1) = 14 /\ MovId(2) = 13 /\ MovId(3) = 12

LEMMA MovMarksHold == MovMarks
  BY DEF MovMarks, MovId

(* The instruction packed for the form of mov is that form. *)
EncodesForm(raw, args) ==
    \E id \in {0, 12, 13, 14} : MovId(raw % 4) = id /\ Encodes(WithOpcode(raw, id), id, args)

LEMMA ByteFormFits ==
  ASSUME NEW a \in 0 .. 15, NEW b \in 0 .. 255, NEW p, p = a * 2^12 + b * 2^4
  PROVE  p \in Int /\ p \in Word /\ p % 4 = 0
<1>1. p = a * 4096 + b * 16 /\ p = (a * 1024 + b * 4) * 4
  BY 2^12 = 4096, 2^4 = 16
<1>2. p \in Int /\ 0 <= p /\ p <= 65535
  BY <1>1
<1>3. p % 4 = 0
  BY <1>1
<1> QED
  BY <1>2, <1>3, WordIff

LEMMA EncodesMov ==
  ASSUME NEW f \in MovForms, NEW args \in Seq(Tokens), NEW cs, cs = f.classes,
         Fit(cs, args), NEW p, p = Pack(cs, args, 0), NEW raw, raw = BitOr(p, f.mask)
  PROVE  EncodesForm(raw, args)
<1>1. \/ cs = <<"RX", "RX">> /\ f.mask = 3
      \/ cs = <<"RX_REF", "RX">> /\ f.mask = 1
      \/ cs = <<"RX", "RX_REF">> /\ f.mask = 2
      \/ cs = <<"RS", "IMM8">> /\ f.mask = 0
  BY DEF MovForms
<1>2. ASSUME NEW id \in 5 .. 25, id \in {12, 13, 14}, NEW C \in Registers, NEW D \in Registers,
             RegisterKinds(id, C, D), cs = <<C, D>>, NEW m \in 0 .. 3, f.mask = m,
             MovId(m) = id
      PROVE  EncodesForm(raw, args)
  <2>1. raw = BitOr(p, m)
    BY <1>2
  <2>2. Marked(raw, p, m, id, args)
    BY <1>2, <2>1, EncodesRegisters
  <2>3. raw % 4 = m /\ Encodes(WithOpcode(raw, id), id, args)
    BY <2>2 DEF Marked
  <2> QED
    BY <1>2, <2>3 DEF EncodesForm
<1>3. MovMarks
  BY MovMarksHold
<1>r. "RX" \in Registers /\ "RX_REF" \in Registers
  BY DEF Registers
<1>a. CASE cs = <<"RX", "RX">> /\ f.mask = 3
  <2> DEFINE id == 12
             C == "RX"
             D == "RX"
             m == 3
  <2>1. /\ id \in 5 .. 25 /\ id \in {12, 13, 14} /\ C \in Registers /\ D \in Registers
        /\ RegisterKinds(id, C, D) /\ cs = <<C, D>> /\ m \in 0 .. 3 /\ f.mask = m /\ MovId(m) = id
    BY <1>a, <1>3, <1>r DEF RegisterKinds, MovMarks
  <2> HIDE DEF id, C, D, m
  <2> QED
    BY <2>1, <1>2
<1>b. CASE cs = <<"RX_REF", "RX">> /\ f.mask = 1
  <2> DEFINE id == 14
             C == "RX_REF"
             D == "RX"
             m == 1
  <2>1. /\ id \in 5 .. 25 /\ id \in {12, 13, 14} /\ C \in Registers /\ D \in Registers
        /\ RegisterKinds(id, C, D) /\ cs = <<C, D>> /\ m \in 0 .. 3 /\ f.mask = m /\ MovId(m) = id
    BY <1>b, <1>3, <1>r DEF RegisterKinds, MovMarks
  <2> HIDE DEF id, C, D, m
  <2> QED
    BY <2>1, <1>2
<1>c. CASE cs = <<"RX", "RX_REF">> /\ f.mask = 2
  <2> DEFINE id == 13
             C == "RX"
             D == "RX_REF"
             m == 2
  <2>1. /\ id \in 5 .. 25 /\ id \in {12, 13, 14} /\ C \in Registers /\ D \in Registers
        /\ RegisterKinds(id, C, D) /\ cs = <<C, D>> /\ m \in 0 .. 3 /\ f.mask = m /\ MovId(m) = id
    BY <1>c, <1>3, <1>r DEF RegisterKinds, MovMarks
  <2> HIDE DEF id, C, D, m
  <2> QED
    BY <2>1, <1>2
<1>d. CASE cs = <<"RS", "IMM8">> /\ f.mask = 0
  <2>1. 1 \in DOMAIN cs /\ cs[1] = "RS" /\ 2 \in DOMAIN cs /\ cs[2] = "IMM8"
    BY <1>d
  <2>2. ParsesAs("RS", ReadToken(args, 1)) /\ ParsesAs("IMM8", ReadToken(args, 2))
    BY <2>1, AllParse
  <2>3. PICK a \in 0 .. 15, b \in 0 .. 255 :
           Pack(<<"RS", "IMM8">>, args, 0) = a * 2^12 + b * 2^4
           /\ Begins(<<Token("RS", a), Token("IMM", b)>>, args)
    BY <2>2, PacksMov
  <2>4. p = a * 2^12 + b * 2^4
    BY <1>d, <2>3
  <2>5. p \in Int /\ p \in Word /\ p % 4 = 0
    BY <2>4, ByteFormFits
  <2>6. p \in Word /\ 0 \in Word /\ p = p * 2^0 /\ p \in Int /\ 0 \in 0 .. 15 /\ 0 < 2^0 /\ p % 4 = 0
    BY <2>5, WordIff, 2^0 = 1
  <2>7. BitOr(p, 0) = p + 0
    BY <2>6, OrSideBySide, Zenon
  <2>8. raw = p
    BY <1>d, <2>6, <2>7
  <2>9. 0 \in {0}
    OBVIOUS
  <2>10. Decodes(WithOpcode(p, 0), 0, <<Token("RS", a), Token("IMM", b)>>)
    BY <2>4, <2>9, DecodesMov
  <2>11. Encodes(WithOpcode(raw, 0), 0, args)
    BY <2>3, <2>8, <2>10 DEF Encodes, Decodes
  <2>12. MovId(raw % 4) = 0
    BY <2>6, <2>8, <1>3 DEF MovMarks
  <2> QED
    BY <2>11, <2>12 DEF EncodesForm
<1> QED
  BY <1>1, <1>a, <1>b, <1>c, <1>d

----------------------------------------------------------------------------
(* Lines without a label in them. *)

(* What ParseInstruction makes of a mov. *)
LEMMA MovMeans ==
  ASSUME NEW args \in Seq(Tokens), NEW label, NEW p, p = ParseMov(label, args),
         p.status = "parsed"
  PROVE  \E id \in MovIds : Encodes(p.RawInstruction, id, args)
<1> DEFINE fitting == {f \in MovForms : Unparsed(f.classes, args) = {}}
           form == CHOOSE f \in fitting : TRUE
           packed == Pack(form.classes, args, 0)
           raw == BitOr(packed, form.mask)
           w == WithOpcode(raw, MovId(raw % 4))
<1>1. p = IF Overruns(args, 1) \/ Overruns(args, 2) THEN Crashed
          ELSE IF fitting = {} THEN Rejected ELSE Parsed(label, NoLabel, w)
  BY DEF ParseMov
<1>2. Crashed.status # "parsed" /\ Rejected.status # "parsed"
  BY DEF Crashed, Rejected
<1> HIDE DEF w, fitting
<1>3. fitting # {} /\ p = Parsed(label, NoLabel, w)
  BY <1>1, <1>2
<1>4. form \in fitting
  BY <1>3
<1> HIDE DEF form
<1>5. form \in MovForms /\ Fit(form.classes, args)
  BY <1>4 DEF fitting, Fit
<1> DEFINE cs == form.classes
<1>6. /\ cs = form.classes /\ Fit(cs, args) /\ packed = Pack(cs, args, 0)
      /\ raw = BitOr(packed, form.mask)
  BY <1>5
<1>7. w = WithOpcode(raw, MovId(raw % 4))
  BY DEF w
<1> HIDE DEF cs, packed, raw
<1>8. EncodesForm(raw, args)
  BY <1>5, <1>6, EncodesMov
<1>9. PICK id \in {0, 12, 13, 14} : MovId(raw % 4) = id /\ Encodes(WithOpcode(raw, id), id, args)
  BY <1>8 DEF EncodesForm
<1>10. p.RawInstruction = w
  BY <1>3 DEF Parsed
<1> QED
  BY <1>7, <1>9, <1>10 DEF MovIds

LEMMA PlainNames ==
  ASSUME NEW id \in {3} \cup 5 .. 11 \cup 15 .. 25
  PROVE  /\ id \in 0 .. 25 /\ id \in 1 .. 25 /\ id \notin MovIds
         /\ INSTRUCTION_NAMES[id + 1] # "mov" /\ INSTRUCTION_NAMES[id + 1] \notin JUMPS
<1>1. id \in 0 .. 25 /\ id \in 1 .. 25 /\ id \notin MovIds
  BY DEF MovIds
<1>2. INSTRUCTION_NAMES[id + 1] # "mov" /\ INSTRUCTION_NAMES[id + 1] \notin JUMPS
  BY DEF INSTRUCTION_NAMES, JUMPS
<1> QED
  BY <1>1, <1>2

LEMMA OtherMeans ==
  ASSUME NEW args \in Seq(Tokens), NEW label, NEW name, NEW stale,
         NEW id \in {3} \cup 5 .. 11 \cup 15 .. 25, name = INSTRUCTION_NAMES[id + 1],
         NEW p, p = ParseOther(label, name, args, stale), p.status = "parsed"
  PROVE  Encodes(p.RawInstruction, id, args)
<1> DEFINE cs == INSTRUCTION_PARSERS[name]
           raw == Pack(cs, args, stale)
           inner == IF UsesLabel(cs) THEN args[1] ELSE NoLabel
           masked == IF UsesLabel(cs) THEN BitAnd(raw, BitNot(1)) ELSE raw
           w == WithOpcode(masked, ParseInstructionId(name))
<1>1. \/ Fit(cs, args) /\ p = Parsed(label, inner, w)
      \/ p \in {Crashed, Rejected}
  BY Zenon DEF ParseOther, Fit
<1>2. Crashed.status # "parsed" /\ Rejected.status # "parsed"
  BY DEF Crashed, Rejected
<1>3. Fit(cs, args) /\ p = Parsed(label, inner, w)
  BY <1>1, <1>2, Zenon
<1>4. name # "mov" /\ name \notin JUMPS /\ id \in 0 .. 25 /\ id \notin MovIds
  BY PlainNames
<1>5. ~UsesLabel(cs)
  BY <1>4, JumpsUseLabels
<1>6. ParseInstructionId(name) = id
  BY <1>4, IdOfName
<1>7. p.RawInstruction = w /\ w = WithOpcode(raw, id)
  BY <1>3, <1>5, <1>6 DEF Parsed
<1>8. cs = INSTRUCTION_PARSERS[INSTRUCTION_NAMES[id + 1]]
  OBVIOUS
<1> HIDE DEF cs, w
<1>9. Encodes(WithOpcode(Pack(cs, args, stale), id), id, args)
  BY <1>3, <1>8, EncodesPlain
<1> QED
  BY <1>7, <1>9

(* A line without a label that parses becomes the instruction it asks for. *)
LEMMA PlainMeans ==
  ASSUME NEW l \in Lines, NEW stale, NEW p, p = ParseLine(l, stale), p.status = "parsed",
         l.name \notin JUMPS
  PROVE  \E id \in 0 .. 25 : /\ INSTRUCTION_NAMES[id + 1] = l.name
                             /\ Encodes(p.RawInstruction, id, l.args)
<1> DEFINE label == ReadToken(l.declares, Len(l.declares))
<1>1. PICK id \in 0 .. 25 : l.name = INSTRUCTION_NAMES[id + 1]
  BY ParsedLine
<1>2. Crashed.status # "parsed" /\ Rejected.status # "parsed"
  BY DEF Crashed, Rejected
<1>3. p = IF l.name = "mov" THEN ParseMov(label, l.args)
          ELSE ParseOther(label, l.name, l.args, stale)
  BY <1>2, Zenon DEF ParseLine
<1>4. l.args \in Seq(Tokens)
  BY DEF Lines
<1> HIDE DEF label
<1>5. CASE l.name = "mov"
  <2>1. p = ParseMov(label, l.args)
    BY <1>3, <1>5
  <2>2. PICK k \in MovIds : Encodes(p.RawInstruction, k, l.args)
    BY <1>4, <2>1, MovMeans
  <2>3. INSTRUCTION_NAMES[k + 1] = "mov" /\ k \in 0 .. 25
    BY DEF MovIds, INSTRUCTION_NAMES
  <2> QED
    BY <1>5, <2>2, <2>3
<1>6. CASE l.name # "mov"
  <2>1. p = ParseOther(label, l.name, l.args, stale)
    BY <1>3, <1>6
  <2>2. id \in {3} \cup 5 .. 11 \cup 15 .. 25
    BY <1>1, <1>6 DEF JUMPS, INSTRUCTION_NAMES
  <2>3. Encodes(p.RawInstruction, id, l.args)
    BY <1>1, <1>4, <2>1, <2>2, OtherMeans
  <2> QED
    BY <1>1, <2>3
<1> QED
  BY <1>5, <1>6

----------------------------------------------------------------------------
(* Jumps. *)

(* Taking the lowest bit from an even word. *)
LEMMA AndEven ==
  ASSUME NEW x \in Word, x % 2 = 0 PROVE BitAnd(x, BitNot(1)) = x
<1> DEFINE y == 65534
<1>1. BitNot(1) = y /\ x \in Int
  BY WordIff, 2^16 = 65536 DEF BitNot
<1>2. \A k \in Ones(x) : k \in 1 .. 15
  <2>1. \A k \in Ones(x) : k \in 0 .. 15
    BY DEF Ones
  <2>2. 0 \notin Ones(x)
    BY <1>1, 2^0 = 1 DEF Ones
  <2>3. \A k \in 0 .. 15 : k # 0 => k \in 1 .. 15
    OBVIOUS
  <2> QED
    BY <2>1, <2>2, <2>3
<1>3. ASSUME NEW k \in 1 .. 15 PROVE k \in Ones(y)
  <2>b. CASE k = 1 BY <2>b DEF Ones
  <2>c. CASE k = 2 BY <2>c DEF Ones
  <2>d. CASE k = 3 BY <2>d DEF Ones
  <2>e. CASE k = 4 BY <2>e DEF Ones
  <2>f. CASE k = 5 BY <2>f DEF Ones
  <2>g. CASE k = 6 BY <2>g DEF Ones
  <2>h. CASE k = 7 BY <2>h DEF Ones
  <2>i. CASE k = 8 BY <2>i DEF Ones
  <2>j. CASE k = 9 BY <2>j DEF Ones
  <2>k. CASE k = 10 BY <2>k DEF Ones
  <2>l. CASE k = 11 BY <2>l DEF Ones
  <2>m. CASE k = 12 BY <2>m DEF Ones
  <2>n. CASE k = 13 BY <2>n DEF Ones
  <2>o. CASE k = 14 BY <2>o DEF Ones
  <2>p. CASE k = 15 BY <2>p DEF Ones
  <2> QED
    BY <2>b, <2>c, <2>d, <2>e, <2>f, <2>g, <2>h,
       <2>i, <2>j, <2>k, <2>l, <2>m, <2>n, <2>o, <2>p
<1> HIDE DEF y
<1>4. Ones(x) \cap Ones(y) = Ones(x)
  BY <1>2, <1>3
<1> QED
  BY <1>1, <1>4, WordIsItsBits DEF BitAnd

(* A jump as it is encoded, with its distance. *)
JumpRaw(id, b, d) == (8 + id) * 2^12 + d * 2^4 + 2 * b

LEMMA JumpCode ==
  ASSUME NEW id \in {1, 2, 4}, NEW b \in 0 .. 7, NEW raw, raw = b * 2^5
  PROVE  WithOpcode(BitAnd(raw, BitNot(1)), id) = JumpRaw(id, b, 0)
<1>1. raw = b * 32 /\ id \in 0 .. 4 /\ id \in Int /\ b \in Int
  BY 2^5 = 32
<1>2. raw \in Word /\ raw % 2 = 0 /\ raw \div 2^4 = 2 * b
  BY <1>1, WordIff, 2^4 = 16
<1>3. BitAnd(raw, BitNot(1)) = raw
  BY <1>2, AndEven
<1>4. WithOpcode(raw, id) = 2^15 + id * 2^12 + raw \div 2^4
  BY <1>1, <1>2, BigOpcode, Zenon
<1>5. WithOpcode(raw, id) = 32768 + id * 4096 + 2 * b
  BY <1>1, <1>2, <1>4, 2^15 = 32768, 2^12 = 4096
<1>6. JumpRaw(id, b, 0) = 32768 + id * 4096 + 2 * b
  BY <1>1, 2^12 = 4096, 2^4 = 16 DEF JumpRaw
<1> QED
  BY <1>3, <1>5, <1>6

(* The register behind the label is in the word. *)
JumpArgs(id, b, args) ==
    /\ 1 \in DOMAIN args
    /\ id # 4 => 2 \in DOMAIN args /\ args[2] = Token("RX", b)

LEMMA HeadReplaced ==
  ASSUME NEW T, NEW args \in Seq(T), 1 \in DOMAIN args, NEW x \in T,
         NEW s, s = <<x>> \o Tail(args)
  PROVE  s \in Seq(T) /\ 1 \in DOMAIN s /\ s[1] = x
         /\ (2 \in DOMAIN args => 2 \in DOMAIN s /\ s[2] = args[2])
<1>1. Len(args) \in Nat /\ Len(args) >= 1 /\ DOMAIN args = 1 .. Len(args)
  OBVIOUS
<1>2. Tail(args) \in Seq(T) /\ Len(Tail(args)) = Len(args) - 1
  BY <1>1
<1>3. s \in Seq(T) /\ Len(s) = Len(args) /\ s[1] = x
  BY <1>1, <1>2
<1>4. ASSUME 2 \in DOMAIN args PROVE 2 \in DOMAIN s /\ s[2] = args[2]
  <2>1. Len(args) >= 2 /\ Tail(args)[1] = args[2]
    BY <1>1, <1>4
  <2>2. s[2] = Tail(args)[1]
    BY <1>1, <1>2, <2>1
  <2> QED
    BY <1>1, <1>3, <2>1, <2>2
<1> QED
  BY <1>1, <1>3, <1>4

JumpHas(w, id, b, d) ==
    w \in Word /\ GetInstructionId(w) = id /\ BigDelta(w) = d /\ Bits(w, 1, 3) = b

LEMMA JumpHasFields ==
  ASSUME NEW id \in {1, 2, 4}, NEW b \in 0 .. 7, NEW d \in 0 .. 255
  PROVE  JumpHas(JumpRaw(id, b, d), id, b, d)
<1> DEFINE w == JumpRaw(id, b, d)
<1>1. w = 32768 + id * 4096 + d * 16 + 2 * b /\ w \in Int /\ id \in 1 .. 4
  BY 2^12 = 4096, 2^4 = 16 DEF JumpRaw
<1> HIDE DEF w
<1>2. w \in Word
  BY <1>1, WordIff
<1>3. /\ Bits(w, 12, 3) = (w \div 4096) % 8 /\ BigDelta(w) = (w \div 16) % 256
      /\ Bits(w, 1, 3) = (w \div 2) % 8
  BY 2^12 = 4096, 2^3 = 8, 2^4 = 16, 2^8 = 256, 2^1 = 2 DEF Bits, BigDelta
<1>6. w >= 32768 /\ w \div 4096 = 8 + id /\ w \div 16 = 2048 + id * 256 + d
  BY <1>1
<1>7. w \div 2 = 16384 + id * 2048 + d * 8 + b
  BY <1>1
<1>8. (8 + id) % 8 = id /\ (2048 + id * 256 + d) % 256 = d
  BY <1>1
<1>9. (16384 + id * 2048 + d * 8 + b) % 8 = b
  BY <1>1
<1>4. Bits(w, 12, 3) = id /\ BigDelta(w) = d /\ Bits(w, 1, 3) = b /\ w >= 32768
  BY <1>3, <1>6, <1>7, <1>8, <1>9
<1>5. GetInstructionId(w) = id
  BY <1>4 DEF GetInstructionId, BIG_INSTRUCTION_CNT
<1> QED
  BY <1>2, <1>4, <1>5 DEF JumpHas, w

JumpDecodes(id, b, d, s) ==
    LET w == JumpRaw(id, b, d)
    IN  w \in Word /\ GetInstructionId(w) = id /\ Begins(Operands(w), s)

LEMMA JumpMeansOperands ==
  ASSUME NEW id \in {1, 2, 4}, NEW b \in 0 .. 7, NEW d \in 0 .. 255,
         NEW args \in Seq(Tokens), JumpArgs(id, b, args),
         NEW s, s = <<Token("IMM", d)>> \o Tail(args)
  PROVE  JumpDecodes(id, b, d, s)
<1> DEFINE w == JumpRaw(id, b, d)
           x == Token("IMM", d)
<1>1. id \in 0 .. 25
  OBVIOUS
<1>2. x \in Tokens
  BY DEF Token, Tokens
<1>0. JumpHas(w, id, b, d)
  BY JumpHasFields
<1> HIDE DEF w, x
<1>3. w \in Word /\ GetInstructionId(w) = id /\ BigDelta(w) = d /\ Bits(w, 1, 3) = b
  BY <1>0 DEF JumpHas
<1>4. s = <<x>> \o Tail(args) /\ 1 \in DOMAIN args
  BY DEF x, JumpArgs
<1>5. /\ s \in Seq(Tokens) /\ 1 \in DOMAIN s /\ s[1] = x
      /\ 2 \in DOMAIN args => 2 \in DOMAIN s /\ s[2] = args[2]
  BY <1>2, <1>4, HeadReplaced
<1>6. CASE id \in {1, 2}
  <2>1. Operands(w) = <<Token("IMM", d), Token("RX", b)>>
    BY <1>1, <1>3, <1>6, OperandsById
  <2>2. 2 \in DOMAIN args /\ args[2] = Token("RX", b)
    BY <1>6 DEF JumpArgs
  <2>3. Begins(<<x, Token("RX", b)>>, s)
    BY <1>5, <2>2, BeginsTwo
  <2> QED
    BY <1>3, <2>1, <2>3 DEF JumpDecodes, w, x
<1>7. CASE id = 4
  <2>1. Operands(w) = <<Token("IMM", d)>>
    BY <1>1, <1>3, <1>7, OperandsById
  <2>2. Begins(<<x>>, s)
    BY <1>5, BeginsOne
  <2> QED
    BY <1>3, <2>1, <2>2 DEF JumpDecodes, w, x
<1> QED
  BY <1>6, <1>7

(* What is packed of a jump: nothing for the label, where what was on the  *)
(* stack has a zero there, and the register.                               *)
JumpPacks(id, p, args) ==
    \E b \in 0 .. 7 : p = b * 2^5 /\ JumpArgs(id, b, args)

LEMMA JumpPacked ==
  ASSUME NEW id \in {1, 2, 4}, NEW args \in Seq(Tokens), NEW stale \in Int, stale % 2^8 = 0,
         NEW cs, cs = INSTRUCTION_PARSERS[INSTRUCTION_NAMES[id + 1]], Fit(cs, args),
         1 \in DOMAIN args, NEW p, p = Pack(cs, args, stale)
  PROVE  JumpPacks(id, p, args)
<1>1. id \in 1 .. 25
  OBVIOUS
<1>2. CASE id \in {1, 2}
  <2>1. cs = <<"Label", "RX">>
    BY <1>1, <1>2, ClassesById
  <2>2. 2 \in DOMAIN cs /\ cs[2] = "RX"
    BY <2>1
  <2>3. ParsesAs("RX", ReadToken(args, 2))
    BY <2>2, AllParse
  <2> DEFINE b == args[2].value
  <2>4. 2 \in DOMAIN args /\ args[2] = Token("RX", b) /\ b \in 0 .. 7
    BY <2>3, FitsRX
  <2>7. p = (stale % 2^8) * 2^8 + b * 2^5
    BY <2>1, <2>4, LabelAndRegister
  <2> HIDE DEF b
  <2>8. p = b * 2^5
    BY <2>4, <2>7, 2^8 = 256, 2^5 = 32
  <2>9. JumpArgs(id, b, args)
    BY <2>4 DEF JumpArgs
  <2> QED
    BY <2>4, <2>8, <2>9 DEF JumpPacks
<1>3. CASE id = 4
  <2>1. cs = <<"Label">>
    BY <1>1, <1>3, ClassesById
  <2>2. stale \in Int => Pack(<<"Label">>, args, stale) = (stale % 2^8) * 2^8
    BY OnePacked
  <2>3. p = 0 * 2^5
    BY <2>1, <2>2, 2^8 = 256, 2^5 = 32
  <2>4. JumpArgs(id, 0, args)
    BY <1>3 DEF JumpArgs
  <2>5. 0 \in 0 .. 7
    OBVIOUS
  <2> QED
    BY <2>3, <2>4, <2>5 DEF JumpPacks
<1> QED
  BY <1>2, <1>3

(* A line with a label in it that parses becomes the jump it asks for,     *)
(* without a distance.                                                     *)
JumpEncodes(raw, l) ==
    \E id \in {1, 2, 4}, b \in 0 .. 7 :
        /\ INSTRUCTION_NAMES[id + 1] = l.name
        /\ raw = JumpRaw(id, b, 0)
        /\ JumpArgs(id, b, l.args)

LEMMA JumpMeans ==
  ASSUME NEW l \in Lines, NEW stale \in Int, stale % 2^8 = 0,
         NEW p, p = ParseLine(l, stale), p.status = "parsed", l.name \in JUMPS
  PROVE  JumpEncodes(p.RawInstruction, l)
<1> DEFINE label == ReadToken(l.declares, Len(l.declares))
           name == l.name
           args == l.args
           cs == INSTRUCTION_PARSERS[name]
           raw == Pack(cs, args, stale)
           inner == IF UsesLabel(cs) THEN args[1] ELSE NoLabel
           masked == IF UsesLabel(cs) THEN BitAnd(raw, BitNot(1)) ELSE raw
           w == WithOpcode(masked, ParseInstructionId(name))
<1>1. PICK id \in 0 .. 25 : l.name = INSTRUCTION_NAMES[id + 1]
  BY ParsedLine
<1>2. Crashed.status # "parsed" /\ Rejected.status # "parsed"
  BY DEF Crashed, Rejected
<1>3. l.name # "mov"
  BY DEF JUMPS
<1>4. p = ParseOther(label, name, args, stale)
  BY <1>2, <1>3, Zenon DEF ParseLine
<1>5. args \in Seq(Tokens) /\ 1 \in DOMAIN args
  BY ParsedLine DEF Lines
<1>6. \/ Fit(cs, args) /\ p = Parsed(label, inner, w)
      \/ p \in {Crashed, Rejected}
  BY <1>4, Zenon DEF ParseOther, Fit
<1>7. Fit(cs, args) /\ p = Parsed(label, inner, w)
  BY <1>2, <1>6, Zenon
<1>8. id \in {1, 2, 4} /\ id \notin MovIds
  BY <1>1 DEF JUMPS, INSTRUCTION_NAMES, MovIds
<1>9. UsesLabel(cs)
  BY <1>1, <1>3, JumpsUseLabels
<1>10. ParseInstructionId(name) = id
  BY <1>1, <1>8, IdOfName
<1>11. p.RawInstruction = w /\ w = WithOpcode(BitAnd(raw, BitNot(1)), id)
  BY <1>7, <1>9, <1>10 DEF Parsed
<1>12. cs = INSTRUCTION_PARSERS[INSTRUCTION_NAMES[id + 1]] /\ raw = Pack(cs, args, stale)
  BY <1>1
<1> HIDE DEF cs, raw, w
<1>13. JumpPacks(id, raw, args)
  BY <1>5, <1>7, <1>8, <1>12, JumpPacked
<1>14. PICK b \in 0 .. 7 : raw = b * 2^5 /\ JumpArgs(id, b, args)
  BY <1>13 DEF JumpPacks
<1>15. w = JumpRaw(id, b, 0)
  BY <1>8, <1>11, <1>14, JumpCode
<1> QED
  BY <1>1, <1>8, <1>11, <1>14, <1>15 DEF JumpEncodes

----------------------------------------------------------------------------
(* What the instruction set makes of a word is a sequence of operands. *)

IsSequence(s) == \E S : s \in Seq(S)

LEMMA SmallSequences ==
  /\ IsSequence(<< >>) /\ \A x : IsSequence(<<x>>)
  /\ \A x, y : IsSequence(<<x, y>>)
  /\ \A x, y, z : IsSequence(<<x, y, z>>)
<1>1. << >> \in Seq({})
  OBVIOUS
<1>2. \A x : <<x>> \in Seq({x})
  OBVIOUS
<1>3. \A x, y : <<x, y>> \in Seq({x, y})
  OBVIOUS
<1>4. \A x, y, z : <<x, y, z>> \in Seq({x, y, z})
  OBVIOUS
<1> QED
  BY <1>1, <1>2, <1>3, <1>4, Zenon DEF IsSequence

LEMMA OperandsType ==
  ASSUME NEW w, NEW id \in 0 .. 25, GetInstructionId(w) = id
  PROVE  IsSequence(Operands(w))
<1>1. CASE id = 0
  <2>1. Operands(w) = <<Token("RS", Bits(w, 8, 4)), Token("IMM", Bits(w, 0, 8))>>
    BY <1>1, OperandsById
  <2> QED
    BY <2>1, SmallSequences, Zenon
<1>2. CASE id \in {1, 2}
  <2>1. Operands(w) = <<Token("IMM", BigDelta(w)), Token("RX", Bits(w, 1, 3))>>
    BY <1>2, OperandsById
  <2> QED
    BY <2>1, SmallSequences, Zenon
<1>3. CASE id \in {6, 7}
  <2>1. Operands(w) = <<Token("RX", FirstRX(w)), Token("IMM", Imm4(w))>>
    BY <1>3, OperandsById
  <2> QED
    BY <2>1, SmallSequences, Zenon
<1>4. CASE id \in 8 .. 12 \cup 15 .. 17
  <2>1. Operands(w) = <<Token("RX", FirstRX(w)), Token("RX", SecondRX(w))>>
    BY <1>4, OperandsById
  <2> QED
    BY <2>1, SmallSequences, Zenon
<1>5. CASE id = 13
  <2>1. Operands(w) = <<Token("RX", FirstRX(w)), Token("RX_REF", SecondRX(w))>>
    BY <1>5, OperandsById
  <2> QED
    BY <2>1, SmallSequences, Zenon
<1>6. CASE id = 14
  <2>1. Operands(w) = <<Token("RX_REF", FirstRX(w)), Token("RX", SecondRX(w))>>
    BY <1>6, OperandsById
  <2> QED
    BY <2>1, SmallSequences, Zenon
<1>7. CASE id = 4
  <2>1. Operands(w) = <<Token("IMM", BigDelta(w))>>
    BY <1>7, OperandsById
  <2> QED
    BY <2>1, SmallSequences, Zenon
<1>8. CASE id = 5
  <2>1. Operands(w) = <<Token("IMM", CallDelta(w))>>
    BY <1>8, OperandsById
  <2> QED
    BY <2>1, SmallSequences, Zenon
<1>9. CASE id \in {18, 19}
  <2>1. Operands(w) = <<Token("RS", OnlyRS(w))>>
    BY <1>9, OperandsById
  <2> QED
    BY <2>1, SmallSequences, Zenon
<1>10. CASE id \in 20 .. 22
  <2>1. Operands(w) = <<Token("RX", FirstRX(w))>>
    BY <1>10, OperandsById
  <2> QED
    BY <2>1, SmallSequences, Zenon
<1>11. CASE id = 3
  <2>1. Operands(w) = <<Token("RX_REF", Bits(w, 9, 3)), Token("RX", Bits(w, 6, 3)), Token("RX", Bits(w, 3, 3))>>
    BY <1>11, OperandsById
  <2> QED
    BY <2>1, SmallSequences, Zenon
<1>12. CASE id \in 23 .. 25
  <2>1. Operands(w) = << >>
    BY <1>12, OperandsById
  <2> QED
    BY <2>1, SmallSequences, Zenon
<1> QED
  BY <1>1, <1>2, <1>3, <1>4, <1>5, <1>6,
     <1>7, <1>8, <1>9, <1>10, <1>11, <1>12

----------------------------------------------------------------------------
(* The operands of an instruction can be written in its line. *)

(* The token is an argument of the class, wherever it stands. *)
Takes(class, token) ==
    \A args, k : k \in DOMAIN args /\ args[k] = token => ParsesAs(class, ReadToken(args, k))

LEMMA RegistersTaken ==
  ASSUME NEW c \in {"RX", "RX_REF", "RS"}, NEW v PROVE Takes(c, Token(c, v))
BY DEF Takes, Token, ParsesAs, ReadToken

LEMMA NumbersTaken ==
  /\ \A v \in 0 .. 15 : Takes("IMM4", Token("IMM", v))
  /\ \A v \in Byte : Takes("IMM8", Token("IMM", v))
<1>1. ASSUME NEW v \in 0 .. 15 PROVE Takes("IMM4", Token("IMM", v))
  <2>1. v < 2^4
    BY 2^4 = 16
  <2> QED
    BY <2>1 DEF Takes, Token, ParsesAs, ParseUInt, ReadToken
<1>2. ASSUME NEW v \in Byte PROVE Takes("IMM8", Token("IMM", v))
  <2>1. v < 2^8
    BY ByteIff, 2^8 = 256
  <2> QED
    BY <2>1 DEF Takes, Token, ParsesAs, ParseUInt, ReadToken
<1> QED
  BY <1>1, <1>2

LEMMA FitsNone == ASSUME NEW args, NEW cs, cs = << >> PROVE Fit(cs, args)
BY DEF Fit, Unparsed

LEMMA FitsOne ==
  ASSUME NEW args \in Seq(Tokens), NEW c, NEW x, Takes(c, x), Begins(<<x>>, args),
         NEW cs, cs = <<c>>
  PROVE  Fit(cs, args)
<1>1. 1 \in DOMAIN args /\ args[1] = x
  BY BeginsOne
<1>2. ParsesAs(c, ReadToken(args, 1))
  BY <1>1 DEF Takes
<1>3. DOMAIN cs = {1} /\ cs[1] = c
  OBVIOUS
<1> QED
  BY <1>2, <1>3 DEF Fit, Unparsed

LEMMA FitsTwo ==
  ASSUME NEW args \in Seq(Tokens), NEW c, NEW d, NEW x, NEW y, Takes(c, x), Takes(d, y),
         Begins(<<x, y>>, args), NEW cs, cs = <<c, d>>
  PROVE  Fit(cs, args)
<1>1. 1 \in DOMAIN args /\ args[1] = x /\ 2 \in DOMAIN args /\ args[2] = y
  BY BeginsTwo
<1>2. ParsesAs(c, ReadToken(args, 1)) /\ ParsesAs(d, ReadToken(args, 2))
  BY <1>1 DEF Takes
<1>3. DOMAIN cs = {1, 2} /\ cs[1] = c /\ cs[2] = d
  OBVIOUS
<1> QED
  BY <1>2, <1>3 DEF Fit, Unparsed

LEMMA FitsThree ==
  ASSUME NEW args \in Seq(Tokens), NEW c, NEW d, NEW e, NEW x, NEW y, NEW z,
         Takes(c, x), Takes(d, y), Takes(e, z),
         Begins(<<x, y, z>>, args), NEW cs, cs = <<c, d, e>>
  PROVE  Fit(cs, args)
<1>1. /\ 1 \in DOMAIN args /\ args[1] = x /\ 2 \in DOMAIN args /\ args[2] = y
      /\ 3 \in DOMAIN args /\ args[3] = z
  BY BeginsThree
<1>2. /\ ParsesAs(c, ReadToken(args, 1)) /\ ParsesAs(d, ReadToken(args, 2))
      /\ ParsesAs(e, ReadToken(args, 3))
  BY <1>1 DEF Takes
<1>3. DOMAIN cs = {1, 2, 3} /\ cs[1] = c /\ cs[2] = d /\ cs[3] = e
  OBVIOUS
<1> QED
  BY <1>2, <1>3 DEF Fit, Unparsed

LEMMA PlainFits ==
  ASSUME NEW w \in Word, NEW id \in {3} \cup 5 .. 11 \cup 15 .. 25, GetInstructionId(w) = id,
         NEW args \in Seq(Tokens), Begins(Operands(w), args),
         NEW cs, cs = INSTRUCTION_PARSERS[INSTRUCTION_NAMES[id + 1]]
  PROVE  Fit(cs, args)
<1>0. id \in 0 .. 25 /\ id \in 1 .. 25
  OBVIOUS
<1>r. \A v : Takes("RX", Token("RX", v)) /\ Takes("RX_REF", Token("RX_REF", v))
             /\ Takes("RS", Token("RS", v))
  BY RegistersTaken
<1>n. Takes("IMM4", Token("IMM", Imm4(w))) /\ Takes("IMM8", Token("IMM", CallDelta(w)))
  BY NumbersTaken, FieldTypes
<1>1. CASE id = 3
  <2>1. cs = <<"RX_REF", "RX", "RX">>
    BY <1>0, <1>1, ClassesById
  <2>2. Operands(w) = << Token("RX_REF", Bits(w, 9, 3)), Token("RX", Bits(w, 6, 3)),
                         Token("RX", Bits(w, 3, 3)) >>
    BY <1>0, <1>1, OperandsById
  <2> QED
    BY <1>r, <2>1, <2>2, FitsThree, Zenon
<1>2. CASE id = 5
  <2>1. cs = <<"IMM8">>
    BY <1>0, <1>2, ClassesById
  <2>2. Operands(w) = << Token("IMM", CallDelta(w)) >>
    BY <1>0, <1>2, OperandsById
  <2> QED
    BY <1>n, <2>1, <2>2, FitsOne, Zenon
<1>3. CASE id \in {6, 7}
  <2>1. cs = <<"RX", "IMM4">>
    BY <1>0, <1>3, ClassesById
  <2>2. Operands(w) = << Token("RX", FirstRX(w)), Token("IMM", Imm4(w)) >>
    BY <1>0, <1>3, OperandsById
  <2> QED
    BY <1>r, <1>n, <2>1, <2>2, FitsTwo, Zenon
<1>4. CASE id \in 8 .. 11 \cup 15 .. 17
  <2>1. cs = <<"RX", "RX">>
    BY <1>0, <1>4, ClassesById
  <2>2. Operands(w) = << Token("RX", FirstRX(w)), Token("RX", SecondRX(w)) >>
    BY <1>0, <1>4, OperandsById
  <2> QED
    BY <1>r, <2>1, <2>2, FitsTwo, Zenon
<1>5. CASE id \in {18, 19}
  <2>1. cs = <<"RS">>
    BY <1>0, <1>5, ClassesById
  <2>2. Operands(w) = << Token("RS", OnlyRS(w)) >>
    BY <1>0, <1>5, OperandsById
  <2> QED
    BY <1>r, <2>1, <2>2, FitsOne, Zenon
<1>6. CASE id \in 20 .. 22
  <2>1. cs = <<"RX">>
    BY <1>0, <1>6, ClassesById
  <2>2. Operands(w) = << Token("RX", FirstRX(w)) >>
    BY <1>0, <1>6, OperandsById
  <2> QED
    BY <1>r, <2>1, <2>2, FitsOne, Zenon
<1>7. CASE id \in 23 .. 25
  <2>1. cs = << >>
    BY <1>0, <1>7, ClassesById
  <2> QED
    BY <2>1, FitsNone
<1> QED
  BY <1>1, <1>2, <1>3, <1>4, <1>5, <1>6, <1>7

(* One of the forms of mov fits, and no token is too long for its buffer. *)
FitsMov(args) ==
    /\ \E f \in MovForms : Fit(f.classes, args)
    /\ ~Overruns(args, 1) /\ ~Overruns(args, 2)

LEMMA FitsForm ==
  ASSUME NEW args \in Seq(Tokens), NEW c, NEW d, NEW u, NEW v,
         NEW C, NEW D, C # "long", D # "long",
         Takes(c, Token(C, u)), Takes(d, Token(D, v)), Begins(<<Token(C, u), Token(D, v)>>, args),
         \E f \in MovForms : f.classes = <<c, d>>
  PROVE  FitsMov(args)
<1> DEFINE x == Token(C, u)
           y == Token(D, v)
<1>1. Takes(c, x) /\ Takes(d, y) /\ Begins(<<x, y>>, args)
  OBVIOUS
<1>2. x.kind # "long" /\ y.kind # "long"
  BY DEF Token
<1> HIDE DEF x, y
<1>3. 1 \in DOMAIN args /\ args[1] = x /\ 2 \in DOMAIN args /\ args[2] = y
  BY <1>1, BeginsTwo
<1>4. ~Overruns(args, 1) /\ ~Overruns(args, 2)
  BY <1>2, <1>3 DEF Overruns, ReadToken
<1>5. PICK f \in MovForms : f.classes = <<c, d>>
  OBVIOUS
<1>6. Fit(f.classes, args)
  BY <1>1, <1>5, FitsTwo
<1> QED
  BY <1>4, <1>6 DEF FitsMov

LEMMA MovFits ==
  ASSUME NEW w \in Word, NEW id \in MovIds, GetInstructionId(w) = id,
         NEW args \in Seq(Tokens), Begins(Operands(w), args)
  PROVE  FitsMov(args)
<1>0. id \in 0 .. 25 /\ id \in {0, 12, 13, 14}
  BY DEF MovIds
<1>r. \A v : Takes("RX", Token("RX", v)) /\ Takes("RX_REF", Token("RX_REF", v))
             /\ Takes("RS", Token("RS", v))
  BY RegistersTaken
<1>n. Takes("IMM8", Token("IMM", Bits(w, 0, 8)))
  BY NumbersTaken, FieldTypes
<1>f. /\ \E f \in MovForms : f.classes = <<"RX", "RX">>
      /\ \E f \in MovForms : f.classes = <<"RX_REF", "RX">>
      /\ \E f \in MovForms : f.classes = <<"RX", "RX_REF">>
      /\ \E f \in MovForms : f.classes = <<"RS", "IMM8">>
  BY DEF MovForms
<1>k. "RX" # "long" /\ "RX_REF" # "long" /\ "RS" # "long" /\ "IMM" # "long"
  OBVIOUS
<1>1. CASE id = 0
  <2>1. Operands(w) = << Token("RS", Bits(w, 8, 4)), Token("IMM", Bits(w, 0, 8)) >>
    BY <1>0, <1>1, OperandsById
  <2> QED
    BY <1>r, <1>n, <1>f, <1>k, <2>1, FitsForm, Zenon
<1>2. CASE id = 12
  <2>1. Operands(w) = << Token("RX", FirstRX(w)), Token("RX", SecondRX(w)) >>
    BY <1>0, <1>2, OperandsById
  <2> QED
    BY <1>r, <1>f, <1>k, <2>1, FitsForm, Zenon
<1>3. CASE id = 13
  <2>1. Operands(w) = << Token("RX", FirstRX(w)), Token("RX_REF", SecondRX(w)) >>
    BY <1>0, <1>3, OperandsById
  <2> QED
    BY <1>r, <1>f, <1>k, <2>1, FitsForm, Zenon
<1>4. CASE id = 14
  <2>1. Operands(w) = << Token("RX_REF", FirstRX(w)), Token("RX", SecondRX(w)) >>
    BY <1>0, <1>4, OperandsById
  <2> QED
    BY <1>r, <1>f, <1>k, <2>1, FitsForm, Zenon
<1> QED
  BY <1>0, <1>1, <1>2, <1>3, <1>4

LEMMA JumpFits ==
  ASSUME NEW id \in {1, 2, 4}, NEW args \in Seq(Tokens), 1 \in DOMAIN args,
         NEW cs, cs = INSTRUCTION_PARSERS[INSTRUCTION_NAMES[id + 1]]
  PROVE  Fit(cs, args) <=> IsLabelToken(args[1]) /\ \E b \in 0 .. 7 : JumpArgs(id, b, args)
<1>0. id \in 1 .. 25
  OBVIOUS
<1>1. \A c : c = "Label" => (ParsesAs(c, ReadToken(args, 1)) <=> IsLabelToken(args[1]))
  BY DEF ParsesAs, ReadToken, IsLabelToken
<1>2. ParsesAs("RX", ReadToken(args, 2))
        <=> 2 \in DOMAIN args /\ \E b \in 0 .. 7 : args[2] = Token("RX", b)
  <2>1. ASSUME ParsesAs("RX", ReadToken(args, 2))
        PROVE  2 \in DOMAIN args /\ \E b \in 0 .. 7 : args[2] = Token("RX", b)
    BY <2>1, FitsRX
  <2>2. ASSUME 2 \in DOMAIN args, NEW b \in 0 .. 7, args[2] = Token("RX", b)
        PROVE  ParsesAs("RX", ReadToken(args, 2))
    <3>1. Takes("RX", Token("RX", b))
      BY RegistersTaken
    <3> QED
      BY <2>2, <3>1 DEF Takes
  <2> QED
    BY <2>1, <2>2
<1>3. CASE id \in {1, 2}
  <2>1. cs = <<"Label", "RX">>
    BY <1>0, <1>3, ClassesById
  <2>2. DOMAIN cs = {1, 2} /\ cs[1] = "Label" /\ cs[2] = "RX"
    BY <2>1
  <2>3. Fit(cs, args) <=> ParsesAs(cs[1], ReadToken(args, 1)) /\ ParsesAs("RX", ReadToken(args, 2))
    BY <2>2 DEF Fit, Unparsed
  <2>4. id # 4
    BY <1>3
  <2> QED
    BY <1>1, <1>2, <2>2, <2>3, <2>4 DEF JumpArgs
<1>4. CASE id = 4
  <2>1. cs = <<"Label">>
    BY <1>0, <1>4, ClassesById
  <2>2. DOMAIN cs = {1} /\ cs[1] = "Label"
    BY <2>1
  <2>3. Fit(cs, args) <=> ParsesAs(cs[1], ReadToken(args, 1))
    BY <2>2 DEF Fit, Unparsed
  <2>4. \A b : JumpArgs(id, b, args)
    BY <1>4 DEF JumpArgs
  <2>5. 0 \in 0 .. 7
    OBVIOUS
  <2> QED
    BY <1>1, <2>2, <2>3, <2>4, <2>5
<1> QED
  BY <1>3, <1>4

----------------------------------------------------------------------------
(* The lines that parse are those that ask for an instruction. *)

(* A word whose instruction and operands are those on the line. *)
PlainAsks(l) ==
    \E id \in 0 .. 25, w \in Word :
        /\ GetInstructionId(w) = id
        /\ INSTRUCTION_NAMES[id + 1] = l.name
        /\ Begins(Operands(w), l.args)

(* A jump that has a label on the line, and its register if it tests one. *)
JumpAsks(l) ==
    \E id \in {1, 2, 4}, b \in 0 .. 7 :
        /\ INSTRUCTION_NAMES[id + 1] = l.name
        /\ JumpArgs(id, b, l.args)
        /\ IsLabelToken(l.args[1])

LEMMA ValidIds == \A id \in 0 .. 25 : id # INVALID_INSTRUCTION_ID
BY DEF INVALID_INSTRUCTION_ID

LEMMA NamesOfMov ==
  \A id \in 0 .. 25 : /\ INSTRUCTION_NAMES[id + 1] = "mov" <=> id \in MovIds
                      /\ INSTRUCTION_NAMES[id + 1] # ""
<1>1. \A id \in 0 .. 25 : INSTRUCTION_NAMES[id + 1] = "mov" <=> id \in MovIds
  BY DEF INSTRUCTION_NAMES, MovIds
<1>2. ASSUME NEW name, name = "" PROVE \A id \in 0 .. 25 : INSTRUCTION_NAMES[id + 1] # name
  BY <1>2, NameTable
<1> QED
  BY <1>1, <1>2

(* ParseLine, for a name of an instruction other than mov. *)
LEMMA OtherParses ==
  ASSUME NEW l \in Lines, NEW stale, NEW id \in 0 .. 25, id \notin MovIds,
         l.name = INSTRUCTION_NAMES[id + 1], ~BadLabels(l.declares),
         NEW p, p = ParseLine(l, stale)
  PROVE  p.status = "parsed" <=> Fit(INSTRUCTION_PARSERS[l.name], l.args)
<1> DEFINE label == ReadToken(l.declares, Len(l.declares))
           cs == INSTRUCTION_PARSERS[l.name]
           raw == Pack(cs, l.args, stale)
           inner == IF UsesLabel(cs) THEN l.args[1] ELSE NoLabel
           masked == IF UsesLabel(cs) THEN BitAnd(raw, BitNot(1)) ELSE raw
           w == WithOpcode(masked, ParseInstructionId(l.name))
<1>1. l.name # "mov" /\ l.name # ""
  BY NamesOfMov
<1>2. ParseInstructionId(l.name) # INVALID_INSTRUCTION_ID
  BY IdOfName, ValidIds
<1>3. p = ParseOther(label, l.name, l.args, stale)
  BY <1>1, <1>2, Zenon DEF ParseLine
<1>4. \/ Fit(cs, l.args) /\ p = Parsed(label, inner, w)
      \/ ~Fit(cs, l.args) /\ p \in {Crashed, Rejected}
  BY <1>3, Zenon DEF ParseOther, Fit
<1>5. Crashed.status # "parsed" /\ Rejected.status # "parsed"
  BY DEF Crashed, Rejected
<1>6. Parsed(label, inner, w).status = "parsed"
  BY DEF Parsed
<1> QED
  BY <1>4, <1>5, <1>6, Zenon

LEMMA MovParses ==
  ASSUME NEW l \in Lines, NEW stale, l.name = "mov", ~BadLabels(l.declares),
         FitsMov(l.args), NEW p, p = ParseLine(l, stale)
  PROVE  p.status = "parsed"
<1> DEFINE label == ReadToken(l.declares, Len(l.declares))
           args == l.args
           fitting == {f \in MovForms : Unparsed(f.classes, args) = {}}
           form == CHOOSE f \in fitting : TRUE
           raw == BitOr(Pack(form.classes, args, 0), form.mask)
           w == WithOpcode(raw, MovId(raw % 4))
<1>1. 0 \in 0 .. 25 /\ INSTRUCTION_NAMES[0 + 1] = "mov"
  BY DEF INSTRUCTION_NAMES
<1>2. ParseInstructionId(l.name) # INVALID_INSTRUCTION_ID /\ l.name # ""
  BY <1>1, IdOfName, ValidIds
<1>3. p = ParseMov(label, args)
  BY <1>2, Zenon DEF ParseLine
<1>4. p = IF Overruns(args, 1) \/ Overruns(args, 2) THEN Crashed
          ELSE IF fitting = {} THEN Rejected ELSE Parsed(label, NoLabel, w)
  BY <1>3, Zenon DEF ParseMov
<1>5. fitting # {} /\ ~Overruns(args, 1) /\ ~Overruns(args, 2)
  BY DEF FitsMov, Fit
<1> HIDE DEF w, fitting
<1>6. p = Parsed(label, NoLabel, w)
  BY <1>4, <1>5
<1> QED
  BY <1>6 DEF Parsed

LEMMA ParsesIff ==
  ASSUME NEW l \in Lines, NEW stale, NEW p, p = ParseLine(l, stale)
  PROVE  p.status = "parsed"
            <=> /\ ~BadLabels(l.declares)
                /\ IF l.name \in JUMPS THEN JumpAsks(l) ELSE PlainAsks(l)
<1>0. l.args \in Seq(Tokens)
  BY DEF Lines
<1>j. \A id \in 0 .. 25 : INSTRUCTION_NAMES[id + 1] \in JUMPS
                             <=> id \in {1, 2, 4}
  BY DEF INSTRUCTION_NAMES, JUMPS
<1>m. \A id \in 0 .. 25 : INSTRUCTION_NAMES[id + 1] = "mov" <=> id \in MovIds
  BY NamesOfMov
<1>n. \A id \in {1, 2, 4} : id \in 0 .. 25 /\ id \notin MovIds
  BY DEF MovIds
<1>1. ASSUME p.status = "parsed", l.name \notin JUMPS
      PROVE  ~BadLabels(l.declares) /\ PlainAsks(l)
  <2>1. ~BadLabels(l.declares)
    BY <1>1, ParsedLine
  <2>2. PICK id \in 0 .. 25 : INSTRUCTION_NAMES[id + 1] = l.name
                              /\ Encodes(p.RawInstruction, id, l.args)
    BY <1>1, PlainMeans
  <2> QED
    BY <2>1, <2>2 DEF Encodes, PlainAsks
<1>2. ASSUME p.status = "parsed", l.name \in JUMPS
      PROVE  ~BadLabels(l.declares) /\ JumpAsks(l)
  <2>1. ~BadLabels(l.declares) /\ 1 \in DOMAIN l.args /\ IsLabelToken(l.args[1])
    BY <1>2, ParsedLine
  <2>2. PICK id \in 0 .. 25 : l.name = INSTRUCTION_NAMES[id + 1]
    BY <1>2, ParsedLine
  <2>3. id \in {1, 2, 4} /\ id \notin MovIds
    BY <1>2, <1>j, <1>n, <2>2
  <2>4. Fit(INSTRUCTION_PARSERS[l.name], l.args)
    BY <1>2, <2>1, <2>2, <2>3, OtherParses
  <2> DEFINE cs == INSTRUCTION_PARSERS[INSTRUCTION_NAMES[id + 1]]
  <2>5. Fit(cs, l.args)
    BY <2>2, <2>4
  <2>6. PICK b \in 0 .. 7 : JumpArgs(id, b, l.args)
    BY <1>0, <2>1, <2>3, <2>5, JumpFits
  <2> QED
    BY <2>1, <2>2, <2>3, <2>6 DEF JumpAsks
<1>3. ASSUME ~BadLabels(l.declares), l.name \notin JUMPS, PlainAsks(l)
      PROVE  p.status = "parsed"
  <2>1. PICK id \in 0 .. 25, w \in Word :
            /\ GetInstructionId(w) = id
            /\ INSTRUCTION_NAMES[id + 1] = l.name
            /\ Begins(Operands(w), l.args)
    BY <1>3 DEF PlainAsks
  <2>2. CASE id \in MovIds
    <3>1. FitsMov(l.args)
      BY <1>0, <2>1, <2>2, MovFits
    <3>2. l.name = "mov"
      BY <1>m, <2>1, <2>2
    <3> QED
      BY <1>3, <3>1, <3>2, MovParses
  <2>3. CASE id \notin MovIds
    <3>1. id \notin {1, 2, 4}
      BY <1>3, <1>j, <2>1
    <3>2. id \in {3} \cup 5 .. 11 \cup 15 .. 25
      BY <2>3, <3>1 DEF MovIds
    <3> DEFINE cs == INSTRUCTION_PARSERS[INSTRUCTION_NAMES[id + 1]]
    <3>3. Fit(cs, l.args)
      BY <1>0, <2>1, <3>2, PlainFits
    <3>4. Fit(INSTRUCTION_PARSERS[l.name], l.args)
      BY <2>1, <3>3
    <3> QED
      BY <1>3, <2>1, <2>3, <3>4, OtherParses
  <2> QED
    BY <2>2, <2>3
<1>4. ASSUME ~BadLabels(l.declares), l.name \in JUMPS, JumpAsks(l)
      PROVE  p.status = "parsed"
  <2>1. PICK id \in {1, 2, 4}, b \in 0 .. 7 :
            /\ INSTRUCTION_NAMES[id + 1] = l.name
            /\ JumpArgs(id, b, l.args)
            /\ IsLabelToken(l.args[1])
    BY <1>4 DEF JumpAsks
  <2>2. 1 \in DOMAIN l.args
    BY <2>1 DEF JumpArgs
  <2> DEFINE cs == INSTRUCTION_PARSERS[INSTRUCTION_NAMES[id + 1]]
  <2>3. Fit(cs, l.args)
    BY <1>0, <2>1, <2>2, JumpFits
  <2>4. Fit(INSTRUCTION_PARSERS[l.name], l.args)
    BY <2>1, <2>3
  <2>5. id \in 0 .. 25 /\ id \notin MovIds
    BY <1>n
  <2> QED
    BY <1>4, <2>1, <2>4, <2>5, OtherParses
<1> QED
  BY <1>1, <1>2, <1>3, <1>4
======================================================================
