----------------------- MODULE CodeLineProofs ------------------------
(***************************************************************************)
(* How a line of assembly is put into a word: the bits of a word, the      *)
(* tables of names and of arguments, and the fields Pack makes of the      *)
(* arguments.  The fields are or-ed together; that this is their sum rests *)
(* on what the bits of a word are.                                         *)
(***************************************************************************)
EXTENDS Disassembly, InstructionSetProofs

----------------------------------------------------------------------------
(* The bits of a word. *)

(* The lowest bit of a word made of bits is one if 0 is among them. *)
LEMMA LowestBit ==
  ASSUME NEW S
  PROVE  (0 \in S => FromOnes(S) % 2 = 1) /\ (0 \notin S => FromOnes(S) % 2 = 0)
<1> DEFINE Rest(k) == IF k \in S THEN 2^(k - 1) ELSE 0
           IsTwice(w, h) == h \in Int /\ w = 2 * h
<1>1. /\ IsTwice(Weight(S, 1), Rest(1)) /\ IsTwice(Weight(S, 2), Rest(2))
      /\ IsTwice(Weight(S, 3), Rest(3)) /\ IsTwice(Weight(S, 4), Rest(4))
      /\ IsTwice(Weight(S, 5), Rest(5)) /\ IsTwice(Weight(S, 6), Rest(6))
      /\ IsTwice(Weight(S, 7), Rest(7)) /\ IsTwice(Weight(S, 8), Rest(8))
      /\ IsTwice(Weight(S, 9), Rest(9)) /\ IsTwice(Weight(S, 10), Rest(10))
      /\ IsTwice(Weight(S, 11), Rest(11)) /\ IsTwice(Weight(S, 12), Rest(12))
      /\ IsTwice(Weight(S, 13), Rest(13)) /\ IsTwice(Weight(S, 14), Rest(14))
      /\ IsTwice(Weight(S, 15), Rest(15))
  BY DEF Weight
<1> DEFINE high == Rest(1) + Rest(2) + Rest(3) + Rest(4) + Rest(5) + Rest(6)
                    + Rest(7) + Rest(8) + Rest(9) + Rest(10) + Rest(11)
                    + Rest(12) + Rest(13) + Rest(14) + Rest(15)
<1>2. Weight(S, 0) \in Int /\ Weight(S, 0) = IF 0 \in S THEN 1 ELSE 0
  BY DEF Weight
<1> HIDE DEF Rest
<1>3. high \in Int /\ FromOnes(S) = Weight(S, 0) + 2 * high
  BY <1>1, <1>2 DEF FromOnes
<1> HIDE DEF high
<1> QED
  BY <1>2, <1>3

LEMMA OrLowestBit ==
  ASSUME NEW x \in Int, NEW y \in Int
  PROVE  BitOr(x, y) % 2 = 1 <=> x % 2 = 1 \/ y % 2 = 1
<1>1. \A w \in Int : 0 \in Ones(w) <=> w % 2 = 1
  BY 2^0 = 1 DEF Ones
<1> QED
  BY <1>1, LowestBit DEF BitOr

(* A word is the sum of its bits: rest[k] is what is left of it when the   *)
(* lowest k bits have fallen off.                                          *)
LEMMA SumOfBits ==
  ASSUME NEW S, NEW rest \in [0 .. 16 -> Int],
         Weight(S, 0) = 1 * rest[0] - 2 * rest[1],
         Weight(S, 1) = 2 * rest[1] - 4 * rest[2],
         Weight(S, 2) = 4 * rest[2] - 8 * rest[3],
         Weight(S, 3) = 8 * rest[3] - 16 * rest[4],
         Weight(S, 4) = 16 * rest[4] - 32 * rest[5],
         Weight(S, 5) = 32 * rest[5] - 64 * rest[6],
         Weight(S, 6) = 64 * rest[6] - 128 * rest[7],
         Weight(S, 7) = 128 * rest[7] - 256 * rest[8],
         Weight(S, 8) = 256 * rest[8] - 512 * rest[9],
         Weight(S, 9) = 512 * rest[9] - 1024 * rest[10],
         Weight(S, 10) = 1024 * rest[10] - 2048 * rest[11],
         Weight(S, 11) = 2048 * rest[11] - 4096 * rest[12],
         Weight(S, 12) = 4096 * rest[12] - 8192 * rest[13],
         Weight(S, 13) = 8192 * rest[13] - 16384 * rest[14],
         Weight(S, 14) = 16384 * rest[14] - 32768 * rest[15],
         Weight(S, 15) = 32768 * rest[15] - 65536 * rest[16]
  PROVE  FromOnes(S) = rest[0] - 65536 * rest[16]
<1>1. Weight(S, 0) + Weight(S, 1) + Weight(S, 2) + Weight(S, 3)
        + Weight(S, 4) + Weight(S, 5) + Weight(S, 6) + Weight(S, 7)
        + Weight(S, 8) + Weight(S, 9) + Weight(S, 10) + Weight(S, 11)
        + Weight(S, 12) + Weight(S, 13) + Weight(S, 14) + Weight(S, 15)
      = rest[0] - 65536 * rest[16]
  OBVIOUS
<1> QED
  BY <1>1 DEF FromOnes

LEMMA WordIsItsBits == ASSUME NEW w \in Word PROVE FromOnes(Ones(w)) = w
<1> DEFINE rest == [k \in 0 .. 16 |-> w \div 2^k]
<1>1. w \in Int /\ 0 <= w /\ w <= 65535
  BY WordIff
<1>2. rest \in [0 .. 16 -> Int]
  <2>1. ASSUME NEW k \in 0 .. 16 PROVE 2^k \in Int /\ 2^k > 0
    <3>1. CASE k = 16
      BY <3>1, 2^16 = 65536
    <3>2. CASE k \in 0 .. 15
      BY <3>2, PowerPositive
    <3> QED
      BY <3>1, <3>2
  <2>2. \A p \in Int : p > 0 => w \div p \in Int
    BY <1>1
  <2> QED
    BY <2>1, <2>2
<1>3. /\ Weight(Ones(w), 0) = 1 * rest[0] - 2 * rest[1]
      /\ Weight(Ones(w), 1) = 2 * rest[1] - 4 * rest[2]
      /\ Weight(Ones(w), 2) = 4 * rest[2] - 8 * rest[3]
      /\ Weight(Ones(w), 3) = 8 * rest[3] - 16 * rest[4]
      /\ Weight(Ones(w), 4) = 16 * rest[4] - 32 * rest[5]
      /\ Weight(Ones(w), 5) = 32 * rest[5] - 64 * rest[6]
      /\ Weight(Ones(w), 6) = 64 * rest[6] - 128 * rest[7]
      /\ Weight(Ones(w), 7) = 128 * rest[7] - 256 * rest[8]
      /\ Weight(Ones(w), 8) = 256 * rest[8] - 512 * rest[9]
      /\ Weight(Ones(w), 9) = 512 * rest[9] - 1024 * rest[10]
      /\ Weight(Ones(w), 10) = 1024 * rest[10] - 2048 * rest[11]
      /\ Weight(Ones(w), 11) = 2048 * rest[11] - 4096 * rest[12]
      /\ Weight(Ones(w), 12) = 4096 * rest[12] - 8192 * rest[13]
      /\ Weight(Ones(w), 13) = 8192 * rest[13] - 16384 * rest[14]
      /\ Weight(Ones(w), 14) = 16384 * rest[14] - 32768 * rest[15]
      /\ Weight(Ones(w), 15) = 32768 * rest[15] - 65536 * rest[16]
  BY <1>1 DEF Weight, Ones
<1>4. rest[0] = w /\ rest[16] = 0
  BY <1>1, 2^0 = 1, 2^16 = 65536
<1> HIDE DEF rest
<1>5. FromOnes(Ones(w)) = rest[0] - 65536 * rest[16]
  BY <1>2, <1>3, SumOfBits
<1> QED
  BY <1>1, <1>4, <1>5

(* Which bit is a one, by the number of the bit. *)
LEMMA OneIs ==
  ASSUME NEW w \in Int, NEW k \in Ones(w)
  PROVE  \/ (k = 0 /\ (w \div 1) % 2 = 1) \/ (k = 1 /\ (w \div 2) % 2 = 1)
         \/ (k = 2 /\ (w \div 4) % 2 = 1) \/ (k = 3 /\ (w \div 8) % 2 = 1)
         \/ (k = 4 /\ (w \div 16) % 2 = 1) \/ (k = 5 /\ (w \div 32) % 2 = 1)
         \/ (k = 6 /\ (w \div 64) % 2 = 1) \/ (k = 7 /\ (w \div 128) % 2 = 1)
         \/ (k = 8 /\ (w \div 256) % 2 = 1) \/ (k = 9 /\ (w \div 512) % 2 = 1)
         \/ (k = 10 /\ (w \div 1024) % 2 = 1) \/ (k = 11 /\ (w \div 2048) % 2 = 1)
         \/ (k = 12 /\ (w \div 4096) % 2 = 1) \/ (k = 13 /\ (w \div 8192) % 2 = 1)
         \/ (k = 14 /\ (w \div 16384) % 2 = 1) \/ (k = 15 /\ (w \div 32768) % 2 = 1)
<1>1. k \in 0 .. 15 /\ (w \div 2^k) % 2 = 1
  BY DEF Ones
<1>a. CASE k = 0 BY <1>1, <1>a
<1>b. CASE k = 1 BY <1>1, <1>b
<1>c. CASE k = 2 BY <1>1, <1>c
<1>d. CASE k = 3 BY <1>1, <1>d
<1>e. CASE k = 4 BY <1>1, <1>e
<1>f. CASE k = 5 BY <1>1, <1>f
<1>g. CASE k = 6 BY <1>1, <1>g
<1>h. CASE k = 7 BY <1>1, <1>h
<1>i. CASE k = 8 BY <1>1, <1>i
<1>j. CASE k = 9 BY <1>1, <1>j
<1>k. CASE k = 10 BY <1>1, <1>k
<1>l. CASE k = 11 BY <1>1, <1>l
<1>m. CASE k = 12 BY <1>1, <1>m
<1>n. CASE k = 13 BY <1>1, <1>n
<1>o. CASE k = 14 BY <1>1, <1>o
<1>p. CASE k = 15 BY <1>1, <1>p
<1> QED
  BY <1>a, <1>b, <1>c, <1>d, <1>e, <1>f, <1>g, <1>h,
     <1>i, <1>j, <1>k, <1>l, <1>m, <1>n, <1>o, <1>p, <1>1

(* A multiple of a power of two has no ones below it, a number smaller    *)
(* than it none from there on.                                             *)
LEMMA OnesFrom ==
  ASSUME NEW lo \in 0 .. 15, NEW a \in Int
  PROVE  \A k \in Ones(a * 2^lo) : k >= lo
<1> SUFFICES ASSUME NEW k \in Ones(a * 2^lo) PROVE k >= lo
  OBVIOUS
<1>a. CASE lo = 0 BY <1>a, OneIs
<1>b. CASE lo = 1 BY <1>b, OneIs
<1>c. CASE lo = 2 BY <1>c, OneIs
<1>d. CASE lo = 3 BY <1>d, OneIs
<1>e. CASE lo = 4 BY <1>e, OneIs
<1>f. CASE lo = 5 BY <1>f, OneIs
<1>g. CASE lo = 6 BY <1>g, OneIs
<1>h. CASE lo = 7 BY <1>h, OneIs
<1>i. CASE lo = 8 BY <1>i, OneIs
<1>j. CASE lo = 9 BY <1>j, OneIs
<1>k. CASE lo = 10 BY <1>k, OneIs
<1>l. CASE lo = 11 BY <1>l, OneIs
<1>m. CASE lo = 12 BY <1>m, OneIs
<1>n. CASE lo = 13 BY <1>n, OneIs
<1>o. CASE lo = 14 BY <1>o, OneIs
<1>p. CASE lo = 15 BY <1>p, OneIs
<1> QED
  BY <1>a, <1>b, <1>c, <1>d, <1>e, <1>f, <1>g, <1>h,
     <1>i, <1>j, <1>k, <1>l, <1>m, <1>n, <1>o, <1>p

LEMMA OnesBelow ==
  ASSUME NEW hi \in 0 .. 15, NEW w \in Int, 0 <= w, w < 2^hi
  PROVE  \A k \in Ones(w) : k < hi
<1> SUFFICES ASSUME NEW k \in Ones(w) PROVE k < hi
  OBVIOUS
<1>a. CASE hi = 0 BY <1>a, OneIs
<1>b. CASE hi = 1 BY <1>b, OneIs
<1>c. CASE hi = 2 BY <1>c, OneIs
<1>d. CASE hi = 3 BY <1>d, OneIs
<1>e. CASE hi = 4 BY <1>e, OneIs
<1>f. CASE hi = 5 BY <1>f, OneIs
<1>g. CASE hi = 6 BY <1>g, OneIs
<1>h. CASE hi = 7 BY <1>h, OneIs
<1>i. CASE hi = 8 BY <1>i, OneIs
<1>j. CASE hi = 9 BY <1>j, OneIs
<1>k. CASE hi = 10 BY <1>k, OneIs
<1>l. CASE hi = 11 BY <1>l, OneIs
<1>m. CASE hi = 12 BY <1>m, OneIs
<1>n. CASE hi = 13 BY <1>n, OneIs
<1>o. CASE hi = 14 BY <1>o, OneIs
<1>p. CASE hi = 15 BY <1>p, OneIs
<1> QED
  BY <1>a, <1>b, <1>c, <1>d, <1>e, <1>f, <1>g, <1>h,
     <1>i, <1>j, <1>k, <1>l, <1>m, <1>n, <1>o, <1>p

LEMMA OnesAreBits == \A w : \A k \in Ones(w) : k \in Int /\ 0 <= k /\ k <= 15
  BY DEF Ones

(* Where two words have no one in common, or is plus. *)
LEMMA WeightsAdd ==
  ASSUME NEW f \in [0 .. 15 -> Int], NEW g \in [0 .. 15 -> Int], NEW S, NEW T, NEW U,
         \A k \in 0 .. 15 : /\ Weight(S, k) = f[k]
                            /\ Weight(T, k) = g[k]
                            /\ Weight(U, k) = f[k] + g[k]
  PROVE  FromOnes(U) = FromOnes(S) + FromOnes(T)
<1>1. FromOnes(S) = f[0] + f[1] + f[2] + f[3] + f[4] + f[5] + f[6] + f[7] + f[8]
                     + f[9] + f[10] + f[11] + f[12] + f[13] + f[14] + f[15]
  BY DEF FromOnes
<1>2. FromOnes(T) = g[0] + g[1] + g[2] + g[3] + g[4] + g[5] + g[6] + g[7] + g[8]
                     + g[9] + g[10] + g[11] + g[12] + g[13] + g[14] + g[15]
  BY DEF FromOnes
<1>3. FromOnes(U) = f[0] + g[0] + (f[1] + g[1]) + (f[2] + g[2]) + (f[3] + g[3])
                     + (f[4] + g[4]) + (f[5] + g[5]) + (f[6] + g[6]) + (f[7] + g[7])
                     + (f[8] + g[8]) + (f[9] + g[9]) + (f[10] + g[10]) + (f[11] + g[11])
                     + (f[12] + g[12]) + (f[13] + g[13]) + (f[14] + g[14]) + (f[15] + g[15])
  BY DEF FromOnes
<1> QED
  BY <1>1, <1>2, <1>3

LEMMA OrIsSum ==
  ASSUME NEW x \in Word, NEW y \in Word, Ones(x) \cap Ones(y) = {}
  PROVE  BitOr(x, y) = x + y
<1> DEFINE f == [k \in 0 .. 15 |-> Weight(Ones(x), k)]
           g == [k \in 0 .. 15 |-> Weight(Ones(y), k)]
<1>1. \A k \in 0 .. 15 : 2^k \in Int
  BY PowerPositive
<1>2. f \in [0 .. 15 -> Int] /\ g \in [0 .. 15 -> Int]
  BY <1>1 DEF Weight
<1>3. \A k \in 0 .. 15 : Weight(Ones(x) \cup Ones(y), k) = Weight(Ones(x), k) + Weight(Ones(y), k)
  BY <1>1 DEF Weight
<1>4. \A k \in 0 .. 15 : /\ Weight(Ones(x), k) = f[k]
                         /\ Weight(Ones(y), k) = g[k]
                         /\ Weight(Ones(x) \cup Ones(y), k) = f[k] + g[k]
  BY <1>3
<1> HIDE DEF f, g
<1>5. FromOnes(Ones(x) \cup Ones(y)) = FromOnes(Ones(x)) + FromOnes(Ones(y))
  BY <1>2, <1>4, WeightsAdd
<1> QED
  BY <1>5, WordIsItsBits DEF BitOr

(* The fields of an instruction are put side by side: one above another,   *)
LEMMA OrSideBySide ==
  ASSUME NEW x \in Word, NEW c \in Word,
         NEW lo \in 0 .. 15, NEW a \in Int, x = a * 2^lo, c < 2^lo
  PROVE  BitOr(x, c) = x + c /\ BitOr(c, x) = x + c
<1>1. x \in Int /\ c \in Int /\ 0 <= c
  BY WordIff
<1>2. \A k \in Ones(x) : k \in Int /\ k >= lo
  BY OnesFrom, OnesAreBits
<1>3. \A k \in Ones(c) : k \in Int /\ k < lo
  BY <1>1, OnesBelow, OnesAreBits
<1>4. Ones(x) \cap Ones(c) = {} /\ Ones(c) \cap Ones(x) = {}
  BY <1>2, <1>3
<1>5. BitOr(x, c) = x + c /\ BitOr(c, x) = c + x
  BY <1>4, OrIsSum
<1> QED
  BY <1>1, <1>5

(* or into the byte above the lowest four bits, if that is empty. *)
LEMMA OrInto ==
  ASSUME NEW a \in 0 .. 15, NEW c \in 0 .. 15, NEW d \in 0 .. 255
  PROVE  BitOr(a * 2^12 + c, d * 2^4) = a * 2^12 + d * 2^4 + c
<1> DEFINE x == a * 2^12 + c
           y == d * 2^4
<1>1. /\ x \in Int /\ 0 <= x /\ x <= 65535 /\ x = a * 4096 + c
      /\ y \in Int /\ 0 <= y /\ y <= 65535 /\ y = d * 16
  BY 2^12 = 4096, 2^4 = 16
<1>2. \A k \in Ones(y) : k \in Int /\ k >= 4
  BY OnesFrom, OnesAreBits
<1>3. \A k \in Ones(y) : k < 12
  BY <1>1, OnesBelow, 2^12 = 4096
<1> HIDE DEF x, y
<1>4. \A k \in Ones(x) : k < 4 \/ k >= 12
  BY <1>1, OneIs
<1>5. Ones(x) \cap Ones(y) = {}
  BY <1>2, <1>3, <1>4
<1>6. BitOr(x, y) = x + y
  BY <1>1, <1>5, OrIsSum, WordIff
<1> QED
  BY <1>1, <1>6 DEF x, y

----------------------------------------------------------------------------
(* The names of the instructions. *)

(* The arguments by name. *)
LEMMA ParserTable ==
  /\ \A n \in {"jne", "je"} : INSTRUCTION_PARSERS[n] = << "Label", "RX" >>
  /\ INSTRUCTION_PARSERS["jmp"] = << "Label" >>
  /\ INSTRUCTION_PARSERS["call"] = << "IMM8" >>
  /\ \A n \in {"shr", "shl"} : INSTRUCTION_PARSERS[n] = << "RX", "IMM4" >>
  /\ \A n \in {"xor", "sub", "or", "mul", "div", "and", "add"} :
        INSTRUCTION_PARSERS[n] = << "RX", "RX" >>
  /\ \A n \in {"out", "in"} : INSTRUCTION_PARSERS[n] = << "RS" >>
  /\ \A n \in {"push", "pop", "not"} : INSTRUCTION_PARSERS[n] = << "RX" >>
  /\ \A n \in {"ret", "reset", "nop"} : INSTRUCTION_PARSERS[n] = << >>
  /\ INSTRUCTION_PARSERS["cmpxchg"] = << "RX_REF", "RX", "RX" >>
  BY DEF INSTRUCTION_PARSERS
  
(* The names there are. *)
LEMMA NameTable ==
  ASSUME NEW name
  PROVE (\E id \in 0 .. 25 : INSTRUCTION_NAMES[id + 1] = name) <=>
   name \in {"mov", "jne", "je", "jmp", "call", "shr", "shl", "xor", "sub", "or", "mul", "div", "and", "add", "out", "in", "push", "pop", "not", "ret", "reset", "nop", "cmpxchg"}
  BY DEF INSTRUCTION_NAMES

(* Only the four movs have one name; it stands for the first of them.    *)
MovIds == {0, 12, 13, 14}

LEMMA OneName ==
  ASSUME NEW id \in 0 .. 25, NEW other \in 0 .. 25,
         INSTRUCTION_NAMES[other + 1] = INSTRUCTION_NAMES[id + 1]
  PROVE  id = other \/ (id \in MovIds /\ other \in MovIds)
  BY DEF INSTRUCTION_NAMES, MovIds

LEMMA IdOfName ==
  ASSUME NEW id \in 0 .. 25
  PROVE  ParseInstructionId(INSTRUCTION_NAMES[id + 1]) = IF id \in MovIds THEN 0 ELSE id
<1> DEFINE name == INSTRUCTION_NAMES[id + 1]
           ids == {k \in 0 .. INSTRUCTION_CNT - 1 : INSTRUCTION_NAMES[k + 1] = name}
           first == IF id \in MovIds THEN 0 ELSE id
<1>1. INSTRUCTION_CNT - 1 = 25
  BY DEF INSTRUCTION_CNT
<1>2. \A k \in MovIds : INSTRUCTION_NAMES[k + 1] = "mov"
  BY DEF INSTRUCTION_NAMES, MovIds
<1>3. first \in ids
  BY <1>1, <1>2 DEF MovIds
<1>4. \A k \in ids : first <= k
  BY <1>1, OneName DEF MovIds
<1> HIDE DEF first, ids
<1>5. ids \subseteq 0 .. 25
  BY <1>1 DEF ids
<1>6. first = CHOOSE k \in ids : \A other \in ids : k <= other
  <2> DEFINE chosen == CHOOSE k \in ids : \A other \in ids : k <= other
  <2>1. chosen \in ids /\ \A other \in ids : chosen <= other
    BY <1>3, <1>4
  <2> HIDE DEF chosen
  <2>2. first = chosen
    BY <1>3, <1>4, <1>5, <2>1
  <2> QED
    BY <2>2 DEF chosen
<1>7. ParseInstructionId(name) = first
  BY <1>3, <1>6 DEF ParseInstructionId, ids
<1> QED
  BY <1>7 DEF first

----------------------------------------------------------------------------
(* Packing the arguments. *)

(* Packing goes on from argument to argument. *)
LEMMA PackSteps ==
  ASSUME NEW classes, Len(classes) \in 0 .. 3, NEW args, NEW stale
  PROVE  \E argValue, offset, raw :
            /\ Pack(classes, args, stale) = raw[Len(classes)]
            /\ argValue[0] = stale /\ offset[0] = 16 /\ raw[0] = 0
            /\ \A k \in 1 .. Len(classes) :
                  /\ argValue[k] = IF classes[k] = "Label" THEN argValue[k - 1]
                                   ELSE args[k].value
                  /\ offset[k] = offset[k - 1] - ArgSize[classes[k]]
                  /\ raw[k] = BitOr(raw[k - 1], U16(argValue[k] * 2^offset[k]))
<1> DEFINE n == Len(classes)
           ArgValues(f) == [k \in 0 .. n |->
                IF k = 0 THEN stale
                ELSE IF classes[k] = "Label" THEN f[k - 1] ELSE args[k].value]
           Offsets(f) == [k \in 0 .. n |->
                IF k = 0 THEN 16 ELSE f[k - 1] - ArgSize[classes[k]]]
           argValue == CHOOSE f : f = ArgValues(f)
           offset == CHOOSE f : f = Offsets(f)
           Field(k) == U16(argValue[k] * 2^offset[k])
           Raws(f) == [k \in 0 .. n |-> IF k = 0 THEN 0 ELSE BitOr(f[k - 1], Field(k))]
           raw == CHOOSE f : f = Raws(f)
<1>1. argValue = ArgValues(argValue)
  <2> DEFINE v1 == IF classes[1] = "Label" THEN stale ELSE args[1].value
             v2 == IF classes[2] = "Label" THEN v1 ELSE args[2].value
             v3 == IF classes[3] = "Label" THEN v2 ELSE args[3].value
             f == [k \in 0 .. n |-> IF k = 0 THEN stale ELSE
                                    IF k = 1 THEN v1 ELSE IF k = 2 THEN v2 ELSE v3]
  <2>1. f = ArgValues(f)
    OBVIOUS
  <2> QED
    BY <2>1
<1>2. offset = Offsets(offset)
  <2> DEFINE v1 == 16 - ArgSize[classes[1]]
             v2 == v1 - ArgSize[classes[2]]
             v3 == v2 - ArgSize[classes[3]]
             f == [k \in 0 .. n |-> IF k = 0 THEN 16 ELSE
                                    IF k = 1 THEN v1 ELSE IF k = 2 THEN v2 ELSE v3]
  <2>1. f = Offsets(f)
    OBVIOUS
  <2> QED
    BY <2>1
<1>3. raw = Raws(raw)
  <2> DEFINE v1 == BitOr(0, Field(1))
             v2 == BitOr(v1, Field(2))
             v3 == BitOr(v2, Field(3))
             f == [k \in 0 .. n |-> IF k = 0 THEN 0 ELSE
                                    IF k = 1 THEN v1 ELSE IF k = 2 THEN v2 ELSE v3]
  <2> HIDE DEF Field
  <2>1. ASSUME NEW k \in 1 .. n PROVE f[k] = BitOr(f[k - 1], Field(k))
    <3>1. CASE k = 1 BY <3>1
    <3>2. CASE k = 2 BY <3>2
    <3>3. CASE k = 3 BY <3>3
    <3> QED
      BY <3>1, <3>2, <3>3
  <2>2. f[0] = 0 /\ f = [k \in 0 .. n |-> f[k]]
    OBVIOUS
  <2> HIDE DEF f
  <2>3. f = Raws(f)
    BY <2>1, <2>2
  <2> QED
    BY <2>3
<1>4. Pack(classes, args, stale) = raw[n]
  BY DEF Pack
<1> HIDE DEF argValue, offset, raw
<1>5. argValue[0] = stale /\ offset[0] = 16 /\ raw[0] = 0
  BY <1>1, <1>2, <1>3
<1>6. ASSUME NEW k \in 1 .. n
      PROVE  /\ argValue[k] = IF classes[k] = "Label" THEN argValue[k - 1] ELSE args[k].value
             /\ offset[k] = offset[k - 1] - ArgSize[classes[k]]
  <2>1. argValue[k] = IF classes[k] = "Label" THEN argValue[k - 1] ELSE args[k].value
    BY <1>1
  <2>2. offset[k] = offset[k - 1] - ArgSize[classes[k]]
    BY <1>2
  <2> QED
    BY <2>1, <2>2
<1> HIDE DEF Field
<1>7. ASSUME NEW k \in 1 .. n PROVE raw[k] = BitOr(raw[k - 1], Field(k))
  BY <1>3
<1> QED
  BY <1>4, <1>5, <1>6, <1>7 DEF Field

LEMMA OrNothing ==
  ASSUME NEW w \in Word
  PROVE  BitOr(0, w) = w /\ BitOr(w, 0) = w
<1>1. Ones(0) = {}
  BY OnesBelow, OnesAreBits, 2^0 = 1
<1> QED
  BY <1>1, OrIsSum, WordIff

(* What the packed arguments are, as long as there are no more than three. *)
Field(value, offset) == U16(value * 2^offset)

Packed(classes, args, stale, argValue, offset, raw) ==
    /\ Pack(classes, args, stale) = raw[Len(classes)]
    /\ argValue[0] = stale /\ offset[0] = 16 /\ raw[0] = 0
    /\ \A k \in 1 .. Len(classes) :
          /\ argValue[k] = IF classes[k] = "Label" THEN argValue[k - 1] ELSE args[k].value
          /\ offset[k] = offset[k - 1] - ArgSize[classes[k]]
          /\ raw[k] = BitOr(raw[k - 1], Field(argValue[k], offset[k]))

LEMMA PackedSoFar ==
  ASSUME NEW classes, Len(classes) \in 0 .. 3, NEW args, NEW stale
  PROVE  \E argValue, offset, raw : Packed(classes, args, stale, argValue, offset, raw)
  BY PackSteps DEF Packed, Field

LEMMA PackOne ==
  ASSUME NEW args, NEW stale, NEW c,
         NEW v, v = IF c = "Label" THEN stale ELSE args[1].value,
         NEW p, p = 16 - ArgSize[c]
  PROVE  Pack(<<c>>, args, stale) = BitOr(0, Field(v, p))
<1>0. Len(<<c>>) \in 0 .. 3
  OBVIOUS
<1>1. PICK argValue, offset, raw : Packed(<<c>>, args, stale, argValue, offset, raw)
  BY <1>0, PackedSoFar
<1>2. argValue[1] = v /\ offset[1] = p
  BY <1>1 DEF Packed
<1> QED
  BY <1>1, <1>2 DEF Packed

LEMMA PackTwo ==
  ASSUME NEW args, NEW stale, NEW c, NEW d, d # "Label",
         NEW v, v = args[2].value, NEW p, p = 16 - ArgSize[c] - ArgSize[d]
  PROVE  Pack(<<c, d>>, args, stale) = BitOr(Pack(<<c>>, args, stale), Field(v, p))
<1>0. Len(<<c, d>>) \in 0 .. 3
  OBVIOUS
<1>1. PICK argValue, offset, raw : Packed(<<c, d>>, args, stale, argValue, offset, raw)
  BY <1>0, PackedSoFar
<1>2. /\ argValue[1] = IF c = "Label" THEN stale ELSE args[1].value
      /\ offset[1] = 16 - ArgSize[c]
      /\ raw[1] = BitOr(0, Field(argValue[1], offset[1]))
  BY <1>1 DEF Packed
<1>3. raw[1] = Pack(<<c>>, args, stale)
  BY <1>2, PackOne
<1>4. argValue[2] = v /\ offset[2] = p /\ raw[2] = BitOr(raw[1], Field(argValue[2], offset[2]))
  BY <1>1, <1>2 DEF Packed
<1> QED
  BY <1>1, <1>3, <1>4 DEF Packed

LEMMA PackThree ==
  ASSUME NEW args, NEW stale, NEW c, NEW d, NEW e, d # "Label", e # "Label",
         NEW v, v = args[3].value,
         NEW p, p = 16 - ArgSize[c] - ArgSize[d] - ArgSize[e]
  PROVE  Pack(<<c, d, e>>, args, stale) = BitOr(Pack(<<c, d>>, args, stale), Field(v, p))
<1>0. Len(<<c, d, e>>) \in 0 .. 3
  OBVIOUS
<1>1. PICK argValue, offset, raw : Packed(<<c, d, e>>, args, stale, argValue, offset, raw)
  BY <1>0, PackedSoFar
<1>2. /\ argValue[1] = IF c = "Label" THEN stale ELSE args[1].value
      /\ offset[1] = 16 - ArgSize[c]
      /\ raw[1] = BitOr(0, Field(argValue[1], offset[1]))
  BY <1>1 DEF Packed
<1>3. raw[1] = Pack(<<c>>, args, stale)
  BY <1>2, PackOne
<1>4. /\ argValue[2] = args[2].value
      /\ offset[2] = 16 - ArgSize[c] - ArgSize[d]
      /\ raw[2] = BitOr(raw[1], Field(argValue[2], offset[2]))
  BY <1>1, <1>2 DEF Packed
<1>5. raw[2] = Pack(<<c, d>>, args, stale)
  BY <1>3, <1>4, PackTwo
<1>6. argValue[3] = v /\ offset[3] = p /\ raw[3] = BitOr(raw[2], Field(argValue[3], offset[3]))
  BY <1>1, <1>4 DEF Packed
<1> QED
  BY <1>1, <1>5, <1>6 DEF Packed

(* The opcode goes above the arguments. *)
LEMMA BigOpcode ==
  ASSUME NEW raw \in Word, NEW id \in 0 .. 4
  PROVE  /\ WithOpcode(raw, id) = 2^15 + id * 2^12 + raw \div 2^4
         /\ WithOpcode(raw, id) \in Word
         /\ GetInstructionId(WithOpcode(raw, id)) = id
<1> DEFINE low == raw \div 2^4
           w == 32768 + id * 4096 + low
<1>1. /\ low \in Int /\ 0 <= low /\ low < 4096
      /\ id * 2^12 \in Int /\ id * 2^12 = id * 4096 /\ id \in Int
      /\ 2^12 = 4096 /\ 2^15 = 32768
  BY WordIff
<1> HIDE DEF low
<1>2. BitOr(low, id * 2^12) = id * 2^12 + low
  <2>1. low \in Word /\ id * 2^12 \in Word /\ low < 2^12
    BY <1>1, WordIff
  <2> QED
    BY <1>1, <2>1, OrSideBySide
<1> DEFINE c == id * 2^12 + low
<1>3. BitOr(c, 2^15) = 2^15 + c
  <2>1. c \in Word /\ c < 2^15 /\ 2^15 \in Word /\ 2^15 = 1 * 2^15
    BY <1>1, WordIff
  <2> HIDE DEF c
  <2> QED
    BY <2>1, OrSideBySide
<1>4. WithOpcode(raw, id) = w
  BY <1>1, <1>2, <1>3 DEF WithOpcode, BIG_INSTRUCTION_CNT, low
<1>5. w \in Word
  BY <1>1, WordIff
<1>6. Bits(w, 12, 3) = id
  BY <1>1, 2^3 = 8 DEF Bits
<1>7. w >= 32768
  BY <1>1
<1> HIDE DEF w
<1>8. GetInstructionId(w) = id
  BY <1>6, <1>7 DEF GetInstructionId, BIG_INSTRUCTION_CNT
<1> QED
  BY <1>1, <1>4, <1>5, <1>8 DEF w, low

LEMMA SmallOpcode ==
  ASSUME NEW raw \in Word, NEW id \in 5 .. 25
  PROVE  /\ WithOpcode(raw, id) = id * 2^8 + raw \div 2^8
         /\ WithOpcode(raw, id) \in Word
         /\ GetInstructionId(WithOpcode(raw, id)) = id
<1> DEFINE low == raw \div 2^8
           w == id * 256 + low
<1>1. /\ low \in Int /\ 0 <= low /\ low < 256
      /\ id * 2^8 \in Int /\ id * 2^8 = id * 256 /\ id \in Int
      /\ 2^8 = 256
  BY WordIff
<1> HIDE DEF low
<1>2. BitOr(low, id * 2^8) = id * 2^8 + low
  <2>1. low \in Word /\ id * 2^8 \in Word /\ low < 2^8
    BY <1>1, WordIff
  <2> QED
    BY <1>1, <2>1, OrSideBySide
<1>3. WithOpcode(raw, id) = w
  BY <1>1, <1>2 DEF WithOpcode, BIG_INSTRUCTION_CNT, low
<1>4. w \in Word
  BY <1>1, WordIff
<1>5. w \in Int /\ w \div 256 = id /\ w < 32768
  BY <1>1
<1> HIDE DEF w
<1>6. GetInstructionId(w) = id
  BY <1>5 DEF GetInstructionId, BIG_INSTRUCTION_CNT, INSTRUCTION_CNT
<1> QED
  BY <1>1, <1>3, <1>4, <1>6 DEF w, low

(* Fields that fit are where they should be. *)
LEMMA FieldFits ==
  /\ \A v \in 0 .. 7 : /\ Field(v, 13) = v * 2^13 /\ v * 2^13 \in Word
                       /\ Field(v, 10) = v * 2^10 /\ v * 2^10 \in Word /\ v * 2^10 < 2^13
                       /\ Field(v, 7) = v * 2^7 /\ v * 2^7 \in Word /\ v * 2^7 < 2^10
                       /\ Field(v, 5) = v * 2^5 /\ v * 2^5 \in Word /\ v * 2^5 < 2^8
  /\ \A v \in 0 .. 15 : /\ Field(v, 12) = v * 2^12 /\ v * 2^12 \in Word
                        /\ Field(v, 9) = v * 2^9 /\ v * 2^9 \in Word /\ v * 2^9 < 2^13
  /\ \A v \in 0 .. 255 : /\ Field(v, 8) = v * 2^8 /\ v * 2^8 \in Word
                         /\ Field(v, 4) = v * 2^4 /\ v * 2^4 \in Word /\ v * 2^4 < 2^12
  /\ \A v \in Int : Field(v, 8) = (v % 2^8) * 2^8 /\ (v % 2^8) * 2^8 \in Word
  BY WordIff, 2^13 = 8192, 2^10 = 1024, 2^7 = 128, 2^5 = 32, 2^12 = 4096,
     2^9 = 512, 2^8 = 256, 2^4 = 16, 2^16 = 65536 DEF Field, U16

LEMMA OnePacked ==
  ASSUME NEW args, NEW stale, NEW a, a = args[1].value
  PROVE  /\ a \in 0 .. 7 => Pack(<<"RX">>, args, stale) = a * 2^13
         /\ a \in 0 .. 7 => Pack(<<"RX_REF">>, args, stale) = a * 2^13
         /\ a \in 0 .. 15 => Pack(<<"RS">>, args, stale) = a * 2^12
         /\ a \in 0 .. 255 => Pack(<<"IMM8">>, args, stale) = a * 2^8
         /\ stale \in Int => Pack(<<"Label">>, args, stale) = (stale % 2^8) * 2^8
<1>1. /\ 13 = 16 - ArgSize["RX"] /\ 13 = 16 - ArgSize["RX_REF"] /\ 12 = 16 - ArgSize["RS"]
      /\ 8 = 16 - ArgSize["IMM8"] /\ 8 = 16 - ArgSize["Label"]
  BY DEF ArgSize
<1>2. Pack(<<"RX">>, args, stale) = BitOr(0, Field(a, 13))
  BY <1>1, PackOne
<1>3. Pack(<<"RX_REF">>, args, stale) = BitOr(0, Field(a, 13))
  BY <1>1, PackOne
<1>4. Pack(<<"RS">>, args, stale) = BitOr(0, Field(a, 12))
  BY <1>1, PackOne
<1>5. Pack(<<"IMM8">>, args, stale) = BitOr(0, Field(a, 8))
  BY <1>1, PackOne
<1>6. Pack(<<"Label">>, args, stale) = BitOr(0, Field(stale, 8))
  BY <1>1, PackOne
<1> QED
  BY <1>2, <1>3, <1>4, <1>5, <1>6, FieldFits, OrNothing

(* The classes of arguments that are a register, or memory at one. *)
Registers == {"RX", "RX_REF"}

LEMMA RegistersPacked ==
  ASSUME NEW args, NEW stale,
         NEW a, a = args[1].value, NEW b, b = args[2].value, a \in 0 .. 7, b \in 0 .. 7,
         NEW C \in Registers, NEW D \in Registers
  PROVE  Pack(<<C, D>>, args, stale) = a * 2^13 + b * 2^10
<1>1. 10 = 16 - ArgSize[C] - ArgSize[D] /\ D # "Label"
  BY DEF ArgSize, Registers
<1>2. Pack(<<C>>, args, stale) = a * 2^13
  BY OnePacked DEF Registers
<1>3. Pack(<<C, D>>, args, stale) = BitOr(a * 2^13, Field(b, 10))
  BY <1>1, <1>2, PackTwo
<1>4. /\ a * 2^13 \in Word /\ a \in Int /\ 13 \in 0 .. 15
      /\ Field(b, 10) = b * 2^10 /\ Field(b, 10) \in Word /\ Field(b, 10) < 2^13
  BY FieldFits, 2^8 = 256
<1>5. BitOr(a * 2^13, Field(b, 10)) = a * 2^13 + Field(b, 10)
  BY <1>4, OrSideBySide, Zenon
<1> QED
  BY <1>3, <1>4, <1>5

LEMMA TwoPacked ==
  ASSUME NEW args, NEW stale,
         NEW a, a = args[1].value, NEW b, b = args[2].value
  PROVE  /\ a \in 0 .. 7 /\ b \in 0 .. 15 =>
               Pack(<<"RX", "IMM4">>, args, stale) = a * 2^13 + b * 2^9
         /\ a \in 0 .. 15 /\ b \in 0 .. 255 =>
               Pack(<<"RS", "IMM8">>, args, stale) = a * 2^12 + b * 2^4
         /\ stale \in Int /\ b \in 0 .. 7 =>
               Pack(<<"Label", "RX">>, args, stale) = (stale % 2^8) * 2^8 + b * 2^5
<1>2. ASSUME a \in 0 .. 7, b \in 0 .. 15
      PROVE  Pack(<<"RX", "IMM4">>, args, stale) = a * 2^13 + b * 2^9
  <2>1. 9 = 16 - ArgSize["RX"] - ArgSize["IMM4"]
    BY DEF ArgSize
  <2>2. Pack(<<"RX">>, args, stale) = a * 2^13
    BY <1>2, OnePacked
  <2>3. Pack(<<"RX", "IMM4">>, args, stale) = BitOr(a * 2^13, Field(b, 9))
    BY <2>1, <2>2, PackTwo
  <2>4. /\ a * 2^13 \in Word /\ a \in Int /\ 13 \in 0 .. 15
        /\ Field(b, 9) = b * 2^9 /\ Field(b, 9) \in Word /\ Field(b, 9) < 2^13
    BY <1>2, FieldFits, 2^8 = 256
  <2>5. BitOr(a * 2^13, Field(b, 9)) = a * 2^13 + Field(b, 9)
    BY <2>4, OrSideBySide, Zenon
  <2> QED
    BY <2>3, <2>4, <2>5
<1>3. ASSUME a \in 0 .. 15, b \in 0 .. 255
      PROVE  Pack(<<"RS", "IMM8">>, args, stale) = a * 2^12 + b * 2^4
  <2>1. 4 = 16 - ArgSize["RS"] - ArgSize["IMM8"]
    BY DEF ArgSize
  <2>2. Pack(<<"RS">>, args, stale) = a * 2^12
    BY <1>3, OnePacked
  <2>3. Pack(<<"RS", "IMM8">>, args, stale) = BitOr(a * 2^12, Field(b, 4))
    BY <2>1, <2>2, PackTwo
  <2>4. /\ a * 2^12 \in Word /\ a \in Int /\ 12 \in 0 .. 15
        /\ Field(b, 4) = b * 2^4 /\ Field(b, 4) \in Word /\ Field(b, 4) < 2^12
    BY <1>3, FieldFits, 2^8 = 256
  <2>5. BitOr(a * 2^12, Field(b, 4)) = a * 2^12 + Field(b, 4)
    BY <2>4, OrSideBySide, Zenon
  <2> QED
    BY <2>3, <2>4, <2>5
<1>4. ASSUME stale \in Int, b \in 0 .. 7
      PROVE  Pack(<<"Label", "RX">>, args, stale) = (stale % 2^8) * 2^8 + b * 2^5
  <2>1. 5 = 16 - ArgSize["Label"] - ArgSize["RX"]
    BY DEF ArgSize
  <2>2. Pack(<<"Label">>, args, stale) = (stale % 2^8) * 2^8
    BY <1>4, OnePacked
  <2>3. Pack(<<"Label", "RX">>, args, stale) = BitOr((stale % 2^8) * 2^8, Field(b, 5))
    BY <2>1, <2>2, PackTwo
  <2>4. /\ (stale % 2^8) * 2^8 \in Word /\ stale % 2^8 \in Int /\ 8 \in 0 .. 15
        /\ Field(b, 5) = b * 2^5 /\ Field(b, 5) \in Word /\ Field(b, 5) < 2^8
    BY <1>4, FieldFits, 2^8 = 256
  <2>5. BitOr((stale % 2^8) * 2^8, Field(b, 5)) = (stale % 2^8) * 2^8 + Field(b, 5)
    BY <2>4, OrSideBySide, Zenon
  <2> QED
    BY <2>3, <2>4, <2>5
<1> QED
  BY <1>2, <1>3, <1>4

LEMMA LabelAndRegister ==
  ASSUME NEW args, NEW stale \in Int, args[2].value \in 0 .. 7
  PROVE  Pack(<<"Label", "RX">>, args, stale) = (stale % 2^8) * 2^8 + args[2].value * 2^5
<1> DEFINE a == args[1].value
           b == args[2].value
<1>1. b \in 0 .. 7
  OBVIOUS
<1>3. Pack(<<"Label", "RX">>, args, stale) = (stale % 2^8) * 2^8 + b * 2^5
  BY <1>1, TwoPacked
<1> QED
  BY <1>1, <1>3

LEMMA ThreePacked ==
  ASSUME NEW args, NEW stale, NEW a, a = args[1].value, NEW b, b = args[2].value,
         NEW c, c = args[3].value, a \in 0 .. 7, b \in 0 .. 7, c \in 0 .. 7
  PROVE  Pack(<<"RX_REF", "RX", "RX">>, args, stale) = a * 2^13 + b * 2^10 + c * 2^7
<1>1. 7 = 16 - ArgSize["RX_REF"] - ArgSize["RX"] - ArgSize["RX"]
  BY DEF ArgSize
<1> DEFINE two == a * 2^13 + b * 2^10
<1>2. Pack(<<"RX_REF", "RX">>, args, stale) = two
  <2> DEFINE C == "RX_REF"
             D == "RX"
  <2>1. C \in Registers /\ D \in Registers
    BY DEF Registers
  <2> HIDE DEF C, D
  <2>2. Pack(<<C, D>>, args, stale) = two
    BY <2>1, RegistersPacked
  <2> QED
    BY <2>2 DEF C, D
<1>3. two \in Word /\ two = (8 * a + b) * 2^10 /\ 8 * a + b \in Int
  <2>1. two = 8192 * a + 1024 * b
    BY 2^10 = 1024, 2^13 = 8192
  <2>2. a \in Int /\ b \in Int /\ 0 <= a /\ a <= 7 /\ 0 <= b /\ b <= 7
    OBVIOUS
  <2> HIDE DEF two
  <2>3. two \in Int /\ 0 <= two /\ two <= 65535
    BY <2>1, <2>2
  <2>4. two = (8 * a + b) * 2^10
    BY <2>1, <2>2, 2^10 = 1024
  <2> QED
    BY <2>2, <2>3, <2>4, WordIff
<1> HIDE DEF two
<1>4. Pack(<<"RX_REF", "RX", "RX">>, args, stale) = BitOr(two, Field(c, 7))
  BY <1>1, <1>2, PackThree
<1>5. /\ 10 \in 0 .. 15
      /\ Field(c, 7) = c * 2^7 /\ Field(c, 7) \in Word /\ Field(c, 7) < 2^10
  BY FieldFits
<1>6. BitOr(two, Field(c, 7)) = two + Field(c, 7)
  BY <1>3, <1>5, OrSideBySide, Zenon
<1> QED
  BY <1>4, <1>5, <1>6 DEF two

----------------------------------------------------------------------------
(* Operands. *)

(* The operands of a raw operation by its id. *)
LEMMA OperandsById ==
  ASSUME NEW w, NEW id \in 0 .. 25, GetInstructionId(w) = id
  PROVE  /\ id = 0 => Operands(w) = << Token("RS", Bits(w, 8, 4)), Token("IMM", Bits(w, 0, 8)) >>
         /\ id \in {1, 2} =>
               Operands(w) = << Token("IMM", BigDelta(w)), Token("RX", Bits(w, 1, 3)) >>
         /\ id = 3 => Operands(w) = << Token("RX_REF", Bits(w, 9, 3)), Token("RX", Bits(w, 6, 3)),
                                       Token("RX", Bits(w, 3, 3)) >>
         /\ id = 4 => Operands(w) = << Token("IMM", BigDelta(w)) >>
         /\ id = 5 => Operands(w) = << Token("IMM", CallDelta(w)) >>
         /\ id \in {6, 7} => Operands(w) = << Token("RX", FirstRX(w)), Token("IMM", Imm4(w)) >>
         /\ id \in 8 .. 12 \cup 15 .. 17 =>
               Operands(w) = << Token("RX", FirstRX(w)), Token("RX", SecondRX(w)) >>
         /\ id = 13 => Operands(w) = << Token("RX", FirstRX(w)), Token("RX_REF", SecondRX(w)) >>
         /\ id = 14 => Operands(w) = << Token("RX_REF", FirstRX(w)), Token("RX", SecondRX(w)) >>
         /\ id \in {18, 19} => Operands(w) = << Token("RS", OnlyRS(w)) >>
         /\ id \in 20 .. 22 => Operands(w) = << Token("RX", FirstRX(w)) >>
         /\ id \in 23 .. 25 => Operands(w) = << >>
<1>1. id = 0 => Operands(w) = << Token("RS", Bits(w, 8, 4)), Token("IMM", Bits(w, 0, 8)) >>
  BY DEF Operands
<1>2. id \in {1, 2} => Operands(w) = << Token("IMM", BigDelta(w)), Token("RX", Bits(w, 1, 3)) >>
  BY DEF Operands
<1>3. id = 3 => Operands(w) = << Token("RX_REF", Bits(w, 9, 3)), Token("RX", Bits(w, 6, 3)),
                                 Token("RX", Bits(w, 3, 3)) >>
  BY DEF Operands
<1>4. id = 4 => Operands(w) = << Token("IMM", BigDelta(w)) >>
  BY DEF Operands
<1>5. id = 5 => Operands(w) = << Token("IMM", CallDelta(w)) >>
  BY DEF Operands
<1>6. id \in {6, 7} => Operands(w) = << Token("RX", FirstRX(w)), Token("IMM", Imm4(w)) >>
  BY DEF Operands
<1>7. id \in 8 .. 12 \cup 15 .. 17 =>
         Operands(w) = << Token("RX", FirstRX(w)), Token("RX", SecondRX(w)) >>
  BY DEF Operands
<1>8. id = 13 => Operands(w) = << Token("RX", FirstRX(w)), Token("RX_REF", SecondRX(w)) >>
  BY DEF Operands
<1>9. id = 14 => Operands(w) = << Token("RX_REF", FirstRX(w)), Token("RX", SecondRX(w)) >>
  BY DEF Operands
<1>10. id \in {18, 19} => Operands(w) = << Token("RS", OnlyRS(w)) >>
  BY DEF Operands
<1>11. id \in 20 .. 22 => Operands(w) = << Token("RX", FirstRX(w)) >>
  BY DEF Operands
<1>12. id \in 23 .. 25 => Operands(w) = << >>
  BY DEF Operands
<1> QED
  BY <1>1, <1>2, <1>3, <1>4, <1>5, <1>6, <1>7, <1>8, <1>9, <1>10, <1>11, <1>12

----------------------------------------------------------------------------
(* What a line that parses is like. *)

LEMMA NamesWithId ==
  ASSUME NEW name, ParseInstructionId(name) # INVALID_INSTRUCTION_ID
  PROVE  \E id \in 0 .. 25 : name = INSTRUCTION_NAMES[id + 1]
<1>1. INSTRUCTION_CNT - 1 = 25
  BY DEF INSTRUCTION_CNT
<1> QED
  BY <1>1 DEF ParseInstructionId

(* The instructions that take a label are the jumps. *)
LEMMA JumpsUseLabels ==
  ASSUME NEW id \in 0 .. 25, NEW name, name = INSTRUCTION_NAMES[id + 1], name # "mov"
  PROVE  /\ UsesLabel(INSTRUCTION_PARSERS[name]) <=> name \in JUMPS
         /\ name \in JUMPS => /\ 1 \in DOMAIN INSTRUCTION_PARSERS[name]
                              /\ INSTRUCTION_PARSERS[name][1] = "Label"
<1> DEFINE cs == INSTRUCTION_PARSERS[name]
<1>1. name \in {"jne", "je", "jmp", "call", "shr", "shl", "xor", "sub", "or", "mul", "div",
                "and", "add", "out", "in", "push", "pop", "not", "ret", "reset", "nop",
                "cmpxchg"}
  BY NameTable
<1> DEFINE Table == {<<"IMM8">>, <<"RX", "IMM4">>, <<"RX", "RX">>, <<"RS">>, <<"RX">>, << >>,
                     <<"RX_REF", "RX", "RX">>}
<1>2. name \notin JUMPS => cs \in Table
  BY <1>1, ParserTable DEF JUMPS
<1>3. name \in JUMPS => cs \in {<<"Label">>, <<"Label", "RX">>}
  BY ParserTable DEF JUMPS
<1> HIDE DEF cs
<1>4. ASSUME cs \in Table PROVE ~UsesLabel(cs)
  BY <1>4 DEF UsesLabel
<1>5. ASSUME cs \in {<<"Label">>, <<"Label", "RX">>}
      PROVE  UsesLabel(cs) /\ 1 \in DOMAIN cs /\ cs[1] = "Label"
  BY <1>5 DEF UsesLabel
<1> QED
  BY <1>2, <1>3, <1>4, <1>5 DEF cs

(* A token there is not: it parses as nothing. *)
LEMMA NothingParses == \A c : ~ParsesAs(c, NoLabel)
  BY DEF ParsesAs, ParseUInt, NoLabel

LEMMA OpcodeType == \A raw, id : WithOpcode(raw, id) \in Word
  BY FromOnesType DEF WithOpcode, BitOr

(* The kinds of tokens that parse as a label. *)
IsLabelToken(token) == token.kind \in {"Label", "fullLabel", "RX", "RS"}

LEMMA ParsedLine ==
  ASSUME NEW l \in Lines, NEW stale, NEW p, p = ParseLine(l, stale)
  PROVE  /\ p.status \in {"rejected", "crashed", "parsed"}
         /\ p.RawInstruction \in Word
         /\ p.status = "parsed" =>
               /\ ~BadLabels(l.declares)
               /\ \E id \in 0 .. 25 : l.name = INSTRUCTION_NAMES[id + 1]
               /\ p.LineLabel = ReadToken(l.declares, Len(l.declares))
               /\ p.InnerLabel = IF l.name \in JUMPS THEN l.args[1] ELSE NoLabel
               /\ l.name \in JUMPS => 1 \in DOMAIN l.args /\ IsLabelToken(l.args[1])
<1> DEFINE label == ReadToken(l.declares, Len(l.declares))
           IsParsed(q) == /\ q.status = "parsed"
                          /\ q.RawInstruction \in Word
                          /\ ~BadLabels(l.declares)
                          /\ \E id \in 0 .. 25 : l.name = INSTRUCTION_NAMES[id + 1]
                          /\ q.LineLabel = label
                          /\ q.InnerLabel = IF l.name \in JUMPS THEN l.args[1] ELSE NoLabel
                          /\ l.name \in JUMPS => 1 \in DOMAIN l.args /\ IsLabelToken(l.args[1])
<1>1. 0 \in Word
  BY WordIff
<1>2. /\ Rejected.status = "rejected" /\ Rejected.RawInstruction \in Word
      /\ Crashed.status = "crashed" /\ Crashed.RawInstruction \in Word
  BY <1>1 DEF Crashed, Rejected
<1>3. CASE BadLabels(l.declares) \/ l.name = ""
           \/ ParseInstructionId(l.name) = INVALID_INSTRUCTION_ID
  BY <1>2, <1>3 DEF ParseLine
<1>4. CASE /\ ~BadLabels(l.declares) /\ l.name # ""
           /\ ParseInstructionId(l.name) # INVALID_INSTRUCTION_ID
  <2>1. PICK id \in 0 .. 25 : l.name = INSTRUCTION_NAMES[id + 1]
    BY <1>4, NamesWithId
  <2>2. CASE l.name = "mov"
    <3>1. p = ParseMov(label, l.args)
      BY <1>4, <2>2 DEF ParseLine
    <3>2. p \in {Rejected, Crashed} \/ \E raw \in Word : p = Parsed(label, NoLabel, raw)
      BY <3>1, OpcodeType, Zenon DEF ParseMov
    <3>3. l.name \notin JUMPS
      BY <2>2 DEF JUMPS
    <3>4. ASSUME NEW raw \in Word, p = Parsed(label, NoLabel, raw) PROVE IsParsed(p)
      <4>1. /\ p.status = "parsed" /\ p.RawInstruction = raw
            /\ p.LineLabel = label /\ p.InnerLabel = NoLabel
        BY <3>4 DEF Parsed
      <4> HIDE DEF label
      <4> QED
        BY <1>4, <2>1, <3>3, <4>1, Zenon
    <3>5. p \in {Rejected, Crashed} \/ IsParsed(p)
      BY <3>2, <3>4
    <3> QED
      BY <3>5, <1>2
  <2>3. CASE l.name # "mov"
    <3> DEFINE cs == INSTRUCTION_PARSERS[l.name]
               inner == IF UsesLabel(cs) THEN l.args[1] ELSE NoLabel
    <3>1. p = ParseOther(label, l.name, l.args, stale)
      BY <1>4, <2>3 DEF ParseLine
    <3>2. \/ p \in {Rejected, Crashed}
          \/ Unparsed(cs, l.args) = {} /\ \E raw \in Word : p = Parsed(label, inner, raw)
      BY <3>1, OpcodeType, Zenon DEF ParseOther
    <3>3. UsesLabel(cs) <=> l.name \in JUMPS
      BY <2>1, <2>3, JumpsUseLabels
    <3>4. ASSUME Unparsed(cs, l.args) = {}, l.name \in JUMPS
          PROVE  1 \in DOMAIN l.args /\ IsLabelToken(l.args[1])
      <4>1. 1 \in DOMAIN cs /\ cs[1] = "Label"
        BY <2>1, <2>3, <3>4, JumpsUseLabels
      <4>2. ParsesAs("Label", ReadToken(l.args, 1))
        BY <3>4, <4>1 DEF Unparsed
      <4>3. 1 \in DOMAIN l.args
        BY <4>2, NothingParses DEF ReadToken
      <4> QED
        BY <4>2, <4>3 DEF ReadToken, ParsesAs, IsLabelToken
    <3>5. ASSUME NEW raw \in Word, Unparsed(cs, l.args) = {}, p = Parsed(label, inner, raw)
          PROVE  IsParsed(p)
      <4>1. /\ p.status = "parsed" /\ p.RawInstruction = raw
            /\ p.LineLabel = label /\ p.InnerLabel = inner
        BY <3>5 DEF Parsed
      <4>2. inner = IF l.name \in JUMPS THEN l.args[1] ELSE NoLabel
        BY <3>3
      <4>3. l.name \in JUMPS => 1 \in DOMAIN l.args /\ IsLabelToken(l.args[1])
        BY <3>4, <3>5
      <4> HIDE DEF cs, label, inner
      <4> QED
        BY <1>4, <2>1, <4>1, <4>2, <4>3, Zenon
    <3>6. p \in {Rejected, Crashed} \/ IsParsed(p)
      BY <3>2, <3>5
    <3> QED
      BY <3>6, <1>2
  <2> QED
    BY <2>2, <2>3
<1> QED
  BY <1>3, <1>4
======================================================================
