------------------------ MODULE ToolchainProofs -----------------------
(***************************************************************************)
(* What the number parser returns for every string, and what the two       *)
(* programs keep together for every session: nothing is run unless the     *)
(* sources assemble and the arguments are what they should be.             *)
(***************************************************************************)
EXTENDS Toolchain, WellFoundedInduction, TLAPS

----------------------------------------------------------------------------
(* Numbers (parse_number.c).  Both the loop and the value of a string are  *)
(* defined by recursion over its characters.                               *)

(* Induction up to n, over the set of numbers a fact holds of. *)
LEMMA UpTo ==
  ASSUME NEW n \in Nat, NEW S, 0 \in S,
         \A k \in 1 .. n : k - 1 \in S => k \in S
  PROVE  \A k \in 0 .. n : k \in S
<1> SUFFICES ASSUME NEW j \in 0 .. n, j \notin S PROVE FALSE
  OBVIOUS
<1> DEFINE T == {k \in 0 .. n : k \notin S}
<1>1. T \in SUBSET Nat /\ j \in T
  OBVIOUS
<1>2. PICK m \in T : \A k \in T : ~(<<k, m>> \in OpToRel(<, Nat))
  BY <1>1, WFMin, NatLessThanWellFounded, Zenon
<1>3. \A k \in T : ~(k < m)
  BY <1>1, <1>2 DEF OpToRel
<1>4. m \in 1 .. n /\ m - 1 \in 0 .. n /\ m \notin S /\ m - 1 < m
  OBVIOUS
<1> QED
  BY <1>3, <1>4

(* A function defined by recursion over 0 .. n is there. *)
LEMMA Iterates ==
  ASSUME NEW n \in Nat, NEW step \in [1 .. n -> [Int -> Int]]
  PROVE  \E f \in [0 .. n -> Int] :
            f[0] = 0 /\ \A k \in 1 .. n : f[k] = step[k][f[k - 1]]
<1> DEFINE Is(f, m) == /\ f \in [0 .. m -> Int] /\ f[0] = 0
                       /\ \A k \in 1 .. m : f[k] = step[k][f[k - 1]]
           S == {m \in 0 .. n : \E f : Is(f, m)}
<1>1. 0 \in S
  <2> DEFINE zero == [k \in 0 .. 0 |-> 0]
  <2>1. Is(zero, 0)
    OBVIOUS
  <2> HIDE DEF Is, zero
  <2>2. \E f : Is(f, 0)
    BY <2>1
  <2> QED
    BY <2>2
<1>2. ASSUME NEW m \in 1 .. n, m - 1 \in S PROVE m \in S
  <2>1. PICK f : Is(f, m - 1)
    BY <1>2
  <2> DEFINE last == step[m][f[m - 1]]
             g == [k \in 0 .. m |-> IF k = m THEN last ELSE f[k]]
  <2>2. last \in Int
    <3>1. f[m - 1] \in Int
      BY <2>1
    <3>2. step[m] \in [Int -> Int]
      OBVIOUS
    <3> QED
      BY <3>1, <3>2
  <2>3. g[m] = last /\ \A k \in 0 .. m - 1 : g[k] = f[k]
    OBVIOUS
  <2>4. g \in [0 .. m -> Int] /\ g[0] = 0
    <3>1. \A k \in 0 .. m : k # m => f[k] \in Int
      BY <2>1
    <3>2. g[0] = 0
      BY <2>1, <2>3
    <3> HIDE DEF last
    <3>3. g \in [0 .. m -> Int]
      BY <2>2, <3>1
    <3> QED
      BY <3>2, <3>3
  <2> HIDE DEF g
  <2>5. ASSUME NEW k \in 1 .. m PROVE g[k] = step[k][g[k - 1]]
    <3>1. g[k - 1] = f[k - 1]
      BY <2>3
    <3>2. CASE k = m
      BY <2>3, <3>1, <3>2
    <3>3. CASE k # m
      <4>1. k \in 1 .. m - 1 /\ g[k] = f[k]
        BY <2>3, <3>3
      <4> QED
        BY <2>1, <3>1, <4>1
    <3> QED
      BY <3>2, <3>3
  <2>6. Is(g, m)
    BY <2>4, <2>5
  <2> HIDE DEF Is
  <2>7. \E h : Is(h, m)
    BY <2>6
  <2> QED
    BY <2>7
<1>3. n \in S
  <2> HIDE DEF S
  <2>1. \A k \in 0 .. n : k \in S
    BY <1>1, <1>2, UpTo
  <2> QED
    BY <2>1
<1>4. PICK f : Is(f, n)
  BY <1>3
<1> QED
  BY <1>4

LEMMA ValueIs ==
  ASSUME NEW string \in Seq(Int)
  PROVE  \E v : /\ Value(string) = v[Len(string)]
                /\ v[0] = 0
                /\ \A k \in 1 .. Len(string) : v[k] = 10 * v[k - 1] + string[k]
<1> DEFINE n == Len(string)
           F(f) == [k \in 0 .. n |-> IF k = 0 THEN 0 ELSE 10 * f[k - 1] + string[k]]
           v == CHOOSE f : f = F(f)
<1>1. Value(string) = v[n]
  BY Zenon DEF Value
<1>2. n \in Nat /\ \A k \in 1 .. n : string[k] \in Int
  OBVIOUS
<1>3. PICK f \in [0 .. n -> Int] :
         f[0] = 0 /\ \A k \in 1 .. n : f[k] = 10 * f[k - 1] + string[k]
  <2> DEFINE step == [k \in 1 .. n |-> [x \in Int |-> 10 * x + string[k]]]
  <2> HIDE DEF n
  <2>1. step \in [1 .. n -> [Int -> Int]]
    BY <1>2
  <2>2. PICK f \in [0 .. n -> Int] :
           f[0] = 0 /\ \A k \in 1 .. n : f[k] = step[k][f[k - 1]]
    <3> HIDE DEF step
    <3> QED
      BY <1>2, <2>1, Iterates
  <2>3. ASSUME NEW k \in 1 .. n PROVE f[k - 1] \in Int
    BY <1>2
  <2> QED
    BY <2>2, <2>3
<1> HIDE DEF n
<1>4. f = F(f)
  <2>1. \A k \in 0 .. n : k # 0 => k \in 1 .. n
    BY <1>2
  <2> QED
    BY <1>3, <2>1
<1>5. v = F(v)
  <2> HIDE DEF F
  <2> QED
    BY <1>4, Zenon
<1> HIDE DEF v
<1>6. v[0] = 0
  BY <1>2, <1>5
<1>7. \A k \in 1 .. n : v[k] = 10 * v[k - 1] + string[k]
  BY <1>2, <1>5
<1> QED
  BY <1>1, <1>6, <1>7 DEF n

(* c[k] is what the loop of ParseNumber has after k characters.            *)
LEMMA ParseNumberLoop ==
  ASSUME NEW string \in Seq(Int), string # << >>, NEW upper \in Nat
  PROVE  \E c : /\ ParseNumber(string, upper) = c[Len(string)]
                /\ c[0] = 0
                /\ \A k \in 1 .. Len(string) :
                      /\ c[k - 1] = NotANumber => c[k] = NotANumber
                      /\ string[k] \notin Digit => c[k] = NotANumber
                      /\ c[k - 1] # NotANumber /\ string[k] \in Digit =>
                           LET next == 10 * c[k - 1] + string[k]
                           IN  c[k] = IF next <= upper THEN next ELSE NotANumber
<1> DEFINE n == Len(string)
           After(x, d) ==
              IF x = NotANumber \/ d \notin Digit THEN NotANumber
              ELSE LET next == 10 * x + d
                   IN  IF InRange(next, upper) THEN next ELSE NotANumber
           F(f) == [k \in 0 .. n |-> IF k = 0 THEN 0 ELSE After(f[k - 1], string[k])]
           c == CHOOSE f : f = F(f)
<1>1. ParseNumber(string, upper) = c[n]
  BY Zenon DEF ParseNumber
<1>2. n \in Nat /\ \A k \in 1 .. n : string[k] \in Int
  OBVIOUS
<1>3. \A x \in Int, d \in Int : After(x, d) \in Int
  BY DEF NotANumber
<1> HIDE DEF n
<1>4. PICK f \in [0 .. n -> Int] :
         f[0] = 0 /\ \A k \in 1 .. n : f[k] = After(f[k - 1], string[k])
  <2> DEFINE step == [k \in 1 .. n |-> [x \in Int |-> After(x, string[k])]]
  <2> HIDE DEF After
  <2>1. step \in [1 .. n -> [Int -> Int]]
    BY <1>2, <1>3
  <2>2. PICK f \in [0 .. n -> Int] :
           f[0] = 0 /\ \A k \in 1 .. n : f[k] = step[k][f[k - 1]]
    <3> HIDE DEF step
    <3> QED
      BY <1>2, <2>1, Iterates
  <2>3. ASSUME NEW k \in 1 .. n PROVE f[k - 1] \in Int
    BY <1>2
  <2> QED
    BY <2>2, <2>3
<1> HIDE DEF After
<1>5. f = F(f)
  <2>1. \A k \in 0 .. n : k # 0 => k \in 1 .. n
    BY <1>2
  <2> QED
    BY <1>4, <2>1
<1>6. c = F(c)
  <2> HIDE DEF F
  <2> QED
    BY <1>5, Zenon
<1> HIDE DEF c
<1>7. c[0] = 0
  BY <1>2, <1>6
<1>8. \A k \in 1 .. n : c[k] = After(c[k - 1], string[k])
  BY <1>2, <1>6
<1>9. ASSUME NEW k \in 1 .. n
      PROVE  /\ c[k - 1] = NotANumber => c[k] = NotANumber
             /\ string[k] \notin Digit => c[k] = NotANumber
             /\ c[k - 1] # NotANumber /\ string[k] \in Digit =>
                  LET next == 10 * c[k - 1] + string[k]
                  IN  c[k] = IF next <= upper THEN next ELSE NotANumber
  BY <1>8, Zenon DEF After, InRange
<1> QED
  BY <1>1, <1>7, <1>9 DEF n

(* ParseNumber gives the value of a string of digits that is in range, and *)
(* NotANumber for every other string.                                      *)
THEOREM ParseNumberIs ==
  ASSUME NEW string \in Seq(Int), NEW upper \in Nat
  PROVE  /\ ParseNumber(string, upper) =
               IF IsNumber(string, upper) THEN Value(string) ELSE NotANumber
         /\ IsNumber(string, upper) => Value(string) \in 0 .. upper
<1>1. CASE string = << >>
  BY <1>1 DEF ParseNumber, IsNumber
<1>2. CASE string # << >>
  <2> DEFINE n == Len(string)
  <2>1. n \in Nat /\ \A k \in 1 .. n : string[k] \in Int
    OBVIOUS
  <2>2. PICK c : /\ ParseNumber(string, upper) = c[n]
                 /\ c[0] = 0
                 /\ \A k \in 1 .. n :
                      /\ c[k - 1] = NotANumber => c[k] = NotANumber
                      /\ string[k] \notin Digit => c[k] = NotANumber
                      /\ c[k - 1] # NotANumber /\ string[k] \in Digit =>
                           LET next == 10 * c[k - 1] + string[k]
                           IN  c[k] = IF next <= upper THEN next ELSE NotANumber
    BY <1>2, ParseNumberLoop
  <2>3. PICK v : /\ Value(string) = v[n]
                 /\ v[0] = 0
                 /\ \A k \in 1 .. n : v[k] = 10 * v[k - 1] + string[k]
    BY ValueIs
  <2> HIDE DEF n
  <2> DEFINE Digits(k) == \A j \in 1 .. k : string[j] \in Digit
             Good(k) == /\ v[k] \in Nat
                        /\ v[k] <= upper => c[k] = v[k]
                        /\ v[k] > upper => c[k] = NotANumber
             S == {k \in 0 .. n : IF Digits(k) THEN Good(k) ELSE c[k] = NotANumber}
  <2>4. 0 \in S
    BY <2>1, <2>2, <2>3
  <2>5. ASSUME NEW k \in 1 .. n, k - 1 \in S PROVE k \in S
    <3>1. CASE ~Digits(k - 1)
      <4>1. ~Digits(k) /\ c[k - 1] = NotANumber
        BY <2>5, <3>1
      <4> QED
        BY <2>2, <4>1
    <3>2. CASE Digits(k - 1) /\ string[k] \notin Digit
      <4>1. ~Digits(k) /\ c[k] = NotANumber
        BY <2>2, <3>2
      <4> QED
        BY <4>1
    <3>3. CASE Digits(k - 1) /\ string[k] \in Digit
      <4>1. Digits(k)
        <5>1. \A j \in 1 .. k : j = k \/ j \in 1 .. k - 1
          OBVIOUS
        <5> QED
          BY <3>3, <5>1
      <4>2. Good(k - 1)
        BY <2>5, <3>3
      <4>3. string[k] \in Nat /\ v[k] = 10 * v[k - 1] + string[k]
        BY <2>3, <3>3 DEF Digit
      <4>4. v[k] \in Nat /\ v[k - 1] <= v[k]
        BY <4>2, <4>3
      <4>5. CASE v[k - 1] > upper
        <5>1. c[k] = NotANumber /\ v[k] > upper
          BY <2>2, <4>2, <4>4, <4>5
        <5> QED
          BY <4>1, <4>4, <5>1
      <4>6. CASE v[k - 1] <= upper
        <5>1. c[k - 1] # NotANumber /\ c[k - 1] = v[k - 1]
          BY <4>2, <4>6 DEF NotANumber
        <5>2. c[k] = IF v[k] <= upper THEN v[k] ELSE NotANumber
          BY <2>2, <3>3, <4>3, <5>1
        <5>3. Good(k)
          BY <4>4, <5>2
        <5> QED
          BY <4>1, <5>3
      <4> QED
        BY <4>2, <4>5, <4>6
    <3> QED
      BY <3>1, <3>2, <3>3
  <2>6. n \in S
    <3> HIDE DEF S
    <3>1. \A k \in 0 .. n : k \in S
      BY <2>1, <2>4, <2>5, UpTo
    <3> QED
      BY <2>1, <3>1
  <2>7. CASE Digits(n) /\ v[n] <= upper
    <3>1. IsNumber(string, upper)
      BY <1>2, <2>3, <2>7 DEF IsNumber, n
    <3> QED
      BY <2>2, <2>3, <2>6, <2>7, <3>1
  <2>8. CASE ~(Digits(n) /\ v[n] <= upper)
    <3>1. ~IsNumber(string, upper)
      BY <2>3, <2>8 DEF IsNumber, n
    <3>2. c[n] = NotANumber
      BY <2>1, <2>6, <2>8
    <3> QED
      BY <2>2, <3>1, <3>2
  <2> QED
    BY <2>7, <2>8
<1> QED
  BY <1>1, <1>2

----------------------------------------------------------------------------
(* The theorems on the two programs hold of the sessions: what is assumed  *)
(* of their constants follows from what is assumed of the session's.       *)

LEMMA SourceType ==
  ASSUME NEW s \in Sessions, NEW k \in DOMAIN s.sources
  PROVE  s.sources[k] \in Seq(Asm!Lines) /\ Len(s.sources[k]) \in Nat
<1>1. s.sources \in Seq(Seq(Asm!Lines))
  BY SessionsAssumption
<1>2. s.sources[k] \in Seq(Asm!Lines)
  BY <1>1
<1> QED
  BY <1>2

LEMMA AsmAssumptions ==
  /\ AllSources \subseteq Seq(Asm!Lines)
  /\ {0} \subseteq Asm!Word
<1>1. AllSources \subseteq Seq(Asm!Lines)
  BY SourceType DEF AllSources
<1>2. {0} \subseteq Asm!Word
  BY 2^16 = 65536 DEF Asm!Word
<1> QED
  BY <1>1, <1>2

LEMMA VmAssumptions ==
  /\ AllInputs \subseteq Seq(Vm!Byte)
  /\ \A c \in CommandLines :
        /\ c.iterationsPerProcess \in 0 .. UINT32_MAX
        /\ c.files \in [0 .. SubprocessCnt - 1 -> Vm!CodeFiles]
<1>1. AllInputs \subseteq Seq(Vm!Byte)
  BY SessionsAssumption DEF AllInputs
<1>2. ASSUME NEW c \in CommandLines
      PROVE  /\ c.iterationsPerProcess \in 0 .. UINT32_MAX
             /\ c.files \in [0 .. SubprocessCnt - 1 -> Vm!CodeFiles]
  BY DEF Vm!CodeFiles, Vm!Word, Id, CommandLines
<1> QED
  BY <1>1, <1>2

AsmOK == Asm!TypeOK /\ Asm!Progress /\ Asm!WindowInv /\ Asm!FailInv

LEMMA AsmInit == Asm!Init => AsmOK
<1> SUFFICES ASSUME Asm!Init PROVE AsmOK
  OBVIOUS
<1>1. Asm!TypeOK /\ Asm!Progress
  BY AsmAssumptions, MAX_JUMPAssumption, Asm!TypeInit
<1>2. Asm!WindowInv /\ Asm!FailInv
  BY <1>1, AsmAssumptions, MAX_JUMPAssumption, Asm!WindowInit
<1> QED
  BY <1>1, <1>2 DEF AsmOK

LEMMA AsmStep == AsmOK /\ [Asm!Next]_(Asm!vars) => AsmOK' /\ source' = source
<1> SUFFICES ASSUME AsmOK, [Asm!Next]_(Asm!vars) PROVE AsmOK' /\ source' = source
  OBVIOUS
<1>1. Asm!TypeOK' /\ Asm!Progress'
  BY AsmAssumptions, MAX_JUMPAssumption, Asm!TypeStep DEF AsmOK
<1>2. Asm!WindowInv' /\ Asm!FailInv'
  BY AsmAssumptions, MAX_JUMPAssumption, Asm!WindowStep DEF AsmOK
<1>3. source' = source
  BY AsmAssumptions, MAX_JUMPAssumption, Asm!SourceStays
<1> QED
  BY <1>1, <1>2, <1>3 DEF AsmOK

LEMMA VmInit == Vm!Init => Vm!EInv
  BY VmAssumptions, SubprocessCntAssumption, UINT32_MAXAssumption,
     QuantaAssumption, NULLAssumption, Vm!InitEInv

LEMMA VmStep == Vm!EInv /\ [Vm!Next]_(Vm!vars) => Vm!EInv'
  BY VmAssumptions, SubprocessCntAssumption, UINT32_MAXAssumption,
     QuantaAssumption, NULLAssumption, Vm!NextEInv

----------------------------------------------------------------------------
(* The invariant. *)

(* Where asm is.  While it works on a source, the files before it are      *)
(* written and the vm has not been started.                                *)
AsmInv ==
    asmPc # "off" =>
        /\ AsmOK
        /\ source = session.sources[Len(codeFiles) + 1]
        /\ Len(codeFiles) < Len(session.sources)
        /\ vmPc = "off"

(* A code file holds as many words as its source has lines, none of them 0. *)
FileOf(words, lines) ==
    /\ words \in Seq(Asm!Word)
    /\ Len(words) = Len(lines)
    /\ \A k \in 1 .. Len(lines) : words[k] # 0

FilesInv ==
    /\ session \in Sessions
    /\ codeFiles \in Seq(Seq(Asm!Word))
    /\ Len(codeFiles) <= Len(session.sources)
    /\ asmPc = "off" => Len(codeFiles) = Len(session.sources)
    /\ \A k \in 1 .. Len(codeFiles) : /\ FileOf(codeFiles[k], session.sources[k])
                                      /\ Assembles(session.sources[k])

(* The vm as it is before it is started. *)
Untouched ==
    /\ TicksPerProcessIteration \in Quanta
    /\ loadId = 0 /\ loaded = 0 /\ vmI = 0
    /\ Memory = [w \in {} |-> 0]
    /\ Subprocesses = [p \in Id |-> NULL]
    /\ CurrentSubprocessId = 0
    /\ InstructionSet_ExitCode = 0
    /\ Stdin = session.input /\ Stdout = << >>

(* What main of the vm has found out about its arguments, and what it made *)
(* of them.                                                                *)
ArgumentsInv ==
    /\ Len(session.args) = 1 + 2 * SubprocessCnt
    /\ IsNumber(session.args[1], UINT32_MAX)
    /\ \A p \in Id : Opens(p) => /\ argv.files[p].words = codeFiles[CodeFile(p)]
                                 /\ argv.files[p].offset = Offset(session, p)

Named(p) ==
    /\ Opens(p)
    /\ Offset(session, p) % 2 = 0

(* What loading has found out about the images. *)
LoadInv ==
    /\ \A p \in Id : p < loadId =>
          /\ Named(p)
          /\ Base(session, p) + Len(Image(session, p)) <= Vm!MEMORY_SIZE
    /\ \A p, q \in Id : p < q /\ q < loadId =>
          Apart(session, p, q, Len(Image(session, q)))
    /\ vmPc = "read" =>
          /\ Named(loadId)
          /\ Base(session, loadId) + loaded <= Vm!MEMORY_SIZE
          /\ \A p \in Id : p < loadId => Apart(session, p, loadId, loaded)

VmInv ==
    /\ vmPc = "off" => Untouched
    /\ vmPc \notin {"off", "failed"} =>
          /\ asmPc = "off"
          /\ Vm!EInv
          /\ ArgumentsInv /\ LoadInv
          /\ vmPc = "done" => loadId = SubprocessCnt

TInv == AsmInv /\ FilesInv /\ VmInv

----------------------------------------------------------------------------
(* Sources and arguments. *)

LEMMA CntType == SubprocessCnt \in Nat /\ 0 < SubprocessCnt
  BY SubprocessCntAssumption, 2^16 = 65536

LEMMA SourceOf ==
  ASSUME FilesInv, NEW k \in DOMAIN session.sources
  PROVE  /\ session.sources[k] \in AllSources
         /\ Len(session.sources[k]) \in Nat
  BY SourceType DEF FilesInv, AllSources

LEMMA SourceCount ==
  ASSUME NEW s \in Sessions
  PROVE  /\ Len(s.sources) \in Nat /\ Len(s.sources) > 0
         /\ DOMAIN s.sources = 1 .. Len(s.sources)
<1> DEFINE T == Seq(Asm!Lines)
<1> HIDE DEF T
<1>1. s.sources \in Seq(T) /\ s.sources # << >>
  BY SessionsAssumption DEF T
<1> QED
  BY <1>1

(* A string among the arguments is a number, or it is not. *)
LEMMA ArgumentType ==
  ASSUME FilesInv, NEW k \in 1 .. Len(session.args), k % 2 = 1
  PROVE  session.args[k] \in Seq(Int)
  BY SessionsAssumption DEF FilesInv

LEMMA AcceptsFacts ==
  ASSUME FilesInv, Accepts
  PROVE  /\ Len(session.args) = 1 + 2 * SubprocessCnt
         /\ IsNumber(session.args[1], UINT32_MAX)
         /\ iterationsPerProcess \in 0 .. UINT32_MAX
<1> DEFINE n == Len(session.args)
<1>1. n \in Nat /\ (n % 2 = 1 => (n - 1) \div 2 \in {0, SubprocessCnt})
  BY SessionsAssumption DEF FilesInv
<1>2. (n + 1) % 2 # 1 /\ subprocessCnt # 0
  BY DEF Accepts, WrongCount, argc
<1> HIDE DEF n
<1>3. n % 2 = 1
  BY <1>1, <1>2
<1>4. (n - 1) \div 2 # 0
  <2>1. n + 1 >= 2 /\ (n + 1) - 2 = n - 1
    BY <1>1, <1>3
  <2> QED
    BY <1>2, <2>1 DEF subprocessCnt, argc, n
<1>5. n = 1 + 2 * SubprocessCnt
  BY <1>1, <1>3, <1>4, CntType
<1>6. session.args[1] \in Seq(Int)
  <2>1. 1 \in 1 .. Len(session.args) /\ 1 % 2 = 1
    BY <1>5, CntType DEF n
  <2> QED
    BY <2>1, ArgumentType
<1>7. iterationsPerProcess # NotANumber
  BY DEF Accepts
<1>8. UINT32_MAX \in Nat
  BY UINT32_MAXAssumption
<1> QED
  BY <1>5, <1>6, <1>7, <1>8, ParseNumberIs DEF iterationsPerProcess, n

LEMMA StringOf ==
  ASSUME FilesInv, Len(session.args) = 1 + 2 * SubprocessCnt, NEW p \in Id
  PROVE  session.args[3 + 2 * p] \in Seq(Int)
<1>1. 3 + 2 * p \in 1 .. 1 + 2 * SubprocessCnt /\ (3 + 2 * p) % 2 = 1
  BY CntType DEF Id
<1> QED
  BY <1>1, ArgumentType

LEMMA OpensFacts ==
  ASSUME FilesInv, asmPc = "off", Len(session.args) = 1 + 2 * SubprocessCnt,
         NEW p \in Id, Opens(p)
  PROVE  /\ IsNumber(session.args[3 + 2 * p], 2^16 - 1)
         /\ CodeOffset(p) = Offset(session, p)
         /\ Offset(session, p) \in 0 .. 2^16 - 1
         /\ CodeFile(p) \in DOMAIN session.sources
         /\ FileOf(codeFiles[CodeFile(p)], Image(session, p))
         /\ Len(Image(session, p)) \in Nat
<1>1. session.args[3 + 2 * p] \in Seq(Int)
  BY StringOf
<1>2. CodeOffset(p) # NotANumber /\ CodeFile(p) \in DOMAIN codeFiles
  BY DEF Opens
<1>3. 2^16 - 1 \in Nat
  BY 2^16 = 65536
<1>4. /\ IsNumber(session.args[3 + 2 * p], 2^16 - 1)
      /\ CodeOffset(p) = Offset(session, p)
      /\ Offset(session, p) \in 0 .. 2^16 - 1
  BY <1>1, <1>2, <1>3, ParseNumberIs DEF CodeOffset, Offset
<1>5. /\ CodeFile(p) \in 1 .. Len(codeFiles)
      /\ DOMAIN session.sources = 1 .. Len(codeFiles)
  BY <1>2, SourceCount DEF FilesInv
<1>6. FileOf(codeFiles[CodeFile(p)], Image(session, p))
  BY <1>5 DEF FilesInv, Image, CodeFile
<1>7. Len(Image(session, p)) \in Nat
  BY <1>5, SourceOf DEF Image, CodeFile
<1> QED
  BY <1>4, <1>5, <1>6, <1>7

----------------------------------------------------------------------------
(* asm: each source. *)

LEMMA InitTInv == Init => TInv
<1> SUFFICES ASSUME Init PROVE TInv
  OBVIOUS
<1>1. session \in Sessions /\ codeFiles = << >> /\ Len(codeFiles) = 0
  BY DEF Init
<1>2. Asm!Init /\ source = session.sources[1] /\ vmPc = "off"
  BY DEF Init
<1>3. AsmOK /\ asmPc # "off"
  BY <1>2, AsmInit DEF Asm!Init
<1>4. AsmInv
  BY <1>1, <1>2, <1>3, SourceCount DEF AsmInv
<1>5. FilesInv
  BY <1>1, <1>3, SourceCount DEF FilesInv
<1>6. VmInv
  BY <1>2 DEF VmInv, Untouched, Init
<1> QED
  BY <1>4, <1>5, <1>6 DEF TInv

LEMMA AssembleStep == TInv /\ Assemble => TInv'
<1> SUFFICES ASSUME TInv, Assemble PROVE TInv'
  OBVIOUS
<1>1. /\ asmPc # "off" /\ Asm!Next /\ UNCHANGED <<session, codeFiles, vm>>
      /\ AsmOK /\ source = session.sources[Len(codeFiles) + 1]
      /\ Len(codeFiles) < Len(session.sources) /\ vmPc = "off"
  BY DEF Assemble, TInv, AsmInv
<1>2. AsmOK' /\ source' = source
  BY <1>1, AsmStep
<1>3. asmPc' # "off"
  BY <1>2 DEF AsmOK, Asm!TypeOK, Asm!Locations, Asm!Failures
<1>4. AsmInv'
  BY <1>1, <1>2 DEF AsmInv, vm
<1>5. FilesInv'
  BY <1>1, <1>3 DEF TInv, FilesInv
<1>6. VmInv'
  BY <1>1 DEF TInv, VmInv, Untouched, vm, executer
<1> QED
  BY <1>4, <1>5, <1>6 DEF TInv

(* A source that assembles is one without mistakes, and its file has a     *)
(* word for each of its lines.                                             *)
LEMMA WrittenFile ==
  ASSUME TInv, asmPc = "done"
  PROVE  FileOf(destination, source) /\ Assembles(source)
<1>1. AsmOK
  BY DEF TInv, AsmInv
<1>2. \A k \in Asm!LineIds : residue[k] = 0
  BY <1>1 DEF AsmOK, Asm!TypeOK
<1>3. /\ Len(destination) = Len(source) /\ Len(source) <= MAX_JUMP
      /\ \A k \in Asm!LineIds : /\ Asm!WellFormed(source[k + 1])
                                /\ Asm!UsesALabel(k) => \E t : Asm!Targets(k) = {t}
                                /\ destination[k + 1] # 0
  BY <1>1, <1>2, AsmAssumptions, MAX_JUMPAssumption, Asm!DoneWrites DEF AsmOK
<1>4. destination \in Seq(Asm!Word) /\ source \in AllSources
  BY <1>1 DEF AsmOK, Asm!TypeOK
<1>5. source \in Seq(Asm!Lines)
  BY <1>4, AsmAssumptions
<1>6. Len(source) \in Nat /\ DOMAIN source = 1 .. Len(source)
  BY <1>5
<1>7. ASSUME NEW k \in 1 .. Len(source)
      PROVE  /\ destination[k] # 0
             /\ Asm!WellFormed(source[k])
             /\ source[k].name \in Asm!JUMPS =>
                   \E t : Declaring(source, source[k].args[1]) = {t}
  <2> DEFINE m == k - 1
  <2>1. m \in Asm!LineIds /\ m + 1 = k /\ m \in Int /\ m >= 0 /\ m < Len(source)
    BY <1>6 DEF Asm!LineIds
  <2> HIDE DEF m
  <2>2. /\ Asm!WellFormed(source[m + 1]) /\ destination[m + 1] # 0
        /\ Asm!UsesALabel(m) => \E t : Asm!Targets(m) = {t}
    BY <1>3, <2>1
  <2>3. ASSUME source[k].name \in Asm!JUMPS
        PROVE  \E t : Declaring(source, source[k].args[1]) = {t}
    <3>1. \E t : Asm!Targets(m) = {t}
      BY <2>1, <2>2, <2>3 DEF Asm!UsesALabel
    <3>2. \A t \in Asm!LineIds : t - m \in -MAX_JUMP .. MAX_JUMP - 1
      BY <1>3, <1>6, <2>1, MAX_JUMPAssumption DEF Asm!LineIds
    <3>3. Asm!Targets(m) = Declaring(source, source[k].args[1])
      BY <2>1, <3>2 DEF Asm!Targets, Asm!UsedLabel, Asm!LineIds, Declaring
    <3> QED
      BY <3>1, <3>3
  <2> QED
    BY <2>1, <2>2, <2>3
<1>8. FileOf(destination, source)
  BY <1>3, <1>4, <1>7 DEF FileOf
<1>9. Assembles(source)
  <2>1. \A label, t : Declaring(source, label) = {t} => t \in Declaring(source, label)
    OBVIOUS
  <2> QED
    BY <1>3, <1>6, <1>7, <2>1 DEF Assembles
<1> QED
  BY <1>8, <1>9

(* The files with one more. *)
LEMMA WrittenStep ==
  ASSUME TInv, Written
  PROVE  /\ Len(codeFiles') = Len(codeFiles) + 1 /\ Len(codeFiles) \in Nat
         /\ Len(codeFiles) < Len(session.sources)
         /\ session' = session /\ UNCHANGED vm /\ vmPc = "off"
         /\ (asmPc' = "off" => Len(codeFiles') = Len(session.sources)) => FilesInv'
<1>1. /\ asmPc = "done" /\ codeFiles' = Append(codeFiles, destination)
      /\ session' = session /\ UNCHANGED vm
  BY DEF Written
<1>2. /\ source = session.sources[Len(codeFiles) + 1]
      /\ Len(codeFiles) < Len(session.sources) /\ vmPc = "off"
  BY <1>1 DEF TInv, AsmInv
<1>3. FileOf(destination, source) /\ Assembles(source)
  BY <1>1, WrittenFile
<1> DEFINE T == Seq(Asm!Word)
<1>4. codeFiles \in Seq(T) /\ destination \in T
  BY <1>3 DEF TInv, FilesInv, FileOf
<1> HIDE DEF T
<1>5. /\ Len(codeFiles) \in Nat /\ codeFiles' \in Seq(T)
      /\ Len(codeFiles') = Len(codeFiles) + 1
      /\ codeFiles'[Len(codeFiles) + 1] = destination
      /\ \A k \in 1 .. Len(codeFiles) : codeFiles'[k] = codeFiles[k]
  BY <1>1, <1>4
<1>6. Len(session.sources) \in Nat
  BY SourceCount DEF TInv, FilesInv
<1>7. ASSUME NEW k \in 1 .. Len(codeFiles')
      PROVE  /\ FileOf(codeFiles'[k], session.sources[k])
             /\ Assembles(session.sources[k])
  <2>1. CASE k = Len(codeFiles) + 1
    BY <1>2, <1>3, <1>5, <2>1
  <2>2. CASE k # Len(codeFiles) + 1
    <3>1. k \in 1 .. Len(codeFiles)
      BY <1>5, <2>2
    <3> QED
      BY <1>5, <3>1 DEF TInv, FilesInv
  <2> QED
    BY <2>1, <2>2
<1>8. Len(codeFiles') <= Len(session.sources)
  BY <1>2, <1>5, <1>6
<1>9. ASSUME asmPc' = "off" => Len(codeFiles') = Len(session.sources)
      PROVE  FilesInv'
  <2>1. session \in Sessions /\ codeFiles' \in Seq(Seq(Asm!Word))
    BY <1>5 DEF TInv, FilesInv, T
  <2> QED
    BY <1>1, <1>7, <1>8, <1>9, <2>1, Zenon DEF FilesInv
<1> QED
  BY <1>1, <1>2, <1>5, <1>9

LEMMA UntouchedStays == VmInv /\ vmPc = "off" /\ session' = session /\ UNCHANGED vm => VmInv'
  BY DEF VmInv, Untouched, vm, executer

LEMMA AsmInitNext == Asm!Init' => AsmOK'
  BY AsmInit, PTL

LEMMA AssembleNextStep == TInv /\ AssembleNext => TInv'
<1> SUFFICES ASSUME TInv, AssembleNext PROVE TInv'
  OBVIOUS
<1>1. Written /\ Len(codeFiles') < Len(session.sources) /\ asmPc' = "reading"
  BY DEF AssembleNext
<1>2. /\ Len(codeFiles') = Len(codeFiles) + 1 /\ Len(codeFiles) \in Nat
      /\ session' = session /\ UNCHANGED vm /\ vmPc = "off" /\ FilesInv'
  BY <1>1, WrittenStep
<1>3. source' = session.sources[Len(codeFiles') + 1]
  BY DEF AssembleNext
<1>4. source' \in AllSources
  <2>1. session \in Sessions
    BY DEF TInv, FilesInv
  <2>2. Len(codeFiles') + 1 \in DOMAIN session.sources
    BY <1>1, <1>2, <2>1, SourceCount
  <2> QED
    BY <1>3, <2>1, <2>2 DEF AllSources
<1>5. Asm!Init'
  <2>1. residue' \in [Asm!LineIds' -> {0}]
    BY DEF AssembleNext, Asm!LineIds
  <2> QED
    BY <1>4, <2>1 DEF AssembleNext, Asm!Init
<1>6. AsmInv'
  BY <1>1, <1>2, <1>3, <1>5, AsmInitNext DEF AsmInv, vm
<1>7. VmInv'
  BY <1>2, UntouchedStays DEF TInv
<1> QED
  BY <1>2, <1>6, <1>7 DEF TInv

LEMMA AssembledAllStep == TInv /\ AssembledAll => TInv'
<1> SUFFICES ASSUME TInv, AssembledAll PROVE TInv'
  OBVIOUS
<1>1. Written /\ Len(codeFiles') = Len(session.sources) /\ asmPc' = "off"
  BY DEF AssembledAll
<1>2. session' = session /\ UNCHANGED vm /\ vmPc = "off" /\ FilesInv'
  BY <1>1, WrittenStep
<1>3. AsmInv' /\ VmInv'
  BY <1>1, <1>2, UntouchedStays DEF AsmInv, TInv
<1> QED
  BY <1>2, <1>3 DEF TInv

----------------------------------------------------------------------------
(* The vm. *)

LEMMA RefuseStep == TInv /\ Refuse => TInv'
<1> SUFFICES ASSUME TInv, Refuse PROVE TInv'
  OBVIOUS
<1>1. asmPc = "off" /\ vmPc' = "failed" /\ UNCHANGED <<session, codeFiles, asmPc>>
  BY DEF Refuse, vmStarts, asm
<1>2. AsmInv' /\ VmInv'
  BY <1>1 DEF AsmInv, VmInv
<1>3. FilesInv'
  BY <1>1 DEF TInv, FilesInv
<1> QED
  BY <1>2, <1>3 DEF TInv

LEMMA VmInitNext == Vm!Init' => Vm!EInv'
  BY VmInit, PTL

LEMMA StartVmStep == TInv /\ StartVm => TInv'
<1> SUFFICES ASSUME TInv, StartVm PROVE TInv'
  OBVIOUS
<1> DEFINE made(p) == [offset |-> IF CodeOffset(p) = NotANumber THEN 0 ELSE CodeOffset(p),
                       words  |-> IF CodeFile(p) \in DOMAIN codeFiles
                                  THEN codeFiles[CodeFile(p)] ELSE << >>,
                       end    |-> "eof"]
<1>1. /\ asmPc = "off" /\ vmPc = "off" /\ vmPc' = "load" /\ Accepts
      /\ argv' = [iterationsPerProcess |-> iterationsPerProcess,
                  files |-> [p \in Id |-> made(p)]]
      /\ UNCHANGED <<session, codeFiles, asmPc, executer>>
  BY DEF StartVm, vmStarts, asm
<1>2. FilesInv /\ Untouched
  BY <1>1 DEF TInv, VmInv
<1>3. /\ Len(session.args) = 1 + 2 * SubprocessCnt
      /\ IsNumber(session.args[1], UINT32_MAX)
      /\ iterationsPerProcess \in 0 .. UINT32_MAX
  BY <1>1, <1>2, AcceptsFacts
<1>4. ASSUME NEW p \in Id
      PROVE  made(p) \in [offset : 0 .. 2^16 - 1, words : Seq(0 .. 2^16 - 1), end : {"eof"}]
  <2> DEFINE W == 0 .. 2^16 - 1
  <2>1. CodeOffset(p) # NotANumber => CodeOffset(p) \in W
    <3>1. session.args[3 + 2 * p] \in Seq(Int)
      BY <1>2, <1>3, StringOf
    <3>2. 2^16 - 1 \in Nat
      BY 2^16 = 65536
    <3> QED
      BY <3>1, <3>2, ParseNumberIs DEF CodeOffset
  <2>2. 0 \in W
    BY 2^16 = 65536
  <2>3. codeFiles \in Seq(Seq(W))
    BY <1>2 DEF FilesInv, Asm!Word
  <2> HIDE DEF W
  <2>4. CodeFile(p) \in DOMAIN codeFiles => codeFiles[CodeFile(p)] \in Seq(W)
    BY <2>3
  <2>5. made(p) \in [offset : W, words : Seq(W), end : {"eof"}]
    BY <2>1, <2>2, <2>4
  <2> QED
    BY <2>5 DEF W
<1> HIDE DEF made
<1>5. argv' \in CommandLines
  BY <1>1, <1>3, <1>4 DEF CommandLines
<1>6. Vm!Init'
  <2>1. session \in Sessions
    BY <1>2 DEF FilesInv
  <2>2. Stdin' \in AllInputs
    BY <1>1, <1>2, <2>1 DEF AllInputs, executer, Untouched
  <2> QED
    BY <1>1, <1>2, <1>5, <2>2 DEF Vm!Init, executer, Untouched, Vm!Id, Id
<1>7. Vm!EInv'
  BY <1>6, VmInitNext
<1>8. ArgumentsInv'
  <2>1. ASSUME NEW p \in Id, Opens(p)
        PROVE  /\ argv'.files[p].words = codeFiles[CodeFile(p)]
               /\ argv'.files[p].offset = Offset(session, p)
    <3>1. argv'.files[p] = made(p)
      BY <1>1
    <3>2. CodeOffset(p) = Offset(session, p)
      BY <1>1, <1>2, <1>3, <2>1, OpensFacts
    <3> QED
      BY <2>1, <3>1, <3>2 DEF made, Opens
  <2>2. \A p : Opens(p)' <=> Opens(p)
    BY <1>1 DEF Opens, CodeOffset, CodeFile
  <2>3. \A p : CodeFile(p)' = CodeFile(p)
    BY <1>1 DEF CodeFile
  <2> QED
    BY <1>1, <1>3, <2>1, <2>2, <2>3 DEF ArgumentsInv
<1>9. LoadInv'
  <2>1. loadId' = 0 /\ \A p \in Id : ~(p < 0)
    BY <1>1, <1>2, CntType DEF Untouched, executer, Id
  <2> QED
    BY <1>1, <2>1 DEF LoadInv
<1>10. VmInv'
  BY <1>1, <1>7, <1>8, <1>9 DEF VmInv
<1>11. AsmInv' /\ FilesInv'
  BY <1>1, <1>2 DEF AsmInv, FilesInv
<1> QED
  BY <1>10, <1>11 DEF TInv

(* While it loads and runs the vm leaves the sources and arguments alone.  *)
LEMMA VmFrame ==
  ASSUME TInv, LoadAndRun
  PROVE  /\ vmPc \notin {"off", "failed"} /\ asmPc = "off"
         /\ session' = session /\ codeFiles' = codeFiles /\ asmPc' = "off"
         /\ argv' = argv
         /\ FilesInv /\ Vm!EInv /\ ArgumentsInv /\ LoadInv
         /\ vmPc' = "done" => vmPc = "find"
<1>1. Vm!Load \/ Vm!Run
  BY DEF LoadAndRun
<1>2. /\ vmPc \in {"load", "read", "find", "slice"} /\ argv' = argv
      /\ vmPc' = "done" => vmPc = "find"
  <2>1. CASE Vm!Load
    BY <2>1 DEF Vm!Load, Vm!OpenFails, Vm!OpenCodeFile, Vm!LoadsPastEnd, Vm!LoadIntersects,
                Vm!LoadWord, Vm!LoadFails, Vm!FinishLoad, Vm!Opening, Vm!WordLeft,
                Vm!FileRead, Vm!Ends, Vm!fixed
  <2>2. CASE Vm!Run
    BY <2>2 DEF Vm!Run, Vm!StartExecution, Vm!Advance, Vm!GiveTurn, Vm!PassOver,
                Vm!AllExited, Vm!LeaveSlice, Vm!CountTick, Vm!ExitsBeforeTick,
                Vm!InstructionRuns, Vm!TakeEffect, Vm!InstructionContinues,
                Vm!InstructionExits, Vm!InstructionAborts, Vm!Ends, Vm!fixed
  <2> QED
    BY <1>1, <2>1, <2>2
<1>3. asmPc = "off" /\ Vm!EInv /\ ArgumentsInv /\ LoadInv
  BY <1>2 DEF TInv, VmInv
<1>4. session' = session /\ codeFiles' = codeFiles /\ asmPc' = "off"
  BY <1>3 DEF LoadAndRun, asm
<1> QED
  BY <1>2, <1>3, <1>4 DEF TInv

LEMMA ArgumentsStay ==
  ASSUME session' = session, codeFiles' = codeFiles, argv' = argv
  PROVE  /\ \A p : Named(p)' <=> Named(p)
         /\ ArgumentsInv => ArgumentsInv'
<1>1. \A p : (Opens(p)' <=> Opens(p)) /\ CodeFile(p)' = CodeFile(p)
  BY DEF Opens, CodeOffset, CodeFile
<1>2. \A p : Named(p)' <=> Named(p)
  BY <1>1 DEF Named
<1>3. ArgumentsInv => ArgumentsInv'
  BY <1>1 DEF ArgumentsInv
<1> QED
  BY <1>2, <1>3

(* The image of an open file is what its source makes it. *)
LEMMA ImageOf ==
  ASSUME FilesInv, ArgumentsInv, asmPc = "off", NEW p \in Id, Opens(p)
  PROVE  /\ Vm!Base(p) = Base(session, p)
         /\ Base(session, p) \in Nat /\ Base(session, p) < Vm!MEMORY_SIZE
         /\ Len(Vm!Words(p)) = Len(Image(session, p))
         /\ Len(Image(session, p)) \in Nat
         /\ \A k \in 1 .. Len(Image(session, p)) : Vm!Words(p)[k] # 0
<1>1. /\ Vm!Words(p) = codeFiles[CodeFile(p)]
      /\ argv.files[p].offset = Offset(session, p)
  BY DEF ArgumentsInv, Vm!Words
<1>2. /\ Offset(session, p) \in 0 .. 2^16 - 1
      /\ FileOf(codeFiles[CodeFile(p)], Image(session, p))
      /\ Len(Image(session, p)) \in Nat
  BY OpensFacts DEF ArgumentsInv
<1>3. Base(session, p) \in Nat /\ Base(session, p) < Vm!MEMORY_SIZE
  <2>1. Offset(session, p) \in Nat /\ Offset(session, p) <= 65535
    BY <1>2, 2^16 = 65536
  <2> QED
    BY <2>1, 2^15 = 32768 DEF Base, Vm!MEMORY_SIZE
<1>4. Vm!Base(p) = Base(session, p)
  BY <1>1 DEF Vm!Base, Base
<1> QED
  BY <1>1, <1>2, <1>3, <1>4 DEF FileOf

(* What LoadInv needs of a step that finds out nothing more. *)
LEMMA NothingLoaded ==
  ASSUME TInv, LoadAndRun, loadId' = loadId, vmPc' # "read"
  PROVE  LoadInv'
<1>1. /\ session' = session /\ codeFiles' = codeFiles /\ argv' = argv /\ LoadInv
  BY VmFrame
<1>2. \A p : Named(p)' <=> Named(p)
  BY <1>1, ArgumentsStay
<1> QED
  BY <1>1, <1>2 DEF LoadInv

LEMMA OpenLoads ==
  ASSUME TInv, LoadAndRun, Vm!OpenCodeFile
  PROVE  LoadInv'
<1>1. /\ session' = session /\ codeFiles' = codeFiles /\ argv' = argv /\ LoadInv
      /\ FilesInv /\ ArgumentsInv /\ asmPc = "off" /\ Vm!EInv
  BY VmFrame
<1>2. \A p : Named(p)' <=> Named(p)
  BY <1>1, ArgumentsStay
<1>3. /\ Vm!Opening /\ ~Vm!Unaligned(Vm!file.offset)
      /\ vmPc' = "read" /\ loaded' = 0 /\ loadId' = loadId
  BY DEF Vm!OpenCodeFile
<1>4. loadId \in Id
  BY <1>1, <1>3, CntType DEF Vm!Opening, Vm!EInv, Vm!IInv, Vm!TypeOK, Id
<1>5. Opens(loadId)
  BY <1>3 DEF LoadAndRun
<1>6. Named(loadId)
  <2>1. Vm!file.offset = Offset(session, loadId)
    BY <1>1, <1>4, <1>5 DEF ArgumentsInv, Vm!file
  <2>2. Offset(session, loadId) \in 0 .. 2^16 - 1
    BY <1>1, <1>4, <1>5, OpensFacts DEF ArgumentsInv
  <2> QED
    BY <1>3, <1>5, <2>1, <2>2, 2^16 = 65536 DEF Named, Vm!Unaligned
<1>7. Base(session, loadId) \in Nat /\ Base(session, loadId) < Vm!MEMORY_SIZE
  BY <1>1, <1>4, <1>5, ImageOf
<1>8. \A p \in Id : Apart(session, p, loadId, 0)
  BY <1>7 DEF Apart, Place
<1>9. Base(session, loadId) + 0 <= Vm!MEMORY_SIZE
  BY <1>7, 2^15 = 32768 DEF Vm!MEMORY_SIZE
<1> QED
  BY <1>1, <1>2, <1>3, <1>6, <1>8, <1>9 DEF LoadInv

LEMMA WordLoads ==
  ASSUME TInv, LoadAndRun, Vm!LoadWord
  PROVE  LoadInv'
<1>1. /\ session' = session /\ codeFiles' = codeFiles /\ argv' = argv /\ LoadInv
      /\ FilesInv /\ ArgumentsInv /\ asmPc = "off" /\ Vm!EInv
  BY VmFrame
<1>2. \A p : Named(p)' <=> Named(p)
  BY <1>1, ArgumentsStay
<1>3. /\ vmPc = "read" /\ vmPc' = "read" /\ loadId' = loadId /\ loaded' = loaded + 1
      /\ Vm!loadIndex < Vm!MEMORY_SIZE /\ Vm!Read(Memory, Vm!loadIndex) = 0
  BY DEF Vm!LoadWord, Vm!WordLeft, Vm!Free, Vm!loading
<1>4. loadId \in Id /\ loaded \in Nat
  BY <1>1, <1>3, CntType DEF Vm!EInv, Vm!IInv, Vm!TypeOK, Vm!ControlOK, Id
<1>5. Named(loadId) /\ Opens(loadId)
  BY <1>1, <1>3 DEF LoadInv, Named
<1> DEFINE index == Base(session, loadId) + loaded
<1>6. /\ Vm!loadIndex = index
      /\ Base(session, loadId) \in Nat /\ index \in Nat
  BY <1>1, <1>4, <1>5, ImageOf DEF Vm!loadIndex, Vm!file, Vm!Base
<1> HIDE DEF index
<1>7. Base(session, loadId) + (loaded + 1) <= Vm!MEMORY_SIZE
  BY <1>3, <1>4, <1>6, 2^15 = 32768 DEF Vm!MEMORY_SIZE, index
<1>8. ASSUME NEW p \in Id, p < loadId
      PROVE  Apart(session, p, loadId, loaded + 1)
  <2>1. Apart(session, p, loadId, loaded)
    BY <1>1, <1>3, <1>8 DEF LoadInv
  <2>2. Opens(p)
    BY <1>1, <1>8 DEF LoadInv, Named
  <2>3. /\ Vm!Base(p) = Base(session, p) /\ Base(session, p) \in Nat
        /\ Len(Vm!Words(p)) = Len(Image(session, p))
        /\ Len(Image(session, p)) \in Nat
        /\ \A k \in 1 .. Len(Image(session, p)) : Vm!Words(p)[k] # 0
    BY <1>1, <2>2, ImageOf
  <2>4. Vm!InPlace(Memory, p, Len(Vm!Words(p)))
    BY <1>1, <1>3, <1>8 DEF Vm!EInv, Vm!Images, Vm!Id, Id
  <2>5. index \notin Place(session, p, Len(Image(session, p)))
    <3>1. SUFFICES ASSUME index \in Place(session, p, Len(Image(session, p)))
                   PROVE  FALSE
      OBVIOUS
    <3> DEFINE k == index - Base(session, p) + 1
    <3>2. k \in 1 .. Len(Image(session, p)) /\ Base(session, p) + k - 1 = index
      BY <1>6, <2>3, <3>1 DEF Place
    <3> HIDE DEF k
    <3>3. Vm!Read(Memory, index) = Vm!Words(p)[k] /\ Vm!Words(p)[k] # 0
      BY <2>3, <2>4, <3>2 DEF Vm!InPlace
    <3> QED
      BY <1>3, <1>6, <3>3
  <2>6. Place(session, loadId, loaded + 1) = Place(session, loadId, loaded) \cup {index}
    BY <1>4, <1>6 DEF Place, index
  <2> QED
    BY <2>1, <2>5, <2>6 DEF Apart
<1> QED
  BY <1>1, <1>2, <1>3, <1>5, <1>7, <1>8 DEF LoadInv

LEMMA FileLoads ==
  ASSUME TInv, LoadAndRun, Vm!FinishLoad
  PROVE  LoadInv'
<1>1. /\ session' = session /\ codeFiles' = codeFiles /\ argv' = argv /\ LoadInv
      /\ FilesInv /\ ArgumentsInv /\ asmPc = "off" /\ Vm!EInv
  BY VmFrame
<1>2. \A p : Named(p)' <=> Named(p)
  BY <1>1, ArgumentsStay
<1>3. /\ vmPc = "read" /\ vmPc' = "load" /\ loadId' = loadId + 1
      /\ loaded = Len(Vm!file.words)
  BY DEF Vm!FinishLoad, Vm!FileRead
<1>4. loadId \in Id
  BY <1>1, <1>3, CntType DEF Vm!EInv, Vm!IInv, Vm!TypeOK, Vm!ControlOK, Id
<1>5. Named(loadId) /\ Opens(loadId)
  BY <1>1, <1>3 DEF LoadInv, Named
<1>6. loaded = Len(Image(session, loadId))
  BY <1>1, <1>3, <1>4, <1>5, ImageOf DEF Vm!file, Vm!Words
<1>7. \A p \in Id : p < loadId + 1 <=> p < loadId \/ p = loadId
  BY <1>4 DEF Id
<1>8. /\ Base(session, loadId) + Len(Image(session, loadId)) <= Vm!MEMORY_SIZE
      /\ \A p \in Id : p < loadId => Apart(session, p, loadId, Len(Image(session, loadId)))
  BY <1>1, <1>3, <1>6 DEF LoadInv
<1> QED
  BY <1>1, <1>2, <1>3, <1>5, <1>7, <1>8 DEF LoadInv

LEMMA LoadAndRunStep == TInv /\ LoadAndRun => TInv'
<1> SUFFICES ASSUME TInv, LoadAndRun PROVE TInv'
  OBVIOUS
<1>1. /\ vmPc \notin {"off", "failed"} /\ asmPc = "off"
      /\ session' = session /\ codeFiles' = codeFiles /\ asmPc' = "off"
      /\ argv' = argv
      /\ FilesInv /\ Vm!EInv /\ ArgumentsInv /\ LoadInv
      /\ vmPc' = "done" => vmPc = "find"
  BY VmFrame
<1>2. Vm!Load \/ Vm!Run
  BY DEF LoadAndRun
<1>3. Vm!EInv'
  <2>1. Vm!Next
    BY <1>2 DEF Vm!Next
  <2> QED
    BY <1>1, <2>1, VmStep
<1>4. ArgumentsInv'
  BY <1>1, ArgumentsStay
<1>5. LoadInv'
  <2>1. CASE Vm!OpenCodeFile
    BY <2>1, OpenLoads
  <2>2. CASE Vm!LoadWord
    BY <2>2, WordLoads
  <2>3. CASE Vm!FinishLoad
    BY <2>3, FileLoads
  <2>4. CASE Vm!OpenFails \/ Vm!LoadsPastEnd \/ Vm!LoadIntersects \/ Vm!LoadFails
    <3>1. loadId' = loadId /\ vmPc' # "read"
      BY <2>4 DEF Vm!OpenFails, Vm!LoadsPastEnd, Vm!LoadIntersects, Vm!LoadFails,
                  Vm!Ends, Vm!loading
    <3> QED
      BY <3>1, NothingLoaded
  <2>5. CASE Vm!Run
    <3>1. loadId' = loadId /\ vmPc' # "read"
      BY <2>5 DEF Vm!Run, Vm!StartExecution, Vm!Advance, Vm!GiveTurn, Vm!PassOver,
                  Vm!AllExited, Vm!LeaveSlice, Vm!CountTick, Vm!ExitsBeforeTick,
                  Vm!InstructionRuns, Vm!TakeEffect, Vm!InstructionContinues,
                  Vm!InstructionExits, Vm!InstructionAborts, Vm!Ends, Vm!loading
    <3> QED
      BY <3>1, NothingLoaded
  <2> QED
    BY <1>2, <2>1, <2>2, <2>3, <2>4, <2>5 DEF Vm!Load
<1>6. vmPc' = "done" => loadId' = SubprocessCnt
  <2> SUFFICES ASSUME vmPc' = "done" PROVE loadId' = SubprocessCnt
    OBVIOUS
  <2>1. loadId = SubprocessCnt
    BY <1>1 DEF Vm!EInv, Vm!IInv, Vm!ControlOK, Vm!Executing
  <2>2. loadId' = loadId
    BY <1>2 DEF Vm!Load, Vm!OpenFails, Vm!OpenCodeFile, Vm!LoadsPastEnd, Vm!LoadIntersects,
                Vm!LoadWord, Vm!LoadFails, Vm!FinishLoad, Vm!Ends, Vm!loading,
                Vm!Run, Vm!StartExecution, Vm!Advance, Vm!GiveTurn, Vm!PassOver,
                Vm!AllExited, Vm!LeaveSlice, Vm!CountTick, Vm!ExitsBeforeTick,
                Vm!InstructionRuns, Vm!TakeEffect, Vm!InstructionContinues,
                Vm!InstructionExits, Vm!InstructionAborts
  <2> QED
    BY <2>1, <2>2
<1>7. vmPc' # "off"
  <2>1. vmPc' \in Vm!Locations
    BY <1>3 DEF Vm!EInv, Vm!IInv, Vm!TypeOK
  <2> QED
    BY <2>1 DEF Vm!Locations
<1>8. VmInv'
  BY <1>1, <1>3, <1>4, <1>5, <1>6, <1>7 DEF VmInv
<1>9. AsmInv' /\ FilesInv'
  BY <1>1 DEF AsmInv, FilesInv
<1> QED
  BY <1>8, <1>9 DEF TInv

----------------------------------------------------------------------------
(* The theorem. *)

LEMMA StutterTInv == TInv /\ UNCHANGED vars => TInv'
<1> SUFFICES ASSUME TInv, UNCHANGED vars PROVE TInv'
  OBVIOUS
<1>1. UNCHANGED <<session, codeFiles, asmPc, vmPc, argv, loadId, loaded>>
  BY DEF vars, asm, vm, executer
<1>2. UNCHANGED Asm!vars /\ UNCHANGED Vm!vars
  BY DEF vars, asm, vm, assembler, executer, Asm!vars, Asm!window,
         Vm!vars, Vm!loading, Vm!streams
<1>3. AsmOK => AsmOK' /\ source' = source
  BY <1>2, AsmStep
<1>4. AsmInv'
  BY <1>1, <1>3 DEF TInv, AsmInv
<1>5. FilesInv'
  BY <1>1 DEF TInv, FilesInv
<1>6. Untouched => Untouched'
  BY <1>1 DEF vars, vm, executer, Untouched
<1>7. Vm!EInv => Vm!EInv'
  BY <1>2, VmStep
<1>8. (ArgumentsInv => ArgumentsInv') /\ \A p : Named(p)' <=> Named(p)
  BY <1>1, ArgumentsStay
<1>9. LoadInv => LoadInv'
  BY <1>1, <1>8 DEF LoadInv
<1>10. VmInv'
  BY <1>1, <1>6, <1>7, <1>8, <1>9 DEF TInv, VmInv
<1> QED
  BY <1>4, <1>5, <1>10 DEF TInv

LEMMA NextTInv == TInv /\ [Next]_vars => TInv'
<1> SUFFICES ASSUME TInv, [Next]_vars PROVE TInv'
  OBVIOUS
<1>1. CASE UNCHANGED vars
  BY <1>1, StutterTInv
<1>2. CASE Next
  <2>1. CASE Terminated
    BY <1>1, <2>1 DEF Terminated
  <2>2. Assemble \/ AssembleNext \/ AssembledAll \/ Refuse \/ StartVm
           \/ LoadAndRun \/ Terminated
    BY <1>2 DEF Next
  <2> QED
    BY <2>1, <2>2, AssembleStep, AssembleNextStep, AssembledAllStep, RefuseStep,
       StartVmStep, LoadAndRunStep
<1> QED
  BY <1>1, <1>2

LEMMA RunningIsSound == TInv => OnlySoundSessionsRun
<1> SUFFICES ASSUME TInv, vmPc \in {"find", "slice", "done"} PROVE Sound(session)
  BY DEF OnlySoundSessionsRun, SoundSessions, TInv, FilesInv
<1>1. /\ asmPc = "off" /\ Vm!EInv /\ ArgumentsInv /\ LoadInv
      /\ vmPc = "done" => loadId = SubprocessCnt
  BY DEF TInv, VmInv
<1>2. loadId = SubprocessCnt
  BY <1>1 DEF Vm!EInv, Vm!IInv, Vm!ControlOK, Vm!Executing
<1>3. \A p \in Id : p < loadId
  BY <1>2, CntType DEF Id
<1>4. \A k \in DOMAIN session.sources : Assembles(session.sources[k])
  BY <1>1, SourceCount DEF TInv, FilesInv
<1>5. /\ Len(session.args) = 1 + 2 * SubprocessCnt
      /\ IsNumber(session.args[1], UINT32_MAX)
  BY <1>1 DEF ArgumentsInv
<1>6. ASSUME NEW p \in Id
      PROVE  /\ session.args[2 + 2 * p] \in DOMAIN session.sources
             /\ IsNumber(session.args[3 + 2 * p], 2^16 - 1)
             /\ Offset(session, p) % 2 = 0
             /\ Base(session, p) + Len(Image(session, p)) <= Vm!MEMORY_SIZE
  <2>1. /\ Opens(p) /\ Offset(session, p) % 2 = 0
        /\ Base(session, p) + Len(Image(session, p)) <= Vm!MEMORY_SIZE
    BY <1>1, <1>3 DEF LoadInv, Named
  <2> QED
    BY <1>1, <1>5, <2>1, OpensFacts DEF TInv, CodeFile
<1>7. \A p, q \in Id : p < q => Apart(session, p, q, Len(Image(session, q)))
  BY <1>1, <1>3 DEF LoadInv
<1> QED
  BY <1>4, <1>5, <1>6, <1>7 DEF Sound

(* For every session: no subprocess runs unless each source assembles, the *)
(* arguments of the vm are numbers in range, one pair for each subprocess, *)
(* and the images stand at even offsets within the memory, no two sharing  *)
(* a word.                                                                 *)
THEOREM OnlySoundRun == Spec => []OnlySoundSessionsRun
  BY InitTInv, NextTInv, RunningIsSound, PTL DEF Spec

(* What each program keeps on its own it keeps in a session: asm of every  *)
(* source (OutputMeansSource, LabelsAccepted, LinesAccepted), and the vm,  *)
(* once its arguments are accepted, of the files asm wrote (ImagesLoaded,  *)
(* BudgetKept, FairShare).                                                 *)
PromisesKept ==
    /\ asmPc # "off" => Asm!OutputMeansSource /\ Asm!LabelsAccepted /\ Asm!LinesAccepted
    /\ vmPc \notin {"off", "failed"} =>
          Vm!ImagesLoaded /\ Vm!BudgetKept /\ Vm!FairShare

THEOREM PromisesAreKept == Spec => []PromisesKept
<1>1. ASSUME AsmOK
      PROVE  Asm!OutputMeansSource /\ Asm!LabelsAccepted /\ Asm!LinesAccepted
  <2>1. Asm!OutputMeansSource
    BY <1>1, AsmAssumptions, MAX_JUMPAssumption, Asm!WindowMeansSource DEF AsmOK
  <2>2. Asm!LinesAccepted
    BY <1>1, AsmAssumptions, MAX_JUMPAssumption, Asm!WindowTakesLines DEF AsmOK
  <2>3. asmPc = "done" => \A k \in Asm!LineIds : ~Asm!Misses(k)
    BY <1>1, AsmAssumptions, MAX_JUMPAssumption, Asm!DoneHits DEF AsmOK
  <2>4. Asm!LabelsAccepted
    BY <1>1, <2>3 DEF AsmOK, Asm!FailInv, Asm!LabelsAccepted
  <2> QED
    BY <2>1, <2>2, <2>4
<1>2. Vm!IInv /\ Vm!Images => Vm!ImagesLoaded
  BY VmAssumptions, SubprocessCntAssumption, UINT32_MAXAssumption,
     QuantaAssumption, NULLAssumption, Vm!ImagesMeanLoaded
<1>3. TInv => PromisesKept
  BY <1>1, <1>2 DEF TInv, AsmInv, VmInv, PromisesKept, Vm!EInv
<1> QED
  BY <1>3, InitTInv, NextTInv, PTL DEF Spec
======================================================================
