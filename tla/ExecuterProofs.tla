------------------------ MODULE ExecuterProofs ------------------------
(***************************************************************************)
(* What the executer keeps for every number of subprocesses, every         *)
(* quantum, every command line and every program.                          *)
(***************************************************************************)
EXTENDS Executer, InstructionSetProofs

(* What TypeOK and the safety properties need of the control state to be   *)
(* inductive: files are loaded in order, nothing runs before all are, and  *)
(* the quantum loop runs only a subprocess that has not exited.            *)
ControlOK ==
    /\ pc = "read" => loadId < SubprocessCnt
    /\ \A p \in Id : Subprocesses[p] = NULL <=> p >= loadId
    /\ Executing => loadId = SubprocessCnt
    /\ pc = "find" => i < SubprocessCnt
    /\ pc = "slice" => ~Current.Exited /\ i < TicksPerProcessIteration

IInv == TypeOK /\ ControlOK

USE DEF Locations

----------------------------------------------------------------------------
(* Facts of the state under TypeOK. *)

LEMMA CntFact == SubprocessCnt \in Nat /\ SubprocessCnt > 0
  BY SubprocessCntAssumption, 2^16 = 65536

LEMMA SubprocessFacts ==
  ASSUME IInv, Executing
  PROVE  /\ CurrentSubprocessId \in Id
         /\ Current \in SubprocessRecords
         /\ \A p \in Id : Subprocesses[p] \in SubprocessRecords
  BY CntFact DEF IInv, TypeOK, ControlOK, Current, Id

LEMMA FileFacts ==
  ASSUME IInv, pc \in {"load", "read"}, loadId < SubprocessCnt
  PROVE  /\ loadId \in Id
         /\ file \in CodeFiles
         /\ argv.iterationsPerProcess \in 0 .. UINT32_MAX
<1>1. loadId \in Id
  BY CntFact DEF IInv, TypeOK, Id
<1> QED
  BY <1>1, CommandLinesAssumption DEF IInv, TypeOK, file, Id

LEMMA NewSubprocessType ==
  ASSUME NEW stackAddr \in Word, NEW budget \in 0 .. UINT32_MAX
  PROVE  NewSubprocess(stackAddr, budget) \in SubprocessRecords
<1>1. 0 \in Word /\ 0 \in Byte
  BY WordIff, ByteIff
<1> QED
  BY <1>1, UINT32_MAXAssumption DEF NewSubprocess, SubprocessRecords

LEMMA ExitWithErrorType ==
  ASSUME NEW s \in SubprocessRecords
  PROVE  ExitWithError(s) \in SubprocessRecords
<1>1. 1 \in Byte
  BY ByteIff
<1> QED
  BY <1>1 DEF ExitWithError, SubprocessRecords

LEMMA AfterInstructionType ==
  ASSUME NEW s \in SubprocessRecords, NEW m \in Machines
  PROVE  AfterInstruction(s, m, UINT32_MAX) \in SubprocessRecords
<1>1. NextTick(s.TicksExecuted, UINT32_MAX) \in 0 .. UINT32_MAX
  BY UINT32_MAXAssumption DEF SubprocessRecords, NextTick
<1>2. m.reg \in [RegisterId -> Word] /\ m.exitCode \in Byte
  BY DEF Machines, RegisterSets
<1> QED
  BY <1>1, <1>2 DEF AfterInstruction, SubprocessRecords

(* The machine the current instruction runs on, and what it leaves. *)
LEMMA MachineBefore ==
  ASSUME IInv, InstructionRuns
  PROVE  /\ RawOperation(Current, Memory) \in Word
         /\ [reg |-> Current.RegisterSet, mem |-> Memory, stdin |-> Stdin,
             stdout |-> Stdout, exitCode |-> InstructionSet_ExitCode,
             result |-> "continue"] \in Machines
<1>1. Current \in SubprocessRecords
  BY SubprocessFacts DEF InstructionRuns, Executing
<1>2. Memory \in Memories
  BY IsMemoryIff DEF IInv, TypeOK
<1>3. RawOperation(Current, Memory) \in Word
  <2>1. Current.RegisterSet[IP_ID] \in Word
    BY <1>1, RegisterIds DEF SubprocessRecords
  <2> QED
    BY <2>1, <1>2, AddressType, ReadType DEF RawOperation
<1> QED
  BY <1>1, <1>2, <1>3 DEF IInv, TypeOK, Machines, RegisterSets, SubprocessRecords

LEMMA OutcomeType ==
  ASSUME IInv, InstructionRuns
  PROVE  Outcome \in Machines
<1>1. GetInstructionId(RawOperation(Current, Memory)) # INVALID_INSTRUCTION_ID
  BY DEF InstructionRuns, CannotFetch
<1> DEFINE m == [reg |-> Current.RegisterSet, mem |-> Memory, stdin |-> Stdin,
                 stdout |-> Stdout, exitCode |-> InstructionSet_ExitCode,
                 result |-> "continue"]
<1>2. m \in Machines /\ RawOperation(Current, Memory) \in Word
  BY MachineBefore
<1> HIDE DEF m
<1>3. Execute(RawOperation(Current, Memory), m) \in Machines
  BY <1>1, <1>2, ExecuteType
<1> QED
  BY <1>3 DEF Outcome, m

----------------------------------------------------------------------------
(* The inductive invariant. *)

LEMMA InitIInv == Init => IInv
<1> SUFFICES ASSUME Init PROVE IInv
  OBVIOUS
<1>1. 0 \in Byte /\ << >> \in Seq(Byte)
  BY ByteIff
<1>2. IsMemory(Memory)
  BY DEF Init, IsMemory
<1>3. Stdin \in Seq(Byte)
  BY InputsAssumption DEF Init
<1> QED
  BY <1>1, <1>2, <1>3, CntFact
     DEF Init, IInv, TypeOK, ControlOK, Id, Executing

(* Each action keeps the inductive invariant. *)
USE DEF fixed, loading, running, streams, Ends, Opening, WordLeft, FileRead,
        Advance, Continuing, LastRound

LEMMA LoadFailureKeepsIInv ==
  ASSUME IInv, OpenFails \/ LoadsPastEnd \/ LoadIntersects \/ LoadFails
  PROVE  IInv'
  BY DEF IInv, TypeOK, ControlOK, OpenFails, LoadsPastEnd, LoadIntersects,
         LoadFails, Executing, Current

LEMMA OpenCodeFileKeepsIInv == IInv /\ OpenCodeFile => IInv'
  BY DEF IInv, TypeOK, ControlOK, OpenCodeFile, Executing

LEMMA LoadWordKeepsIInv ==
  ASSUME IInv, LoadWord
  PROVE  IInv'
<1>1. file \in CodeFiles
  BY FileFacts DEF LoadWord, IInv, ControlOK
<1>2. file.words[loaded + 1] \in Word
  BY <1>1 DEF LoadWord, IInv, TypeOK, CodeFiles
<1>3. loadIndex \in WordIndex
  <2>1. file.offset \in Word
    BY <1>1 DEF CodeFiles
  <2>2. file.offset \div 2 \in WordIndex
    BY <2>1, AddressType
  <2> QED
    BY <2>2, WordIndexIff, 2^15 = 32768
       DEF loadIndex, LoadWord, IInv, TypeOK, MEMORY_SIZE
<1>4. Memory \in Memories
  BY IsMemoryIff DEF IInv, TypeOK
<1>5. Written(Memory, loadIndex, file.words[loaded + 1]) \in Memories
  BY <1>2, <1>3, <1>4, WrittenType
<1>6. IsMemory(Memory')
  BY <1>5, IsMemoryIff DEF LoadWord
<1>7. loaded' \in Nat
  BY DEF LoadWord, IInv, TypeOK
<1> QED
  BY <1>6, <1>7 DEF IInv, TypeOK, ControlOK, LoadWord, Executing

LEMMA FinishLoadKeepsIInv ==
  ASSUME IInv, FinishLoad
  PROVE  IInv'
<1>1. loadId \in Id /\ loadId < SubprocessCnt /\ file \in CodeFiles
         /\ argv.iterationsPerProcess \in 0 .. UINT32_MAX
  BY FileFacts DEF FinishLoad, IInv, ControlOK
<1> DEFINE s == NewSubprocess(file.offset, argv.iterationsPerProcess)
<1>2. s \in SubprocessRecords
  BY <1>1, NewSubprocessType DEF CodeFiles
<1> HIDE DEF s
<1>3. Subprocesses' = [Subprocesses EXCEPT ![loadId] = s]
  BY DEF FinishLoad, s
<1>4. Subprocesses' \in [Id -> {NULL} \cup SubprocessRecords]
  BY <1>1, <1>2, <1>3 DEF IInv, TypeOK
<1>5. \A p \in Id : Subprocesses'[p] = NULL <=> p >= loadId + 1
  BY <1>1, <1>2, <1>3, NULLAssumption, CntFact
     DEF IInv, TypeOK, ControlOK, Id
<1>6. loadId' \in 0 .. SubprocessCnt
  BY <1>1, CntFact DEF FinishLoad, IInv, TypeOK
<1> QED
  BY <1>4, <1>5, <1>6 DEF IInv, TypeOK, ControlOK, FinishLoad, Executing

LEMMA NextIdType ==
  ASSUME IInv PROVE NextId \in Id
  BY CntFact DEF IInv, TypeOK, NextId, Id

LEMMA SearchKeepsIInv ==
  ASSUME IInv, StartExecution \/ GiveTurn \/ PassOver \/ AllExited
  PROVE  IInv'
<1>1. CASE StartExecution
  BY <1>1, CntFact
     DEF IInv, TypeOK, ControlOK, StartExecution, Executing, Id
<1>2. CASE GiveTurn
  BY <1>2, NextIdType, QuantaAssumption, UINT32_MAXAssumption
     DEF IInv, TypeOK, ControlOK, GiveTurn, Executing, Current
<1>3. CASE PassOver
  BY <1>3, NextIdType
     DEF IInv, TypeOK, ControlOK, PassOver, Executing, Current
<1>4. CASE AllExited
  BY <1>4, NextIdType
     DEF IInv, TypeOK, ControlOK, AllExited, Executing, Current
<1> QED
  BY <1>1, <1>2, <1>3, <1>4

(* What the actions that run a subprocess have in common: the current      *)
(* record is replaced by a record, and the loop over the quantum goes on   *)
(* only with a subprocess that has not exited.                             *)
LEMMA RunKeepsIInv ==
  ASSUME IInv, pc = "slice", NEW s \in SubprocessRecords,
         Subprocesses' = [Subprocesses EXCEPT ![CurrentSubprocessId] = s],
         UNCHANGED <<fixed, loading, CurrentSubprocessId>>,
         LeaveSlice \/ (CountTick /\ ~s.Exited),
         IsMemory(Memory'), InstructionSet_ExitCode' \in Byte,
         Stdin' \in Seq(Byte), Stdout' \in Seq(Byte)
  PROVE  IInv'
<1>1. CurrentSubprocessId \in Id
  BY DEF IInv, TypeOK
<1>2. Subprocesses' \in [Id -> {NULL} \cup SubprocessRecords]
  BY <1>1 DEF IInv, TypeOK
<1>3. \A p \in Id : Subprocesses'[p] = NULL <=> p >= loadId
  BY <1>1, NULLAssumption, CntFact
     DEF IInv, TypeOK, ControlOK, Executing, Id
<1>4. Subprocesses'[CurrentSubprocessId] = s
  BY <1>1 DEF IInv, TypeOK
<1>5. TicksPerProcessIteration \in Nat /\ i \in Nat /\ i < TicksPerProcessIteration
  BY QuantaAssumption, UINT32_MAXAssumption DEF IInv, TypeOK, ControlOK
<1>6. TypeOK'
  BY <1>2, <1>5 DEF IInv, TypeOK, LeaveSlice, CountTick
<1>7. ControlOK'
  BY <1>3, <1>4, <1>5, CntFact
     DEF IInv, TypeOK, ControlOK, LeaveSlice, CountTick, Executing, Current
<1> QED
  BY <1>6, <1>7 DEF IInv

LEMMA ExitsBeforeTickKeepsIInv ==
  ASSUME IInv, ExitsBeforeTick
  PROVE  IInv'
<1>1. Current \in SubprocessRecords
  BY SubprocessFacts DEF ExitsBeforeTick, Executing
<1>2. ExitWithError(Current) \in SubprocessRecords
  BY <1>1, ExitWithErrorType
<1>3. Subprocesses' = [Subprocesses EXCEPT ![CurrentSubprocessId] =
                          ExitWithError(Current)]
  BY DEF ExitsBeforeTick, Current
<1>4. /\ IsMemory(Memory') /\ InstructionSet_ExitCode' \in Byte
      /\ Stdin' \in Seq(Byte) /\ Stdout' \in Seq(Byte)
  BY DEF ExitsBeforeTick, IInv, TypeOK
<1> QED
  BY <1>2, <1>3, <1>4, RunKeepsIInv DEF ExitsBeforeTick

LEMMA InstructionKeepsIInv ==
  ASSUME IInv, InstructionContinues \/ InstructionExits
  PROVE  IInv'
<1>1. InstructionRuns /\ TakeEffect(Outcome)
  BY DEF InstructionContinues, InstructionExits
<1>2. Outcome \in Machines
  BY <1>1, OutcomeType
<1>3. Current \in SubprocessRecords
  BY <1>1, SubprocessFacts DEF InstructionRuns, Executing
<1> DEFINE s == AfterInstruction(Current, Outcome, UINT32_MAX)
<1>4. s \in SubprocessRecords
  BY <1>2, <1>3, AfterInstructionType
<1>5. Subprocesses' = [Subprocesses EXCEPT ![CurrentSubprocessId] = s]
  BY <1>1 DEF TakeEffect, Current
<1>6. /\ IsMemory(Memory') /\ InstructionSet_ExitCode' \in Byte
      /\ Stdin' \in Seq(Byte) /\ Stdout' \in Seq(Byte)
  BY <1>1, <1>2, IsMemoryIff DEF TakeEffect, Machines
<1>7. LeaveSlice \/ (CountTick /\ ~s.Exited)
  BY <1>3 DEF InstructionContinues, InstructionExits, AfterInstruction,
              SubprocessRecords
<1> HIDE DEF s
<1>8. pc = "slice" /\ UNCHANGED <<fixed, loading, CurrentSubprocessId>>
  BY <1>1 DEF InstructionRuns, TakeEffect
<1> QED
  BY <1>4, <1>5, <1>6, <1>7, <1>8, RunKeepsIInv

LEMMA InstructionAbortsKeepsIInv == IInv /\ InstructionAborts => IInv'
  BY DEF IInv, TypeOK, ControlOK, InstructionAborts, Executing, Current

LEMMA StutterKeepsIInv == IInv /\ UNCHANGED vars => IInv'
  BY DEF IInv, TypeOK, ControlOK, Executing, Current, vars

LEMMA NextIInv == IInv /\ [Next]_vars => IInv'
  BY LoadFailureKeepsIInv, OpenCodeFileKeepsIInv, LoadWordKeepsIInv,
     FinishLoadKeepsIInv, SearchKeepsIInv, ExitsBeforeTickKeepsIInv,
     InstructionKeepsIInv, InstructionAbortsKeepsIInv, StutterKeepsIInv
     DEF Next, Load, Run, Terminated

(* Every variable keeps its type: registers and memory cells stay words    *)
(* whatever the programs do, and memory is not accessed outside its        *)
(* bounds (TypeOK).                                                        *)
THEOREM TypeCorrect == Spec => []TypeOK
<1>1. IInv => TypeOK
  BY DEF IInv
<1> QED
  BY InitIInv, NextIInv, <1>1, PTL DEF Spec

LEMMA InvariantIInv == Spec => []IInv
  BY InitIInv, NextIInv, PTL DEF Spec

----------------------------------------------------------------------------
(* What a step may do to the subprocesses. *)

(* A subprocess is created. *)
Creates ==
    /\ loadId \in Id
    /\ Subprocesses[loadId] = NULL
    /\ \E offset \in Word, budget \in 0 .. UINT32_MAX :
         Subprocesses' = [Subprocesses EXCEPT ![loadId] =
                             NewSubprocess(offset, budget)]
    /\ ~Executing /\ ~Executing'

(* The current subprocess becomes s. *)
Becomes(s) ==
    /\ pc = "slice"
    /\ CurrentSubprocessId \in Id
    /\ Current \in SubprocessRecords
    /\ ~Current.Exited
    /\ s \in SubprocessRecords
    /\ s.TicksToExecute = Current.TicksToExecute
    /\ Subprocesses' = [Subprocesses EXCEPT ![CurrentSubprocessId] = s]
    /\ UNCHANGED <<TicksPerProcessIteration, CurrentSubprocessId>>

Leaves(s) == Becomes(s) /\ s.Exited /\ LeaveSlice
             /\ (s.TicksExecuted = Current.TicksExecuted \/ ~TimedOut(Current))
Ticks(s) == Becomes(s) /\ ~s.Exited /\ CountTick

Counts(s) == s.TicksExecuted = NextTick(Current.TicksExecuted, UINT32_MAX)

LEMMA ExitsBeforeTickLeaves ==
  ASSUME IInv, ExitsBeforeTick
  PROVE  \E s : Leaves(s) /\ s.TicksExecuted = Current.TicksExecuted
<1>1. Current \in SubprocessRecords /\ CurrentSubprocessId \in Id
  BY SubprocessFacts DEF ExitsBeforeTick, Executing
<1> DEFINE s == ExitWithError(Current)
<1>2. s \in SubprocessRecords
  BY <1>1, ExitWithErrorType
<1>3. /\ s.Exited /\ s.TicksExecuted = Current.TicksExecuted
      /\ s.TicksToExecute = Current.TicksToExecute
  BY <1>1 DEF ExitWithError, SubprocessRecords
<1>4. Subprocesses' = [Subprocesses EXCEPT ![CurrentSubprocessId] = s]
  BY DEF ExitsBeforeTick, Current
<1> HIDE DEF s
<1>5. Leaves(s)
  BY <1>1, <1>2, <1>3, <1>4
     DEF Leaves, Becomes, ExitsBeforeTick, IInv, ControlOK
<1> QED
  BY <1>3, <1>5

LEMMA InstructionEffect ==
  ASSUME IInv, InstructionContinues \/ InstructionExits
  PROVE  \E s : (Leaves(s) \/ Ticks(s)) /\ Counts(s) /\ ~TimedOut(Current)
<1>1. InstructionRuns /\ TakeEffect(Outcome)
  BY DEF InstructionContinues, InstructionExits
<1>2. Outcome \in Machines
  BY <1>1, OutcomeType
<1>3. Current \in SubprocessRecords /\ CurrentSubprocessId \in Id
  BY <1>1, SubprocessFacts DEF InstructionRuns, Executing
<1> DEFINE s == AfterInstruction(Current, Outcome, UINT32_MAX)
<1>4. s \in SubprocessRecords
  BY <1>2, <1>3, AfterInstructionType
<1>5. /\ s.TicksToExecute = Current.TicksToExecute
      /\ Counts(s)
      /\ s.Exited = (Outcome.result = "exit")
  BY <1>3 DEF AfterInstruction, SubprocessRecords, Counts
<1>6. Subprocesses' = [Subprocesses EXCEPT ![CurrentSubprocessId] = s]
  BY <1>1 DEF TakeEffect, Current
<1> HIDE DEF s
<1>7. Becomes(s)
  BY <1>1, <1>3, <1>4, <1>5, <1>6
     DEF Becomes, TakeEffect, InstructionRuns, IInv, ControlOK
<1>8. CASE InstructionContinues
  BY <1>1, <1>5, <1>7, <1>8 DEF InstructionContinues, InstructionRuns, Ticks
<1>9. CASE InstructionExits
  BY <1>1, <1>5, <1>7, <1>9 DEF InstructionExits, InstructionRuns, Leaves
<1> QED
  BY <1>8, <1>9

LEMMA FinishLoadCreates ==
  ASSUME IInv, FinishLoad
  PROVE  Creates
<1>1. /\ loadId \in Id /\ file \in CodeFiles
      /\ argv.iterationsPerProcess \in 0 .. UINT32_MAX
  BY FileFacts DEF FinishLoad, IInv, ControlOK
<1>2. file.offset \in Word
  BY <1>1 DEF CodeFiles
<1>3. Subprocesses[loadId] = NULL
  BY <1>1, CntFact DEF IInv, ControlOK, Id
<1> QED
  BY <1>1, <1>2, <1>3 DEF Creates, FinishLoad, Executing

LEMMA StepsThatLeaveSubprocesses ==
  ASSUME [Next]_vars,
         ~(FinishLoad \/ ExitsBeforeTick \/ InstructionContinues \/ InstructionExits)
  PROVE  UNCHANGED Subprocesses
  BY DEF Next, Load, Run, Terminated, vars, OpenFails, OpenCodeFile,
         LoadsPastEnd, LoadIntersects, LoadWord, LoadFails, StartExecution,
         GiveTurn, PassOver, AllExited, InstructionAborts

(* Every step creates a subprocess, ticks, ends one, or leaves them alone. *)
LEMMA StepEffect ==
  ASSUME IInv, [Next]_vars
  PROVE  \/ UNCHANGED Subprocesses
         \/ Creates
         \/ \E s : Leaves(s) /\ s.TicksExecuted = Current.TicksExecuted
         \/ \E s : (Leaves(s) \/ Ticks(s)) /\ Counts(s) /\ ~TimedOut(Current)
<1>1. CASE FinishLoad
  BY <1>1, FinishLoadCreates
<1>2. CASE ExitsBeforeTick
  BY <1>2, ExitsBeforeTickLeaves
<1>3. CASE InstructionContinues \/ InstructionExits
  BY <1>3, InstructionEffect
<1>4. CASE ~(FinishLoad \/ ExitsBeforeTick \/ InstructionContinues \/ InstructionExits)
  BY <1>4, StepsThatLeaveSubprocesses
<1> QED
  BY <1>1, <1>2, <1>3, <1>4

----------------------------------------------------------------------------
(* An exited subprocess never runs again and keeps the exit code it was given. *)
THEOREM ExitsAreFinal == Spec => ExitIsFinal
<1> DEFINE Final == \A p \in Id :
               Subprocesses[p] # NULL /\ Subprocesses[p].Exited
                   => Subprocesses'[p] = Subprocesses[p]
<1>1. IInv /\ [Next]_vars => [Final]_vars
  <2> SUFFICES ASSUME IInv, [Next]_vars PROVE Final
    OBVIOUS
  <2>1. CASE UNCHANGED Subprocesses
    BY <2>1
  <2>2. CASE Creates
    BY <2>2 DEF Creates, IInv, TypeOK
  <2>3. ASSUME NEW s, Becomes(s) PROVE Final
    BY <2>3 DEF Becomes, Current, IInv, TypeOK
  <2> QED
    BY <2>1, <2>2, <2>3, StepEffect DEF Leaves, Ticks
<1> QED
  BY <1>1, InvariantIInv, PTL DEF Spec, ExitIsFinal

----------------------------------------------------------------------------
(* No subprocess runs more instructions than its budget (BudgetKept). *)

LEMMA NextBudgetKept == IInv /\ BudgetKept /\ [Next]_vars => BudgetKept'
<1> SUFFICES ASSUME IInv, BudgetKept, [Next]_vars PROVE BudgetKept'
  OBVIOUS
<1> DEFINE Within(s) == s.TicksToExecute # 0 => s.TicksExecuted <= s.TicksToExecute
<1>1. CASE UNCHANGED Subprocesses
  BY <1>1 DEF BudgetKept
<1>2. CASE Creates
  <2>1. \A offset \in Word, budget \in 0 .. UINT32_MAX :
           Within(NewSubprocess(offset, budget))
    BY UINT32_MAXAssumption DEF NewSubprocess
  <2> QED
    BY <1>2, <2>1 DEF Creates, BudgetKept, IInv, TypeOK
<1>3. ASSUME NEW s, Becomes(s), Within(s) PROVE BudgetKept'
  BY <1>3 DEF Becomes, BudgetKept, IInv, TypeOK
<1>4. ASSUME Current \in SubprocessRecords, CurrentSubprocessId \in Id
      PROVE  Within(Current)
  BY <1>4, NULLAssumption DEF BudgetKept, Current
<1>5. ASSUME NEW s, Becomes(s), s.TicksExecuted = Current.TicksExecuted
      PROVE  Within(s)
  BY <1>4, <1>5 DEF Becomes
<1>6. ASSUME NEW s, Becomes(s), Counts(s), ~TimedOut(Current)
      PROVE  Within(s)
  BY <1>4, <1>6, UINT32_MAXAssumption
     DEF Becomes, Counts, NextTick, TimedOut, SubprocessRecords
<1> QED
  BY <1>1, <1>2, <1>3, <1>5, <1>6, StepEffect DEF Leaves, Ticks

(* A subprocess with a budget never runs more instructions than it allows.    *)
THEOREM BudgetsKept == Spec => []BudgetKept
<1>1. Init => BudgetKept
  BY DEF Init, BudgetKept
<1> QED
  BY <1>1, NextBudgetKept, InvariantIInv, PTL DEF Spec

----------------------------------------------------------------------------
(* Equal shares (FairShare).  The existential witness n is the count with  *)
(* which all live subprocesses entered the current round; it moves on by a *)
(* quantum when the search steps from subprocess 0, the last in the order, *)
(* to the first.                                                           *)

Count == 0 .. UINT32_MAX
ShareFrom(n) ==
    \A p \in Id : Live(p) => Subprocesses[p].TicksExecuted = TicksAfter(n, Lead(p))

LEMMA FairShareIff == FairShare <=> (Executing => \E n \in Count : ShareFrom(n))
  BY DEF FairShare, ShareFrom, Count

LEMMA QuantumFacts ==
  ASSUME IInv
  PROVE  /\ TicksPerProcessIteration \in 1 .. UINT32_MAX
         /\ UINT32_MAX \in Nat /\ UINT32_MAX > 0
         /\ SubprocessCnt \in Nat /\ SubprocessCnt > 0
         /\ CurrentSubprocessId \in Id
         /\ i \in Nat
  BY QuantaAssumption, UINT32_MAXAssumption, CntFact DEF IInv, TypeOK

LEMMA RankFacts ==
  ASSUME NEW p \in Id, NEW q \in Id
  PROVE  /\ Rank(p) \in Int /\ Rank(q) \in Int
         /\ Rank(p) >= 1 /\ Rank(p) <= SubprocessCnt
         /\ Rank(p) = Rank(q) => p = q
  BY CntFact DEF Rank, Id

(* A round begins: nobody live has had a tick of it. *)
LEMMA RoundStarts ==
  ASSUME NEW n \in Count, NEW q \in 1 .. UINT32_MAX
  PROVE  /\ TicksAfter(n, q) \in Count
         /\ TicksAfter(TicksAfter(n, q), 0) = TicksAfter(n, q)
  BY UINT32_MAXAssumption DEF TicksAfter, Count

(* Before execution starts nobody has run. *)
Fresh ==
    pc \in {"load", "read"} =>
        \A p \in Id : Subprocesses[p] # NULL =>
            ~Subprocesses[p].Exited /\ Subprocesses[p].TicksExecuted = 0

LEMMA NextFresh == IInv /\ Fresh /\ [Next]_vars => Fresh'
<1> SUFFICES ASSUME IInv, Fresh, [Next]_vars PROVE Fresh'
  OBVIOUS
<1>1. CASE pc \in {"load", "read"}
  <2>1. UNCHANGED Subprocesses \/ Creates
    BY <1>1, StepEffect DEF Leaves, Ticks, Becomes
  <2>2. CASE Creates
    BY <1>1, <2>2 DEF Fresh, Creates, NewSubprocess, IInv, TypeOK
  <2> QED
    BY <1>1, <2>1, <2>2 DEF Fresh
<1>2. CASE pc \notin {"load", "read"}
  <2>1. pc' \notin {"load", "read"}
    BY <1>2 DEF Next, Load, Run, Terminated, vars, OpenFails, OpenCodeFile,
                LoadsPastEnd, LoadIntersects, LoadWord, LoadFails, FinishLoad,
                StartExecution, GiveTurn, PassOver, AllExited, ExitsBeforeTick,
                InstructionContinues, InstructionExits, InstructionAborts,
                LeaveSlice, CountTick
  <2> QED
    BY <2>1 DEF Fresh
<1> QED
  BY <1>1, <1>2

LEMMA StartIsFair ==
  ASSUME IInv, Fresh, StartExecution
  PROVE  FairShare'
<1>1. PICK n \in Count : TicksAfter(n, TicksPerProcessIteration) = 0
  <2>1. /\ UINT32_MAX + 1 - TicksPerProcessIteration \in Count
        /\ TicksAfter(UINT32_MAX + 1 - TicksPerProcessIteration,
                      TicksPerProcessIteration) = 0
    BY QuantumFacts DEF Count, TicksAfter
  <2> QED
    BY <2>1
<1>2. \A p \in Id : Lead(p)' = TicksPerProcessIteration
  BY CntFact DEF StartExecution, Lead, Rank, Id
<1>3. \A p \in Id : Live(p)' => Subprocesses'[p].TicksExecuted = 0
  BY DEF StartExecution, Live, Fresh
<1>4. \A p \in Id : Live(p)' =>
         Subprocesses'[p].TicksExecuted = TicksAfter(n, Lead(p)')
  BY <1>1, <1>2, <1>3
<1> QED
  BY <1>4 DEF FairShare, Count, TicksAfter

(* The order in which the search visits the subprocesses. *)
LEMMA NextRank ==
  ASSUME IInv
  PROVE  Rank(NextId) = IF CurrentSubprocessId = 0 THEN 1
                        ELSE Rank(CurrentSubprocessId) + 1
  BY QuantumFacts DEF Rank, NextId, Id

(* The search moves on: to the next subprocess of the round, or to the     *)
(* first subprocess of the next round.                                     *)
LEMMA SearchIsFair ==
  ASSUME IInv, FairShare, GiveTurn \/ PassOver
  PROVE  FairShare'
<1>1. pc = "find" /\ CurrentSubprocessId' = NextId /\ NextId \in Id
  BY NextIdType DEF GiveTurn, PassOver
<1>2. UNCHANGED <<Subprocesses, TicksPerProcessIteration>>
  BY DEF GiveTurn, PassOver
<1>3. \/ pc' = "slice" /\ i' = 0
      \/ pc' = "find" /\ ~Live(NextId)
  BY DEF GiveTurn, PassOver, Live
<1>4. PICK n \in Count : ShareFrom(n)
  BY <1>1, FairShareIff DEF Executing
<1>5. CASE CurrentSubprocessId # 0
  <2>1. ASSUME NEW p \in Id, Live(p) PROVE Lead(p)' = Lead(p)
    <3>1. /\ Rank(p)' = Rank(p)
          /\ Rank(CurrentSubprocessId)' = Rank(CurrentSubprocessId) + 1
      BY <1>1, <1>5, NextRank DEF Rank
    <3>2. /\ Rank(p) \in Int /\ Rank(CurrentSubprocessId) \in Int
          /\ Rank(p) = Rank(CurrentSubprocessId) => p = CurrentSubprocessId
          /\ p = CurrentSubprocessId' => Rank(p) = Rank(CurrentSubprocessId) + 1
      BY <1>1, <3>1, QuantumFacts, RankFacts
    <3>3. p = NextId => pc' = "slice" /\ i' = 0
      BY <1>3, <2>1
    <3> QED
      BY <1>1, <1>2, <1>3, <3>1, <3>2, <3>3 DEF Lead
  <2>2. ShareFrom(n)'
    BY <1>2, <1>4, <2>1 DEF ShareFrom, Live, TicksAfter
  <2> QED
    BY <1>4, <2>2, FairShareIff DEF FairShare, ShareFrom, Count, TicksAfter
<1>6. CASE CurrentSubprocessId = 0
  <2>1. ASSUME NEW p \in Id, Live(p)
        PROVE  Lead(p) = TicksPerProcessIteration /\ Lead(p)' = 0
    <3>1. Rank(CurrentSubprocessId) = SubprocessCnt
            /\ Rank(CurrentSubprocessId)' = 1 /\ Rank(p)' = Rank(p)
      BY <1>1, <1>6, NextRank DEF Rank
    <3>2. /\ Rank(p) \in Int /\ Rank(p) >= 1 /\ Rank(p) <= SubprocessCnt
          /\ Rank(p) = SubprocessCnt => p = CurrentSubprocessId
      BY <3>1, QuantumFacts, RankFacts
    <3>3. p = NextId => pc' = "slice" /\ i' = 0
      BY <1>3, <2>1
    <3> QED
      BY <1>1, <1>2, <1>3, <3>1, <3>2, <3>3, QuantumFacts DEF Lead
  <2> DEFINE m == TicksAfter(n, TicksPerProcessIteration)
  <2>2. m \in Count /\ TicksAfter(m, 0) = m
    BY <1>4, QuantumFacts, RoundStarts
  <2> HIDE DEF m
  <2>3. \A p \in Id : Live(p)' =>
           Subprocesses'[p].TicksExecuted = TicksAfter(m, Lead(p)')
    BY <1>2, <1>4, <2>1, <2>2 DEF ShareFrom, Live, m
  <2> QED
    BY <2>2, <2>3 DEF FairShare, Count, TicksAfter
<1> QED
  BY <1>5, <1>6

(* The current subprocess runs or leaves; nobody else's share changes. *)
LEMMA RunIsFair ==
  ASSUME IInv, FairShare, NEW s, Leaves(s) \/ (Ticks(s) /\ Counts(s))
  PROVE  FairShare'
<1>1. /\ pc = "slice" /\ Becomes(s) /\ CurrentSubprocessId' = CurrentSubprocessId
      /\ TicksPerProcessIteration' = TicksPerProcessIteration
  BY DEF Leaves, Ticks, Becomes
<1>2. PICK n \in Count : ShareFrom(n)
  BY <1>1, FairShareIff DEF Executing
<1>3. ASSUME NEW p \in Id, p # CurrentSubprocessId
      PROVE  /\ Lead(p)' = Lead(p)
             /\ Subprocesses'[p] = Subprocesses[p]
  <2>1. pc' \in {"slice", "find"}
    BY DEF Leaves, Ticks, LeaveSlice, CountTick
  <2>2. Subprocesses'[p] = Subprocesses[p]
    BY <1>1, <1>3 DEF Becomes, IInv, TypeOK
  <2> QED
    BY <1>1, <1>3, <2>1, <2>2 DEF Lead, Rank
<1>4. Subprocesses'[CurrentSubprocessId] = s
  BY <1>1 DEF Becomes, IInv, TypeOK
<1>5. CASE Leaves(s)
  <2>1. ~Live(CurrentSubprocessId)'
    BY <1>1, <1>4, <1>5 DEF Leaves, Live
  <2>2. \A p \in Id : Live(p)' => p # CurrentSubprocessId /\ Live(p)
    BY <1>1, <1>3, <2>1 DEF Live
  <2> QED
    BY <1>2, <1>3, <2>2 DEF FairShare, ShareFrom, Count, TicksAfter
<1>6. CASE Ticks(s) /\ Counts(s)
  <2>1. \A p \in Id : p = CurrentSubprocessId => Lead(p) = i /\ Lead(p)' = i + 1
    BY <1>1, <1>6, QuantumFacts DEF Ticks, CountTick, LeaveSlice, Lead
  <2>2. i + 1 \in 1 .. UINT32_MAX
    BY <1>1, QuantumFacts DEF IInv, ControlOK
  <2>3. NextTick(TicksAfter(n, i), UINT32_MAX) = TicksAfter(n, i + 1)
    BY <1>2, <2>2, QuantumFacts DEF NextTick, TicksAfter, Count
  <2>4. Live(CurrentSubprocessId)
    BY <1>1, NULLAssumption DEF Becomes, Live, Current
  <2>5. s.TicksExecuted = TicksAfter(n, i + 1)
    BY <1>1, <1>2, <1>6, <2>1, <2>3, <2>4
       DEF ShareFrom, Counts, Current, Becomes
  <2>6. ASSUME NEW p \in Id, Live(p)'
        PROVE  Subprocesses'[p].TicksExecuted = TicksAfter(n, Lead(p)')
    <3>1. CASE p = CurrentSubprocessId
      BY <1>4, <2>1, <2>5, <3>1
    <3>2. CASE p # CurrentSubprocessId
      BY <1>2, <1>3, <2>6, <3>2 DEF ShareFrom, Live
    <3> QED
      BY <3>1, <3>2
  <2> QED
    BY <1>2, <2>6 DEF FairShare, Count, TicksAfter
<1> QED
  BY <1>5, <1>6

LEMMA NextFairShare == IInv /\ Fresh /\ FairShare /\ [Next]_vars => FairShare'
<1> SUFFICES ASSUME IInv, Fresh, FairShare, [Next]_vars PROVE FairShare'
  OBVIOUS
<1>1. CASE StartExecution
  BY <1>1, StartIsFair
<1>2. CASE GiveTurn \/ PassOver
  BY <1>2, SearchIsFair
<1>3. CASE ExitsBeforeTick
  BY <1>3, ExitsBeforeTickLeaves, RunIsFair
<1>4. CASE InstructionContinues \/ InstructionExits
  BY <1>4, InstructionEffect, RunIsFair
<1>5. CASE UNCHANGED vars
  BY <1>5 DEF FairShare, Executing, Live, TicksAfter, Lead, Rank, vars
<1>6. CASE Load \/ AllExited \/ InstructionAborts
  BY <1>6 DEF Load, OpenFails, OpenCodeFile, LoadsPastEnd, LoadIntersects,
              LoadWord, LoadFails, FinishLoad, AllExited, InstructionAborts,
              FairShare, Executing
<1> QED
  BY <1>1, <1>2, <1>3, <1>4, <1>5, <1>6 DEF Next, Run, Terminated

(* All live subprocesses have run the same number of instructions, but for    *)
(* the quantum that the current round of turns has given only to some.        *)
THEOREM SharesAreFair == Spec => []FairShare
<1>1. Init => Fresh /\ FairShare
  BY DEF Init, Fresh, FairShare, Executing
<1> QED
  BY <1>1, NextFresh, NextFairShare, InvariantIInv, PTL DEF Spec

----------------------------------------------------------------------------
(* The exit code a subprocess is left with is its own (ExitCodeIsOwn),     *)
(* although InstructionSet_ExitCode is never cleared: an instruction that  *)
(* exits has set it itself (ExitCodeOfExecute).                            *)

LEMMA OutcomeExitCode ==
  ASSUME IInv, InstructionExits
  PROVE  Outcome.exitCode = IF RanReset THEN LowByte(Current.RegisterSet[0]) ELSE 1
<1> DEFINE m == [reg |-> Current.RegisterSet, mem |-> Memory, stdin |-> Stdin,
                 stdout |-> Stdout, exitCode |-> InstructionSet_ExitCode,
                 result |-> "continue"]
           raw == RawOperation(Current, Memory)
<1>1. m \in Machines /\ raw \in Word
  BY MachineBefore DEF InstructionExits
<1>2. GetInstructionId(raw) # INVALID_INSTRUCTION_ID
  BY DEF InstructionExits, InstructionRuns, CannotFetch
<1>3. Reg(m, 0) = Current.RegisterSet[0]
  BY DEF Reg
<1>4. Outcome = Execute(raw, m)
  BY DEF Outcome
<1> HIDE DEF m
<1>5. Execute(raw, m).result = "exit"
  BY <1>4 DEF InstructionExits
<1>6. RanReset <=> GetInstructionId(raw) = 24
  BY DEF RanReset, InstructionExits
<1> HIDE DEF raw
<1>7. Execute(raw, m).exitCode =
          IF GetInstructionId(raw) = 24 THEN LowByte(Reg(m, 0)) ELSE 1
  BY <1>1, <1>2, <1>5, ExitCodeOfExecute
<1> QED
  BY <1>3, <1>4, <1>6, <1>7

(* A subprocess that exits in a step exits with the low byte of its own R0,   *)
(* when its reset was the step, and with 1 when the executer killed it.       *)
THEOREM ExitCodesAreOwn == Spec => ExitCodeIsOwn
<1> DEFINE Code == IF RanReset THEN LowByte(Current.RegisterSet[0]) ELSE 1
           Own == \A p \in Id : Live(p) /\ Subprocesses'[p].Exited =>
                                   Subprocesses'[p].ExitCode = Code
<1>1. IInv /\ [Next]_vars => [Own]_vars
  <2> SUFFICES ASSUME IInv, [Next]_vars PROVE Own
    OBVIOUS
  <2>1. CASE UNCHANGED Subprocesses
    BY <2>1 DEF Live
  <2>2. CASE Creates
    BY <2>2 DEF Creates, Live, IInv, TypeOK
  <2>3. CASE ExitsBeforeTick
    <3>1. CurrentSubprocessId \in Id /\ Current \in SubprocessRecords
      BY <2>3, SubprocessFacts DEF ExitsBeforeTick, Executing
    <3>2. ~RanReset
      BY <2>3 DEF ExitsBeforeTick, RanReset, InstructionRuns
    <3>3. \A p \in Id : Subprocesses'[p] =
             IF p = CurrentSubprocessId THEN ExitWithError(Current) ELSE Subprocesses[p]
      BY <2>3, <3>1 DEF ExitsBeforeTick, Current, IInv, TypeOK
    <3>4. ExitWithError(Current).ExitCode = 1
      BY <3>1 DEF ExitWithError, SubprocessRecords
    <3> QED
      BY <3>2, <3>3, <3>4 DEF Live
  <2>4. CASE InstructionContinues \/ InstructionExits
    <3>1. CurrentSubprocessId \in Id /\ Current \in SubprocessRecords
      BY <2>4, SubprocessFacts
         DEF InstructionContinues, InstructionExits, InstructionRuns, Executing
    <3> DEFINE s == AfterInstruction(Current, Outcome, UINT32_MAX)
    <3>2. /\ s.Exited => Outcome.result = "exit"
          /\ Outcome.result = "exit" => s.ExitCode = Outcome.exitCode
      BY <3>1 DEF AfterInstruction, SubprocessRecords
    <3>3. Subprocesses' = [Subprocesses EXCEPT ![CurrentSubprocessId] = s]
      BY <2>4 DEF InstructionContinues, InstructionExits, TakeEffect, Current
    <3> HIDE DEF s
    <3>4. \A p \in Id : Subprocesses'[p] =
             IF p = CurrentSubprocessId THEN s ELSE Subprocesses[p]
      BY <3>1, <3>3 DEF IInv, TypeOK
    <3>5. s.Exited => InstructionExits
      BY <2>4, <3>2 DEF InstructionContinues
    <3>6. InstructionExits => Outcome.result = "exit" /\ Outcome.exitCode = Code
      BY OutcomeExitCode DEF InstructionExits
    <3> HIDE DEF Code
    <3>7. s.Exited => s.ExitCode = Code
      BY <3>2, <3>5, <3>6
    <3> QED
      BY <3>4, <3>7 DEF Live
  <2> HIDE DEF Own
  <2>5. CASE ~(FinishLoad \/ ExitsBeforeTick \/ InstructionContinues \/ InstructionExits)
    BY <2>1, <2>5, StepsThatLeaveSubprocesses
  <2> QED
    BY <2>2, <2>3, <2>4, <2>5, FinishLoadCreates
<1> QED
  BY <1>1, InvariantIInv, PTL DEF Spec, ExitCodeIsOwn

----------------------------------------------------------------------------
(* Images (ImagesLoaded).  While files are loaded, the nonzero words       *)
(* loaded so far are in place, since a word is stored only where memory is *)
(* still zero, and what is in memory and not zero is a word of a file.     *)

Words(p) == argv.files[p].words
Base(p) == argv.files[p].offset \div 2

(* The nonzero ones of the first n words of p's file are in place in mem. *)
InPlace(mem, p, n) ==
    \A k \in 1 .. n : Words(p)[k] # 0 => Read(mem, Base(p) + k - 1) = Words(p)[k]
FromFile(w) ==
    \E p \in Id : /\ w - Base(p) + 1 \in DOMAIN Words(p)
                  /\ Memory[w] = Words(p)[w - Base(p) + 1]

Images ==
    pc \in {"load", "read"} =>
        /\ \A p \in Id : p < loadId => InPlace(Memory, p, Len(Words(p)))
        /\ pc = "read" => loaded <= Len(Words(loadId)) /\ InPlace(Memory, loadId, loaded)
        /\ \A w \in DOMAIN Memory : Memory[w] # 0 => FromFile(w)

LEMMA FilesOfImages ==
  ASSUME IInv, NEW p \in Id
  PROVE  /\ Words(p) \in Seq(Word) /\ Len(Words(p)) \in Nat
         /\ Base(p) \in Nat
<1>1. argv.files[p] \in CodeFiles
  BY CommandLinesAssumption DEF IInv, TypeOK, Id
<1>2. argv.files[p].offset \in Int /\ argv.files[p].offset >= 0
  BY <1>1, WordIff DEF CodeFiles
<1> QED
  BY <1>1, <1>2 DEF CodeFiles, Words, Base

LEMMA LoadWordKeepsImages ==
  ASSUME IInv, Images, LoadWord
  PROVE  Images'
<1>1. /\ loadId \in Id /\ loaded \in Nat
      /\ loaded < Len(Words(loadId))
      /\ loadIndex = Base(loadId) + loaded
      /\ file.words = Words(loadId)
  BY FileFacts
     DEF LoadWord, IInv, TypeOK, ControlOK, file, loadIndex, Words, Base
<1>2. /\ Words(loadId) \in Seq(Word) /\ Len(Words(loadId)) \in Nat
      /\ Base(loadId) \in Nat
  BY <1>1, FilesOfImages
<1> DEFINE n == Base(loadId) + loaded
           x == Words(loadId)[loaded + 1]
<1>3. Memory' = Written(Memory, n, x) /\ Read(Memory, n) = 0
  BY <1>1 DEF LoadWord, Free
<1>4. \A w : Read(Memory', w) = IF w = n THEN x ELSE Read(Memory, w)
  BY <1>3 DEF Written, Read
<1>5. ASSUME NEW p \in Id, NEW k \in Nat, InPlace(Memory, p, k)
      PROVE  InPlace(Memory', p, k)
  <2> SUFFICES ASSUME NEW j \in 1 .. k, Words(p)[j] # 0
               PROVE  Read(Memory', Base(p) + j - 1) = Words(p)[j]
    BY DEF InPlace
  <2>1. Read(Memory, Base(p) + j - 1) = Words(p)[j]
    BY <1>5 DEF InPlace
  <2> HIDE DEF n
  <2> QED
    BY <1>3, <1>4, <2>1
<1>6. InPlace(Memory', loadId, loaded + 1)
  <2> SUFFICES ASSUME NEW j \in 1 .. loaded + 1, Words(loadId)[j] # 0
               PROVE  Read(Memory', Base(loadId) + j - 1) = Words(loadId)[j]
    BY DEF InPlace
  <2>1. CASE j = loaded + 1
    <3>1. Base(loadId) + j - 1 = n
      BY <1>1, <1>2, <2>1
    <3> QED
      BY <1>4, <2>1, <3>1
  <2>2. CASE j # loaded + 1
    <3>1. j \in 1 .. loaded
      BY <1>1, <2>2
    <3>2. InPlace(Memory', loadId, loaded)
      BY <1>1, <1>5 DEF Images, LoadWord
    <3> QED
      BY <3>1, <3>2 DEF InPlace
  <2> QED
    BY <2>1, <2>2
<1>7. ASSUME NEW w \in DOMAIN Memory', Memory'[w] # 0
      PROVE  FromFile(w)'
  <2>1. CASE w = n
    <3>1. w - Base(loadId) + 1 = loaded + 1 /\ loaded + 1 \in DOMAIN Words(loadId)
      BY <1>1, <1>2, <2>1
    <3>2. Memory'[w] = x
      BY <1>3, <2>1 DEF Written
    <3> QED
      BY <1>1, <3>1, <3>2 DEF FromFile, Words, Base, LoadWord
  <2>2. CASE w # n
    <3>1. w \in DOMAIN Memory /\ Memory'[w] = Memory[w]
      BY <1>3, <2>2 DEF Written
    <3>2. FromFile(w)
      BY <1>7, <3>1 DEF Images, LoadWord
    <3> QED
      BY <3>1, <3>2 DEF FromFile, Words, Base, LoadWord
  <2> QED
    BY <2>1, <2>2
<1>8. \A p \in Id : p < loadId => InPlace(Memory', p, Len(Words(p)))
  BY <1>5, FilesOfImages DEF Images, LoadWord
<1>9. UNCHANGED <<argv, pc, loadId>> /\ loaded' = loaded + 1
  BY DEF LoadWord
<1> QED
  BY <1>1, <1>2, <1>6, <1>7, <1>8, <1>9 DEF Images, InPlace, Words, Base

LEMMA NextImages == IInv /\ Images /\ [Next]_vars => Images'
<1> SUFFICES ASSUME IInv, Images, [Next]_vars PROVE Images'
  OBVIOUS
<1>1. CASE LoadWord
  BY <1>1, LoadWordKeepsImages
<1>2. CASE OpenCodeFile
  <2>1. loadId \in Id
    BY <1>2, FileFacts DEF OpenCodeFile
  <2>2. Len(Words(loadId)) \in Nat
    BY <2>1, FilesOfImages
  <2>3. UNCHANGED <<argv, Memory, loadId>> /\ pc = "load" /\ loaded' = 0
    BY <1>2 DEF OpenCodeFile
  <2> QED
    BY <2>2, <2>3 DEF Images, InPlace, FromFile, Words, Base
<1>3. CASE FinishLoad
  <2>1. /\ loadId \in Id /\ loaded = Len(Words(loadId)) /\ pc = "read"
        /\ UNCHANGED <<argv, Memory>> /\ loadId' = loadId + 1 /\ pc' = "load"
    BY <1>3, FileFacts
       DEF FinishLoad, IInv, ControlOK, TypeOK, file, Words
  <2>2. \A p \in Id : p < loadId' => p < loadId \/ p = loadId
    BY <2>1 DEF Id
  <2>3. \A p \in Id : p < loadId' => InPlace(Memory, p, Len(Words(p)))
    BY <2>1, <2>2 DEF Images
  <2> QED
    BY <2>1, <2>3 DEF Images, InPlace, FromFile, Words, Base
<1>4. CASE UNCHANGED vars
  BY <1>4 DEF Images, InPlace, FromFile, Words, Base, vars
<1>5. CASE ~(LoadWord \/ OpenCodeFile \/ FinishLoad \/ UNCHANGED vars)
  <2>1. pc' \notin {"load", "read"}
    BY <1>5 DEF Next, Load, Run, Terminated, OpenFails, LoadsPastEnd,
                LoadIntersects, LoadFails, StartExecution, GiveTurn, PassOver,
                AllExited, ExitsBeforeTick, InstructionContinues,
                InstructionExits, InstructionAborts, LeaveSlice, CountTick
  <2> QED
    BY <2>1 DEF Images
<1> QED
  BY <1>1, <1>2, <1>3, <1>4, <1>5

LEMMA ImagesMeanLoaded == IInv /\ Images => ImagesLoaded
<1> SUFFICES ASSUME IInv, Images, pc = "load", loadId = SubprocessCnt
             PROVE  /\ \A p \in Id : \A k \in DOMAIN Words(p) :
                          Words(p)[k] # 0 =>
                              Read(Memory, Base(p) + k - 1) = Words(p)[k]
                    /\ \A w \in DOMAIN Memory : Memory[w] # 0 => FromFile(w)
  BY DEF ImagesLoaded, Words, Base, FromFile
<1>1. \A p \in Id : DOMAIN Words(p) = 1 .. Len(Words(p)) /\ p < loadId
  BY FilesOfImages, CntFact DEF Id
<1> QED
  BY <1>1 DEF Images, InPlace

(* Once every code file is loaded, each nonzero word of a file is in its   *)
(* place in the shared memory, and each nonzero word there is from a file. *)
THEOREM ImagesAreLoaded == Spec => []ImagesLoaded
<1>1. Init => Images
  BY DEF Init, Images, InPlace, Id
<1> QED
  BY <1>1, ImagesMeanLoaded, NextImages, InvariantIInv, PTL DEF Spec

(* A zero word of an image may be gone: LoadSubprocess takes it for free   *)
(* memory.  That can only happen where images share a word: if no two do,  *)
(* every word of every file is in its place, the zeros too.                *)
Occupied(p) == {w \in Int : w - Base(p) + 1 \in DOMAIN Words(p)}
ImagesApart == \A p, q \in Id : p # q => Occupied(p) \cap Occupied(q) = {}
ApartImagesWhole ==
    pc = "load" /\ loadId = SubprocessCnt /\ ImagesApart =>
        \A p \in Id : \A k \in DOMAIN Words(p) :
            Read(Memory, Base(p) + k - 1) = Words(p)[k]

LEMMA LoadedApartIsWhole == IInv /\ ImagesLoaded => ApartImagesWhole
<1> SUFFICES ASSUME IInv, ImagesLoaded, ImagesApart,
                    pc = "load", loadId = SubprocessCnt,
                    NEW p \in Id, NEW k \in DOMAIN Words(p)
             PROVE  Read(Memory, Base(p) + k - 1) = Words(p)[k]
  BY DEF ApartImagesWhole
<1> DEFINE w == Base(p) + k - 1
<1>1. k \in Int /\ Base(p) \in Int /\ w \in Int /\ w - Base(p) + 1 = k
  BY FilesOfImages
<1>2. CASE Words(p)[k] # 0
  BY <1>2 DEF ImagesLoaded, Words, Base
<1>3. CASE Words(p)[k] = 0
  <2> SUFFICES ASSUME w \in DOMAIN Memory, Memory[w] # 0
               PROVE  FALSE
    BY <1>3 DEF Read
  <2>1. PICK q \in Id : /\ w - Base(q) + 1 \in DOMAIN Words(q)
                        /\ Memory[w] = Words(q)[w - Base(q) + 1]
    BY DEF ImagesLoaded, Words, Base
  <2>2. w \in Occupied(p) /\ w \in Occupied(q)
    BY <1>1, <2>1 DEF Occupied
  <2>3. p = q
    BY <2>2 DEF ImagesApart
  <2> QED
    BY <1>1, <1>3, <2>1, <2>3
<1> QED
  BY <1>2, <1>3

(* Images that share no word are in memory whole when execution starts.    *)
THEOREM ApartImagesAreWhole == Spec => []ApartImagesWhole
  BY ImagesAreLoaded, InvariantIInv, LoadedApartIsWhole, PTL

(* The safety invariants together. *)
EInv == IInv /\ BudgetKept /\ Fresh /\ FairShare /\ Images

LEMMA InitEInv == Init => EInv
<1>1. Init => BudgetKept /\ Fresh /\ FairShare
  BY DEF Init, BudgetKept, Fresh, FairShare, Executing
<1>2. Init => Images
  BY DEF Init, Images, InPlace, Id
<1> QED
  BY <1>1, <1>2, InitIInv DEF EInv

LEMMA NextEInv == EInv /\ [Next]_vars => EInv'
  BY NextIInv, NextBudgetKept, NextFresh, NextFairShare, NextImages DEF EInv

----------------------------------------------------------------------------
(* The refinement (SchedulesRoundRobin): every step of the executer gives  *)
(* a turn, ticks, ends a turn by an exit or stops the scheduler as         *)
(* RoundRobin allows, or is no step of the scheduler.                      *)

(* The state of RoundRobin that RR maps the state of the executer to. *)
live == {p \in Id : Subprocesses[p] = NULL \/ Live(p)}
turn == IF pc = "find"
        THEN (CurrentSubprocessId - i + SubprocessCnt) % SubprocessCnt
        ELSE CurrentSubprocessId
left == IF pc = "slice" \/ (pc = "aborted" /\ loadId = SubprocessCnt)
        THEN TicksPerProcessIteration - i ELSE 0
stopped == pc = "done"
bar == <<TicksPerProcessIteration, live, turn, left, stopped>>

(* What the search has passed over is not live: the subprocesses up to i   *)
(* steps ahead of the one that had the turn.  The first search starts at   *)
(* subprocess 0, which RoundRobin takes to have had the turn.              *)
Searched ==
    /\ pc = "find" => \A p \in Id : Live(p) => RR!Ahead(turn, p) > i
    /\ pc \in {"load", "read"} => CurrentSubprocessId = 0

----------------------------------------------------------------------------
(* The circle. *)

(* Arithmetic modulo N on sums that are less than 2 * N. *)
LEMMA Modulo ==
  ASSUME NEW N \in Nat, N > 0, NEW a \in Nat, a < 2 * N
  PROVE  a % N = IF a < N THEN a ELSE a - N
<1>1. CASE a < N
  BY <1>1
<1>2. CASE ~(a < N)
  BY <1>2
<1> QED
  BY <1>1, <1>2

(* k steps back on the circle from c. *)
LEMMA StepsBack ==
  ASSUME NEW c \in Id, NEW k \in Nat, k < SubprocessCnt
  PROVE  (c - k + SubprocessCnt) % SubprocessCnt =
             IF k <= c THEN c - k ELSE c - k + SubprocessCnt
<1>1. c \in Nat /\ c < SubprocessCnt
  BY CntFact DEF Id
<1> DEFINE a == c - k + SubprocessCnt
<1>2. a \in Nat /\ a < 2 * SubprocessCnt
  BY <1>1, CntFact
<1>3. a % SubprocessCnt = IF a < SubprocessCnt THEN a ELSE a - SubprocessCnt
  BY <1>2, CntFact, Modulo
<1> QED
  BY <1>1, <1>3, CntFact

LEMMA TurnInSearch ==
  ASSUME IInv, pc = "find"
  PROVE  turn = IF i <= CurrentSubprocessId THEN CurrentSubprocessId - i
                ELSE CurrentSubprocessId - i + SubprocessCnt
<1>1. CurrentSubprocessId \in Id /\ i \in Nat /\ i < SubprocessCnt
  BY QuantumFacts DEF IInv, ControlOK
<1> QED
  BY <1>1, StepsBack DEF turn

(* The next subprocess the search looks at is i + 1 steps ahead of the one *)
(* that had the turn, and the only one that is.                            *)
LEMMA NextAhead ==
  ASSUME IInv, pc = "find"
  PROVE  /\ turn \in Id
         /\ RR!Ahead(turn, NextId) = i + 1
         /\ \A p \in Id : RR!Ahead(turn, p) = i + 1 => p = NextId
         /\ \A p \in Id : RR!Ahead(turn, p) \in 1 .. SubprocessCnt
<1>1. /\ CurrentSubprocessId \in Int /\ 0 <= CurrentSubprocessId
      /\ CurrentSubprocessId < SubprocessCnt
      /\ i \in Nat /\ i < SubprocessCnt
  BY QuantumFacts DEF IInv, ControlOK, Id
<1>2. turn = IF i <= CurrentSubprocessId THEN CurrentSubprocessId - i
             ELSE CurrentSubprocessId - i + SubprocessCnt
  BY TurnInSearch
<1> HIDE DEF turn
<1> QED
  BY <1>1, <1>2, CntFact DEF RR!Ahead, NextId, Id

----------------------------------------------------------------------------
(* The search, and what it means for the turn. *)

LEMMA SearchGoesOn ==
  ASSUME IInv, PassOver
  PROVE  turn' = turn
<1>1. /\ pc = "find" /\ pc' = "find" /\ i' = i + 1
      /\ CurrentSubprocessId' = NextId /\ i + 1 # SubprocessCnt
  BY DEF PassOver, Advance, LastRound
<1>2. IInv'
  BY SearchKeepsIInv
<1>3. turn = IF i <= CurrentSubprocessId THEN CurrentSubprocessId - i
             ELSE CurrentSubprocessId - i + SubprocessCnt
  BY <1>1, TurnInSearch
<1>4. turn' = IF i' <= CurrentSubprocessId' THEN CurrentSubprocessId' - i'
              ELSE CurrentSubprocessId' - i' + SubprocessCnt
  <2>1. CurrentSubprocessId' \in Id /\ i' \in Nat /\ i' < SubprocessCnt
    BY <1>1, <1>2 DEF IInv, TypeOK, ControlOK
  <2> QED
    BY <1>1, <2>1, StepsBack DEF turn
<1>5. /\ CurrentSubprocessId \in Int /\ 0 <= CurrentSubprocessId
      /\ CurrentSubprocessId < SubprocessCnt
      /\ i \in Nat /\ i + 1 < SubprocessCnt
  BY <1>1, QuantumFacts DEF IInv, ControlOK, Id
<1> HIDE DEF turn
<1> QED
  BY <1>1, <1>3, <1>4, <1>5, CntFact DEF NextId

(* A turn that ends leaves the search where it was. *)
LEMMA TurnEnds ==
  ASSUME IInv, pc = "slice", LeaveSlice,
         UNCHANGED CurrentSubprocessId
  PROVE  turn' = turn
<1>1. /\ CurrentSubprocessId \in Id /\ 0 \in Nat /\ 0 < SubprocessCnt
      /\ 0 <= CurrentSubprocessId /\ CurrentSubprocessId - 0 = CurrentSubprocessId
  BY QuantumFacts DEF Id
<1>2. (CurrentSubprocessId - 0 + SubprocessCnt) % SubprocessCnt = CurrentSubprocessId
  BY <1>1, StepsBack
<1> QED
  BY <1>2 DEF turn, LeaveSlice

(* The search finds nothing live before NextId, also once it has passed    *)
(* over it.                                                                *)
LEMMA NextSearched == IInv /\ Searched /\ [Next]_vars => Searched'
<1> SUFFICES ASSUME IInv, Searched, [Next]_vars PROVE Searched'
  OBVIOUS
<1>1. CASE StartExecution
  <2>1. /\ pc' = "find" /\ i' = 0 /\ CurrentSubprocessId' = 0
        /\ 0 \in Id /\ IInv'
    BY <1>1, CntFact, SearchKeepsIInv DEF StartExecution, Id
  <2>2. \A p \in Id : RR!Ahead(turn', p) > 0
    <3>1. turn' = 0
      BY <2>1, CntFact, StepsBack DEF turn
    <3> QED
      BY <3>1, CntFact DEF RR!Ahead, Id
  <2> QED
    BY <2>1, <2>2 DEF Searched
<1>2. CASE GiveTurn \/ AllExited
  BY <1>2 DEF GiveTurn, AllExited, Searched
<1>3. CASE PassOver
  <2>1. /\ pc = "find" /\ pc' = "find" /\ i' = i + 1 /\ turn' = turn
        /\ UNCHANGED Subprocesses /\ ~Live(NextId) /\ i \in Nat
    BY <1>3, SearchGoesOn, QuantumFacts
       DEF PassOver, Advance, Continuing, Live
  <2>2. \A p \in Id : Live(p) =>
           /\ RR!Ahead(turn, p) \in Int /\ RR!Ahead(turn, p) > i
           /\ RR!Ahead(turn, p) # i + 1
    BY <2>1, NextAhead DEF Searched
  <2>3. \A p \in Id : Live(p) => RR!Ahead(turn, p) > i + 1
    BY <2>1, <2>2
  <2> HIDE DEF turn
  <2> QED
    BY <2>1, <2>3 DEF Searched, Live
<1>4. CASE ExitsBeforeTick \/ InstructionContinues \/ InstructionExits
  <2>1. pc = "slice" /\ IInv' /\ pc' \notin {"load", "read"}
    BY <1>4, NextIInv
       DEF ExitsBeforeTick, InstructionContinues, InstructionExits, InstructionRuns,
           LeaveSlice, CountTick
  <2>2. pc' = "find" => i' = 0
    BY <1>4 DEF ExitsBeforeTick, InstructionContinues, InstructionExits, LeaveSlice,
                CountTick
  <2>3. pc' = "find" => \A p \in Id : RR!Ahead(turn, p)' > 0
    <3>1. pc' = "find" => turn' \in Int /\ 0 <= turn' /\ turn' < SubprocessCnt
      <4>1. CurrentSubprocessId' \in Id /\ 0 < SubprocessCnt
        BY <2>1, CntFact DEF IInv, TypeOK
      <4>2. (CurrentSubprocessId' - 0 + SubprocessCnt) % SubprocessCnt \in Id
        BY <4>1, StepsBack DEF Id
      <4> QED
        BY <2>2, <4>2, CntFact DEF turn, Id
    <3> HIDE DEF turn
    <3> QED
      BY <3>1, CntFact DEF RR!Ahead, Id
  <2> HIDE DEF turn
  <2> QED
    BY <2>1, <2>2, <2>3 DEF Searched
<1>5. CASE Load \/ InstructionAborts \/ UNCHANGED vars
  BY <1>5 DEF Load, OpenFails, OpenCodeFile, LoadsPastEnd, LoadIntersects,
              LoadWord, LoadFails, FinishLoad, Ends, InstructionAborts,
              Opening, WordLeft, FileRead, running,
              Searched, Live, turn, vars
<1> QED
  BY <1>1, <1>2, <1>3, <1>4, <1>5 DEF Next, Run, Terminated

----------------------------------------------------------------------------
(* Each step of the executer, as RoundRobin sees it. *)

LEMMA InitScheduler == Init => RR!Init
<1> SUFFICES ASSUME Init PROVE RR!Init
  OBVIOUS
<1>1. /\ TicksPerProcessIteration \in Nat \ {0}
      /\ live = Id /\ turn = 0 /\ left = 0 /\ stopped = FALSE
  BY QuantaAssumption, UINT32_MAXAssumption
     DEF Init, live, turn, left, stopped
<1> QED
  BY <1>1 DEF RR!Init, RR!Id, Id, live, turn, left, stopped

LEMMA GiveTurnPassesTurn ==
  ASSUME IInv, Searched, GiveTurn
  PROVE  RR!PassTurn
<1>1. /\ pc = "find" /\ pc' = "slice" /\ i' = 0
      /\ CurrentSubprocessId' = NextId /\ NextId \in Id
      /\ UNCHANGED <<Subprocesses, TicksPerProcessIteration>>
      /\ ~Subprocesses[NextId].Exited
  BY NextIdType DEF GiveTurn, Advance, Continuing, fixed
<1>2. \A p \in Id : Subprocesses[p] # NULL
  BY <1>1, CntFact DEF IInv, ControlOK, Executing, Id
<1>3. NextId \in live /\ \A p \in live : p \in Id /\ Live(p)
  BY <1>1, <1>2 DEF live, Live
<1>4. \A r \in live : RR!Ahead(turn, NextId) <= RR!Ahead(turn, r)
  <2>1. \A r \in live : RR!Ahead(turn, r) \in Int /\ RR!Ahead(turn, r) > i
    BY <1>1, <1>3, NextAhead DEF Searched
  <2>2. RR!Ahead(turn, NextId) = i + 1 /\ i \in Nat
    BY <1>1, NextAhead, QuantumFacts
  <2> QED
    BY <2>1, <2>2
<1>5. /\ left = 0 /\ left' = TicksPerProcessIteration
      /\ turn' = NextId /\ live' = live /\ stopped' = stopped
      /\ TicksPerProcessIteration' = TicksPerProcessIteration
  BY <1>1, QuantumFacts DEF left, turn, live, Live, stopped
<1>6. \E q \in live : /\ \A r \in live : RR!Ahead(turn, q) <= RR!Ahead(turn, r)
                       /\ turn' = q
  BY <1>3, <1>4, <1>5
<1> QED
  BY <1>5, <1>6 DEF RR!PassTurn, left, turn, live, stopped

LEMMA AllExitedStops ==
  ASSUME IInv, Searched, AllExited
  PROVE  RR!Stop
<1>1. /\ pc = "find" /\ pc' = "done" /\ i' = 0 /\ i + 1 = SubprocessCnt
      /\ CurrentSubprocessId' = NextId /\ NextId \in Id
      /\ UNCHANGED <<Subprocesses, TicksPerProcessIteration>>
      /\ Subprocesses[NextId].Exited
  BY NextIdType DEF AllExited, Advance, Continuing, LastRound, fixed
<1>2. \A p \in Id : Subprocesses[p] # NULL
  BY <1>1, CntFact DEF IInv, ControlOK, Executing, Id
<1>3. turn \in Id /\ RR!Ahead(turn, turn) = SubprocessCnt
  BY <1>1, NextAhead, CntFact DEF RR!Ahead, Id
<1>4. turn = NextId
  BY <1>1, <1>3, NextAhead
<1>5. \A p \in Id : ~Live(p)
  <2> SUFFICES ASSUME NEW p \in Id, Live(p) PROVE FALSE
    OBVIOUS
  <2>1. RR!Ahead(turn, p) \in 1 .. SubprocessCnt /\ RR!Ahead(turn, p) > i
    BY <1>1, NextAhead DEF Searched
  <2>2. RR!Ahead(turn, p) = i + 1
    BY <1>1, <2>1, QuantumFacts
  <2>3. p = NextId
    BY <1>1, <2>2, NextAhead
  <2> QED
    BY <1>1, <2>3 DEF Live
<1>6. /\ live = {} /\ live' = live /\ left = 0 /\ left' = left
      /\ ~stopped /\ stopped' = TRUE /\ turn' = turn
  <2>1. live = {} /\ live' = live
    BY <1>1, <1>2, <1>5 DEF live, Live
  <2>2. turn' = turn
    BY <1>1, <1>4 DEF turn
  <2> QED
    BY <1>1, <2>1, <2>2 DEF left, stopped
<1> QED
  BY <1>1, <1>6 DEF RR!Stop, left, turn, live, stopped

(* What running the current subprocess does to the set of live ones. *)
LEMMA LiveAfterRun ==
  ASSUME IInv, NEW s, Becomes(s)
  PROVE  /\ CurrentSubprocessId \in live
         /\ s.Exited => live' = live \ {CurrentSubprocessId}
         /\ ~s.Exited => live' = live
<1>1. /\ CurrentSubprocessId \in Id /\ s # NULL
      /\ \A p \in Id : Subprocesses[p] # NULL
      /\ ~Subprocesses[CurrentSubprocessId].Exited
  BY CntFact, NULLAssumption
     DEF Becomes, Current, IInv, TypeOK, ControlOK, Executing, Id
<1>2. \A p \in Id : Subprocesses'[p] =
         IF p = CurrentSubprocessId THEN s ELSE Subprocesses[p]
  BY <1>1 DEF Becomes, IInv, TypeOK
<1> QED
  BY <1>1, <1>2 DEF live, Live

LEMMA LeavingIsExit ==
  ASSUME IInv, NEW s, Leaves(s)
  PROVE  RR!Exit
<1>1. /\ pc = "slice" /\ Becomes(s) /\ s.Exited /\ pc' = "find" /\ i' = 0
      /\ LeaveSlice /\ UNCHANGED <<CurrentSubprocessId, TicksPerProcessIteration>>
  BY DEF Leaves, Becomes, LeaveSlice
<1>2. turn' = turn /\ turn = CurrentSubprocessId
  BY <1>1, TurnEnds DEF turn
<1>3. CurrentSubprocessId \in live /\ live' = live \ {CurrentSubprocessId}
  BY <1>1, LiveAfterRun
<1>4. left > 0 /\ left' = 0 /\ stopped' = stopped
  BY <1>1, QuantumFacts DEF left, stopped, IInv, ControlOK
<1>5. /\ turn \in live /\ live' = live \ {turn}
  BY <1>2, <1>3
<1> QED
  BY <1>1, <1>2, <1>4, <1>5 DEF RR!Exit, left, turn, live, stopped

LEMMA TickingIsTick ==
  ASSUME IInv, NEW s, Ticks(s)
  PROVE  RR!Tick
<1>1. /\ pc = "slice" /\ Becomes(s) /\ ~s.Exited /\ CountTick
      /\ UNCHANGED <<CurrentSubprocessId, TicksPerProcessIteration>>
  BY DEF Ticks, Becomes
<1>2. turn' = turn
  <2>1. CASE LeaveSlice
    BY <1>1, <2>1, TurnEnds
  <2>2. CASE pc' = "slice"
    BY <1>1, <2>2 DEF turn
  <2> QED
    BY <1>1, <2>1, <2>2 DEF CountTick
<1>3. live' = live
  BY <1>1, LiveAfterRun
<1>4. left > 0 /\ left' = left - 1
  BY <1>1, QuantumFacts DEF left, CountTick, LeaveSlice, IInv, ControlOK
<1>5. stopped' = stopped
  BY <1>1 DEF stopped, CountTick, LeaveSlice
<1> QED
  BY <1>1, <1>2, <1>3, <1>4, <1>5 DEF RR!Tick, left, turn, live, stopped

(* Loading, starting, the rounds of the search that find nobody and an     *)
(* abort are no steps of the scheduler.                                    *)
LEMMA OthersStutter ==
  ASSUME IInv, Searched,
         \/ Load \/ StartExecution \/ PassOver \/ InstructionAborts
         \/ UNCHANGED vars
  PROVE  UNCHANGED bar
<1>1. CASE FinishLoad
  <2>1. live' = live
    <3>1. Creates
      BY <1>1, FinishLoadCreates
    <3>2. PICK offset \in Word, budget \in 0 .. UINT32_MAX :
             Subprocesses' = [Subprocesses EXCEPT ![loadId] =
                                 NewSubprocess(offset, budget)]
      BY <3>1 DEF Creates
    <3>3. NewSubprocess(offset, budget).Exited = FALSE
      BY DEF NewSubprocess
    <3> DEFINE s == NewSubprocess(offset, budget)
    <3> HIDE DEF s
    <3>4. \A p \in Id : Subprocesses'[p] = IF p = loadId THEN s ELSE Subprocesses[p]
      BY <3>2 DEF IInv, TypeOK, s
    <3> QED
      BY <3>1, <3>3, <3>4 DEF live, Live, Creates, s
  <2>2. /\ pc = "read" /\ pc' = "load"
        /\ UNCHANGED <<CurrentSubprocessId, TicksPerProcessIteration>>
    BY <1>1 DEF FinishLoad, FileRead, fixed, running
  <2> QED
    BY <2>1, <2>2 DEF bar, turn, left, stopped
<1>2. CASE StartExecution
  <2>1. /\ pc = "load" /\ pc' = "find" /\ i' = 0 /\ CurrentSubprocessId' = 0
        /\ UNCHANGED <<Subprocesses, TicksPerProcessIteration>>
        /\ CurrentSubprocessId = 0
    BY <1>2 DEF StartExecution, fixed, Searched
  <2>2. turn' = 0
    BY <2>1, StepsBack, CntFact DEF turn, Id
  <2> QED
    BY <2>1, <2>2 DEF bar, live, Live, left, turn, stopped
<1>3. CASE PassOver
  <2>1. turn' = turn
    BY <1>3, SearchGoesOn
  <2>2. /\ pc = "find" /\ pc' = "find"
        /\ UNCHANGED <<Subprocesses, TicksPerProcessIteration>>
    BY <1>3 DEF PassOver, Advance, fixed
  <2> QED
    BY <2>1, <2>2 DEF bar, live, Live, left, stopped
<1>4. CASE InstructionAborts
  <2>1. /\ pc = "slice" /\ pc' = "aborted" /\ loadId = SubprocessCnt
        /\ UNCHANGED <<Subprocesses, TicksPerProcessIteration,
                       CurrentSubprocessId, i, loadId>>
    BY <1>4 DEF InstructionAborts, InstructionRuns, Ends, fixed, loading,
                running, IInv, ControlOK, Executing
  <2> QED
    BY <2>1 DEF bar, live, Live, turn, left, stopped
<1>5. CASE OpenFails \/ LoadsPastEnd \/ LoadIntersects \/ LoadFails
  <2>1. /\ pc \in {"load", "read"} /\ pc' \in {"failed", "aborted"}
        /\ UNCHANGED <<Subprocesses, TicksPerProcessIteration,
                       CurrentSubprocessId, i, loadId>>
        /\ loadId # SubprocessCnt
    BY <1>5, CntFact
       DEF OpenFails, LoadsPastEnd, LoadIntersects, LoadFails, Ends, Opening,
           WordLeft, FileRead, fixed, loading, running, IInv, TypeOK, ControlOK
  <2> QED
    BY <2>1 DEF bar, live, Live, turn, left, stopped
<1>6. CASE OpenCodeFile \/ LoadWord
  <2>1. /\ pc \in {"load", "read"} /\ pc' = "read"
        /\ UNCHANGED <<Subprocesses, TicksPerProcessIteration,
                       CurrentSubprocessId>>
    BY <1>6 DEF OpenCodeFile, LoadWord, Opening, WordLeft, fixed, running
  <2> QED
    BY <2>1 DEF bar, live, Live, turn, left, stopped
<1>7. CASE UNCHANGED vars
  BY <1>7 DEF vars, loading, bar, live, Live, turn, left, stopped
<1> QED
  BY <1>1, <1>2, <1>3, <1>4, <1>5, <1>6, <1>7 DEF Load

LEMMA NextSchedules ==
  ASSUME IInv, Searched, [Next]_vars
  PROVE  [RR!Next]_(RR!vars)
<1>1. CASE GiveTurn
  BY <1>1, GiveTurnPassesTurn DEF RR!Next
<1>2. CASE AllExited
  BY <1>2, AllExitedStops DEF RR!Next
<1>3. CASE ExitsBeforeTick
  BY <1>3, ExitsBeforeTickLeaves, LeavingIsExit DEF RR!Next
<1>4. CASE InstructionContinues \/ InstructionExits
  BY <1>4, InstructionEffect, LeavingIsExit, TickingIsTick DEF RR!Next
<1>5. CASE \/ Load \/ StartExecution \/ PassOver \/ InstructionAborts
           \/ UNCHANGED vars
  <2>1. UNCHANGED bar
    BY <1>5, OthersStutter
  <2> QED
    BY <2>1 DEF RR!vars, bar, live, turn, left, stopped
<1> QED
  BY <1>1, <1>2, <1>3, <1>4, <1>5 DEF Next, Run, Terminated

(* The executer schedules round robin (SchedulesRoundRobin): turns go      *)
(* around in a fixed order, only to subprocesses that have not exited, are *)
(* cut short only by an exit, and end for good when, and only when, all    *)
(* have exited.                                                            *)
THEOREM SchedulingIsRoundRobin == Spec => SchedulesRoundRobin
<1>1. Init => Searched
  BY DEF Init, Searched
<1>2. Spec => [](IInv /\ Searched)
  BY <1>1, NextSearched, InvariantIInv, PTL DEF Spec
<1> QED
  BY <1>2, InitScheduler, NextSchedules, PTL DEF Spec, RR!Spec, SchedulesRoundRobin
======================================================================
