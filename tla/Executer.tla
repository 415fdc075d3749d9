--------------------------- MODULE Executer ---------------------------
(***************************************************************************)
(* The vm: main of vm.c loads one code file per subprocess into the shared *)
(* memory (LoadSubprocess) and runs them round robin, a quantum of         *)
(* instructions at a time, until all have exited (RunExecution).           *)
(***************************************************************************)
EXTENDS Subprocess

CONSTANTS
    SubprocessCnt,  \* number of code files on the command line
    CommandLines,   \* the command lines considered: budget and code files
    Quanta,         \* values of ticksPerProcessIteration (vm.c passes 10)
    Inputs,         \* the standard inputs considered: sequences of bytes
    UINT32_MAX,     \* largest tick count; 2^32 - 1 in the build
    NULL            \* a subprocess that is not loaded yet

(* A code file as ReadUint16 delivers it: its words, then "eof" after a    *)
(* whole word, "odd" when half a word is left, "error" when reading fails. *)
CodeFiles == [offset : Word, words : Seq(Word), end : {"eof", "odd", "error"}]

SubprocessRecords ==
    [TicksToExecute : 0 .. UINT32_MAX, TicksExecuted : 0 .. UINT32_MAX,
     RegisterSet : [RegisterId -> Word], Exited : BOOLEAN, ExitCode : Byte]

ASSUME SubprocessCntAssumption == SubprocessCnt \in 1 .. 2^16 - 1
ASSUME UINT32_MAXAssumption == UINT32_MAX \in Nat \ {0}
ASSUME QuantaAssumption == Quanta \subseteq 1 .. UINT32_MAX
ASSUME InputsAssumption == Inputs \subseteq Seq(Byte)
ASSUME CommandLinesAssumption ==
    \A c \in CommandLines :
        /\ c.iterationsPerProcess \in 0 .. UINT32_MAX
        /\ c.files \in [0 .. SubprocessCnt - 1 -> CodeFiles]
ASSUME NULLAssumption == NULL \notin SubprocessRecords

VARIABLES
    argv,                       \* the command line, fixed
    TicksPerProcessIteration,   \* the quantum, fixed by NewExecuter
    pc,                         \* where main is
    loadId,                     \* main: the subprocess being loaded
    loaded,                     \* LoadSubprocess: words already put in memory
    Memory,
    Subprocesses,
    CurrentSubprocessId,
    i,                          \* loop counter of FindContinuingSubprocess
                                \* and of the loop over a quantum
    InstructionSet_ExitCode,    \* global of instruction_set.c
    Stdin,                      \* bytes not read yet
    Stdout                      \* bytes written

loading == <<loadId, loaded>>
streams == <<InstructionSet_ExitCode, Stdin, Stdout>>
vars == <<argv, TicksPerProcessIteration, pc, loading, Memory, Subprocesses,
          CurrentSubprocessId, i, streams>>

Id == 0 .. SubprocessCnt - 1
Current == Subprocesses[CurrentSubprocessId]

(* "find" and "slice" are the two loops of RunExecution; the last three    *)
(* are the ends of main: 0 returned, 1 returned, stopped by a sanitizer.   *)
Locations == {"load", "read", "find", "slice", "done", "failed", "aborted"}

TypeOK ==
    /\ argv \in CommandLines
    /\ TicksPerProcessIteration \in Quanta
    /\ pc \in Locations
    /\ loadId \in 0 .. SubprocessCnt
    /\ loaded \in Nat
    /\ IsMemory(Memory)
    /\ Subprocesses \in [Id -> {NULL} \cup SubprocessRecords]
    /\ CurrentSubprocessId \in Id
    /\ i \in Nat
    /\ InstructionSet_ExitCode \in Byte
    /\ Stdin \in Seq(Byte)
    /\ Stdout \in Seq(Byte)

(* main has checked its arguments and NewExecuter has returned.            *)
(* CurrentSubprocessId is not read before RunExecution sets it.            *)
Init ==
    /\ argv \in CommandLines
    /\ TicksPerProcessIteration \in Quanta
    /\ pc = "load"
    /\ loadId = 0
    /\ loaded = 0
    /\ Memory = [w \in {} |-> 0]
    /\ Subprocesses = [p \in Id |-> NULL]
    /\ CurrentSubprocessId = 0
    /\ i = 0
    /\ InstructionSet_ExitCode = 0
    /\ Stdin \in Inputs
    /\ Stdout = << >>

----------------------------------------------------------------------------
(* Loading: the loop of main over the files, and LoadSubprocess. *)

file == argv.files[loadId]
loadIndex == file.offset \div 2 + loaded

running == <<CurrentSubprocessId, i, streams>>
fixed == <<argv, TicksPerProcessIteration>>

(* The vm ends, and nothing else happens. *)
Ends(how) ==
    /\ pc' = how
    /\ UNCHANGED <<fixed, loading, Memory, Subprocesses, running>>

Opening == pc = "load" /\ loadId < SubprocessCnt
WordLeft == pc = "read" /\ loaded < Len(file.words)
FileRead == pc = "read" /\ loaded = Len(file.words)

(* Fault: words already loaded are overwritten. *)
FreeAlways == TRUE

Free == Read(Memory, loadIndex) = 0

(* The offset is not a number or the file cannot be opened (external       *)
(* conditions), or the offset is odd.                                      *)
OpenFails == Opening /\ Ends("failed")

OpenCodeFile ==
    /\ Opening
    /\ ~Unaligned(file.offset)
    /\ pc' = "read"
    /\ loaded' = 0
    /\ UNCHANGED <<fixed, loadId, Memory, Subprocesses, running>>

(* The index runs past the array before it can wrap to 0. *)
LoadsPastEnd == WordLeft /\ loadIndex >= MEMORY_SIZE /\ Ends("aborted")

LoadIntersects ==
    WordLeft /\ loadIndex < MEMORY_SIZE /\ ~Free /\ Ends("failed")

LoadWord ==
    /\ WordLeft
    /\ loadIndex < MEMORY_SIZE
    /\ Free
    /\ Memory' = Written(Memory, loadIndex, file.words[loaded + 1])
    /\ loaded' = loaded + 1
    /\ UNCHANGED <<fixed, pc, loadId, Subprocesses, running>>

(* The file ends badly, or there is no memory for the subprocess record. *)
LoadFails == FileRead /\ Ends("failed")

FinishLoad ==
    /\ FileRead
    /\ file.end = "eof"
    /\ Subprocesses' = [Subprocesses EXCEPT ![loadId] =
           NewSubprocess(file.offset, argv.iterationsPerProcess)]
    /\ loadId' = loadId + 1
    /\ pc' = "load"
    /\ UNCHANGED <<fixed, loaded, Memory, running>>

----------------------------------------------------------------------------
(* RunExecution. *)

StartExecution ==
    /\ pc = "load"
    /\ loadId = SubprocessCnt
    /\ pc' = "find"
    /\ CurrentSubprocessId' = 0
    /\ i' = 0
    /\ UNCHANGED <<fixed, loading, Memory, Subprocesses, streams>>

(* One round of the loop of FindContinuingSubprocess. *)
NextId == IF CurrentSubprocessId + 1 = SubprocessCnt THEN 0
          ELSE CurrentSubprocessId + 1

(* Faults: whoever is next gets the turn; the search gives up one          *)
(* subprocess early.                                                       *)
ContinuingAlways(p) == TRUE
LastRoundEarly == i + 2 >= SubprocessCnt

Continuing(p) == ~Subprocesses[p].Exited
LastRound == i + 1 = SubprocessCnt

Advance ==
    /\ pc = "find"
    /\ CurrentSubprocessId' = NextId
    /\ UNCHANGED <<fixed, loading, Memory, Subprocesses, streams>>

GiveTurn == Advance /\ Continuing(NextId) /\ pc' = "slice" /\ i' = 0

PassOver ==
    Advance /\ ~Continuing(NextId) /\ ~LastRound /\ i' = i + 1 /\ pc' = pc

AllExited ==
    Advance /\ ~Continuing(NextId) /\ LastRound /\ pc' = "done" /\ i' = 0

(* An exit breaks out of the loop over the quantum. *)
LeaveSlice == pc' = "find" /\ i' = 0

(* Faults: a turn is a tick too long; a turn never ends. *)
CountTickTooMany ==
    IF i = TicksPerProcessIteration THEN LeaveSlice
    ELSE pc' = "slice" /\ i' = i + 1
CountTickNever == pc' = "slice" /\ i' = i

CountTick ==
    IF i + 1 = TicksPerProcessIteration THEN LeaveSlice
    ELSE pc' = "slice" /\ i' = i + 1

(* RunInstruction returns before the tick is counted. *)
ExitsBeforeTick ==
    /\ pc = "slice"
    /\ TimedOut(Current) \/ CannotFetch(Current, Memory)
    /\ Subprocesses' = [Subprocesses EXCEPT ![CurrentSubprocessId] =
           ExitWithError(@)]
    /\ LeaveSlice
    /\ UNCHANGED <<fixed, loading, Memory, CurrentSubprocessId, streams>>

(* The machine the current instruction leaves behind. *)
Outcome ==
    Execute(RawOperation(Current, Memory),
            [reg      |-> Current.RegisterSet,
             mem      |-> Memory,
             stdin    |-> Stdin,
             stdout   |-> Stdout,
             exitCode |-> InstructionSet_ExitCode,
             result   |-> "continue"])

InstructionRuns ==
    /\ pc = "slice"
    /\ ~TimedOut(Current)
    /\ ~CannotFetch(Current, Memory)

TakeEffect(m) ==
    /\ Subprocesses' = [Subprocesses EXCEPT ![CurrentSubprocessId] =
           AfterInstruction(@, m, UINT32_MAX)]
    /\ Memory' = m.mem
    /\ Stdin' = m.stdin
    /\ Stdout' = m.stdout
    /\ InstructionSet_ExitCode' = m.exitCode
    /\ UNCHANGED <<fixed, loading, CurrentSubprocessId>>

InstructionContinues ==
    /\ InstructionRuns
    /\ Outcome.result = "continue"
    /\ TakeEffect(Outcome)
    /\ CountTick

InstructionExits ==
    /\ InstructionRuns
    /\ Outcome.result = "exit"
    /\ TakeEffect(Outcome)
    /\ LeaveSlice

InstructionAborts ==
    InstructionRuns /\ Outcome.result = "abort" /\ Ends("aborted")

Ended == pc \in {"done", "failed", "aborted"}
Terminated == Ended /\ UNCHANGED vars

Load == \/ OpenFails \/ OpenCodeFile \/ LoadsPastEnd \/ LoadIntersects
        \/ LoadWord \/ LoadFails \/ FinishLoad
Run == \/ StartExecution \/ GiveTurn \/ PassOver \/ AllExited
       \/ ExitsBeforeTick \/ InstructionContinues \/ InstructionExits
       \/ InstructionAborts
Next == Load \/ Run \/ Terminated

Spec == Init /\ [][Next]_vars

(* The vm is one sequential program: nothing keeps it from its next step.  *)
(* What it has no control over is whether files can be opened and memory   *)
(* allocated; fairness is not assumed of those failures.                   *)
FairSpec == Spec /\ WF_vars(Next)

----------------------------------------------------------------------------
(* Safety. *)

Executing == pc \in {"find", "slice"}
Live(p) == Subprocesses[p] # NULL /\ ~Subprocesses[p].Exited

(* LoadSubprocess puts every image where the command line says and nothing *)
(* else anywhere: when execution starts, each nonzero word of each file is *)
(* in its place, whatever files were loaded after it, and each nonzero     *)
(* word of memory comes from a file.                                       *)
ImagesLoaded ==
    pc = "load" /\ loadId = SubprocessCnt =>
        LET image(p) == argv.files[p]
            base(p)  == image(p).offset \div 2
        IN  /\ \A p \in Id : \A k \in DOMAIN image(p).words :
                 image(p).words[k] # 0 =>
                     Read(Memory, base(p) + k - 1) = image(p).words[k]
            /\ \A w \in DOMAIN Memory :
                 Memory[w] # 0 =>
                     \E p \in Id : /\ w - base(p) + 1 \in DOMAIN image(p).words
                                   /\ Memory[w] = image(p).words[w - base(p) + 1]

(* A subprocess with a budget never runs more instructions than that:      *)
(* RunInstruction compares with ==, so the counter must never step over    *)
(* the budget.                                                             *)
BudgetKept ==
    \A p \in Id :
        Subprocesses[p] # NULL /\ Subprocesses[p].TicksToExecute # 0 =>
            Subprocesses[p].TicksExecuted <= Subprocesses[p].TicksToExecute

(* Turns are given in the order 1, 2, ..., SubprocessCnt - 1, 0:           *)
(* FindContinuingSubprocess advances before it looks.                      *)
Rank(p) == IF p = 0 THEN SubprocessCnt ELSE p

(* Ticks of the current round that p has had. *)
Lead(p) ==
    IF pc = "slice" /\ p = CurrentSubprocessId THEN i
    ELSE IF \/ Rank(p) < Rank(CurrentSubprocessId)
            \/ pc = "find" /\ p = CurrentSubprocessId
    THEN TicksPerProcessIteration ELSE 0

(* n + k for a counter that wraps after UINT32_MAX. *)
TicksAfter(n, k) ==
    IF n + k > UINT32_MAX THEN n + k - UINT32_MAX - 1 ELSE n + k

(* Equal shares: at every moment, all subprocesses that have not exited    *)
(* have run the same number of instructions, but for what the current      *)
(* round of turns has already given them: a full quantum to those before   *)
(* the current one, none to those after it.  Also when others exit in the  *)
(* middle of their turn and when the tick counters wrap.                   *)
FairShare ==
    Executing =>
        \E n \in 0 .. UINT32_MAX :
            \A p \in Id : Live(p) =>
                Subprocesses[p].TicksExecuted = TicksAfter(n, Lead(p))

(* A subprocess that has exited is never run again and its exit code       *)
(* stands: RunInstruction does not look at Exited, so this rests on        *)
(* FindContinuingSubprocess and on the break out of the quantum.           *)
ExitIsFinal ==
    [][\A p \in Id :
          Subprocesses[p] # NULL /\ Subprocesses[p].Exited
              => Subprocesses'[p] = Subprocesses[p]]_vars

(* The exit code a subprocess is left with is its own: R0L when it ran     *)
(* reset, 1 when it failed.  It travels through one global that all        *)
(* subprocesses share and that is not cleared between instructions.        *)
RanReset ==
    InstructionRuns /\ GetInstructionId(RawOperation(Current, Memory)) = 24
ExitCodeIsOwn ==
    [][\A p \in Id :
          Live(p) /\ Subprocesses'[p].Exited =>
              Subprocesses'[p].ExitCode =
                  IF RanReset THEN LowByte(Current.RegisterSet[0]) ELSE 1]_vars

(* The executer schedules round robin: it implements RoundRobin.  While    *)
(* FindContinuingSubprocess searches, the turn is still with the           *)
(* subprocess it set out from, i steps back on the circle.                 *)
RR == INSTANCE RoundRobin WITH
        N       <- SubprocessCnt,
        quantum <- TicksPerProcessIteration,
        live    <- {p \in Id : Subprocesses[p] = NULL \/ Live(p)},
        turn    <- IF pc = "find"
                   THEN (CurrentSubprocessId - i + SubprocessCnt) % SubprocessCnt
                   ELSE CurrentSubprocessId,
        left    <- IF pc = "slice" \/ (pc = "aborted" /\ loadId = SubprocessCnt)
                   THEN TicksPerProcessIteration - i ELSE 0,
        stopped <- pc = "done"
SchedulesRoundRobin == RR!Spec

----------------------------------------------------------------------------
(* Liveness, under FairSpec. *)

(* With a budget every execution ends, also of programs that loop.         *)
Termination == argv.iterationsPerProcess # 0 => <>Ended

(* No subprocess starves: one that is live keeps getting turns, until it   *)
(* exits or the program is aborted, whatever the others do.                *)
NoStarvation ==
    \A p \in Id :
        []<>(\/ ~Executing
             \/ pc = "slice" /\ CurrentSubprocessId = p
             \/ Subprocesses[p].Exited)
======================================================================
