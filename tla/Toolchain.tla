-------------------------- MODULE Toolchain ---------------------------
(***************************************************************************)
(* A session with both programs: asm assembles one source after the other, *)
(* each to a code file of its own (main of asm.c), and if it never failed  *)
(* the vm is started on these files (main of vm.c).  The modules of the    *)
(* two programs are composed here, and what they do together is compared   *)
(* with what the author of a source expects of it (SourceMachine).         *)
(***************************************************************************)
EXTENDS Integers, Sequences, ParseNumber

CONSTANTS
    Sessions,       \* the sessions considered, see below
    MAX_JUMP, SubprocessCnt, Quanta, UINT32_MAX, NULL

VARIABLES
    session,        \* what is run, fixed
    codeFiles,      \* the words of the code files written so far
    source, residue, asmPc, CurrentLineId, InstructionWindow, LabelsUsed,
    LabelsDeclared, asmI, destination,
    argv, TicksPerProcessIteration, vmPc, loadId, loaded, Memory,
    Subprocesses, CurrentSubprocessId, vmI, InstructionSet_ExitCode,
    Stdin, Stdout

assembler == <<source, residue, CurrentLineId, InstructionWindow, LabelsUsed,
               LabelsDeclared, asmI, destination>>
executer == <<TicksPerProcessIteration, loadId, loaded, Memory, Subprocesses,
              CurrentSubprocessId, vmI, InstructionSet_ExitCode, Stdin, Stdout>>
asm == <<asmPc, assembler>>
vm == <<vmPc, argv, executer>>
vars == <<session, codeFiles, asm, vm>>

Id == 0 .. SubprocessCnt - 1

(* A session is a record                                                   *)
(*   sources     sequences of lines,                                       *)
(*   args        the arguments of the vm: strings as ParseNumber has them, *)
(*               a code file being named by the number of its source,      *)
(*   budget, placements   what they are meant to say: for each subprocess  *)
(*               the source it runs, the offset it is loaded at, and the   *)
(*               room (word indices) it keeps to,                          *)
(*   input       the standard input of the vm,                             *)
(*   faults      whether files and memory may fail,                        *)
(*   observed    the subprocess that is compared with its source.          *)
AllSources == UNION {{s.sources[k] : k \in DOMAIN s.sources} : s \in Sessions}
AllInputs == {s.input : s \in Sessions}
CommandLines ==
    [iterationsPerProcess : 0 .. UINT32_MAX,
     files : [Id -> [offset : 0 .. 2^16 - 1, words : Seq(0 .. 2^16 - 1), end : {"eof"}]]]

(* The modules with the theorems on each program are instantiated, so that *)
(* they hold of the sessions too.                                          *)
Asm == INSTANCE AssemblerProofs WITH
           Programs <- AllSources, Residues <- {0}, pc <- asmPc, i <- asmI
Vm == INSTANCE ExecuterProofs WITH
           Inputs <- AllInputs, pc <- vmPc, i <- vmI

(* Of the arguments, the odd ones are read as numbers.  Their count is     *)
(* wrong, or there is one pair for each subprocess.                        *)
ASSUME SessionsAssumption ==
    \A s \in Sessions :
        /\ s.sources \in Seq(Seq(Asm!Lines)) /\ s.sources # << >>
        /\ s.input \in Seq(Vm!Byte)
        /\ Len(s.args) \in Nat
        /\ \A k \in 1 .. Len(s.args) : k % 2 = 1 => s.args[k] \in Seq(Int)
        /\ Len(s.args) % 2 = 1 => (Len(s.args) - 1) \div 2 \in {0, SubprocessCnt}
ASSUME MAX_JUMPAssumption == MAX_JUMP \in 1 .. 128
ASSUME SubprocessCntAssumption == SubprocessCnt \in 1 .. 2^16 - 1
ASSUME UINT32_MAXAssumption == UINT32_MAX \in Nat \ {0}
ASSUME QuantaAssumption == Quanta \subseteq 1 .. UINT32_MAX
ASSUME NULLAssumption == NULL \notin Vm!SubprocessRecords

(* Either program is "off" when it has not been started, or asm when all   *)
(* sources are done.                                                       *)
NoCommandLine ==
    [iterationsPerProcess |-> 0,
     files |-> [p \in Id |-> [offset |-> 0, words |-> << >>, end |-> "eof"]]]

Init ==
    /\ session \in Sessions
    /\ codeFiles = << >>
    /\ source = session.sources[1] /\ Asm!Init
    /\ argv = NoCommandLine
    /\ TicksPerProcessIteration \in Quanta
    /\ vmPc = "off" /\ loadId = 0 /\ loaded = 0 /\ vmI = 0
    /\ Memory = [w \in {} |-> 0]
    /\ Subprocesses = [p \in Id |-> NULL]
    /\ CurrentSubprocessId = 0
    /\ InstructionSet_ExitCode = 0
    /\ Stdin = session.input /\ Stdout = << >>

----------------------------------------------------------------------------
(* asm, once for each source. *)

Assemble == asmPc # "off" /\ Asm!Next /\ UNCHANGED <<session, codeFiles, vm>>

(* main closes the code file and returns 0; asm is run on the next source. *)
Written ==
    /\ asmPc = "done"
    /\ codeFiles' = Append(codeFiles, destination)
    /\ UNCHANGED <<session, vm>>

AssembleNext ==
    /\ Written
    /\ Len(codeFiles') < Len(session.sources)
    /\ source' = session.sources[Len(codeFiles') + 1]
    /\ residue' = [k \in 0 .. Len(source') - 1 |-> 0]
    /\ asmPc' = "reading"
    /\ CurrentLineId' = 0 /\ asmI' = 0
    /\ InstructionWindow' = [s \in Asm!Slot |-> 0]
    /\ LabelsUsed' = [s \in Asm!Slot |-> Asm!NoLabel]
    /\ LabelsDeclared' = [s \in Asm!Slot |-> Asm!NoLabel]
    /\ destination' = << >>

AssembledAll ==
    /\ Written
    /\ Len(codeFiles') = Len(session.sources)
    /\ asmPc' = "off"
    /\ UNCHANGED assembler

----------------------------------------------------------------------------
(* main of the vm. *)

argc == Len(session.args) + 1
subprocessCnt == IF argc < 2 THEN 0 ELSE (argc - 2) \div 2

(* Faults: an argument too many is not noticed; each subprocess gets the   *)
(* offset of the next.                                                     *)
WrongCountOnly == subprocessCnt = 0 \/ subprocessCnt > 2^16 - 1
OffsetOfNext(p) == ParseNumber(session.args[3 + 2 * ((p + 1) % SubprocessCnt)], 2^16 - 1)

WrongCount == argc % 2 = 1 \/ subprocessCnt = 0 \/ subprocessCnt > 2^16 - 1
iterationsPerProcess == ParseNumber(session.args[1], UINT32_MAX)
Accepts == ~WrongCount /\ iterationsPerProcess # NotANumber

CodeFile(p) == session.args[2 + 2 * p]
CodeOffset(p) == ParseNumber(session.args[3 + 2 * p], 2^16 - 1)

vmStarts == asmPc = "off" /\ vmPc = "off"

(* The arguments are wrong, or there is no memory for the executer.        *)
Refuse ==
    /\ vmStarts
    /\ vmPc' = "failed"
    /\ UNCHANGED <<session, codeFiles, asm, argv, executer>>

(* A file's name and offset are looked at when it is loaded. *)
StartVm ==
    /\ vmStarts
    /\ Accepts
    /\ vmPc' = "load"
    /\ argv' = [iterationsPerProcess |-> iterationsPerProcess,
                files |-> [p \in Id |->
                    [offset |-> IF CodeOffset(p) = NotANumber THEN 0 ELSE CodeOffset(p),
                     words  |-> IF CodeFile(p) \in DOMAIN codeFiles
                                THEN codeFiles[CodeFile(p)] ELSE << >>,
                     end    |-> "eof"]]]
    /\ UNCHANGED <<session, codeFiles, asm, executer>>

Opens(p) == CodeOffset(p) # NotANumber /\ CodeFile(p) \in DOMAIN codeFiles

LoadAndRun ==
    /\ Vm!Load \/ Vm!Run
    /\ Vm!Opening /\ ~Opens(loadId) => vmPc' = "failed"
    /\ UNCHANGED <<session, codeFiles, asm>>

----------------------------------------------------------------------------
AsmFailed == asmPc \in Asm!Failures
Over == AsmFailed \/ Vm!Ended
Terminated == Over /\ UNCHANGED vars

(* A step to a failure that nothing in the sources and arguments explains. *)
GoodFile(p) == Opens(p) /\ ~Vm!Unaligned(CodeOffset(p))
EnvironmentFails ==
    \/ ~AsmFailed /\ asmPc' = "ioError"
    \/ /\ ~Vm!Ended /\ vmPc' = "failed"
       /\ \/ vmPc = "off" /\ Accepts
          \/ Vm!Opening /\ GoodFile(loadId)
          \/ Vm!FileRead

Next ==
    /\ \/ Assemble \/ AssembleNext \/ AssembledAll
       \/ Refuse \/ StartVm \/ LoadAndRun \/ Terminated
    /\ EnvironmentFails => session.faults

(* Both are sequential programs, run one after the other: steps are taken  *)
(* until the session is over.  That is WF_vars(Next), a step being         *)
(* possible until then (there is no deadlock).                             *)
Spec == Init /\ [][Next]_vars

KeepsGoing == []<>Over \/ []<><<Next>>_vars
FairSpec == Spec /\ KeepsGoing

----------------------------------------------------------------------------
(* The observed subprocess, seen from its source. *)

me == session.observed
meant == session.placements[me]
mySource == session.sources[meant.source]
myCode == meant.offset \div 2 .. meant.offset \div 2 + Len(mySource) - 1
Loaded == Subprocesses[me] # NULL
my == Subprocesses[me]

Seen == INSTANCE SourceMachine WITH
    program  <- [lines |-> mySource, base |-> meant.offset, room |-> meant.room,
                 budget |-> session.budget],
    status   <- IF Loaded /\ my.Exited THEN "exited"
                ELSE IF AsmFailed \/ vmPc \in {"failed", "aborted"} THEN "dropped"
                ELSE IF Loaded THEN "running" ELSE "pending",
    at       <- IF Loaded THEN my.RegisterSet[Vm!IP_ID] ELSE meant.offset,
    reg      <- IF Loaded THEN [r \in 0 .. 7 |-> my.RegisterSet[r]]
                ELSE [r \in 0 .. 7 |-> IF r = 7 THEN meant.offset ELSE 0],
    data     <- [w \in meant.room \ myCode |-> Vm!Read(Memory, w)],
    steps    <- IF Loaded /\ session.budget # 0 THEN my.TicksExecuted ELSE 0,
    exitCode <- IF Loaded THEN my.ExitCode ELSE 0,
    input    <- Stdin,
    output   <- Stdout

(* A program that keeps to its room does what its source says, one line    *)
(* for each instruction it executes: wherever it is loaded, whatever the   *)
(* other subprocess is and wherever the executer cuts the two, and with    *)
(* the budget its command line asks for.                                   *)
RunsLikeSource == Seen!Spec

(* What a session without mistakes is: sources that assemble, and for each *)
(* subprocess the file of one of them and an even offset, such that the    *)
(* images fit into the memory and do not intersect.                        *)
Declaring(lines, label) ==
    {t \in 0 .. Len(lines) - 1 :
        \E d \in DOMAIN lines[t + 1].declares : lines[t + 1].declares[d] = label}

Assembles(lines) ==
    /\ Len(lines) <= MAX_JUMP
    /\ \A k \in DOMAIN lines :
          /\ Asm!WellFormed(lines[k])
          /\ lines[k].name \in Asm!JUMPS =>
                LET declaring == Declaring(lines, lines[k].args[1])
                IN  \E t \in declaring : declaring = {t}

Image(s, p) == s.sources[s.args[2 + 2 * p]]
Offset(s, p) == Value(s.args[3 + 2 * p])
Base(s, p) == Offset(s, p) \div 2

(* The first n words of the image of p, no two images sharing a word.      *)
Place(s, p, n) == Base(s, p) .. Base(s, p) + n - 1
Apart(s, p, q, n) == Place(s, p, Len(Image(s, p))) \cap Place(s, q, n) = {}

Sound(s) ==
    /\ \A k \in DOMAIN s.sources : Assembles(s.sources[k])
    /\ Len(s.args) = 1 + 2 * SubprocessCnt
    /\ IsNumber(s.args[1], UINT32_MAX)
    /\ \A p \in Id :
          /\ s.args[2 + 2 * p] \in DOMAIN s.sources
          /\ IsNumber(s.args[3 + 2 * p], 2^16 - 1)
          /\ Offset(s, p) % 2 = 0
          /\ Base(s, p) + Len(Image(s, p)) <= Vm!MEMORY_SIZE
    /\ \A p, q \in Id : p < q => Apart(s, p, q, Len(Image(s, q)))

SoundSessions == {s \in Sessions : Sound(s)}

(* Nothing is run unless all sources assemble and all arguments of the vm  *)
(* are what they should be.                                                *)
OnlySoundSessionsRun ==
    vmPc \in {"find", "slice", "done"} => session \in SoundSessions

(* A session without mistakes, in which no file and no allocation fails,   *)
(* comes to its end: all subprocesses exit and main returns 0.             *)
SoundSessionsComplete ==
    session \in SoundSessions /\ ~session.faults => <>(vmPc = "done")
======================================================================
