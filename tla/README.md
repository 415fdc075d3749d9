# IMachine: specification and verification

IMachine is an assembler (`asm`) and an emulator (`vm`) of a small 16-bit
machine. The `vm` loads several code files into one shared memory and runs them
as subprocesses, round robin, a fixed number of instructions at a time. This
directory models both in TLA+: the instruction set, one subprocess, the loader
and the scheduler of the emulator; the parsing and encoding of a line, the
label window and the file reader of the assembler; and the two together, from
source text and command line to what the programs do. The models go down to the
widths of the C integers and to the undefined behaviour the build turns into an
abort.

Every module names the C code it translates. `PROJECT.json` maps each
definition to its lines. Line numbers below are those of the repository.

## The system

| component | state | operations | talks to |
|---|---|---|---|
| `vm.c` main | the index of the file being loaded | parse arguments, load each file, run, return 0 or 1 | executer, file reader, number parser |
| executer (`src/executer.c`) | `Memory[32768]`, the quantum, `Subprocesses[]`, `CurrentSubprocessId` | `NewExecuter`, `LoadSubprocess`, `RunExecution` (`FindContinuingSubprocess`, the loop over a quantum) | file reader, subprocess |
| subprocess (`src/subprocess.c`) | registers, budget and ticks, `Exited`, `ExitCode` | `NewSubprocess`, `RunInstruction` | instruction set, shared memory |
| instruction set (`src/instruction_set.c`) | the global `InstructionSet_ExitCode`; stdin, stdout | 26 instructions, `GetInstructionId` | registers of the caller, shared memory |
| assembler (`src/assembler.c`, `asm.c`) | a window of 128 lines with the labels they use and declare | `AssembleFile`: read a line, parse, resolve labels backwards and forwards, write the line that leaves the window | code line, file reader, the output file |
| code line (`src/code_line.c`) | one line: its label, the label it uses, the raw operation | `ParseLine`, one parser per instruction | tokenized reader, number parser |
| file reader (`src/buffered_file_reader.c`) | buffer, consumed and buffered counts, the file's position, EOF and error flags | `ReadUint16`, `ReadLine`, `IsEOF`, `IsError` | stdio |
| tokenized reader, number parser | a cursor; nothing | `ReadToken`, `DropSpace`; `ParseUInt4/8/16/32` | |

The emulator is one sequential program. What is concurrent is the emulated
machine: subprocesses share the memory, the standard streams and the global
exit code, and the scheduler cuts them between any two instructions. What is
hard in it, and hardly reached by the unit tests (which run single
non-jump instructions on one subprocess):

- a turn that ends early because its subprocess exits, and the search for the
  next one that has not exited, from any starting point;
- the order of the early returns of `RunInstruction`, the `==` test of the
  budget, and that nothing in it looks at `Exited`;
- an exit code that passes through a global;
- `cmpxchg`, the only instruction programs can synchronise with;
- loading several images into one memory, where a zero word means free;
- the ends of the address space: IP and SP at 65534, jumps one past the end,
  and C's integer promotions in the tests against them.

The assembler and the reader are sequential, and untested as a whole. What is
hard in them:

- a label is filled in by the line that uses it or the line that declares it,
  whichever comes second, in two loops whose ends have to agree with each other
  and with the moment a line is written out of the window;
- the flag that marks a jump as open is a bit of the instruction itself;
- a variable that is or-ed into an instruction without having been set;
- refills that cut a word or a run of line ends, and the flags of stdio, which
  are set while there are still bytes in the buffer.

What makes each component correct: the **loader** puts every image where the
command line says and damages none; the **scheduler** gives equal shares in a
fixed order, starves nobody and stops exactly when all have exited; a
**subprocess** never exceeds its budget, and once it has exited it stays exited
with its own code; the **instruction set** keeps words words, and `cmpxchg` is
atomic; the **assembler** must encode what the instruction set decodes and
resolve each label to the line that declares it or fail, and accept a line
exactly when it is one; the **file reader** must deliver the bytes of the file
in order, wherever its refills cut it; **main** of the vm must read its
arguments as they are meant or refuse them. **Together**, a program must do what
its source says, wherever it is loaded and whatever runs beside it.

## Modules

| module | models | correspondence |
|---|---|---|
| `Words` | `uint16_t`, `uint8_t`, `int8_t` arithmetic | `U16` is an assignment to a `uint16_t`; bit operations are set operations on the set of one bits |
| `InstructionSet` | `instruction_set.c` | `Execute_X(raw, m)` is the C function of that name on a machine record `m`: registers, memory, streams, exit code and how it returned |
| `Subprocess` | `subprocess.c` | the record of a subprocess, the early returns of `RunInstruction`, and what it stores afterwards |
| `Executer` | `executer.c`, main of `vm.c` | the state machine: one action per loaded word, per step of the search, per instruction |
| `RoundRobin` | what the scheduler promises | abstract: who is live, whose turn it is, how many ticks are left of it |
| `ParseNumber` | `parse_number.c` | the loop over the digits as a recursive function; strings are sequences of digits and other characters; `Value` and `IsNumber` say what it should return |
| `Toolchain` | main of `asm.c` and of `vm.c`, composed | `Asm` is `Assembler` and `Vm` is `Executer` (each with its proofs), instantiated over one state; own actions hand a finished code file on, check the arguments and start the vm |
| `SourceMachine` | what the author of a source expects | abstract: a machine that executes source lines on registers and data words of its own; knows no raw operations, labels resolved, turns or other programs |
| `Assembly`, `SourceLines` | notation | raw operations and source lines by name, to write the instances' programs in |
| `CodeLine` | `code_line.c`, and what it needs of `tokenized_reader.c` and `parse_number.c` | `ParseLine(line, stale)` is what the C function makes of a line of tokens; `INSTRUCTION_PARSERS` and `INSTRUCTION_NAMES` are its tables |
| `Disassembly` | the inverse, from `InstructionSet` | the operands a raw operation has when it is executed; refers to nothing of the assembler's encoding |
| `Assembler` | `assembler.c`, main of `asm.c` | the state machine: one action per line, per slot of the window when it is emptied, per way to fail |
| `BufferedFileReader` | `buffered_file_reader.c` under the loops of `LoadSubprocess` and `AssembleFile` | one action per word, per character of a line, per line end |
| `Spinlock` | programs for `Executer`: contenders for a `cmpxchg` spin lock around a shared counter, bystanders | says of the machine's state who has the lock, and which programs are meant |
| `MCExecuter`, `MCSpinlock`, `MCEdges`, `MCAssembler`, `MCBufferedFileReader`, `MCToolchain` | instances | programs, command lines, sources, files and bounds for TLC |
| `InstructionSetProofs`, `ExecuterProofs`, `SpinlockProofs`, `CodeLineProofs`, `EncodingProofs`, `AssemblerProofs`, `BufferedFileReaderProofs`, `ToolchainProofs` | proofs | checked by TLAPS; each about the module of its name, `ExecuterProofs` also about `RoundRobin`, `EncodingProofs` about `CodeLine` and `Disassembly`, `ToolchainProofs` also about `ParseNumber` |

The state of `Executer` is the `struct Executer` with its subprocesses, the
global exit code, the two streams, and a program counter `pc` for the
loops: `load` (between files), `read` (inside `LoadSubprocess`), `find`
(inside `FindContinuingSubprocess`), `slice` (the loop over a quantum), and the
three ends `done`, `failed` (main returns 1) and `aborted` (a sanitizer stopped
the program). An instruction is one step: the C code runs it to completion
before anything else can. Memory is a function on the words ever written; the
others are zero, as `NewExecuter` leaves them.

Undefined behaviour is what the build makes of it. The Makefile builds
every object with `-fsanitize=address,undefined -fno-sanitize-recover=all`
(line 14), so a signed overflow in `mul` and an index past `Memory` stop the
program: `Execute_mul` and `LoadsPastEnd` lead to `aborted`, the store past the
window and the look at the byte before an empty token to `crashed` of
`Assembler`. An uninitialised variable is not stopped: what `argValue` holds
when a line is parsed is chosen arbitrarily (`residue`).

In `Assembler` a source is a sequence of lines, and a line a record of tokens
(`CodeLine` describes it): the labels in front, the instruction's name, the
operands. How a token is spelled is abstracted to what it decides: that the
name of a register can be a label, that a label has at least two letters, that
one of just `LABEL_MAX_LEN` can be used but not declared, that a longer token
does not fit its buffer, and which numbers fit a field. `Assembler` keeps of the `struct` the window with the labels used
and declared in each slot and `CurrentLineId`; `MAX_JUMP` is a parameter.
Looking labels up in the window, and what happens where a jump is already
filled in, are operators (`Declarations`, `Uses`, `Redeclared`) and not steps:
nothing can come between them. A failure ends the program, so what it leaves in
the window is not modelled; what it leaves in the output file is.

In `BufferedFileReader` a file is a sequence of bytes that is read as words
(the vm) or as lines (the assembler), and `fread` delivers all it is asked for,
or less at the end of the file or on an error, which may strike at any byte.
`Executer` and `Assembler` take from it what its properties say: a sequence of
words or lines, and one of the ends a file can have.

In `Toolchain` a session assembles its sources one after the other, each to a
code file of its own, and starts the vm if `asm` never returned anything but 0.
The arguments of the vm are strings, and a session also says what they are
meant to say (budget, and for each subprocess its source, offset and room): the
code goes by the strings, the properties by what is meant. The room is the words
a program keeps to, its code, its data and its stack; `SourceMachine` has no
step for a program that leaves it. An `argValue` that is not zero
is the subject of `jump_residue` and left out here.

Abstracted: messages on stderr; a file is its sequence of words and how it ends
(`CodeFiles`: end of file, half a word left over, read error); a file that does
not open, an offset that is not a number and a failed `malloc` are possible at
any time (`OpenFails`, `LoadFails`). `Executer` on its own starts where main
of the vm has accepted its arguments (`SubprocessCnt` in 1 .. 65535);
`Toolchain` has the checks. A write error on stdout is ignored by the code and
not modelled.

## Properties and runs

Each run is listed in `PROJECT.json`, and each property of a passing run has a
fault in the modules (a definition marked *Fault*) that violates it.

**`executer`** (`MCExecuter`, `FairSpec`): three subprocesses, each running one
of six programs (exit with a code, loop forever, no code at all, divide by
zero, call and return, read and echo bytes with push and pop) in all 216
combinations, plus nine command lines whose files do not load or run over
something; budgets none and 4; quanta 1, 2 and 5; tick counters that wrap after
6. About 69,400 states, exhaustive. These bounds make the interesting cases
happen: exits on the first, a middle and the last tick of a quantum, by every
kind of exit; searches that pass over one, two or all subprocesses; budgets
that run out inside and at the end of a quantum; counters that wrap; a stack
with no room, and stacks that overwrite the last instruction of the image before
them while its subprocess is still running.

- `TypeOK`; `ImagesLoaded`: when execution starts every nonzero word of every
  image is in place, and every nonzero word in memory is from an image. It does
  not speak of the zero words of an image, which the loader does not protect:
  the run `overlap` shows one overwritten by a file that is accepted.
- `BudgetKept`; `FairShare`: at every moment all live subprocesses have had the
  same number of ticks, but for a full quantum to those already served in this
  round and the part of the current turn.
- `ExitIsFinal`, `ExitCodeIsOwn`: what an exit leaves behind.
- `SchedulesRoundRobin`: `Executer` implements `RoundRobin` under the
  refinement mapping `RR` (the turn stays with the subprocess the search set
  out from until it finds another).
- `Termination` (with a budget), `NoStarvation` (without).

**`spinlock`** (`MCSpinlock`, `FairSpec`): two or three machine programs
acquire a lock with `cmpxchg` and `jne`, add to a shared counter and release,
twice each (`Rounds`); the third may instead loop forever. 0 to 2 leading
`nop`s per program and quanta 1 to 6 move the cuts through all of the acquire
loop and the critical section; a budget of 11 ends some contenders while they
wait, and one while it has the lock. About 73,000 states, exhaustive.

- `MutualExclusion`: who is between acquire and release is read off the
  instruction pointers, and the lock word has to agree.
- `NoLostUpdate`: the counter at the end.
- `LockIsObtained`: every contender comes to its end and so has had the lock. A
  property of these programs and quanta; nothing in a spin lock promises it for
  all.

**`assembler`** (`MCAssembler`, `Spec`): a window of three lines; every program
of up to three lines over six lines that use and declare two labels (forwards,
backwards, to themselves, with `jmp`, `je` and `jne`), programs of four lines,
which no longer fit, one program for each form of each instruction with the
smallest, largest and a middle operand, and one for each mistake a line can
have: tokens missing, unknown, of the wrong kind, too large, too long or too
many, labels empty, doubled or too long. A window of three has every position a window of 128 has: its first, last
and an inner slot, and jumps of each sign and of distance zero. About 24,700
states, exhaustive.

- `TypeOK`; `OutputMeansSource`: what is written, also before a failure,
  disassembles to the source, its jumps lead to the lines that declare their
  labels, and a program that assembles is written whole.
- `LabelsAccepted`: assembling fails over labels exactly when some label used
  is not declared, or declared more than once, within reach of the jump. The
  limit of the reach is met forwards only, by programs of four lines that jump
  from the first to a label on the last: they fail over the label. Backwards the
  code never comes to it: a line that far below its label is one the window has
  no place for, and it stops the assembler (`long_program`).
- `LinesAccepted`: a line is rejected exactly when it is no form of an
  instruction the machine has (`Forms` of `Disassembly` lists them, decoded from
  all 65536 words) or has bad labels in front; and the assembler is stopped over
  a token only on a line that would be rejected.

**`reader`** (`MCBufferedFileReader`, `FairSpec`): every file of up to six bytes
over two letters and the two line ends, and of up to four bytes with NULs, as
words and as lines, through a buffer of four bytes and with lines of at most three characters, with a read error
possible at every byte. Files of six bytes fall short of the buffer, fill it
and overflow it; four is the smallest buffer that holds more than one word.
About 258,300 states, exhaustive; two letters make a swap within a line visible.

- `TypeOK`; `BufferIsWindow`; `WordsInOrder`, `EndsAreTold` for the words;
  `LinesInOrder` (against a definition of the lines of a text that knows
  nothing of buffers), `LinesFit` for the lines.
- `LoopsEnd`: all loops end, also on errors.

**`toolchain`** (`MCToolchain`, `FairSpec`): sessions with two of eleven sources
that between them use every instruction and every way to end, count and jump in
both directions, call and return, keep data on the stack and behind pointers,
and read and write the shared streams past the end of the input; each beside
three or four others, in either order, at offsets with and without room for a stack,
with and without a budget, and quanta 1, 3 and the vm's 10; sessions whose
arguments say the same in other words; and 29 sessions with one mistake in a
source or an argument (numbers empty, too large by one or by digits, with a
letter; counts of arguments; a file that is not there; an odd offset; images
that overlap). In some of them files and memory may fail at any time. A window
of eight lines, tick counters and budgets up to 63. About 32,000 states,
exhaustive.

- `RunsLikeSource`: the observed subprocess implements `SourceMachine`. One
  instruction is one line of the source; the mapping takes its address, its
  registers and the words of its room from the vm's state, and everything else
  (assembling, loading, the other's turns) is no step of it, except that the
  other may take input and write output. So encoding, label distances, loading
  at an offset, decoding and executing agree with each other, and neither the
  offset, nor the quantum, nor the other program can be noticed. Each action of
  `SourceMachine` is needed: without any one of them the run fails.
- `OnlySoundSessionsRun`: no session with a mistake executes anything. What a
  session without mistakes is (`Sound`) is said of the sources and arguments
  alone: labels declared once, forms of instructions, numbers in range, images
  inside the memory of which no two share a word.
- `SoundSessionsComplete`: every other one ends with main returning 0, if no
  file or allocation fails.

Both programs have a buffer of 4096 bytes. `ReadToBuffer` would lose bytes in a
buffer of odd size, which `BufferSizeAssumption` excludes and no caller has.

Seven runs state what the code or its description says and find it violated:

| run | says | does |
|---|---|---|
| `ip_wrap` | instruction_set.c:14, :72 "Instruction pointer tried to leave memory!" | the sum is made in `unsigned int`, so the test never holds and IP wraps to 0 |
| `sp_wrap` | instruction_set.c:10, :77 "Stack overflow!" | the same for `pop` and `ret` at the top of memory |
| `mul_overflow` | description.txt:21, arithmetic modulo 2^16 | `uint16_t` operands are promoted to `int`; the product overflows and the vm aborts |
| `load_past_end` | executer.c:62 "Can't load code of subprocess %d in memory..." | the array ends before the 16-bit index wraps; the vm aborts |
| `overlap` | executer.c:59 "Can't load intersecting subprocesses!" | images that overlap where the earlier one is zero are loaded |
| `long_program` | description.txt:32, only a label out of reach is an error | line 129 is stored past the end of the window; the assembler is stopped |
| `jump_residue` | description.txt:32, a jump goes to its label | the distance is or-ed onto an uninitialised byte |

**Fairness.** `FairSpec` adds `WF_vars(Next)`: the vm and the assembler are
sequential programs and take their next step as long as they have one. Nothing
stronger is assumed: not that files open or that memory is available.
`Toolchain` states the same as `KeepsGoing`, without `ENABLED`: steps are taken
until the session is over; that there is one to take until then is that TLC
finds no deadlock.

## Proofs

TLAPS checks the following for every value of the constants that satisfies
their named assumptions. For `Executer` these are any number of subprocesses up
to 65535, any set of command lines of well-formed files, any positive quanta up
to `UINT32_MAX`, any input bytes and any `UINT32_MAX`, so arbitrary programs;
for `Assembler` any sources that are sequences of `Lines` (`ProgramsAssumption`),
any window of 1 to 128 lines and any values of the uninitialised variable; for
`BufferedFileReader` any files, any buffer of an even size and any limit on
lines; for `Toolchain` any sources and arguments (`SessionsAssumption`: an
argument that is read as a number is a sequence of characters, the inputs are
bytes, and the files are as many as `SubprocessCnt` if their count is right).
An invariant a run checks is seldom inductive; what each proof adds to
it is said below.

**The emulator** (`InstructionSetProofs`, `ExecuterProofs`).

- `ExecuteType`: an instruction maps machines to machines. One lemma per
  instruction, over lemmas about words: the results of the bit operations are
  words because a word is the sum of the weights of its one bits.
- `TypeCorrect`: `Spec => []TypeOK`. `TypeOK` is not inductive: `FinishLoad`
  needs that `loadId` is below the number of files while a file is read, and
  running an instruction needs that the current subprocess is loaded. The
  inductive invariant `IInv` adds `ControlOK`: files are loaded in order,
  nothing runs before all are loaded, and `slice` runs only a live subprocess
  with ticks left in its quantum.
- `ImagesAreLoaded`: `Spec => []ImagesLoaded`. `Images` says the same of the
  files loaded so far and of the words read so far of the next. It is kept
  because a word is only stored where memory is zero: it cannot change a word of
  an earlier image that is not. Of the zero words of an image it says nothing.
- `ApartImagesAreWhole`: if no two images share a word, the zero words are in
  place too, so every image is whole. That the images are apart is a condition on
  the command line that the loader does not enforce; `OnlySoundRun` below proves
  it of every session whose files `asm` wrote.
- `ExitsAreFinal`: `Spec => ExitIsFinal`. From `IInv`, since only `slice`
  changes a loaded subprocess and `ControlOK` says that one is live.
- `ExitCodesAreOwn`: `Spec => ExitCodeIsOwn`. The global exit code is never
  cleared, so it must be shown that each instruction that ends a subprocess has
  set it before (`ExitCodeOfExecute`, over all 26 of them).
- `BudgetsKept`: `Spec => []BudgetKept`. A tick is counted only after
  `TimedOut` was false, so the count moves up to the budget and no further;
  the wrap of the counter cannot interfere, the budget being at most
  `UINT32_MAX`.
- `SharesAreFair`: `Spec => []FairShare`. The number of ticks at which the
  current round began is the witness; it moves by one quantum when the search
  passes from subprocess 0, the last in the order, to the first. `Fresh`
  (nobody has run while files are being loaded) starts it. The arithmetic is
  modulo `UINT32_MAX + 1`, so the counters may wrap any number of times.
- `SchedulingIsRoundRobin`: `Spec => SchedulesRoundRobin`, the refinement. The
  initial states map to those of `RoundRobin`, and under `IInv` and `Searched`
  each action maps to a turn given, a tick, an exit, a stop or a stutter.
  `Searched` says that whom the search has passed over is not live, which is
  what makes the one it finds the next on the circle, and nobody left when it
  finds none.

**The spin lock** (`SpinlockProofs`). The same state machine, with command
lines on which every file is a contender or a bystander that is not loaded over
the lock or the counter (`ProgramsAssumption`): any number of each, at any
offsets, with any number of nops in front, up to 255 rounds
(`RoundsAssumption`; `Rounds` is the operand of a `mov`), with or without a
budget, any quanta.

- `LockIsExclusive`: `Spec => []MutualExclusion`; `NoUpdateIsLost`:
  `Spec => []NoLostUpdate`. Both are about where instruction pointers are, so
  the inductive invariant `SpinInv` has to say what the programs do. `Placed`:
  everyone's code is still in memory, no store being to anywhere but the lock and
  the counter, and everyone is on a line of it. `InOrder`: what the registers
  hold on each line of a contender, the counter's value among them between the
  lines that load and store it. `OneHolder` and `LockWord` are mutual exclusion
  itself, and `Counter` is the number of `Additions`, a finite set of pairs of a
  contender and a round.
- The step is proved in three layers. What each instruction of the programs
  decodes to and does (`Decode...`, `Run...`); that a tick of a contender is a
  `Move` from line to line that leaves the memory but for the two words alone
  (`ContenderStep`); and that a move takes the lock when it is free, keeps it or
  gives it back, and adds to the counter only with it (`MoveKeeps`). Where the
  scheduler cuts the programs does not matter because a move needs nothing of
  the others' but the lock word and the counter.

**The assembler** (`CodeLineProofs`, `EncodingProofs`, `AssemblerProofs`).

- `AssemblerTypeCorrect`: `Spec => []TypeOK`, with `Progress`: how
  `CurrentLineId` and the counter of the last loop relate to the lines read.
- `WindowInvariant`: the inductive invariant of the window. Slot k holds the
  labels of line k; a jump is open, and its word as parsed, exactly as long as
  none of the lines read declares its label, and from then on there is one such
  line and the word has the distance to it (`WindowInv`). A slot that was
  written is closed. `FailInv` adds why the assembler gave up, if it has.
- `LabelsAreAccepted`: `Spec => []LabelsAccepted`, from the window: "no slot
  is open" and "no slot was closed twice" are what the source asks for.
- `OutputMeansTheSource`: `Spec => []OutputMeansSource`. The window says that
  word k is what `ParseLine` makes of line k, with the distance filled in; that
  `Disassembly` reads the same instruction, operands and distance back is
  `PlainMeans` and `JumpMeans` of `EncodingProofs`. They rest on `CodeLineProofs`:
  or-ing fields that do not overlap is adding them (`OrSideBySide`), so the
  packed word is a sum of operands times powers of two from which division and
  remainder recover each; the flag of an open jump never meets an operand.
- `WellFormedAreAccepted`: `Spec => []LinesAccepted`. `ParsesIff`: `ParseLine`
  parses a line if and only if the line asks for an instruction that some raw
  operation decodes to and its labels fit. Left to right is `PlainMeans` and
  `JumpMeans`; right to left goes through the tables, class by class.

**The reader** (`BufferedFileReaderProofs`).

- `ReaderType`, `WindowKept`, `WordsAreInOrder`, `LoaderIsTold`: `TypeOK`,
  `BufferIsWindow`, `WordsInOrder` and `EndsAreTold`. None is
  inductive: that a refill destroys nothing needs that the buffer is empty at
  that moment. `IInv` adds that as long as `feof` and `ferror` are clear the
  buffer was last filled whole (`Whole`), and that words have consumed an even
  number of its bytes (`Even`); so less than a word in it is nothing in it. One
  lemma per function of the C file, then one per action.
- `LinesAreInOrder`, `LinesAreTaken`: `LinesInOrder` and `LinesFit`. `LineInv`
  adds where in the text the loops are: the current line begins at some s, has
  been copied up to some e, all bytes taken since are line ends, and as many
  lines are out as begin before s (`CountUpTo`). The lines of the text are
  defined by choosing and counting, so lemmas about least elements (from the
  well-ordering of the naturals) and cardinalities connect the two.

**The two together** (`ToolchainProofs`).

- `ParseNumberIs`: `ParseNumber` returns the value of every string of digits
  within the bound and refuses every other string. It gives up as soon as a
  prefix is out of range, so it must be shown that no longer prefix comes back
  into it. Both sides are defined by recursion over the string, and the
  provers do not know such functions exist: `Iterates` constructs them, by an
  induction over a set of numbers (`UpTo`) that rests on the well-ordering of
  the naturals.
- `OnlySoundRun`: `Spec => []OnlySoundSessionsRun`. The inductive invariant
  `TInv` says where the evidence is at each moment. While a source is assembled
  the invariant of `AssemblerProofs` holds of it (`AsmInv`); a file that is
  written has a word for each line, none of them zero, and its source assembles
  (`FilesInv`); once the vm has started its arguments are what they say, each
  file loaded so far fits, and the words loaded so far keep clear of the images
  before them (`LoadInv`). That no two images share a word takes both programs:
  the loader only notices words that are not zero, and the assembler writes no
  others (`DoneWrites`: no raw operation of an instruction is 0), so the
  weakness that `overlap` shows cannot be reached from sources.
- `PromisesAreKept`: the assumptions that the theorems on each program make on
  what it is given hold in a session, so what they say holds there too:
  `OutputMeansSource`, `LabelsAccepted` and `LinesAccepted` of each source,
  `ImagesLoaded`, `BudgetKept` and `FairShare` of the files `asm` wrote.

The theorems on the programs are used by name, through the instances `Asm` and
`Vm`; what is assumed of the instances' constants is derived from
`SessionsAssumption` (`AsmAssumptions`, `VmAssumptions`).

Every property of a passing run is thus proved, but for the following, which
are model-checked only:

- all liveness (`Termination`, `NoStarvation`, `LockIsObtained`, `LoopsEnd`,
  `SoundSessionsComplete`), which is beyond the prover;
- `RunsLikeSource` of `Toolchain`, which relates every instruction to a source
  line through both programs, from the text to the effect on registers and
  memory.

## Not modelled

- The scan of `tokenized_reader.c` over spaces and the spelling of tokens: a
  pure scan, which `unit_tests/test_tokenized_reader.cc` covers. What `ReadToken`
  does at its limit is in `CodeLine`.
- The wording of messages (`macro.h`), `argc` of `asm`, freeing of memory.
- That closing the code file may fail, of which `asm.c` prints a message and
  returns 0: `Toolchain` takes a code file that `asm` returned 0 for to be whole.
- When output that was handed to `printf` reaches the terminal.
- What `description.txt` says beyond the code where no definition could be
  translated from the code: it calls the stack pointer `SP`, which the parser
  does not accept for `R7X`, and `call` takes a signed distance, which has to be
  written as `#0` to `#255`.

## Plan

In the order it was built: `Words`, `InstructionSet`, `Subprocess`, `Executer` against
`RoundRobin`, the proofs about them, `CodeLine` and `Assembler` against
`Disassembly`, `BufferedFileReader` and its proofs, `Toolchain` against
`SourceMachine`; then the proofs of the scheduler's refinement, of the loader and
exit codes, of the assembler, of the lines of the reader, of the spin lock, and
of what holds of the two programs together. What would come next is
`RunsLikeSource` for every session: an invariant that every subprocess is on a
line of its source and that nobody writes to another's room, and one lemma per
instruction that its raw operation does what `SourceMachine` says of the line.
