-------------------------- MODULE Subprocess --------------------------
(***************************************************************************)
(* One subprocess of the vm (subprocess.c): its record, and the questions  *)
(* RunInstruction asks, in its order, before it runs an instruction.       *)
(* The record's pointer to the memory is left out: every subprocess is     *)
(* given the executer's one memory.                                        *)
(***************************************************************************)
EXTENDS InstructionSet

NewSubprocess(stackAddr, ticksToExecute) ==
    [TicksToExecute |-> ticksToExecute,
     TicksExecuted  |-> 0,
     RegisterSet    |-> [r \in RegisterId |->
                            IF r \in {SP_ID, IP_ID} THEN stackAddr ELSE 0],
     Exited         |-> FALSE,
     ExitCode       |-> 0]

(* Fault: the budget is exceeded by one before it is noticed. *)
TimedOutLate(s) == s.TicksToExecute # 0 /\ s.TicksExecuted > s.TicksToExecute

(* Fault: the budget is not looked at. *)
TimedOutNever(s) == FALSE

(* The early returns of RunInstruction, before the tick is counted. *)
TimedOut(s) == s.TicksToExecute # 0 /\ s.TicksExecuted = s.TicksToExecute

RawOperation(s, mem) == Read(mem, s.RegisterSet[IP_ID] \div 2)

CannotFetch(s, mem) ==
    \/ Unaligned(s.RegisterSet[IP_ID])
    \/ GetInstructionId(RawOperation(s, mem)) = INVALID_INSTRUCTION_ID

ExitWithError(s) == [s EXCEPT !.ExitCode = 1, !.Exited = TRUE]

(* The tick counter is a uint32_t whose largest value is max. *)
NextTick(n, max) == IF n = max THEN 0 ELSE n + 1

(* What is left of a subprocess after the instruction that made machine m. *)
AfterInstruction(s, m, max) ==
    [s EXCEPT !.TicksExecuted = NextTick(@, max),
              !.RegisterSet   = m.reg,
              !.Exited        = m.result = "exit",
              !.ExitCode      = IF m.result = "exit" THEN m.exitCode ELSE @]
======================================================================
