--------------------------- MODULE MCEdges ----------------------------
(***************************************************************************)
(* The edges of the address space and of the integer types, where the vm   *)
(* departs from what its messages and its description say.  Each           *)
(* configuration takes one of the sets of command lines below, for two     *)
(* subprocesses, and checks one of the properties.                         *)
(***************************************************************************)
EXTENDS Executer, Assembly

File(offset, words) == [offset |-> offset, words |-> words, end |-> "eof"]
Lines(fs) == {[iterationsPerProcess |-> 4, files |-> f] : f \in fs}
Pair(f, g) == [p \in 0 .. 1 |-> IF p = 0 THEN f ELSE g]

Plain == <<movv(0, 3), reset>>

(* Code in the last word of memory; a stack pointer moved there. *)
LastWord == Lines({Pair(File(0, Plain), File(65534, <<w>>)) : w \in {nop, reset, jmp(0)}})
TopOfStack == Lines({Pair(File(0, Plain), File(64, <<movv(7, 254), movv(15, 255), w>>)) :
                        w \in {pop(0), push(0), ret}})

Products == Lines({Pair(File(0, Plain), File(64, <<movv(rs, 255), mul(0, 0)>>)) :
                      rs \in {0, 8}})

PastEnd == Lines({Pair(File(0, Plain), File(offset, Plain)) : offset \in {65532, 65534}})

(* The first image begins with a word that encodes to zero: data, not an   *)
(* instruction. *)
Overlapping == Lines({Pair(File(offset, <<0, nop>>), File(32, <<reset>>)) :
                         offset \in {16, 30, 32}})

MCQuanta == {1, 2}
MCInputs == {<< >>}

CurrentId == GetInstructionId(RawOperation(Current, Memory))
Jumps == {1, 2, 4, 5, 23}

(* "Instruction pointer tried to leave memory!": an instruction in the     *)
(* last word of memory that does not jump fails, since there is no next    *)
(* instruction to go on with.                                              *)
IPStaysInMemory ==
    [][InstructionRuns /\ Current.RegisterSet[IP_ID] = 65534 /\ CurrentId \notin Jumps
          => Subprocesses'[CurrentSubprocessId].Exited]_vars

(* "Stack overflow!": taking the topmost word of memory off the stack      *)
(* fails, since SP cannot point past it.                                   *)
SPStaysInMemory ==
    [][InstructionRuns /\ Current.RegisterSet[SP_ID] = 65534 /\ CurrentId \in {21, 23}
          => Subprocesses'[CurrentSubprocessId].Exited]_vars

(* "All operations are on unsigned ints modulo 2^16": no operands of an    *)
(* instruction stop the vm.                                                *)
OperationsWrap == ~(pc = "aborted" /\ loadId = SubprocessCnt)

(* "Can't load code of subprocess ... in memory with given offset!": an    *)
(* image that does not fit makes main return 1; it does not abort.         *)
LoadOfLongImageFails == ~(pc = "aborted" /\ loadId < SubprocessCnt)

(* "Can't load intersecting subprocesses!": when execution starts, no two  *)
(* images share a word.                                                    *)
ImagesDisjoint ==
    Executing =>
        \A p, q \in Id : \A k \in DOMAIN argv.files[p].words :
            \A l \in DOMAIN argv.files[q].words :
                argv.files[p].offset \div 2 + k = argv.files[q].offset \div 2 + l
                    => p = q
======================================================================
