--------------------------- MODULE Spinlock ----------------------------
(***************************************************************************)
(* What cmpxchg is in the instruction set for: a spin lock.  Subprocesses  *)
(* contend for a lock word to add to a shared counter, Rounds times each;  *)
(* others loop and leave the lock alone.  The quantum, and the nops a      *)
(* program starts with, decide where turns end.                            *)
(***************************************************************************)
EXTENDS Executer, Assembly, FiniteSets

CONSTANT Rounds
ASSUME RoundsAssumption == Rounds \in 1 .. 255

LockAddress == 4
CounterAddress == 8
Lock == Read(Memory, LockAddress \div 2)
Counter == Read(Memory, CounterAddress \div 2)

Body ==
    <<movv(0, LockAddress), movv(4, CounterAddress), movv(5, 1), movv(6, Rounds),
      movr(2, 5), cmpxchg(0, 1, 2), jne(-1, 2),                     \* acquire
      mov2(3, 4), add(3, 5), mov1(4, 3),                            \* add 1
      mov1(0, 1),                                                   \* release
      sub(6, 5), jne(-8, 6), reset>>
Contender(nops) ==
    [k \in 1 .. nops + Len(Body) |-> IF k <= nops THEN nop ELSE Body[k - nops]]
Bystander == <<nop, jmp(-1)>>

(* Every subprocess runs one of these, with or without a budget, loaded    *)
(* anywhere but over the lock and the counter.                             *)
ASSUME ProgramsAssumption ==
    \A c \in CommandLines : \A p \in Id :
        /\ \/ c.files[p].words = Bystander
           \/ \E n \in 0 .. Len(c.files[p].words) : c.files[p].words = Contender(n)
        /\ \A k \in DOMAIN c.files[p].words :
             c.files[p].offset \div 2 + k - 1 \notin {LockAddress \div 2, CounterAddress \div 2}

Contends(p) == argv.files[p].words # Bystander
Contenders == {p \in Id : Contends(p)}

(* The number, from 1, of the next instruction of p's program, its nops    *)
(* not counted.                                                            *)
At(p) ==
    ((Subprocesses[p].RegisterSet[IP_ID] - argv.files[p].offset) \div 2 + 1)
        - (Len(argv.files[p].words) - Len(Body))

(* p has the lock: from the cmpxchg that took it, which clears R2, to the  *)
(* store that gives it back.                                               *)
HasLock(p) ==
    /\ Contends(p)
    /\ Subprocesses[p] # NULL
    /\ \/ At(p) = 7 /\ Subprocesses[p].RegisterSet[2] = 0
       \/ At(p) \in 8 .. 11

(* At most one subprocess is between acquire and release, wherever the     *)
(* executer cuts the programs, and the lock word says whether one is; also *)
(* when a subprocess runs out of its budget with the lock.                 *)
MutualExclusion ==
    /\ \A p, q \in Id : HasLock(p) /\ HasLock(q) => p = q
    /\ Executing => Lock = IF \E p \in Id : HasLock(p) THEN 1 ELSE 0

(* No addition to the shared counter is lost: at the end, and as soon as   *)
(* every contender has exited, it is the number of additions made.         *)
NoLostUpdate ==
    /\ Executing \/ pc = "done"
    /\ argv.iterationsPerProcess = 0
    /\ \A p \in Contenders : ~Live(p)
    => Counter = U16(Rounds * Cardinality(Contenders))

(* Spinning wastes turns but no contender waits for the lock forever, even *)
(* beside a subprocess that never exits.                                   *)
LockIsObtained ==
    \A p \in Id :
        Contends(p) /\ Executing
            ~> Ended \/ (Executing /\ Subprocesses[p].Exited)
======================================================================
