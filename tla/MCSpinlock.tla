-------------------------- MODULE MCSpinlock --------------------------
(***************************************************************************)
(* Two or three contenders with up to two nops each, the last subprocess a *)
(* contender or not: turns end everywhere in the programs.  A budget stops *)
(* some of them early, one with the lock.                                  *)
(***************************************************************************)
EXTENDS Spinlock

Placed(p, words) == [offset |-> 32 + 64 * p, words |-> words, end |-> "eof"]

MCCommandLines ==
    {[iterationsPerProcess |-> budget,
      files |-> [p \in 0 .. 2 |->
                   Placed(p, IF p = 2 /\ bystander THEN Bystander ELSE Contender(nops[p]))]] :
        nops \in [0 .. 2 -> 0 .. 2], bystander \in BOOLEAN, budget \in {0, 11}}
MCQuanta == 1 .. 6
MCInputs == {<< >>}
======================================================================
