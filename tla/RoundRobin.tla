-------------------------- MODULE RoundRobin --------------------------
(***************************************************************************)
(* What the executer promises about scheduling, without memory, registers  *)
(* or programs: N subprocesses take turns in a fixed circular order, a     *)
(* turn is at most quantum ticks, only a subprocess that exits gives its   *)
(* turn up early, one that has exited never gets another turn, and the     *)
(* scheduler stops when, and only when, all of them have exited.           *)
(***************************************************************************)
EXTENDS Integers

CONSTANT N      \* number of subprocesses

VARIABLES
    quantum,    \* ticks in a full turn, fixed
    live,       \* subprocesses that have not exited
    turn,       \* the subprocess that has, or had last, the turn
    left,       \* ticks left in the current turn
    stopped

vars == <<quantum, live, turn, left, stopped>>

Id == 0 .. N - 1

(* Distance on the circle from p to q, at least one step. *)
Ahead(p, q) == IF q > p THEN q - p ELSE q - p + N

Init ==
    /\ quantum \in Nat \ {0}
    /\ live = Id
    /\ turn = 0
    /\ left = 0
    /\ stopped = FALSE

(* The turn goes to the next live subprocess on the circle. *)
PassTurn ==
    /\ left = 0
    /\ \E q \in live :
         /\ \A r \in live : Ahead(turn, q) <= Ahead(turn, r)
         /\ turn' = q
    /\ left' = quantum
    /\ UNCHANGED <<quantum, live, stopped>>

Tick ==
    /\ left > 0
    /\ left' = left - 1
    /\ UNCHANGED <<quantum, live, turn, stopped>>

Exit ==
    /\ left > 0
    /\ turn \in live
    /\ live' = live \ {turn}
    /\ left' = 0
    /\ UNCHANGED <<quantum, turn, stopped>>

Stop ==
    /\ live = {}
    /\ left = 0
    /\ ~stopped
    /\ stopped' = TRUE
    /\ UNCHANGED <<quantum, live, turn, left>>

Next == PassTurn \/ Tick \/ Exit \/ Stop

Spec == Init /\ [][Next]_vars
======================================================================
