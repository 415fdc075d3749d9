-------------------------- MODULE MCExecuter --------------------------
(***************************************************************************)
(* Three subprocesses, each with one of a few short programs: every way to *)
(* exit, a program that never does, the stack and the streams; and command *)
(* lines whose files do not load.                                          *)
(***************************************************************************)
EXTENDS Executer, Assembly

Exits == <<movv(0, 3), reset>>
Loops == <<nop, jmp(-1)>>
Empty == << >>
Divides == <<div(0, 1)>>
Overflowing == <<movv(8, 255), mul(0, 0)>>
Calls == <<call(2), reset, ret>>
Echoes == <<in(0), in(8), out(8), push(0), pop(1), reset>>

File(offset, words, end) == [offset |-> offset, words |-> words, end |-> end]

(* The longest program fills the room up to the next image.  The first     *)
(* image leaves no room below it for its stack; the stacks of the others   *)
(* grow down into the image before them, over its last instruction if it   *)
(* is the longest.                                                         *)
Base(p) == 12 * p
Placed(words) == [p \in 0 .. 2 |-> File(Base(p), words[p], "eof")]
Runnable == {Exits, Loops, Empty, Divides, Calls, Echoes}

GoodFiles == {Placed(w) : w \in [0 .. 2 -> Runnable]}
BadFiles ==
    {[Placed([p \in 0 .. 2 |-> Exits]) EXCEPT ![1] = f] :
        f \in {File(Base(1) + 1, Exits, "eof"), File(Base(1), Exits, "odd"),
               File(Base(1), Exits, "error"), File(Base(0), Exits, "eof"),
               File(Base(2) - 2, Exits, "eof"), File(65534, Exits, "eof"),
               File(65524, Echoes, "eof"), File(Base(1), Overflowing, "eof"),
               File(2, <<0, 0>>, "eof")}}

MCCommandLines ==
    {[iterationsPerProcess |-> n, files |-> f] :
        n \in {0, 4}, f \in GoodFiles \cup BadFiles}
MCQuanta == {1, 2, 5}
MCInputs == {<<7, 9>>}
======================================================================
