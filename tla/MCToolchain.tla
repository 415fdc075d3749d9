------------------------- MODULE MCToolchain --------------------------
(***************************************************************************)
(* Pairs of sources, assembled, loaded and run: every instruction, every   *)
(* way to exit, loops, calls and the stack, and pointers into a room that  *)
(* each finds from its stack pointer; and sessions with one mistake, in a  *)
(* source or in the arguments.                                             *)
(***************************************************************************)
EXTENDS Toolchain, SourceLines

Op2(name, x, y) == Plain(name, <<RX(x), RX(y)>>)
Set(half, n) == Plain("mov", <<RS(half), Imm(n)>>)
Reset == Plain("reset", << >>)

Echo == <<Plain("in", <<RS(0)>>), Plain("in", <<RS(9)>>), Plain("out", <<RS(9)>>), Reset>>
CountDown == <<Set(1, 3), Set(2, 1), Line(<<a>>, "sub", <<RX(1), RX(2)>>),
               Plain("jne", <<a, RX(1)>>), Set(0, 7), Reset>>
Calls == <<Set(0, 5), Plain("push", <<RX(0)>>), Plain("call", <<Imm(4)>>),
           Plain("pop", <<RX(1)>>), Plain("out", <<RS(1)>>), Reset,
           Plain("not", <<RX(0)>>), Plain("ret", << >>)>>
Points == <<Op2("mov", 1, 7), Set(2, 2), Op2("sub", 1, 2),
            Plain("mov", <<Ref(1), RX(2)>>), Plain("cmpxchg", <<Ref(1), RX(2), RX(3)>>),
            Plain("cmpxchg", <<Ref(1), RX(2), RX(4)>>), Plain("mov", <<RX(0), Ref(1)>>), Reset>>
Computes == <<Set(0, 200), Set(9, 3), Op2("add", 0, 1), Plain("shl", <<RX(0), Imm(7)>>),
              Op2("div", 0, 1), Plain("out", <<RS(8)>>), Plain("out", <<RS(0)>>), Reset>>
Bits == <<Set(0, 12), Set(1, 10), Op2("xor", 0, 1), Op2("or", 0, 1), Op2("and", 1, 0),
          Op2("mul", 0, 1), Plain("shr", <<RX(0), Imm(2)>>), Reset>>
Skips == <<Plain("je", <<b, RX(0)>>), Plain("out", <<RS(0)>>), Line(<<b>>, "nop", << >>)>>
Divides == <<Op2("div", 0, 1)>>
Odd == <<Set(1, 1), Plain("mov", <<RX(0), Ref(1)>>)>>
Loops == <<Line(<<a>>, "jmp", <<a>>)>>
Empty == << >>

Ending == {Echo, CountDown, Calls, Points, Computes, Bits, Skips, Divides, Odd, Empty}
Programs == Ending \cup {Loops}
BadSources == {<<Plain("jmp", <<a>>)>>, <<Reset, Plain("add", <<RX(1)>>)>>,
               <<Plain("", << >>)>>, <<Loops[1], Loops[1]>>,
               [k \in 1 .. MAX_JUMP + 1 |-> Reset]}

(* Offset 0 leaves no room for a stack. *)
Room(offset) == offset \div 2 - 2 .. offset \div 2 + MAX_JUMP
Placement(k, offset) == [source |-> k, offset |-> offset, room |-> Room(offset) \cap Nat]

Decimal[n \in Nat] ==
    IF n < 10 THEN <<n>> ELSE Append(Decimal[n \div 10], n % 10)

Args(n, bases) == <<Decimal[n], 1, Decimal[bases[1]], 2, Decimal[bases[2]]>>

Session(programs, n, bases, p) ==
    [sources |-> programs, args |-> Args(n, bases), budget |-> n,
     placements |-> [q \in Id |-> Placement(q + 1, bases[q + 1])],
     input |-> <<65, 66, 67>>, faults |-> FALSE, observed |-> p]

(* Each source beside some others, before it and behind it; without a      *)
(* budget only those that end.                                             *)
Beside(s, t, n, bases) ==
    {Session(<<s, t>>, n, bases, 0), Session(<<t, s>>, n, bases, 1)}
GoodSessions ==
    UNION ({Beside(s, t, 21, <<64, 128>>) : s \in Programs, t \in {Calls, CountDown, Loops}}
             \cup {Beside(s, Echo, 0, <<0, 48>>) : s \in Ending \ {Points}}
             \cup {Beside(s, Points, 21, <<128, 64>>) : s \in {Calls, Points, Loops}})

usual == Session(<<CountDown, Calls>>, 21, <<64, 128>>, 0)
x == 10     \* a character that is not a digit

(* The same said in other words, and the largest budget. *)
OtherWords ==
    {[usual EXCEPT !.args[1] = <<0, 2, 1>>], [usual EXCEPT !.args[3] = <<0, 0, 6, 4>>],
     [usual EXCEPT !.args[1] = Decimal[UINT32_MAX], !.budget = UINT32_MAX],
     [usual EXCEPT !.args[2] = 2, !.placements[0].source = 2]}

BadArguments ==
    {[usual EXCEPT !.args[1] = n] : n \in {<< >>, <<x>>, <<2, x>>, Decimal[UINT32_MAX + 1],
                                           <<1, 0, 0, 0, 0, 0, 0, 0, 0>>}}
      \cup {[usual EXCEPT !.args[k] = n] : k \in {3, 5}, n \in {<< >>, <<x, 4>>, <<6, 5>>,
                                                                <<6, 5, 5, 3, 6>>}}
      \cup {[usual EXCEPT !.args = n] : n \in {<<usual.args[1]>>, usual.args \o <<1>>,
                                               SubSeq(usual.args, 1, 2), << >>}}
      \cup {[usual EXCEPT !.args[4] = 3], [usual EXCEPT !.args[5] = Decimal[64]]}

Unsound == BadArguments
           \cup {[usual EXCEPT !.sources[k] = s] : k \in 1 .. 2, s \in BadSources}

MCSessions ==
    LET fine == GoodSessions \cup OtherWords \cup Unsound
    IN  fine \cup {[s EXCEPT !.faults = TRUE] :
                      s \in {usual} \cup OtherWords \cup Unsound}
MCQuanta == {1, 3, 10}
======================================================================
