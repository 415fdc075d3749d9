------------------------- MODULE MCAssembler --------------------------
(***************************************************************************)
(* A window of three lines.  Every program of up to three lines over a set *)
(* of lines that declare and use two labels, some of four, and programs of *)
(* one line for every instruction and for what is not one.                 *)
(***************************************************************************)
EXTENDS Assembler, SourceLines

Jumps ==
    {Plain("nop", << >>), Line(<<a>>, "nop", << >>), Line(<<b>>, "jmp", <<a>>),
     Line(<<a>>, "jmp", <<a>>), Line(<<a>>, "je", <<b, RX(7)>>),
     Plain("jne", <<b, RX(3)>>)}

Upto(n, lines) == UNION {[1 .. k -> lines] : k \in 0 .. n}

(* One program for each form of instruction and some of its operands. *)
Regs == {0, 5, 7}
Halves == {0, 7, 8, 15}
Instructions ==
    UNION {
      {Plain(name, <<RX(x), RX(y)>>) : x, y \in Regs,
          name \in {"xor", "sub", "or", "mul", "div", "and", "add", "mov"}},
      {Plain("mov", <<Ref(x), RX(y)>>) : x, y \in Regs},
      {Plain("mov", <<RX(x), Ref(y)>>) : x, y \in Regs},
      {Plain("mov", <<RS(x), Imm(y)>>) : x \in Halves, y \in {0, 3, 255}},
      {Plain("cmpxchg", <<Ref(x), RX(y), RX(z)>>) : x, y, z \in Regs},
      {Plain(name, <<RX(x), Imm(y)>>) : name \in {"shl", "shr"}, x \in Regs, y \in {0, 15}},
      {Plain(name, <<RS(x)>>) : name \in {"in", "out"}, x \in Halves},
      {Plain(name, <<RX(x)>>) : name \in {"push", "pop", "not"}, x \in Regs},
      {Plain("call", <<Imm(x)>>) : x \in {0, 255}},
      {Plain(name, << >>) : name \in {"ret", "reset", "nop"}}}

(* No instruction, an unknown one, wrong, missing, too large, too long or  *)
(* too many operands, two labels, an empty label, labels of one letter, of *)
(* all the letters there is room for, and of more.                         *)
Mistakes ==
    {Plain("", << >>), Line(<<a>>, "", << >>), Plain("other", << >>),
     Plain("add", <<RX(1)>>), Plain("mov", <<Imm(1), RX(1)>>),
     Plain("shl", <<RX(1), Imm(16)>>), Plain("call", <<Imm(256)>>),
     Line(<<a, b>>, "nop", << >>), Line(<<letter>>, "jmp", <<letter>>),
     Line(<<NoLabel>>, "nop", << >>), Line(<<NoLabel, a>>, "jmp", <<a>>),
     Line(<<a, NoLabel>>, "nop", << >>), Line(<<full>>, "nop", << >>),
     Line(<<long>>, "", << >>), Plain("jmp", <<full>>), Plain("jmp", <<long>>),
     Plain("je", <<a, long>>), Plain("mov", <<RX(1), long>>), Plain("nop", <<long>>),
     Plain("add", <<Imm(1), long>>), Plain("push", <<RX(1), RX(2)>>),
     Plain("shr", <<RX(1), long>>), Plain("jmp", <<Imm(1)>>), Plain("call", <<a>>)}

(* A register's name is a label like any other. *)
NamedLikeRegister ==
    {<<Line(<<RX(1)>>, "nop", << >>), Plain("jmp", <<RX(1)>>)>>}

MCPrograms ==
    Upto(3, Jumps) \cup [1 .. 4 -> {Line(<<a>>, "nop", << >>), Plain("jmp", <<a>>)}]
        \cup {<<l>> : l \in Instructions \cup Mistakes} \cup NamedLikeRegister
MCResidues == {0, 5}

(* A program longer than the window, and jumps parsed after something else *)
(* was on the stack.                                                       *)
Long == {[k \in 1 .. 4 |-> Plain("nop", << >>)]} \cup [1 .. 2 -> Jumps]
Short == Upto(2, Jumps)

(* Assembling fails when the distance between a jump and its label does    *)
(* not fit its byte: a program without such a jump, and with an            *)
(* instruction on every line, does not stop the assembler.                 *)
AssemblesLongPrograms ==
    pc = "crashed" => \E k \in LineIds : source[k + 1].name = ""

(* A jump is relative to the jump itself and goes to the place where its   *)
(* label stands, whatever was on the stack when it was parsed.             *)
JumpsReachLabels ==
    \A k \in 0 .. Len(destination) - 1 : MeansLine(destination[k + 1], k)
======================================================================
