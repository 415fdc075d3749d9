------------------------- MODULE SourceLines --------------------------
(***************************************************************************)
(* Lines of assembly, as CodeLine describes them, to write the sources of  *)
(* the model-checked instances in.  Registers are 0 to 7, halves 0 to 7    *)
(* (low) and 8 to 15 (high).                                               *)
(***************************************************************************)

LOCAL Token(kind, value) == [kind |-> kind, value |-> value]

RX(n) == Token("RX", n)
Ref(n) == Token("RX_REF", n)
RS(n) == Token("RS", n)
Imm(n) == Token("IMM", n)
a == Token("Label", 1)
b == Token("Label", 2)
letter == Token("letter", 3)
full == Token("fullLabel", 4)
long == Token("long", 5)

Line(declares, name, args) == [declares |-> declares, name |-> name, args |-> args]
Plain(name, args) == Line(<< >>, name, args)
======================================================================
