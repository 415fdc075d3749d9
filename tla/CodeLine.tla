--------------------------- MODULE CodeLine ---------------------------
(***************************************************************************)
(* One line of assembly (code_line.c): what ParseLine makes of its tokens. *)
(*                                                                         *)
(* A token is a record of its kind and its value: the number of a register *)
(* (RX, RX_REF), of a half register (RS, 8 to 15 being the high halves) or *)
(* of an immediate (IMM), or which word it is: Label, two or more letters  *)
(* and digits that are not a register, letter, only one, fullLabel, just   *)
(* as many as LABEL_MAX_LEN, and long, a token of more characters.         *)
(*                                                                         *)
(* A line is a record                                                      *)
(*   declares  the labels in front of the instruction,                     *)
(*   name      the name of the instruction, "" when the line ends before   *)
(*             one, "other" for a word that names none,                    *)
(*   args      the tokens behind it.                                       *)
(***************************************************************************)
EXTENDS InstructionSet

LOCAL INSTANCE FiniteSetsExt

(* The empty string: a label that is not there, a token past the end.      *)
NoLabel == [kind |-> "none", value |-> 0]

Tokens == [kind : {"RX", "RX_REF"}, value : 0 .. 7] \cup [kind : {"RS"}, value : 0 .. 15]
          \cup [kind : {"IMM", "Label", "letter", "fullLabel", "long"}, value : Nat]

Lines == [declares : Seq(Tokens \cup {NoLabel}), name : STRING, args : Seq(Tokens)]

INSTRUCTION_NAMES ==
    << "mov", "jne", "je", "cmpxchg", "jmp", "call", "shr", "shl", "xor",
       "sub", "or", "mul", "mov", "mov", "mov", "div", "and", "add", "out",
       "in", "push", "pop", "not", "ret", "reset", "nop" >>

(* The first of the ids that have the name. *)
ParseInstructionId(name) ==
    LET ids == {id \in 0 .. INSTRUCTION_CNT - 1 : INSTRUCTION_NAMES[id + 1] = name}
    IN  IF ids = {} THEN INVALID_INSTRUCTION_ID
        ELSE CHOOSE id \in ids : \A other \in ids : id <= other

----------------------------------------------------------------------------
(* Arguments. *)

ArgSize == [IMM4 |-> 4, IMM8 |-> 8, RX |-> 3, RX_REF |-> 3, RS |-> 4, Label |-> 8]

(* Fault: one number too many. *)
ParseUIntUpTo(bits, token) == token.kind = "IMM" /\ token.value <= 2^bits

(* A number that fits the bits. *)
ParseUInt(bits, token) == token.kind = "IMM" /\ token.value < 2^bits

(* A label may be any word, also one that names a register. *)
ParsesAs(class, token) ==
    \/ class = "IMM4" /\ ParseUInt(4, token)
    \/ class = "IMM8" /\ ParseUInt(8, token)
    \/ class \in {"RX", "RX_REF", "RS"} /\ token.kind = class
    \/ class = "Label" /\ token.kind \in {"Label", "fullLabel", "RX", "RS"}

ReadToken(args, k) == IF k \in DOMAIN args THEN args[k] ELSE NoLabel

(* The arguments that do not parse, and whether ReadToken, in getting to   *)
(* the first of them, puts its NUL behind argStr.                          *)
Unparsed(classes, args) ==
    {k \in DOMAIN classes : ~ParsesAs(classes[k], ReadToken(args, k))}
Overruns(args, k) == ReadToken(args, k).kind = "long"

(* Each value is or-ed in below the one before it.  argValue is one        *)
(* variable for all arguments; the parser of a label does not set it, so   *)
(* it keeps the value it has, at first whatever was on the stack.          *)
Pack(classes, args, stale) ==
    LET argValue[k \in 0 .. Len(classes)] ==
            IF k = 0 THEN stale
            ELSE IF classes[k] = "Label" THEN argValue[k - 1] ELSE args[k].value
        offset[k \in 0 .. Len(classes)] ==
            IF k = 0 THEN 16 ELSE offset[k - 1] - ArgSize[classes[k]]
        raw[k \in 0 .. Len(classes)] ==
            IF k = 0 THEN 0
            ELSE BitOr(raw[k - 1], U16(argValue[k] * 2^offset[k]))
    IN  raw[Len(classes)]

UsesLabel(classes) == "Label" \in {classes[k] : k \in DOMAIN classes}

(* The arguments each instruction but mov takes, by name. *)
INSTRUCTION_PARSERS ==
    LET TwoRX == << "RX", "RX" >>
    IN  [jne   |-> << "Label", "RX" >>,  je    |-> << "Label", "RX" >>,
         jmp   |-> << "Label" >>,        call  |-> << "IMM8" >>,
         shr   |-> << "RX", "IMM4" >>,   shl   |-> << "RX", "IMM4" >>,
         xor   |-> TwoRX, sub |-> TwoRX, or    |-> TwoRX, mul |-> TwoRX,
         div   |-> TwoRX, and |-> TwoRX, add   |-> TwoRX,
         out   |-> << "RS" >>,           in    |-> << "RS" >>,
         push  |-> << "RX" >>,           pop   |-> << "RX" >>,
         not   |-> << "RX" >>,           ret   |-> << >>,
         reset |-> << >>,                nop   |-> << >>,
         cmpxchg |-> << "RX_REF", "RX", "RX" >>]

(* The four forms of mov, and the mark in the two lowest bits of the raw   *)
(* instruction by which ParseInstruction tells them apart.                 *)
MovForms ==
    {[classes |-> << "RX", "RX" >>,     mask |-> 3],
     [classes |-> << "RX_REF", "RX" >>, mask |-> 1],
     [classes |-> << "RX", "RX_REF" >>, mask |-> 2],
     [classes |-> << "RS", "IMM8" >>,   mask |-> 0]}
MovId(mark) ==
    CASE mark = 0 -> 0 [] mark = 1 -> 14 [] mark = 2 -> 13 [] mark = 3 -> 12

----------------------------------------------------------------------------
(* Instructions. *)

(* The arguments sit at the top of the word until the opcode is put above  *)
(* them.                                                                   *)
WithOpcode(raw, id) ==
    IF id < BIG_INSTRUCTION_CNT
    THEN BitOr(BitOr(raw \div 2^4, id * 2^12), 2^15)
    ELSE BitOr(raw \div 2^8, id * 2^8)

Rejected == [status |-> "rejected", LineLabel |-> NoLabel,
             InnerLabel |-> NoLabel, RawInstruction |-> 0]
Crashed == [Rejected EXCEPT !.status = "crashed"]
Parsed(label, inner, raw) ==
    [status |-> "parsed", LineLabel |-> label,
     InnerLabel |-> inner, RawInstruction |-> raw]

(* Both arguments are read before the forms are tried. *)
ParseMov(label, args) ==
    LET fitting == {f \in MovForms : Unparsed(f.classes, args) = {}}
        form    == CHOOSE f \in fitting : TRUE
        raw     == BitOr(Pack(form.classes, args, 0), form.mask)
    IN  IF Overruns(args, 1) \/ Overruns(args, 2) THEN Crashed
        ELSE IF fitting = {} THEN Rejected
        ELSE Parsed(label, NoLabel, WithOpcode(raw, MovId(raw % 4)))

ParseOther(label, name, args, stale) ==
    LET classes  == INSTRUCTION_PARSERS[name]
        unparsed == Unparsed(classes, args)
        raw      == Pack(classes, args, stale)
        inner    == IF UsesLabel(classes) THEN args[1] ELSE NoLabel
        masked   == IF UsesLabel(classes) THEN BitAnd(raw, BitNot(1)) ELSE raw
    IN  IF unparsed = {}
        THEN Parsed(label, inner, WithOpcode(masked, ParseInstructionId(name)))
        ELSE IF Overruns(args, Min(unparsed)) THEN Crashed ELSE Rejected

(* A label too long for the buffer of a token, which holds its colon too,  *)
(* and a second label; a colon on its own sets none.                       *)
BadLabels(declares) ==
    \E k \in DOMAIN declares :
        \/ declares[k].kind \in {"fullLabel", "long"}
        \/ k > 1 /\ declares[k - 1] # NoLabel

(* Where a token is missing ParseLine looks at the byte before its buffer, *)
(* which the sanitizers stop.                                              *)
ParseLine(line, stale) ==
    LET label == ReadToken(line.declares, Len(line.declares))
    IN  IF BadLabels(line.declares) THEN Rejected
        ELSE IF line.name = "" THEN Crashed
        ELSE IF ParseInstructionId(line.name) = INVALID_INSTRUCTION_ID THEN Rejected
        ELSE IF line.name = "mov" THEN ParseMov(label, line.args)
        ELSE ParseOther(label, line.name, line.args, stale)
======================================================================
