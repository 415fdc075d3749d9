------------------------- MODULE Disassembly --------------------------
(***************************************************************************)
(* The way back from a raw operation to the tokens of a line: the fields   *)
(* of each instruction, named by what the instruction set does with them.  *)
(* It is built from the operators that extract the arguments when an       *)
(* instruction is executed, and from nothing of the assembler.             *)
(***************************************************************************)
EXTENDS CodeLine

Token(kind, value) == [kind |-> kind, value |-> value]

(* The operands of a raw operation, as the instruction set extracts them.  *)
Operands(raw) ==
    LET id == GetInstructionId(raw)
        Fst == FirstRX(raw)
        Snd == SecondRX(raw)
    IN  CASE id = 0 -> << Token("RS", Bits(raw, 8, 4)), Token("IMM", Bits(raw, 0, 8)) >>
          [] id \in {1, 2} -> << Token("IMM", BigDelta(raw)), Token("RX", Bits(raw, 1, 3)) >>
          [] id = 3 -> << Token("RX_REF", Bits(raw, 9, 3)), Token("RX", Bits(raw, 6, 3)),
                          Token("RX", Bits(raw, 3, 3)) >>
          [] id = 4 -> << Token("IMM", BigDelta(raw)) >>
          [] id = 5 -> << Token("IMM", CallDelta(raw)) >>
          [] id \in {6, 7} -> << Token("RX", Fst), Token("IMM", Imm4(raw)) >>
          [] id \in 8 .. 12 \cup 15 .. 17 -> << Token("RX", Fst), Token("RX", Snd) >>
          [] id = 13 -> << Token("RX", Fst), Token("RX_REF", Snd) >>
          [] id = 14 -> << Token("RX_REF", Fst), Token("RX", Snd) >>
          [] id \in {18, 19} -> << Token("RS", OnlyRS(raw)) >>
          [] id \in 20 .. 22 -> << Token("RX", Fst) >>
          [] OTHER -> << >>

(* Every instruction as it is written, a label standing for a distance.    *)
AnyLabel == Token("Label", 0)
JUMPS == {"jmp", "je", "jne"}
Forms ==
    LET name(raw) == INSTRUCTION_NAMES[GetInstructionId(raw) + 1]
    IN  {<<name(raw), IF name(raw) \in JUMPS
                      THEN <<AnyLabel>> \o Tail(Operands(raw)) ELSE Operands(raw)>> :
            raw \in {w \in Word : GetInstructionId(w) # INVALID_INSTRUCTION_ID}}
======================================================================
