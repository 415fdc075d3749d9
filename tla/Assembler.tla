-------------------------- MODULE Assembler ---------------------------
(***************************************************************************)
(* The assembler: main of asm.c and AssembleFile (assembler.c).  It reads  *)
(* a line at a time, keeps the last MAX_JUMP instructions in a window,     *)
(* fills in the jumps between them as labels are used and declared, and    *)
(* writes an instruction when its place in the window is needed again or   *)
(* the source has ended.                                                   *)
(***************************************************************************)
EXTENDS Disassembly, FiniteSets

LOCAL INSTANCE SequencesExt

CONSTANTS
    Programs,       \* the sources considered: sequences of lines
    Residues,       \* what an uninitialised argValue may hold
    MAX_JUMP        \* lines in the window; 128 in the build

ASSUME ProgramsAssumption == Programs \subseteq Seq(Lines)
ASSUME MAX_JUMPAssumption == MAX_JUMP \in 1 .. 128
ASSUME ResiduesAssumption == Residues \subseteq Word

VARIABLES
    source,             \* the lines of the code file, fixed
    residue,            \* what argValue holds when each line is parsed
    pc,                 \* where AssembleFile is, or how it ended
    CurrentLineId,
    InstructionWindow,
    LabelsUsed,
    LabelsDeclared,
    i,                  \* counter of the loop that empties the window
    destination         \* the instructions written

window == <<InstructionWindow, LabelsUsed, LabelsDeclared>>
vars == <<source, residue, pc, CurrentLineId, window, i, destination>>

(* "crashed": the sanitizers stopped the program.  In the other three main *)
(* returns 1.                                                              *)
Failures == {"crashed", "ioError", "parseError", "labelError"}
Locations == {"reading", "flushing", "done"} \cup Failures

Slot == 0 .. MAX_JUMP - 1
LineIds == 0 .. Len(source) - 1

TypeOK ==
    /\ source \in Programs
    /\ residue \in [LineIds -> Residues]
    /\ pc \in Locations
    /\ CurrentLineId \in 0 .. Len(source) + MAX_JUMP
    /\ InstructionWindow \in [Slot -> Word]
    /\ DOMAIN LabelsUsed = Slot /\ DOMAIN LabelsDeclared = Slot
    /\ i \in 0 .. MAX_JUMP
    /\ destination \in Seq(Word)

(* main has opened both files.  The window is not initialised, but no slot *)
(* is read before it is written.                                           *)
Init ==
    /\ source \in Programs
    /\ residue \in [LineIds -> Residues]
    /\ pc = "reading"
    /\ CurrentLineId = 0
    /\ InstructionWindow = [s \in Slot |-> 0]
    /\ LabelsUsed = [s \in Slot |-> NoLabel]
    /\ LabelsDeclared = [s \in Slot |-> NoLabel]
    /\ i = 0
    /\ destination = << >>

----------------------------------------------------------------------------
(* Labels. *)

(* LABEL_SUBSTITUTION_FLAG is the lowest bit of an instruction whose jump  *)
(* is still to be filled in.                                               *)
Pending(raw) == raw % 2 = 1

(* Fault: the distance is counted from the instruction after the jump. *)
SetLineLabelFromNext(raw, offset) == BitOr(raw - 1, ((offset - 1) % 2^8) * 2^4)

SetLineLabel(raw, offset) == BitOr(raw - 1, (offset % 2^8) * 2^4)

(* The lines at most this far back whose entry in labels is label. *)
LinesBack(distance, labels, label) ==
    {k \in CurrentLineId - distance .. CurrentLineId :
        k >= 0 /\ labels[k % MAX_JUMP] = label}

(* SetMyLabel: the lines before this one that declare the label it uses.   *)
(* A second one fails, the first having taken the flag away.               *)
Declarations(inner) ==
    IF inner = NoLabel THEN {}
    ELSE LinesBack(MAX_JUMP, LabelsDeclared, inner) \ {CurrentLineId}

(* Fault: the line that declares the label is not looked at itself. *)
UsesBefore(label, used) ==
    IF label = NoLabel THEN {}
    ELSE LinesBack(MAX_JUMP - 1, used, label) \ {CurrentLineId}

(* SetOthersLabels: the lines, this one included, that use the label it    *)
(* declares.                                                               *)
Uses(label, used) ==
    IF label = NoLabel THEN {} ELSE LinesBack(MAX_JUMP - 1, used, label)

----------------------------------------------------------------------------
(* Output. *)

windowLineId == CurrentLineId % MAX_JUMP

(* DumpLine has an instruction to write, and may not write it. *)
Evicts == CurrentLineId >= MAX_JUMP
Unresolved ==
    LabelsUsed[windowLineId] # NoLabel /\ Pending(InstructionWindow[windowLineId])

----------------------------------------------------------------------------
(* The loop over the lines. *)

line == ParseLine(source[CurrentLineId + 1], residue[CurrentLineId])
flagged == IF line.InnerLabel # NoLabel THEN BitOr(line.RawInstruction, 1)
           ELSE line.RawInstruction

(* How the loop ends, or goes on to the next one: nothing else changes.    *)
Ends(how) ==
    /\ pc' = how
    /\ UNCHANGED <<source, residue, CurrentLineId, window, i, destination>>

LineRead == pc = "reading" /\ CurrentLineId < Len(source)

(* The file cannot be read, or a line of it is too long. *)
ReadFails == pc = "reading" /\ Ends("ioError")

EndOfSource == pc = "reading" /\ CurrentLineId = Len(source) /\ Ends("flushing")

ParseFails ==
    /\ LineRead
    /\ line.status # "parsed"
    /\ Ends(IF line.status = "crashed" THEN "crashed" ELSE "parseError")

(* DumpLine makes room, but the line is stored at its own number and not   *)
(* at its slot, which the sanitizers stop; what was written is buffered    *)
(* and lost.                                                               *)
StoresPastWindow ==
    /\ LineRead
    /\ line.status = "parsed"
    /\ Evicts
    /\ Ends(IF Unresolved THEN "labelError" ELSE "crashed")

(* The window with the line in it, its own jump filled in if that label is *)
(* known; and with the jumps to the line filled in.                        *)
The(S) == CHOOSE x \in S : TRUE

Stored ==
    LET own == Declarations(line.InnerLabel)
    IN  [InstructionWindow EXCEPT ![CurrentLineId] =
            IF own = {} THEN flagged
            ELSE SetLineLabel(flagged, The(own) - CurrentLineId)]

Used == [LabelsUsed EXCEPT ![CurrentLineId] = line.InnerLabel]
Users == Uses(line.LineLabel, Used)

Linked ==
    [s \in Slot |->
        LET users == {k \in Users : k % MAX_JUMP = s}
        IN  IF users = {} THEN Stored[s]
            ELSE SetLineLabel(Stored[s], CurrentLineId - The(users))]

LineParsed == LineRead /\ line.status = "parsed" /\ ~Evicts

(* SetLineLabel fails where the flag is gone: the label the line uses was  *)
(* declared twice, or a line that uses the label has its jump already.     *)
Redeclared ==
    \/ \E k, l \in Declarations(line.InnerLabel) : k # l
    \/ \E k \in Users : ~Pending(Stored[k % MAX_JUMP])

TakeLine ==
    /\ LineParsed
    /\ ~Redeclared
    /\ InstructionWindow' = Linked
    /\ LabelsUsed' = Used
    /\ LabelsDeclared' = [LabelsDeclared EXCEPT ![CurrentLineId] = line.LineLabel]
    /\ CurrentLineId' = CurrentLineId + 1
    /\ UNCHANGED <<source, residue, pc, i, destination>>

LabelFails == LineParsed /\ Redeclared /\ Ends("labelError")

----------------------------------------------------------------------------
(* The loop that empties the window. *)

(* Fault: one slot too many. *)
FlushingOneMore == pc = "flushing" /\ i <= MAX_JUMP

Flushing == pc = "flushing" /\ i < MAX_JUMP

PassSlot ==
    /\ Flushing
    /\ ~Evicts
    /\ CurrentLineId' = CurrentLineId + 1
    /\ i' = i + 1
    /\ UNCHANGED <<source, residue, pc, window, destination>>

DumpLine ==
    /\ Flushing
    /\ Evicts
    /\ ~Unresolved
    /\ destination' = Append(destination, InstructionWindow[windowLineId])
    /\ CurrentLineId' = CurrentLineId + 1
    /\ i' = i + 1
    /\ UNCHANGED <<source, residue, pc, window>>

(* A jump has no label to go to, or the output cannot be written. *)
DumpFails ==
    /\ Flushing
    /\ Evicts
    /\ Ends(IF Unresolved THEN "labelError" ELSE "ioError")

Finish == pc = "flushing" /\ i = MAX_JUMP /\ Ends("done")

Ended == pc \in {"done"} \cup Failures
Terminated == Ended /\ UNCHANGED vars

Next == \/ ReadFails \/ EndOfSource \/ ParseFails \/ StoresPastWindow
        \/ TakeLine \/ LabelFails \/ PassSlot \/ DumpLine \/ DumpFails
        \/ Finish \/ Terminated

Spec == Init /\ [][Next]_vars

----------------------------------------------------------------------------
(* What the output should be, from the source alone. *)

UsesALabel(k) == source[k + 1].name \in JUMPS
UsedLabel(k) == source[k + 1].args[1]

(* Where the label of line k is declared, as far as a jump can reach. *)
Targets(k) ==
    {t \in LineIds : /\ \E d \in DOMAIN source[t + 1].declares :
                          source[t + 1].declares[d] = UsedLabel(k)
                     /\ t - k \in -MAX_JUMP .. MAX_JUMP - 1}

(* The operands line k asks for: as written, a label being the distance to *)
(* its target.  What stands behind the operands of a line is not looked    *)
(* at.                                                                     *)
Intended(k) ==
    LET args == source[k + 1].args
    IN  IF UsesALabel(k)
        THEN << Token("IMM", (The(Targets(k)) - k) % 2^8) >> \o Tail(args)
        ELSE args

MeansLine(raw, k) ==
    LET id == GetInstructionId(raw)
    IN  /\ id # INVALID_INSTRUCTION_ID
        /\ INSTRUCTION_NAMES[id + 1] = source[k + 1].name
        /\ IsPrefix(Operands(raw), Intended(k))

(* A line that asks for an instruction of the machine, and has at most one *)
(* label in front, shorter than LABEL_MAX_LEN.                             *)
IsLabel(token) == token.kind \in {"Label", "fullLabel", "RX", "RS"}
WellFormed(l) ==
    LET args == IF l.name \in JUMPS /\ l.args # << >> /\ IsLabel(l.args[1])
                THEN <<AnyLabel>> \o Tail(l.args) ELSE l.args
    IN  /\ \E form \in Forms : form[1] = l.name /\ IsPrefix(form[2], args)
        /\ \A d \in DOMAIN l.declares :
              /\ l.declares[d].kind \notin {"fullLabel", "long"}
              /\ d # Len(l.declares) => l.declares[d] = NoLabel

----------------------------------------------------------------------------
(* Safety. *)

(* What is written, also before a failure, is the program: instruction k,  *)
(* as the vm decodes it, is the one on line k, and its jump goes to the    *)
(* one line that declares the label.  The label's byte of an uninitialised *)
(* argValue must happen to be zero (JumpsReachLabels says what if not).    *)
OutputMeansSource ==
    /\ \A k \in 0 .. Len(destination) - 1 :
          (UsesALabel(k) => residue[k] % 2^8 = 0) => MeansLine(destination[k + 1], k)
    /\ pc = "done" => Len(destination) = Len(source)

(* Labels are accepted exactly when each one used is declared once within  *)
(* the reach of the jump, before or after it.                              *)
Misses(k) == UsesALabel(k) /\ Cardinality(Targets(k)) # 1
LabelsAccepted ==
    /\ pc = "done" => \A k \in LineIds : ~Misses(k)
    /\ pc = "labelError" => \E k \in LineIds : Misses(k)

(* A line is accepted exactly when it is well-formed: every operand the    *)
(* machine has a place for can be written, none that would not fit is      *)
(* taken, and the assembler stops on the spot at a token that is missing   *)
(* or too long for its buffer only where there is no instruction to miss.  *)
LinesAccepted ==
    /\ pc = "done" => \A k \in LineIds : WellFormed(source[k + 1])
    /\ pc = "parseError" => ~WellFormed(source[CurrentLineId + 1])
    /\ pc = "crashed" => Evicts \/ ~WellFormed(source[CurrentLineId + 1])
======================================================================
