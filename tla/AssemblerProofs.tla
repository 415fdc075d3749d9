----------------------- MODULE AssemblerProofs ------------------------
(***************************************************************************)
(* The assembler, for a window of any length and any sources: its types,   *)
(* that it accepts labels exactly when each one used is declared once      *)
(* within the reach of the jump, that it accepts exactly the well-formed   *)
(* lines, and that what it writes means what the source says.              *)
(*                                                                         *)
(* These compare how assembling ends with the whole source.  They are not  *)
(* inductive: nothing in them says what the window holds while lines are   *)
(* read.  WindowInv does: the slots hold the labels of the lines read so   *)
(* far, and a jump is still open exactly as long as none of these lines    *)
(* declares its label.  What the words mean is EncodingProofs' part.       *)
(***************************************************************************)
EXTENDS Assembler, EncodingProofs, FiniteSetTheorems

LOCAL INSTANCE SequencesExt

----------------------------------------------------------------------------
(* The flag of an open jump. *)

(* A jump is open once its label is noted, and until it is filled in. *)
LEMMA FlagOpens ==
  ASSUME NEW raw \in Word
  PROVE  BitOr(raw, 1) \in Word /\ Pending(BitOr(raw, 1))
<1>1. raw \in Int
  BY WordIff
<1> QED
  BY <1>1, OrLowestBit, FromOnesType DEF BitOr, Pending

LEMMA LabelCloses ==
  ASSUME NEW raw \in Word, NEW offset \in Int
  PROVE  /\ SetLineLabel(raw, offset) \in Word
         /\ Pending(raw) => ~Pending(SetLineLabel(raw, offset))
<1> DEFINE d == (offset % 2^8) * 2^4
<1>1. d \in Int /\ d % 2 = 0
  BY 2^8 = 256, 2^4 = 16
<1>2. raw - 1 \in Int /\ (Pending(raw) => (raw - 1) % 2 = 0)
  BY WordIff DEF Pending
<1> HIDE DEF d
<1>3. Pending(raw) => ~Pending(BitOr(raw - 1, d))
  BY <1>1, <1>2, OrLowestBit DEF Pending
<1>4. BitOr(raw - 1, d) \in Word
  BY FromOnesType DEF BitOr
<1> QED
  BY <1>3, <1>4 DEF SetLineLabel, d

----------------------------------------------------------------------------
(* The invariant. *)

(* Line k as it was parsed, and as the window takes it. *)
LineAt(k) == ParseLine(source[k + 1], residue[k])
HasJump(k) == LineAt(k).InnerLabel # NoLabel
Flagged(k) == IF HasJump(k) THEN BitOr(LineAt(k).RawInstruction, 1)
              ELSE LineAt(k).RawInstruction

(* The lines up to n that declare the label line k uses. *)
Declaring(k, n) == {t \in 0 .. n - 1 : LineAt(t).LineLabel = LineAt(k).InnerLabel}

(* The lines read, and how many of them have left the window. *)
LinesRead == CurrentLineId - i
Dumped(k) == k < CurrentLineId - MAX_JUMP

(* Where the loops are. *)
Progress ==
    /\ LinesRead \in 0 .. Len(source) /\ LinesRead <= MAX_JUMP
    /\ pc = "reading" => i = 0
    /\ i > 0 => LinesRead = Len(source)
    /\ pc \in {"flushing", "done"} => LinesRead = Len(source)
    /\ pc = "done" => i = MAX_JUMP

SlotHolds(k, n) ==
    /\ LineAt(k).status = "parsed"
    /\ LabelsUsed[k] = LineAt(k).InnerLabel
    /\ LabelsDeclared[k] = LineAt(k).LineLabel
    /\ ~HasJump(k) \/ Declaring(k, n) = {} => InstructionWindow[k] = Flagged(k)
    /\ HasJump(k) => \A t \in Declaring(k, n) :
                      /\ \A u \in Declaring(k, n) : u = t
                      /\ InstructionWindow[k] = SetLineLabel(Flagged(k), t - k)

WindowInv ==
    /\ \A k \in 0 .. LinesRead - 1 : SlotHolds(k, LinesRead)
    /\ \A k \in 0 .. LinesRead - 1 :
          Dumped(k) => /\ HasJump(k) => Declaring(k, LinesRead) # {}
                       /\ destination[k + 1] = InstructionWindow[k]
    /\ Len(destination) = IF CurrentLineId <= MAX_JUMP THEN 0 ELSE CurrentLineId - MAX_JUMP

FailInv ==
    /\ pc \in {"parseError", "crashed"} => CurrentLineId < Len(source)
    /\ pc = "parseError" => LineAt(CurrentLineId).status # "parsed"
    /\ pc = "crashed" => Evicts \/ LineAt(CurrentLineId).status # "parsed"
    /\ pc = "labelError" => \E k \in LineIds : Misses(k)

AInv == TypeOK /\ Progress /\ WindowInv /\ FailInv
----------------------------------------------------------------------------
(* Types. *)

(* A slot is the number of its line, or of a line one window later. *)
LEMMA SlotOf ==
  ASSUME NEW M \in Nat, NEW k \in Nat, k < M PROVE k % M = k /\ (k + M) % M = k
<1> DEFINE q == (k + M) \div M
           r == (k + M) % M
           p == k \div M
           s == k % M
<1>1. /\ q \in Int /\ r \in Int /\ k + M = M * q + r /\ 0 <= r /\ r < M
      /\ p \in Int /\ s \in Int /\ k = M * p + s /\ 0 <= s /\ s < M
  OBVIOUS
<1> HIDE DEF q, r, p, s
<1>2. p = 0
  <2>1. CASE p >= 1
    <3>1. M * p >= M
      BY <2>1, <1>1
    <3> QED
      BY <3>1, <1>1
  <2>2. CASE p <= -1
    <3>1. M * p <= -M
      BY <2>2, <1>1
    <3> QED
      BY <3>1, <1>1
  <2> QED
    BY <2>1, <2>2, <1>1
<1>3. q = 1
  <2>1. CASE q >= 2
    <3>1. M * q >= M + M
      BY <2>1, <1>1
    <3> QED
      BY <3>1, <1>1
  <2>2. CASE q <= 0
    <3>1. M * q <= 0
      BY <2>2, <1>1
    <3> QED
      BY <3>1, <1>1
  <2> QED
    BY <2>1, <2>2, <1>1
<1> QED
  BY <1>1, <1>2, <1>3 DEF r, s

LEMMA Sizes ==
  ASSUME TypeOK
  PROVE  /\ source \in Seq(Lines) /\ Len(source) \in Nat /\ MAX_JUMP \in 1 .. 128
         /\ CurrentLineId \in 0 .. Len(source) + MAX_JUMP /\ i \in 0 .. MAX_JUMP
         /\ MAX_JUMP \in Nat /\ CurrentLineId \in Nat /\ i \in Nat
<1>1. source \in Seq(Lines)
  BY ProgramsAssumption DEF TypeOK
<1>2. Len(source) \in Nat /\ MAX_JUMP \in 1 .. 128 /\ MAX_JUMP \in Nat
  BY <1>1, MAX_JUMPAssumption
<1> QED
  BY <1>1, <1>2 DEF TypeOK

LEMMA LineType ==
  ASSUME TypeOK, NEW k \in LineIds
  PROVE  /\ source[k + 1] \in Lines
         /\ LineAt(k).status \in {"rejected", "crashed", "parsed"}
         /\ LineAt(k).RawInstruction \in Word
         /\ Flagged(k) \in Word
         /\ HasJump(k) => Pending(Flagged(k))
<1>2. source[k + 1] \in Lines
  BY Sizes DEF LineIds
<1>3. /\ LineAt(k).status \in {"rejected", "crashed", "parsed"}
      /\ LineAt(k).RawInstruction \in Word
  BY <1>2, ParsedLine DEF LineAt
<1>4. Flagged(k) \in Word /\ (HasJump(k) => Pending(Flagged(k)))
  BY <1>3, FlagOpens DEF Flagged
<1> QED
  BY <1>2, <1>3, <1>4

LEMMA StoredType ==
  ASSUME TypeOK, LineRead PROVE flagged \in Word /\ Stored \in [Slot -> Word]
<1> DEFINE own == Declarations(line.InnerLabel)
<1>1. CurrentLineId \in LineIds /\ CurrentLineId \in Int /\ MAX_JUMP \in Int
  BY Sizes DEF LineRead, LineIds
<1>2. flagged \in Word
  BY <1>1, LineType DEF flagged, line, LineAt, Flagged, HasJump
<1>3. own \subseteq Int
  BY <1>1 DEF Declarations, LinesBack
<1>4. own # {} => The(own) \in Int
  BY <1>3 DEF The
<1>5. own # {} => SetLineLabel(flagged, The(own) - CurrentLineId) \in Word
  BY <1>1, <1>2, <1>4, LabelCloses
<1> HIDE DEF own
<1>6. InstructionWindow \in [Slot -> Word]
  BY DEF TypeOK
<1> QED
  BY <1>2, <1>5, <1>6 DEF Stored, own

LEMMA LinkedType ==
  ASSUME TypeOK, LineRead PROVE Linked \in [Slot -> Word]
<1>1. CurrentLineId \in Int /\ MAX_JUMP \in Int
  BY Sizes
<1>2. Users \subseteq Int
  BY <1>1 DEF Users, Uses, LinesBack
<1> SUFFICES ASSUME NEW s \in Slot,
                    NEW users, users = {k \in Users : k % MAX_JUMP = s}, users # {}
             PROVE  SetLineLabel(Stored[s], CurrentLineId - The(users)) \in Word
  BY StoredType DEF Linked
<1>3. The(users) \in Int
  BY <1>2 DEF The
<1>4. Stored[s] \in Word
  BY StoredType
<1> QED
  BY <1>1, <1>3, <1>4, LabelCloses

LEMMA TypeInit == Init => TypeOK /\ Progress
<1> SUFFICES ASSUME Init PROVE TypeOK /\ Progress
  OBVIOUS
<1>1. source \in Seq(Lines)
  BY ProgramsAssumption DEF Init
<1>2. Len(source) \in Nat /\ MAX_JUMP \in 1 .. 128 /\ 0 \in Word
  BY <1>1, MAX_JUMPAssumption, WordIff
<1>3. /\ pc \in Locations /\ CurrentLineId \in 0 .. Len(source) + MAX_JUMP
      /\ InstructionWindow \in [Slot -> Word] /\ i \in 0 .. MAX_JUMP
      /\ DOMAIN LabelsUsed = Slot /\ DOMAIN LabelsDeclared = Slot
      /\ destination \in Seq(Word)
  BY <1>2 DEF Init, Locations
<1>4. Progress
  BY <1>2 DEF Init, Progress, LinesRead
<1> QED
  BY <1>3, <1>4 DEF Init, TypeOK

LEMMA TypeStep ==
  ASSUME TypeOK, Progress, [Next]_vars PROVE TypeOK' /\ Progress'
<1>2. /\ Len(source) \in Nat /\ MAX_JUMP \in 1 .. 128
      /\ CurrentLineId \in 0 .. Len(source) + MAX_JUMP /\ i \in 0 .. MAX_JUMP
  BY Sizes
<1>3. ASSUME NEW how \in Locations, Ends(how),
             how = "flushing" => pc = "reading" /\ CurrentLineId = Len(source),
             how = "done" => pc = "flushing" /\ i = MAX_JUMP,
             how # "reading"
      PROVE  TypeOK' /\ Progress'
  <2>1. TypeOK'
    BY <1>3 DEF TypeOK, Ends, window, LineIds
  <2>2. CASE how = "flushing"
    BY <1>2, <1>3, <2>1, <2>2 DEF Ends, Progress, LinesRead
  <2>3. CASE how # "flushing"
    BY <1>2, <1>3, <2>1, <2>3 DEF Ends, Progress, LinesRead
  <2> QED
    BY <2>1, <2>2, <2>3
<1> HIDE DEF Ends
<1>4. CASE ReadFails
  BY <1>3, <1>4 DEF ReadFails, Locations, Failures
<1>5. CASE EndOfSource
  BY <1>3, <1>5 DEF EndOfSource, Locations, Failures
<1>6. CASE ParseFails
  BY <1>3, <1>6 DEF ParseFails, Locations, Failures
<1>7. CASE StoresPastWindow
  BY <1>3, <1>7 DEF StoresPastWindow, Locations, Failures
<1>8. CASE TakeLine
  <2>1. LineRead /\ CurrentLineId < MAX_JUMP
    BY <1>2, <1>8 DEF TakeLine, LineParsed, Evicts
  <2>2. InstructionWindow' \in [Slot -> Word]
    BY <2>1, <1>8, LinkedType DEF TakeLine
  <2>3. /\ DOMAIN LabelsUsed' = Slot /\ DOMAIN LabelsDeclared' = Slot
    BY <1>8 DEF TakeLine, TypeOK, Used
  <2>4. TypeOK'
    BY <1>2, <1>8, <2>1, <2>2, <2>3 DEF TypeOK, TakeLine, LineRead, LineIds
  <2>5. Progress'
    BY <1>2, <1>8, <2>1 DEF Progress, LinesRead, TakeLine, LineRead
  <2> QED
    BY <2>4, <2>5
<1>9. CASE LabelFails
  BY <1>3, <1>9 DEF LabelFails, Locations, Failures
<1>10. CASE PassSlot
  <2>1. TypeOK'
    BY <1>2, <1>10 DEF TypeOK, PassSlot, Flushing, window, LineIds, Progress, LinesRead
  <2>2. Progress'
    BY <1>2, <1>10 DEF Progress, LinesRead, PassSlot, Flushing
  <2> QED
    BY <2>1, <2>2
<1>11. CASE DumpLine
  <2>1. windowLineId \in Slot
    BY <1>2 DEF windowLineId, Slot
  <2>2. destination' \in Seq(Word)
    BY <1>11, <2>1 DEF DumpLine, TypeOK
  <2>3. CurrentLineId' \in 0 .. Len(source) + MAX_JUMP /\ i' \in 0 .. MAX_JUMP
    BY <1>2, <1>11 DEF DumpLine, Flushing, Progress, LinesRead
  <2>4. /\ source' = source /\ residue' = residue /\ pc' = pc
        /\ InstructionWindow' = InstructionWindow
        /\ LabelsUsed' = LabelsUsed /\ LabelsDeclared' = LabelsDeclared
    BY <1>11 DEF DumpLine, window
  <2>5. TypeOK'
    BY <2>2, <2>3, <2>4 DEF TypeOK, LineIds
  <2>6. Progress'
    BY <1>2, <1>11 DEF Progress, LinesRead, DumpLine, Flushing
  <2> QED
    BY <2>5, <2>6
<1>12. CASE DumpFails
  BY <1>3, <1>12 DEF DumpFails, Locations, Failures
<1>13. CASE Finish
  BY <1>3, <1>13 DEF Finish, Flushing, Locations, Failures
<1>14. CASE UNCHANGED vars
  BY <1>14 DEF TypeOK, Progress, LinesRead, vars, window, LineIds
<1> QED
  BY <1>4, <1>5, <1>6, <1>7, <1>8, <1>9, <1>10, <1>11, <1>12, <1>13, <1>14
     DEF Next, Terminated

----------------------------------------------------------------------------
(* A line is taken. *)

(* In the loop over the lines a line's slot is its number. *)
LEMMA Reading ==
  ASSUME TypeOK, Progress, LineParsed
  PROVE  /\ CurrentLineId \in Nat /\ CurrentLineId < Len(source)
         /\ LinesRead = CurrentLineId /\ CurrentLineId < MAX_JUMP
         /\ line = LineAt(CurrentLineId) /\ flagged = Flagged(CurrentLineId)
         /\ LineAt(CurrentLineId).status = "parsed"
         /\ CurrentLineId \in LineIds
         /\ \A k \in 0 .. CurrentLineId : k \in Slot /\ k % MAX_JUMP = k
<1>1. /\ CurrentLineId < Len(source) /\ pc = "reading" /\ line.status = "parsed"
      /\ CurrentLineId < MAX_JUMP
  BY Sizes DEF LineParsed, LineRead, Evicts
<1>2. line = LineAt(CurrentLineId) /\ flagged = Flagged(CurrentLineId)
  BY DEF line, LineAt, flagged, Flagged, HasJump
<1>3. LinesRead = CurrentLineId
  BY <1>1, Sizes DEF LinesRead, Progress
<1>4. \A k \in 0 .. CurrentLineId : k \in Slot /\ k % MAX_JUMP = k
  BY <1>1, Sizes, SlotOf DEF Slot
<1> QED
  BY <1>1, <1>2, <1>3, <1>4, Sizes DEF LineIds

LEMMA OwnDeclarations ==
  ASSUME TypeOK, Progress, WindowInv, LineParsed,
         NEW c, c = CurrentLineId
  PROVE  Declarations(line.InnerLabel) = IF HasJump(c) THEN Declaring(c, c) ELSE {}
<1>1. CASE ~HasJump(c)
  BY <1>1, Reading DEF Declarations, HasJump
<1>2. CASE HasJump(c)
  <2>1. /\ c \in Nat /\ c < MAX_JUMP /\ LinesRead = c /\ MAX_JUMP \in Nat
        /\ line.InnerLabel = LineAt(c).InnerLabel
        /\ \A k \in 0 .. c : k % MAX_JUMP = k
    BY Reading, Sizes
  <2>2. \A k \in 0 .. c - 1 : LabelsDeclared[k] = LineAt(k).LineLabel
    BY <2>1 DEF WindowInv, SlotHolds
  <2>3. Declarations(line.InnerLabel)
          = LinesBack(MAX_JUMP, LabelsDeclared, LineAt(c).InnerLabel) \ {c}
    BY <1>2, <2>1 DEF Declarations, HasJump
  <2>4. \A k : k \in c - MAX_JUMP .. c /\ k >= 0 /\ k # c <=> k \in 0 .. c - 1
    BY <2>1
  <2>5. ASSUME NEW k \in 0 .. c - 1
        PROVE  LabelsDeclared[k % MAX_JUMP] = LineAt(k).LineLabel
    BY <2>1, <2>2
  <2> QED
    BY <1>2, <2>3, <2>4, <2>5 DEF LinesBack, Declaring
<1> QED
  BY <1>1, <1>2

LEMMA UsedIs ==
  ASSUME TypeOK, Progress, WindowInv, LineParsed,
         NEW c, c = CurrentLineId
  PROVE  \A k \in 0 .. c : Used[k] = LineAt(k).InnerLabel
<1>1. /\ c \in Nat /\ c < MAX_JUMP /\ LinesRead = c /\ MAX_JUMP \in Nat
      /\ line = LineAt(c) /\ c \in Slot
  BY Reading, Sizes
<1>2. \A k \in 0 .. c - 1 : LabelsUsed[k] = LineAt(k).InnerLabel
  BY <1>1 DEF WindowInv, SlotHolds
<1>3. DOMAIN LabelsUsed = Slot
  BY DEF TypeOK
<1>4. Used[c] = LineAt(c).InnerLabel
  BY <1>1, <1>3 DEF Used
<1>5. \A k \in 0 .. c - 1 : k \in Slot /\ k # c
  BY <1>1 DEF Slot
<1>6. \A k \in 0 .. c - 1 : Used[k] = LabelsUsed[k]
  BY <1>3, <1>5 DEF Used
<1> QED
  BY <1>1, <1>2, <1>4, <1>6

LEMMA UsersOf ==
  ASSUME TypeOK, Progress, WindowInv, LineParsed,
         NEW c, c = CurrentLineId
  PROVE  /\ Users \subseteq 0 .. c
         /\ \A k \in 0 .. c :
               k \in Users <=> HasJump(k) /\ LineAt(c).LineLabel = LineAt(k).InnerLabel
<1>1. /\ c \in Nat /\ c < MAX_JUMP /\ LinesRead = c /\ MAX_JUMP \in Nat
      /\ line = LineAt(c) /\ c \in Slot
      /\ \A k \in 0 .. c : k % MAX_JUMP = k
  BY Reading, Sizes
<1>2. \A k \in 0 .. c : Used[k] = LineAt(k).InnerLabel
  BY UsedIs
<1>3. CASE LineAt(c).LineLabel = NoLabel
  <2>1. Users = {}
    BY <1>1, <1>3 DEF Users, Uses
  <2> QED
    BY <1>3, <2>1 DEF HasJump
<1>4. CASE LineAt(c).LineLabel # NoLabel
  <2>1. Users = LinesBack(MAX_JUMP - 1, Used, LineAt(c).LineLabel)
    BY <1>1, <1>4 DEF Users, Uses
  <2>2. \A k : k \in c - (MAX_JUMP - 1) .. c /\ k >= 0 <=> k \in 0 .. c
    BY <1>1
  <2>3. \A k : k \in Users <=> k \in 0 .. c /\ Used[k % MAX_JUMP] = LineAt(c).LineLabel
    BY <2>1, <2>2 DEF LinesBack
  <2>4. \A k \in 0 .. c : k \in Users <=> LineAt(k).InnerLabel = LineAt(c).LineLabel
    BY <1>1, <1>2, <2>3
  <2> QED
    BY <1>4, <2>3, <2>4 DEF HasJump
<1> QED
  BY <1>3, <1>4

LEMMA StoredIs ==
  ASSUME TypeOK, Progress, LineParsed, NEW c, c = CurrentLineId
  PROVE  /\ \A k \in 0 .. c - 1 : Stored[k] = InstructionWindow[k]
         /\ LET own == Declarations(line.InnerLabel)
            IN  Stored[c] = IF own = {} THEN flagged
                            ELSE SetLineLabel(flagged, The(own) - c)
<1>1. /\ c \in Slot /\ \A k \in 0 .. c - 1 : k \in Slot /\ k # c
  <2>1. c \in Nat /\ c < MAX_JUMP /\ MAX_JUMP \in Nat
    BY Reading, Sizes
  <2> QED
    BY <2>1 DEF Slot
<1>2. InstructionWindow \in [Slot -> Word]
  BY DEF TypeOK
<1>3. \A k \in 0 .. c - 1 : Stored[k] = InstructionWindow[k]
  BY <1>1, <1>2 DEF Stored
<1> DEFINE own == Declarations(line.InnerLabel)
           w == IF own = {} THEN flagged ELSE SetLineLabel(flagged, The(own) - c)
<1>4. Stored = [InstructionWindow EXCEPT ![c] = w]
  BY DEF Stored
<1> HIDE DEF w
<1>5. Stored[c] = w
  BY <1>1, <1>2, <1>4
<1> QED
  BY <1>3, <1>5 DEF w

LEMMA LinkedIs ==
  ASSUME TypeOK, Progress, WindowInv, LineParsed, NEW c, c = CurrentLineId,
         NEW k \in 0 .. c
  PROVE  Linked[k] = IF k \in Users THEN SetLineLabel(Stored[k], c - k) ELSE Stored[k]
<1> DEFINE users == {u \in Users : u % MAX_JUMP = k}
<1>1. k \in Slot /\ \A u \in 0 .. c : u % MAX_JUMP = u
  BY Reading
<1>2. Users \subseteq 0 .. c
  BY UsersOf
<1>3. users = IF k \in Users THEN {k} ELSE {}
  BY <1>1, <1>2
<1>4. Linked[k] = IF users = {} THEN Stored[k] ELSE SetLineLabel(Stored[k], c - The(users))
  BY <1>1 DEF Linked
<1>5. The({k}) = k
  BY DEF The
<1> HIDE DEF users
<1> QED
  BY <1>3, <1>4, <1>5

LEMMA DeclaredIs ==
  ASSUME TypeOK, Progress, WindowInv, LineParsed,
         NEW c, c = CurrentLineId, NEW k \in 0 .. c
  PROVE  [LabelsDeclared EXCEPT ![c] = line.LineLabel][k] = LineAt(k).LineLabel
<1>1. /\ c \in Nat /\ c < MAX_JUMP /\ LinesRead = c /\ MAX_JUMP \in Nat
      /\ line = LineAt(c) /\ k \in Slot
  BY Reading, Sizes
<1>2. DOMAIN LabelsDeclared = Slot
  BY DEF TypeOK
<1>3. CASE k = c
  BY <1>1, <1>2, <1>3
<1>4. CASE k # c
  <2>1. LabelsDeclared[k] = LineAt(k).LineLabel
    BY <1>1, <1>4 DEF WindowInv, SlotHolds
  <2> QED
    BY <1>1, <1>2, <1>4, <2>1
<1> QED
  BY <1>3, <1>4

(* A jump with its distance filled in is closed. *)
LEMMA FilledIsClosed ==
  ASSUME TypeOK, NEW k \in LineIds, HasJump(k), NEW d \in Int
  PROVE  ~Pending(SetLineLabel(Flagged(k), d))
  BY LineType, LabelCloses

LEMMA LinkedHolds ==
  ASSUME TypeOK, Progress, WindowInv, LineParsed, ~Redeclared,
         NEW c, c = CurrentLineId, NEW k \in 0 .. c
  PROVE  /\ ~HasJump(k) \/ Declaring(k, c + 1) = {} => Linked[k] = Flagged(k)
         /\ HasJump(k) => \A t \in Declaring(k, c + 1) :
                             /\ \A u \in Declaring(k, c + 1) : u = t
                             /\ Linked[k] = SetLineLabel(Flagged(k), t - k)
<1>1. /\ c \in Nat /\ c < Len(source) /\ LinesRead = c /\ k \in LineIds /\ c \in LineIds
      /\ k \in Int /\ k % MAX_JUMP = k /\ flagged = Flagged(c) /\ line = LineAt(c)
  BY Reading, Sizes DEF LineIds
<1>2. \A t : t \in Declaring(k, c + 1) <=>
               t \in Declaring(k, c) \/ (t = c /\ LineAt(c).LineLabel = LineAt(k).InnerLabel)
  <2>1. \A t : t \in 0 .. c + 1 - 1 <=> t \in 0 .. c - 1 \/ t = c
    BY <1>1
  <2> QED
    BY <2>1 DEF Declaring
<1>3. Linked[k] = IF k \in Users THEN SetLineLabel(Stored[k], c - k) ELSE Stored[k]
  BY LinkedIs
<1>4. k \in Users <=> HasJump(k) /\ LineAt(c).LineLabel = LineAt(k).InnerLabel
  BY UsersOf
<1>5. k \in Users => Pending(Stored[k])
  BY <1>1 DEF Redeclared
<1>6. \A t : t \in Declaring(k, c) => t - k \in Int
  BY <1>1 DEF Declaring
<1>7. CASE k # c
  <2>1. Stored[k] = InstructionWindow[k]
    BY <1>1, <1>7, StoredIs
  <2>2. SlotHolds(k, c)
    BY <1>1, <1>7 DEF WindowInv
  <2>3. CASE k \in Users
    <3>1. \A t \in Declaring(k, c) : ~Pending(InstructionWindow[k])
      BY <1>1, <1>4, <1>6, <2>2, <2>3, FilledIsClosed DEF SlotHolds
    <3>2. Declaring(k, c) = {}
      BY <1>5, <2>1, <2>3, <3>1
    <3>3. InstructionWindow[k] = Flagged(k)
      BY <2>2, <3>2 DEF SlotHolds
    <3>4. \A t : t \in Declaring(k, c + 1) <=> t = c
      BY <1>2, <1>4, <2>3, <3>2
    <3>5. Linked[k] = SetLineLabel(Flagged(k), c - k)
      BY <1>3, <2>1, <2>3, <3>3
    <3> QED
      BY <1>4, <2>3, <3>4, <3>5
  <2>4. CASE k \notin Users
    <3>1. Linked[k] = InstructionWindow[k]
      BY <1>3, <2>1, <2>4
    <3>2. HasJump(k) => Declaring(k, c + 1) = Declaring(k, c)
      BY <1>2, <1>4, <2>4
    <3> QED
      BY <2>2, <3>1, <3>2 DEF SlotHolds
  <2> QED
    BY <2>3, <2>4
<1>8. CASE k = c
  <2> DEFINE own == Declarations(line.InnerLabel)
  <2>1. own = IF HasJump(c) THEN Declaring(c, c) ELSE {}
    BY OwnDeclarations
  <2>2. Stored[c] = IF own = {} THEN Flagged(c) ELSE SetLineLabel(Flagged(c), The(own) - c)
    BY <1>1, StoredIs
  <2>3. \A t, u \in own : t = u
    BY DEF Redeclared
  <2>4. ASSUME NEW t \in own PROVE The(own) = t /\ t - c \in Int /\ HasJump(c)
    <3>1. The(own) \in own
      BY <2>4 DEF The
    <3>2. HasJump(c) /\ t \in Declaring(c, c)
      BY <2>1, <2>4
    <3> HIDE DEF own
    <3> QED
      BY <2>3, <2>4, <3>1, <3>2, <1>6, <1>8
  <2> HIDE DEF own
  <2>5. CASE ~HasJump(c)
    <3>1. c \notin Users /\ own = {}
      BY <1>4, <1>8, <2>1, <2>5
    <3> QED
      BY <1>3, <1>8, <2>2, <2>5, <3>1
  <2>6. CASE HasJump(c) /\ c \in Users
    <3>1. \A t \in own : ~Pending(Stored[c])
      BY <1>1, <2>2, <2>4, FilledIsClosed
    <3>2. own = {}
      BY <1>5, <1>8, <2>6, <3>1
    <3>3. \A t : t \in Declaring(k, c + 1) <=> t = c
      BY <1>2, <1>4, <1>8, <2>1, <2>6, <3>2
    <3>4. Linked[k] = SetLineLabel(Flagged(k), c - k)
      BY <1>3, <1>8, <2>2, <2>6, <3>2
    <3> QED
      BY <1>8, <2>6, <3>3, <3>4
  <2>7. CASE HasJump(c) /\ c \notin Users
    <3>1. Declaring(k, c + 1) = own
      BY <1>2, <1>4, <1>8, <2>1, <2>7
    <3>2. Linked[k] = Stored[c]
      BY <1>3, <1>8, <2>7
    <3>3. \A t \in own : Stored[c] = SetLineLabel(Flagged(c), t - c)
      BY <2>2, <2>4
    <3> QED
      BY <1>8, <2>2, <2>3, <2>7, <3>1, <3>2, <3>3
  <2> QED
    BY <2>5, <2>6, <2>7
<1> QED
  BY <1>7, <1>8

----------------------------------------------------------------------------
(* Labels. *)

(* A line that parses has its label, if any, right before the instruction. *)
LEMMA LabelsOfLine ==
  ASSUME NEW l \in Lines, ~BadLabels(l.declares), NEW label, label # NoLabel
  PROVE  (\E d \in DOMAIN l.declares : l.declares[d] = label)
            <=> ReadToken(l.declares, Len(l.declares)) = label
<1> DEFINE n == Len(l.declares)
<1>1. l.declares \in Seq(Tokens \cup {NoLabel})
  BY DEF Lines
<1>2. n \in Nat /\ DOMAIN l.declares = 1 .. n
  BY <1>1
<1>3. \A d \in 1 .. n : d > 1 => l.declares[d - 1] = NoLabel
  BY <1>2 DEF BadLabels
<1>4. ASSUME NEW d \in 1 .. n, d # n PROVE l.declares[d] = NoLabel
  <2>1. d + 1 \in 1 .. n /\ d + 1 > 1 /\ d + 1 - 1 = d
    BY <1>2, <1>4
  <2> QED
    BY <1>3, <2>1
<1> QED
  BY <1>2, <1>4 DEF ReadToken

LEMMA JumpLine ==
  ASSUME TypeOK, NEW k \in LineIds, LineAt(k).status = "parsed"
  PROVE  /\ UsesALabel(k) <=> HasJump(k)
         /\ HasJump(k) => UsedLabel(k) = LineAt(k).InnerLabel
<1>1. source[k + 1] \in Lines
  BY LineType
<1>2. /\ LineAt(k).InnerLabel = IF source[k + 1].name \in JUMPS THEN source[k + 1].args[1] ELSE NoLabel
      /\ source[k + 1].name \in JUMPS => IsLabelToken(source[k + 1].args[1])
  BY <1>1, ParsedLine DEF LineAt
<1>3. \A token : IsLabelToken(token) => token # NoLabel
  BY DEF IsLabelToken, NoLabel
<1> QED
  BY <1>2, <1>3 DEF UsesALabel, UsedLabel, HasJump

LEMMA DeclaresIs ==
  ASSUME TypeOK, NEW k \in LineIds, LineAt(k).status = "parsed", HasJump(k),
         NEW t \in LineIds, LineAt(t).status = "parsed"
  PROVE  (\E d \in DOMAIN source[t + 1].declares : source[t + 1].declares[d] = UsedLabel(k))
            <=> LineAt(t).LineLabel = LineAt(k).InnerLabel
<1> DEFINE l == source[t + 1]
<1>1. l \in Lines
  BY LineType
<1>2. /\ LineAt(t).LineLabel = ReadToken(l.declares, Len(l.declares))
      /\ ~BadLabels(l.declares)
  BY <1>1, ParsedLine DEF LineAt
<1>3. UsedLabel(k) = LineAt(k).InnerLabel /\ UsedLabel(k) # NoLabel
  BY JumpLine DEF HasJump
<1> HIDE DEF l
<1>4. (\E d \in DOMAIN l.declares : l.declares[d] = UsedLabel(k))
          <=> ReadToken(l.declares, Len(l.declares)) = UsedLabel(k)
  BY <1>1, <1>2, <1>3, LabelsOfLine
<1> QED
  BY <1>2, <1>3, <1>4 DEF l

(* The declarations found among the first n lines are targets, and all of  *)
(* them when the rest of the source is out of reach.                       *)
LEMMA TargetsAre ==
  ASSUME TypeOK, NEW n \in Nat, n <= MAX_JUMP, n <= Len(source),
         \A t \in 0 .. n - 1 : LineAt(t).status = "parsed",
         NEW k \in 0 .. n - 1, HasJump(k)
  PROVE  /\ k \in LineIds
         /\ Declaring(k, n) \subseteq Targets(k)
         /\ n = Len(source) \/ (n = MAX_JUMP /\ k = 0) => Targets(k) = Declaring(k, n)
<1>1. MAX_JUMP \in Nat /\ Len(source) \in Nat
  BY Sizes
<1>2. \A t \in 0 .. n - 1 : t \in LineIds /\ t - k \in -MAX_JUMP .. MAX_JUMP - 1
  BY <1>1 DEF LineIds
<1>3. \A t \in 0 .. n - 1 :
         t \in Targets(k) <=> LineAt(t).LineLabel = LineAt(k).InnerLabel
  BY <1>2, DeclaresIs DEF Targets
<1>4. ASSUME n = Len(source) \/ (n = MAX_JUMP /\ k = 0), NEW t \in LineIds,
             t - k \in -MAX_JUMP .. MAX_JUMP - 1
      PROVE  t \in 0 .. n - 1
  BY <1>1, <1>4 DEF LineIds
<1>5. n = Len(source) \/ (n = MAX_JUMP /\ k = 0) => Targets(k) \subseteq 0 .. n - 1
  BY <1>4 DEF Targets
<1> QED
  BY <1>2, <1>3, <1>5 DEF Declaring

LEMMA Finds ==
  ASSUME TypeOK, NEW k \in LineIds, LineAt(k).status = "parsed"
  PROVE  Misses(k) <=> HasJump(k) /\ ~\E t : Targets(k) = {t}
<1>1. IsFiniteSet(Targets(k))
  <2>1. IsFiniteSet(LineIds)
    BY Sizes, FS_Interval DEF LineIds
  <2> QED
    BY <2>1, FS_Subset DEF Targets
<1>2. Cardinality(Targets(k)) = 1 <=> \E t : Targets(k) = {t}
  BY <1>1, FS_Singleton
<1> QED
  BY <1>2, JumpLine DEF Misses

----------------------------------------------------------------------------
(* The window. *)

(* The source and what its lines are parsed to stay as they are. *)
LEMMA LinesStay ==
  ASSUME UNCHANGED <<source, residue>>
  PROVE  \A k : /\ LineAt(k)' = LineAt(k) /\ (HasJump(k)' <=> HasJump(k))
                /\ Flagged(k)' = Flagged(k)
                /\ \A n : Declaring(k, n)' = Declaring(k, n)
  BY DEF LineAt, HasJump, Flagged, Declaring

(* What SlotHolds and WindowInv say, the lines being fixed. *)
LEMMA SlotsStay ==
  ASSUME UNCHANGED <<source, residue, LabelsUsed, LabelsDeclared, InstructionWindow>>
  PROVE  \A k, n : SlotHolds(k, n)' <=> SlotHolds(k, n)
<1> SUFFICES ASSUME NEW k, NEW n PROVE SlotHolds(k, n)' <=> SlotHolds(k, n)
  OBVIOUS
<1>1. /\ LineAt(k)' = LineAt(k) /\ (HasJump(k)' <=> HasJump(k))
      /\ Flagged(k)' = Flagged(k) /\ Declaring(k, n)' = Declaring(k, n)
  BY LinesStay
<1> QED
  BY <1>1, Zenon DEF SlotHolds

LEMMA WindowInit == ASSUME TypeOK, Init PROVE WindowInv /\ FailInv
<1>1. LinesRead = 0 /\ \A k : k \notin 0 .. LinesRead - 1
  BY DEF Init, LinesRead
<1>2. Len(destination) = 0 /\ CurrentLineId <= MAX_JUMP
  BY Sizes DEF Init
<1> QED
  BY <1>1, <1>2 DEF Init, WindowInv, FailInv

(* The next line, and the slots it changes. *)
LEMMA TakeLineStep ==
  ASSUME TypeOK, Progress, WindowInv, TakeLine PROVE WindowInv'
<1>0. LineParsed /\ ~Redeclared /\ UNCHANGED <<source, residue>>
  BY DEF TakeLine
<1> SUFFICES ASSUME NEW c, c = CurrentLineId, NEW n, n = c + 1 PROVE WindowInv'
  OBVIOUS
<1>1. /\ c \in Nat /\ c < MAX_JUMP /\ MAX_JUMP \in Nat /\ i = 0
      /\ LineAt(c).status = "parsed" /\ LinesRead = c
  BY <1>0, Reading, Sizes DEF LinesRead
<1>2. /\ InstructionWindow' = Linked /\ LabelsUsed' = Used
      /\ LabelsDeclared' = [LabelsDeclared EXCEPT ![c] = line.LineLabel]
      /\ CurrentLineId' = n /\ destination' = destination /\ i' = i
  BY DEF TakeLine
<1>3. LinesRead' = n /\ n - 1 = c /\ n <= MAX_JUMP
  BY <1>1, <1>2 DEF LinesRead
<1>4. ASSUME NEW k \in 0 .. c PROVE SlotHolds(k, n)'
  <2>1. /\ LineAt(k)' = LineAt(k) /\ (HasJump(k)' <=> HasJump(k))
        /\ Flagged(k)' = Flagged(k) /\ Declaring(k, n)' = Declaring(k, n)
    BY <1>0, LinesStay
  <2>2. LineAt(k).status = "parsed"
    BY <1>1 DEF WindowInv, SlotHolds
  <2>3. LabelsUsed'[k] = LineAt(k).InnerLabel
    BY <1>0, <1>2, UsedIs
  <2>4. LabelsDeclared'[k] = LineAt(k).LineLabel
    BY <1>0, <1>2, DeclaredIs
  <2>5. /\ ~HasJump(k) \/ Declaring(k, n) = {} => InstructionWindow'[k] = Flagged(k)
        /\ HasJump(k) => \A t \in Declaring(k, n) :
                            /\ \A u \in Declaring(k, n) : u = t
                            /\ InstructionWindow'[k] = SetLineLabel(Flagged(k), t - k)
    BY <1>0, <1>2, LinkedHolds
  <2> QED
    BY <2>1, <2>2, <2>3, <2>4, <2>5, Zenon DEF SlotHolds
<1>5. Len(destination) = 0
  BY <1>1 DEF WindowInv
<1>6. \A k \in 0 .. c : ~Dumped(k)'
  BY <1>1, <1>2 DEF Dumped
<1>7. CurrentLineId' <= MAX_JUMP /\ Len(destination') = 0
  BY <1>1, <1>2, <1>5
<1> QED
  BY <1>3, <1>4, <1>6, <1>7 DEF WindowInv

(* Passing over a slot that was never used. *)
LEMMA PassSlotStep ==
  ASSUME TypeOK, Progress, WindowInv, PassSlot PROVE WindowInv'
<1> SUFFICES ASSUME NEW n, n = LinesRead PROVE WindowInv'
  OBVIOUS
<1>1. /\ UNCHANGED <<source, residue, LabelsUsed, LabelsDeclared, InstructionWindow>>
      /\ destination' = destination /\ CurrentLineId' = CurrentLineId + 1
      /\ i' = i + 1 /\ CurrentLineId < MAX_JUMP
  BY Sizes DEF PassSlot, window, Evicts
<1>2. n \in Int /\ LinesRead' = n /\ CurrentLineId' <= MAX_JUMP
  BY <1>1, Sizes DEF LinesRead
<1>3. \A k \in 0 .. n - 1 : SlotHolds(k, n)'
  BY <1>1, SlotsStay DEF WindowInv
<1>4. \A k \in 0 .. n - 1 : ~Dumped(k)'
  BY <1>1, <1>2, Sizes DEF Dumped
<1>5. Len(destination) = 0
  BY <1>1, Sizes DEF WindowInv
<1> QED
  BY <1>1, <1>2, <1>3, <1>4, <1>5 DEF WindowInv

(* The slot that is written next. *)
LEMMA Dumping ==
  ASSUME TypeOK, Progress, Flushing, Evicts, NEW s, s = CurrentLineId - MAX_JUMP
  PROVE  /\ s \in 0 .. LinesRead - 1 /\ windowLineId = s /\ s \in LineIds
         /\ LinesRead = Len(source) /\ LinesRead \in Nat /\ s \in Slot
<1>a. CurrentLineId \in Nat /\ MAX_JUMP \in Nat /\ i \in Nat /\ Len(source) \in Nat
  BY Sizes
<1>b. LinesRead = Len(source) /\ LinesRead <= MAX_JUMP /\ i < MAX_JUMP /\ CurrentLineId >= MAX_JUMP
  BY DEF Progress, Flushing, Evicts
<1>1. /\ s \in Nat /\ s < Len(source) /\ LinesRead = Len(source)
      /\ s < MAX_JUMP /\ MAX_JUMP \in Nat /\ CurrentLineId = s + MAX_JUMP
  BY <1>a, <1>b DEF LinesRead
<1>2. windowLineId = s
  BY <1>1, SlotOf DEF windowLineId
<1> QED
  BY <1>1, <1>2, Sizes DEF LineIds, Slot

(* A slot whose jump is still open has no target, any other has one. *)
LEMMA UnresolvedIs ==
  ASSUME TypeOK, Progress, WindowInv, NEW s \in 0 .. LinesRead - 1, windowLineId = s
  PROVE  Unresolved <=> HasJump(s) /\ Declaring(s, LinesRead) = {}
<1>1. /\ SlotHolds(s, LinesRead) /\ s \in LineIds
  BY Sizes DEF WindowInv, Progress, LineIds
<1>2. LabelsUsed[s] # NoLabel <=> HasJump(s)
  BY <1>1 DEF SlotHolds, HasJump
<1>3. HasJump(s) /\ Declaring(s, LinesRead) = {} => Pending(InstructionWindow[s])
  BY <1>1, LineType DEF SlotHolds
<1>4. \A t \in Declaring(s, LinesRead) : t - s \in Int
  BY DEF Declaring
<1>5. HasJump(s) /\ Declaring(s, LinesRead) # {} => ~Pending(InstructionWindow[s])
  BY <1>1, <1>4, FilledIsClosed DEF SlotHolds
<1> QED
  BY <1>2, <1>3, <1>5 DEF Unresolved

LEMMA DumpLineStep ==
  ASSUME TypeOK, Progress, WindowInv, DumpLine PROVE WindowInv'
<1> SUFFICES ASSUME NEW n, n = LinesRead, NEW s, s = CurrentLineId - MAX_JUMP
             PROVE  WindowInv'
  OBVIOUS
<1>1. /\ UNCHANGED <<source, residue, LabelsUsed, LabelsDeclared, InstructionWindow>>
      /\ destination' = Append(destination, InstructionWindow[windowLineId])
      /\ CurrentLineId' = CurrentLineId + 1
      /\ i' = i + 1 /\ Flushing /\ Evicts /\ ~Unresolved
  BY DEF DumpLine, window
<1>2. s \in 0 .. n - 1 /\ windowLineId = s /\ n \in Nat /\ s \in Nat
  BY <1>1, Dumping
<1>a. CurrentLineId \in Nat /\ MAX_JUMP \in Nat /\ i \in Nat
  BY Sizes
<1>3. LinesRead' = n /\ CurrentLineId' = s + 1 + MAX_JUMP /\ MAX_JUMP \in Nat
  BY <1>a, <1>1, <1>2 DEF LinesRead
<1>4. \A k \in 0 .. n - 1 : SlotHolds(k, n)'
  BY <1>1, SlotsStay DEF WindowInv
<1>5. Len(destination) = s /\ destination \in Seq(Word)
  BY <1>2, Sizes DEF WindowInv, TypeOK
<1>6. \A k \in 0 .. n - 1 : Dumped(k)' <=> k < s \/ k = s
  BY <1>2, <1>3 DEF Dumped
<1>7. ASSUME NEW k \in 0 .. n - 1, k < s \/ k = s
      PROVE  /\ HasJump(k) => Declaring(k, n) # {}
             /\ destination'[k + 1] = InstructionWindow[k]
  <2>1. CASE k < s
    <3>1. Dumped(k)
      BY <2>1, <1>2 DEF Dumped
    <3>2. /\ HasJump(k) => Declaring(k, n) # {}
          /\ destination[k + 1] = InstructionWindow[k]
      BY <3>1 DEF WindowInv
    <3>3. destination'[k + 1] = destination[k + 1]
      BY <1>1, <1>2, <1>5, <2>1
    <3> QED
      BY <3>2, <3>3
  <2>2. CASE k = s
    <3>1. HasJump(k) => Declaring(k, n) # {}
      BY <1>1, <1>2, <2>2, UnresolvedIs
    <3>2. destination'[k + 1] = InstructionWindow[k]
      BY <1>1, <1>2, <1>5, <2>2
    <3> QED
      BY <3>1, <3>2
  <2> QED
    BY <1>7, <2>1, <2>2
<1>8. ASSUME NEW k \in 0 .. n - 1, Dumped(k)'
      PROVE  /\ HasJump(k)' => Declaring(k, n)' # {}
             /\ destination'[k + 1] = InstructionWindow'[k]
  BY <1>1, <1>6, <1>7, <1>8, LinesStay
<1>9. Len(destination') = s + 1
  BY <1>1, <1>5
<1>10. ~(CurrentLineId' <= MAX_JUMP) /\ CurrentLineId' - MAX_JUMP = s + 1
  BY <1>2, <1>3
<1> QED
  BY <1>3, <1>4, <1>8, <1>9, <1>10 DEF WindowInv

----------------------------------------------------------------------------
(* Failures. *)

LEMMA TwoTargets ==
  ASSUME TypeOK, NEW n \in Nat, n <= MAX_JUMP, n <= Len(source),
         \A t \in 0 .. n - 1 : LineAt(t).status = "parsed",
         NEW k \in 0 .. n - 1, HasJump(k),
         NEW t \in Declaring(k, n), NEW u \in Declaring(k, n), t # u
  PROVE  k \in LineIds /\ Misses(k)
<1>1. k \in LineIds /\ Declaring(k, n) \subseteq Targets(k)
  BY TargetsAre
<1>2. ~\E x : Targets(k) = {x}
  BY <1>1
<1> QED
  BY <1>1, <1>2, Finds

LEMMA NoTarget ==
  ASSUME TypeOK, NEW n \in Nat, n <= MAX_JUMP, n <= Len(source),
         \A t \in 0 .. n - 1 : LineAt(t).status = "parsed",
         NEW k \in 0 .. n - 1, HasJump(k), Declaring(k, n) = {},
         n = Len(source) \/ (n = MAX_JUMP /\ k = 0)
  PROVE  k \in LineIds /\ Misses(k)
<1>1. k \in LineIds /\ Targets(k) = {}
  BY TargetsAre
<1> QED
  BY <1>1, Finds

LEMMA RedeclaredMisses ==
  ASSUME TypeOK, Progress, WindowInv, LineParsed, Redeclared
  PROVE  \E k \in LineIds : Misses(k)
<1> SUFFICES ASSUME NEW c, c = CurrentLineId, NEW n, n = c + 1
             PROVE  \E k \in LineIds : Misses(k)
  OBVIOUS
<1>1. /\ c \in Nat /\ c < Len(source) /\ LinesRead = c /\ c < MAX_JUMP
      /\ MAX_JUMP \in Nat /\ Len(source) \in Nat /\ LineAt(c).status = "parsed"
      /\ flagged = Flagged(c) /\ c \in LineIds
  BY Reading, Sizes
<1>2. /\ n \in Nat /\ n <= MAX_JUMP /\ n <= Len(source) /\ c \in 0 .. n - 1
      /\ \A k : k \in 0 .. n - 1 <=> k \in 0 .. c - 1 \/ k = c
  BY <1>1
<1>3. \A t \in 0 .. n - 1 : LineAt(t).status = "parsed"
  BY <1>1, <1>2 DEF WindowInv, SlotHolds
<1>4. ASSUME NEW k \in 0 .. n - 1, HasJump(k),
             NEW t \in Declaring(k, n), NEW u \in Declaring(k, n), t # u
      PROVE  \E l \in LineIds : Misses(l)
  BY <1>2, <1>3, <1>4, TwoTargets
<1>5. \A k : Declaring(k, c) \subseteq Declaring(k, n) /\ c \notin Declaring(k, c)
  BY <1>1, <1>2 DEF Declaring
<1> DEFINE own == Declarations(line.InnerLabel)
<1>6. own = IF HasJump(c) THEN Declaring(c, c) ELSE {}
  BY OwnDeclarations
<1>7. ASSUME NEW k \in own, NEW l \in own, k # l PROVE \E m \in LineIds : Misses(m)
  <2>1. HasJump(c) /\ k \in Declaring(c, n) /\ l \in Declaring(c, n)
    BY <1>5, <1>6, <1>7
  <2> QED
    BY <1>2, <1>4, <1>7, <2>1
<1>8. ASSUME NEW k \in Users, ~Pending(Stored[k % MAX_JUMP])
      PROVE  \E m \in LineIds : Misses(m)
  <2>1. k \in 0 .. c /\ HasJump(k) /\ LineAt(c).LineLabel = LineAt(k).InnerLabel
    BY <1>8, UsersOf
  <2>2. k \in 0 .. n - 1 /\ c \in Declaring(k, n) /\ k \in LineIds
    BY <1>1, <1>2, <2>1 DEF Declaring, LineIds
  <2>3. ~Pending(Stored[k])
    BY <1>8, <2>1, Reading
  <2>4. Pending(Flagged(k))
    BY <2>1, <2>2, LineType
  <2>5. CASE k # c
    <3>1. Stored[k] = InstructionWindow[k] /\ SlotHolds(k, c)
      BY <1>1, <2>1, <2>5, StoredIs DEF WindowInv
    <3>2. Declaring(k, c) # {}
      BY <2>3, <2>4, <3>1 DEF SlotHolds
    <3> QED
      BY <1>4, <1>5, <2>1, <2>2, <3>2
  <2>6. CASE k = c
    <3>1. own # {}
      BY <1>1, <2>3, <2>4, <2>6, StoredIs
    <3>2. Declaring(k, c) # {}
      BY <1>6, <2>6, <3>1
    <3> QED
      BY <1>4, <1>5, <2>1, <2>2, <3>2
  <2> QED
    BY <2>5, <2>6
<1> QED
  BY <1>7, <1>8 DEF Redeclared

LEMMA UnresolvedMisses ==
  ASSUME TypeOK, Progress, WindowInv, Unresolved, NEW s, windowLineId = s,
         s \in 0 .. LinesRead - 1,
         LinesRead = Len(source) \/ (LinesRead = MAX_JUMP /\ s = 0)
  PROVE  \E k \in LineIds : Misses(k)
<1>1. HasJump(s) /\ Declaring(s, LinesRead) = {}
  BY UnresolvedIs
<1>2. LinesRead \in Nat /\ LinesRead <= MAX_JUMP /\ LinesRead <= Len(source)
  BY Sizes DEF Progress
<1>3. \A t \in 0 .. LinesRead - 1 : LineAt(t).status = "parsed"
  BY DEF WindowInv, SlotHolds
<1> QED
  BY <1>1, <1>2, <1>3, NoTarget

(* An end changes nothing but how it ended. *)
LEMMA EndsStep ==
  ASSUME WindowInv, NEW how, Ends(how)
  PROVE  /\ WindowInv'
         /\ how \notin {"parseError", "crashed", "labelError"} => FailInv'
         /\ how = "parseError" /\ CurrentLineId < Len(source)
              /\ LineAt(CurrentLineId).status # "parsed" => FailInv'
         /\ how = "crashed" /\ CurrentLineId < Len(source)
              /\ (Evicts \/ LineAt(CurrentLineId).status # "parsed") => FailInv'
         /\ how = "labelError" /\ (\E k \in LineIds : Misses(k)) => FailInv'
<1>1. /\ pc' = how /\ UNCHANGED <<source, residue, CurrentLineId, i, destination>>
      /\ UNCHANGED <<LabelsUsed, LabelsDeclared, InstructionWindow>>
  BY DEF Ends, window
<1>2. \A k, n : SlotHolds(k, n)' <=> SlotHolds(k, n)
  BY <1>1, SlotsStay
<1>3. \A k, n : (HasJump(k)' <=> HasJump(k)) /\ Declaring(k, n)' = Declaring(k, n)
  BY <1>1, LinesStay
<1>4. /\ LinesRead' = LinesRead /\ \A k : Dumped(k)' <=> Dumped(k)
      /\ (Evicts' <=> Evicts)
      /\ LineAt(CurrentLineId)' = LineAt(CurrentLineId)
  BY <1>1 DEF LinesRead, Dumped, Evicts, LineAt
<1>5. WindowInv'
  BY <1>1, <1>2, <1>3, <1>4, Zenon DEF WindowInv
<1>6. (\E k \in LineIds : Misses(k))' <=> \E k \in LineIds : Misses(k)
  BY <1>1, Zenon DEF LineIds, Misses, UsesALabel, Targets, UsedLabel
<1> QED
  BY <1>1, <1>4, <1>5, <1>6 DEF FailInv

LEMMA WindowStep ==
  ASSUME TypeOK, Progress, WindowInv, FailInv, [Next]_vars
  PROVE  WindowInv' /\ FailInv'
<1>1. CASE ReadFails
  BY <1>1, EndsStep DEF ReadFails
<1>2. CASE EndOfSource
  BY <1>2, EndsStep DEF EndOfSource
<1>3. CASE ParseFails
  <2>1. LineAt(CurrentLineId).status # "parsed" /\ CurrentLineId < Len(source)
    BY <1>3 DEF ParseFails, LineRead, line, LineAt
  <2>2. Ends("crashed") \/ Ends("parseError")
    BY <1>3 DEF ParseFails
  <2> QED
    BY <2>1, <2>2, EndsStep
<1>4. CASE StoresPastWindow
  <2>1. LineRead /\ Evicts /\ CurrentLineId < Len(source)
    BY <1>4 DEF StoresPastWindow, LineRead
  <2>2. CASE ~Unresolved
    <3>1. Ends("crashed")
      BY <1>4, <2>2 DEF StoresPastWindow
    <3> QED
      BY <2>1, <3>1, EndsStep
  <2>3. CASE Unresolved
    <3>1. LinesRead = MAX_JUMP /\ CurrentLineId = 0 + MAX_JUMP /\ MAX_JUMP \in 1 .. 128
      BY <2>1, Sizes DEF LineRead, Evicts, Progress, LinesRead
    <3>2. windowLineId = 0 /\ 0 \in 0 .. LinesRead - 1
      BY <3>1, SlotOf DEF windowLineId
    <3>3. \E k \in LineIds : Misses(k)
      BY <2>3, <3>1, <3>2, UnresolvedMisses
    <3>4. Ends("labelError")
      BY <1>4, <2>3 DEF StoresPastWindow
    <3> QED
      BY <3>3, <3>4, EndsStep
  <2> QED
    BY <2>2, <2>3
<1>5. CASE TakeLine
  <2>1. pc' = "reading"
    BY <1>5 DEF TakeLine, LineParsed, LineRead
  <2> QED
    BY <1>5, <2>1, TakeLineStep DEF FailInv
<1>6. CASE LabelFails
  BY <1>6, RedeclaredMisses, EndsStep DEF LabelFails
<1>7. CASE PassSlot
  <2>1. pc' = "flushing"
    BY <1>7 DEF PassSlot, Flushing
  <2> QED
    BY <1>7, <2>1, PassSlotStep DEF FailInv
<1>8. CASE DumpLine
  <2>1. pc' = "flushing"
    BY <1>8 DEF DumpLine, Flushing
  <2> QED
    BY <1>8, <2>1, DumpLineStep DEF FailInv
<1>9. CASE DumpFails
  <2>1. CASE ~Unresolved
    <3>1. Ends("ioError")
      BY <1>9, <2>1 DEF DumpFails
    <3> QED
      BY <3>1, EndsStep
  <2>2. CASE Unresolved
    <3>1. Ends("labelError") /\ Flushing /\ Evicts
      BY <1>9, <2>2 DEF DumpFails
    <3>2. \E k \in LineIds : Misses(k)
      BY <2>2, <3>1, Dumping, UnresolvedMisses
    <3> QED
      BY <3>1, <3>2, EndsStep
  <2> QED
    BY <2>1, <2>2
<1>10. CASE Finish
  BY <1>10, EndsStep DEF Finish
<1>11. CASE UNCHANGED vars
  <2>1. Ends(pc)
    BY <1>11, Zenon DEF Ends, vars
  <2> QED
    BY <2>1, EndsStep DEF FailInv
<1> QED
  BY <1>1, <1>2, <1>3, <1>4, <1>5, <1>6, <1>7, <1>8, <1>9, <1>10, <1>11
     DEF Next, Terminated

----------------------------------------------------------------------------
(* The theorems. *)

(* However the source is assembled, the variables of AssembleFile keep     *)
(* their types: the window holds words, and no index leaves it.            *)
THEOREM AssemblerTypeCorrect == Spec => []TypeOK
<1>1. Init => TypeOK /\ Progress
  BY TypeInit
<1>2. TypeOK /\ Progress /\ [Next]_vars => TypeOK' /\ Progress'
  BY TypeStep
<1> QED
  BY <1>1, <1>2, PTL DEF Spec

(* After every step the slots of the window are what the lines read so far *)
(* ask for: a jump is open as long as none of them declares its label, and *)
(* filled in with the distance to the line that does from then on; what is *)
(* written comes from closed slots only.                                   *)
THEOREM WindowInvariant == Spec => [](TypeOK /\ Progress /\ WindowInv /\ FailInv)
<1>1. Init => TypeOK /\ Progress /\ WindowInv /\ FailInv
  BY TypeInit, WindowInit
<1>2. TypeOK /\ Progress /\ WindowInv /\ FailInv /\ [Next]_vars
        => TypeOK' /\ Progress' /\ WindowInv' /\ FailInv'
  BY TypeStep, WindowStep
<1> QED
  BY <1>1, <1>2, PTL DEF Spec

(* When all is written no jump misses. *)
LEMMA DoneHits ==
  ASSUME TypeOK, Progress, WindowInv, pc = "done"
  PROVE  \A k \in LineIds : ~Misses(k)
<1>1. LinesRead = Len(source) /\ CurrentLineId - MAX_JUMP = Len(source)
  BY Sizes DEF Progress, LinesRead
<1>2. LinesRead \in Nat /\ LinesRead <= MAX_JUMP
  BY Sizes DEF Progress
<1> SUFFICES ASSUME NEW k \in LineIds PROVE ~Misses(k)
  OBVIOUS
<1>3. k \in 0 .. LinesRead - 1 /\ Dumped(k)
  BY <1>1, Sizes DEF LineIds, Dumped
<1>4. \A t \in 0 .. LinesRead - 1 : LineAt(t).status = "parsed"
  BY DEF WindowInv, SlotHolds
<1>5. ASSUME HasJump(k) PROVE \E t : Targets(k) = {t}
  <2>1. Targets(k) = Declaring(k, LinesRead)
    BY <1>1, <1>2, <1>3, <1>4, <1>5, TargetsAre
  <2>2. PICK t : t \in Declaring(k, LinesRead)
    BY <1>3, <1>5 DEF WindowInv
  <2>3. \A u \in Declaring(k, LinesRead) : u = t
    BY <1>3, <1>5, <2>2 DEF WindowInv, SlotHolds
  <2>4. Targets(k) = {t}
    BY <2>1, <2>2, <2>3
  <2> QED
    BY <2>4
<1> QED
  BY <1>3, <1>4, <1>5, Finds

(* AssembleFile accepts labels exactly when it should: when it is done     *)
(* each label that is used is declared once within the reach of its jump,  *)
(* and when it rejects labels one is not.                                  *)
THEOREM LabelsAreAccepted == Spec => []LabelsAccepted
<1>1. TypeOK /\ Progress /\ WindowInv /\ FailInv => LabelsAccepted
  BY DoneHits DEF FailInv, LabelsAccepted
<1> QED
  BY <1>1, WindowInvariant, PTL

----------------------------------------------------------------------------
(* What is written. *)

LEMMA PrefixIff ==
  ASSUME NEW S, NEW s \in Seq(S), NEW T, NEW t \in Seq(T)
  PROVE  IsPrefix(s, t) <=> Begins(s, t)
<1> DEFINE n == Len(s)
<1>1. n \in Nat
  OBVIOUS
<1>2. ASSUME n <= Len(t)
      PROVE  SubSeq(s, 1, n) = [k \in 1 .. n |-> s[k]] /\ SubSeq(t, 1, n) = [k \in 1 .. n |-> t[k]]
  <2>1. SubSeq(s, 1, n) = [k \in 1 .. n |-> s[k]]
    BY <1>1
  <2>2. SubSeq(t, 1, n) = [k \in 1 .. n |-> t[k]]
    BY <1>1, <1>2
  <2> QED
    BY <2>1, <2>2
<1>3. ASSUME n <= Len(t), SubSeq(s, 1, n) = SubSeq(t, 1, n)
      PROVE  \A k \in 1 .. n : s[k] = t[k]
  <2>1. [k \in 1 .. n |-> s[k]] = [k \in 1 .. n |-> t[k]]
    BY <1>2, <1>3
  <2> SUFFICES ASSUME NEW k \in 1 .. n PROVE s[k] = t[k]
    OBVIOUS
  <2>2. [j \in 1 .. n |-> s[j]][k] = [j \in 1 .. n |-> t[j]][k]
    BY <2>1
  <2> QED
    BY <2>2
<1>4. ASSUME n <= Len(t), \A k \in 1 .. n : s[k] = t[k]
      PROVE  SubSeq(s, 1, n) = SubSeq(t, 1, n)
  BY <1>2, <1>4
<1> QED
  BY <1>3, <1>4 DEF IsPrefix, Begins

(* A word with the id and the operands a line asks for means the line. *)
LEMMA Means ==
  ASSUME NEW k, NEW w, NEW id \in 0 .. 25, GetInstructionId(w) = id,
         INSTRUCTION_NAMES[id + 1] = source[k + 1].name,
         Intended(k) \in Seq(Tokens), Begins(Operands(w), Intended(k))
  PROVE  MeansLine(w, k)
<1>1. PICK S : Operands(w) \in Seq(S)
  BY OperandsType DEF IsSequence
<1>2. IsPrefix(Operands(w), Intended(k))
  BY <1>1, PrefixIff
<1>3. id # INVALID_INSTRUCTION_ID
  BY ValidIds
<1> QED
  BY <1>2, <1>3 DEF MeansLine

(* What stands in the output for line k. *)
LEMMA LineWritten ==
  ASSUME TypeOK, Progress, WindowInv, NEW k \in 0 .. Len(destination) - 1
  PROVE  /\ k \in LineIds /\ LineAt(k).status = "parsed"
         /\ ~HasJump(k) => destination[k + 1] = LineAt(k).RawInstruction
         /\ HasJump(k) => \E t \in Int : /\ Targets(k) = {t}
                                         /\ destination[k + 1] = SetLineLabel(Flagged(k), t - k)
<1> DEFINE n == LinesRead
<1>1. /\ CurrentLineId \in Nat /\ i \in 0 .. MAX_JUMP /\ MAX_JUMP \in Nat
      /\ Len(source) \in Nat /\ n = CurrentLineId - i /\ n <= MAX_JUMP /\ n \in Nat
      /\ i > 0 => n = Len(source)
  BY Sizes DEF LinesRead, Progress
<1>2. k < CurrentLineId - MAX_JUMP /\ k \in Nat
  BY <1>1 DEF WindowInv
<1>3. n = Len(source) /\ k \in 0 .. n - 1 /\ Dumped(k)
  BY <1>1, <1>2 DEF Dumped
<1>4. SlotHolds(k, n) /\ destination[k + 1] = InstructionWindow[k]
      /\ (HasJump(k) => Declaring(k, n) # {})
  BY <1>3 DEF WindowInv
<1>5. \A t \in 0 .. n - 1 : LineAt(t).status = "parsed"
  BY DEF WindowInv, SlotHolds
<1> HIDE DEF n
<1>6. k \in LineIds
  BY <1>3 DEF LineIds
<1>7. ASSUME ~HasJump(k) PROVE destination[k + 1] = LineAt(k).RawInstruction
  BY <1>4, <1>7 DEF SlotHolds, Flagged
<1>8. ASSUME HasJump(k)
      PROVE  \E t \in Int : /\ Targets(k) = {t}
                            /\ destination[k + 1] = SetLineLabel(Flagged(k), t - k)
  <2>1. PICK t : t \in Declaring(k, n)
    BY <1>4, <1>8
  <2>2. \A u \in Declaring(k, n) : u = t
    BY <1>4, <1>8, <2>1 DEF SlotHolds
  <2>3. Targets(k) = Declaring(k, n)
    BY <1>1, <1>3, <1>5, <1>8, TargetsAre
  <2>4. t \in Int
    BY <2>1 DEF Declaring
  <2>5. destination[k + 1] = SetLineLabel(Flagged(k), t - k)
    BY <1>4, <1>8, <2>1 DEF SlotHolds
  <2> QED
    BY <2>1, <2>2, <2>3, <2>4, <2>5
<1> QED
  BY <1>3, <1>5, <1>6, <1>7, <1>8

(* The distance goes where there were zeros, and the flag goes away. *)
LEMMA JumpFilled ==
  ASSUME NEW id \in {1, 2, 4}, NEW b \in 0 .. 7, NEW offset \in Int
  PROVE  SetLineLabel(BitOr(JumpRaw(id, b, 0), 1), offset) = JumpRaw(id, b, offset % 2^8)
<1> DEFINE x == JumpRaw(id, b, 0)
           a == 8 + id
           c == 2 * b
           d == offset % 2^8
           h == a * 2048 + b
<1>1. a \in 0 .. 15 /\ c \in 0 .. 15 /\ d \in 0 .. 255 /\ a \in Int /\ h \in Int /\ b \in Int
  BY 2^8 = 256
<1>2. x = a * 2^12 + c /\ x = h * 2^1
  BY <1>1, 2^12 = 4096, 2^4 = 16, 2^1 = 2 DEF JumpRaw
<1>3. x = a * 4096 + c
  BY <1>2, 2^12 = 4096
<1> HIDE DEF x, h
<1>4. x \in Word /\ x \in Int /\ 1 \in Word /\ 1 \in 0 .. 15 /\ 1 < 2^1
  BY <1>1, <1>3, WordIff, 2^1 = 2
<1>5. BitOr(x, 1) = x + 1
  BY <1>1, <1>2, <1>4, OrSideBySide, Zenon
<1>6. BitOr(x, 1) - 1 = x
  BY <1>4, <1>5
<1> HIDE DEF a, c, d
<1>7. BitOr(x, d * 2^4) = a * 2^12 + d * 2^4 + c
  BY <1>1, <1>2, OrInto
<1>8. SetLineLabel(BitOr(x, 1), offset) = BitOr(x, d * 2^4)
  BY <1>6 DEF SetLineLabel, d
<1>9. JumpRaw(id, b, d) = a * 2^12 + d * 2^4 + c
  BY DEF JumpRaw, a, c
<1> QED
  BY <1>7, <1>8, <1>9 DEF x, d

(* A line without a label, as it is parsed, means itself. *)
LEMMA PlainWritten ==
  ASSUME TypeOK, NEW k \in LineIds, LineAt(k).status = "parsed", ~HasJump(k),
         NEW w, w = LineAt(k).RawInstruction
  PROVE  MeansLine(w, k)
<1> DEFINE l == source[k + 1]
<1>1. l \in Lines /\ LineAt(k) = ParseLine(l, residue[k])
  BY LineType DEF LineAt
<1>2. ~UsesALabel(k) /\ l.name \notin JUMPS
  BY JumpLine DEF UsesALabel
<1>3. Intended(k) = l.args /\ l.args \in Seq(Tokens)
  BY <1>1, <1>2 DEF Intended, Lines
<1>4. l.name = source[k + 1].name
  OBVIOUS
<1> HIDE DEF l
<1>5. PICK id \in 0 .. 25 : INSTRUCTION_NAMES[id + 1] = l.name /\ Encodes(w, id, l.args)
  BY <1>1, <1>2, PlainMeans
<1>6. GetInstructionId(w) = id /\ Begins(Operands(w), Intended(k))
  BY <1>3, <1>5 DEF Encodes
<1> QED
  BY <1>3, <1>4, <1>5, <1>6, Means

(* A jump, with the distance to its target filled in, means its line. *)
LEMMA JumpWritten ==
  ASSUME TypeOK, NEW k \in LineIds, LineAt(k).status = "parsed", HasJump(k),
         residue[k] % 2^8 = 0, NEW t \in Int, Targets(k) = {t},
         NEW w, w = SetLineLabel(Flagged(k), t - k)
  PROVE  MeansLine(w, k)
<1> DEFINE l == source[k + 1]
           raw == LineAt(k).RawInstruction
           offset == t - k
           d == offset % 2^8
           s == <<Token("IMM", d)>> \o Tail(l.args)
<1>1. l \in Lines /\ LineAt(k) = ParseLine(l, residue[k])
  BY LineType DEF LineAt
<1>2. UsesALabel(k) /\ l.name \in JUMPS
  BY JumpLine DEF UsesALabel
<1>3. residue[k] \in Int
  BY ResiduesAssumption, WordIff DEF TypeOK
<1>4. The(Targets(k)) = t
  BY DEF The
<1>5. Intended(k) = s
  BY <1>2, <1>4 DEF Intended
<1>6. k \in Int /\ offset \in Int
  BY Sizes DEF LineIds
<1>7. d \in 0 .. 255
  BY <1>6, 2^8 = 256
<1>8. l.name = source[k + 1].name /\ l.args \in Seq(Tokens) /\ d = offset % 2^8
  BY <1>1 DEF Lines
<1>9. s = <<Token("IMM", d)>> \o Tail(l.args)
  OBVIOUS
<1>10. Flagged(k) = BitOr(raw, 1) /\ w = SetLineLabel(Flagged(k), offset)
  BY DEF Flagged
<1>11. raw = LineAt(k).RawInstruction
  OBVIOUS
<1> HIDE DEF l, raw, offset, d, s
<1>12. JumpEncodes(raw, l)
  BY <1>1, <1>2, <1>3, <1>11, JumpMeans
<1>13. PICK id \in {1, 2, 4}, b \in 0 .. 7 :
          /\ INSTRUCTION_NAMES[id + 1] = l.name
          /\ raw = JumpRaw(id, b, 0)
          /\ JumpArgs(id, b, l.args)
  BY <1>12 DEF JumpEncodes
<1>14. w = JumpRaw(id, b, d)
  BY <1>6, <1>8, <1>10, <1>13, JumpFilled
<1>15. JumpDecodes(id, b, d, s)
  BY <1>7, <1>8, <1>9, <1>13, JumpMeansOperands
<1>16. GetInstructionId(w) = id /\ Begins(Operands(w), Intended(k))
  BY <1>5, <1>14, <1>15 DEF JumpDecodes
<1>17. Token("IMM", d) \in Tokens /\ 1 \in DOMAIN l.args
  BY <1>7, <1>13 DEF Token, Tokens, JumpArgs
<1>18. s \in Seq(Tokens)
  BY <1>8, <1>9, <1>17, HeadReplaced
<1>19. id \in 0 .. 25
  OBVIOUS
<1> QED
  BY <1>5, <1>8, <1>13, <1>16, <1>18, <1>19, Means

(* The window says what has been written. *)
LEMMA WindowMeansSource ==
  ASSUME TypeOK, Progress, WindowInv PROVE OutputMeansSource
<1>1. ASSUME NEW k \in 0 .. Len(destination) - 1,
             UsesALabel(k) => residue[k] % 2^8 = 0
      PROVE  MeansLine(destination[k + 1], k)
  <2>1. k \in LineIds /\ LineAt(k).status = "parsed"
    BY LineWritten
  <2>2. CASE ~HasJump(k)
    BY <2>1, <2>2, LineWritten, PlainWritten
  <2>3. CASE HasJump(k)
    <3>1. PICK t \in Int : /\ Targets(k) = {t}
                           /\ destination[k + 1] = SetLineLabel(Flagged(k), t - k)
      BY <2>3, LineWritten
    <3>2. residue[k] % 2^8 = 0
      BY <1>1, <2>1, <2>3, JumpLine
    <3> QED
      BY <2>1, <2>3, <3>1, <3>2, JumpWritten
  <2> QED
    BY <2>2, <2>3
<1>2. ASSUME pc = "done" PROVE Len(destination) = Len(source)
  <2>1. /\ CurrentLineId - i = Len(source) /\ i = MAX_JUMP
        /\ CurrentLineId \in Nat /\ MAX_JUMP \in Nat /\ Len(source) \in Nat
    BY <1>2, Sizes DEF Progress, LinesRead
  <2>2. Len(destination) = IF CurrentLineId <= MAX_JUMP THEN 0 ELSE CurrentLineId - MAX_JUMP
    BY DEF WindowInv
  <2> QED
    BY <2>1, <2>2
<1> QED
  BY <1>1, <1>2 DEF OutputMeansSource

(* What is written is the program, for any source and any window: the vm   *)
(* decodes word k to the instruction on line k with its operands, and the  *)
(* distance in a jump leads to the one line that declares its label.       *)
THEOREM OutputMeansTheSource == Spec => []OutputMeansSource
<1>1. TypeOK /\ Progress /\ WindowInv /\ FailInv => OutputMeansSource
  BY WindowMeansSource
<1> QED
  BY <1>1, WindowInvariant, PTL

----------------------------------------------------------------------------
(* The lines that are accepted. *)

LEMMA IdOfWord ==
  ASSUME NEW w \in Word, GetInstructionId(w) # INVALID_INSTRUCTION_ID
  PROVE  GetInstructionId(w) \in 0 .. 25
<1> DEFINE big == Bits(w, 12, 3)
           small == w \div 256
<1>1. big \in Int /\ 0 <= big
  BY WordIff, 2^12 = 4096, 2^3 = 8 DEF Bits
<1>2. \/ GetInstructionId(w) = big /\ big < 5
      \/ GetInstructionId(w) = small /\ small \in 5 .. 25
  BY DEF GetInstructionId, BIG_INSTRUCTION_CNT, INSTRUCTION_CNT
<1> HIDE DEF big, small
<1> QED
  BY <1>1, <1>2

(* How the instruction in a word is written. *)
AsWritten(w) ==
    IF INSTRUCTION_NAMES[GetInstructionId(w) + 1] \in JUMPS
    THEN <<AnyLabel>> \o Tail(Operands(w)) ELSE Operands(w)

LEMMA FormsAre ==
  ASSUME NEW name, NEW args
  PROVE  (\E form \in Forms : form[1] = name /\ IsPrefix(form[2], args))
            <=> \E id \in 0 .. 25, w \in Word :
                    /\ GetInstructionId(w) = id
                    /\ INSTRUCTION_NAMES[id + 1] = name
                    /\ IsPrefix(AsWritten(w), args)
<1> DEFINE Name(w) == INSTRUCTION_NAMES[GetInstructionId(w) + 1]
           W == {w \in Word : GetInstructionId(w) # INVALID_INSTRUCTION_ID}
<1>1. Forms = {<<Name(w), AsWritten(w)>> : w \in W}
  BY Zenon DEF Forms, AsWritten
<1>2. \A w : <<Name(w), AsWritten(w)>>[1] = Name(w) /\ <<Name(w), AsWritten(w)>>[2] = AsWritten(w)
  OBVIOUS
<1>3. (\E form \in Forms : form[1] = name /\ IsPrefix(form[2], args))
         <=> \E w \in W : Name(w) = name /\ IsPrefix(AsWritten(w), args)
  BY <1>1, <1>2, Zenon
<1>4. \A w \in W : GetInstructionId(w) \in 0 .. 25
  BY IdOfWord
<1>5. \A w \in Word : GetInstructionId(w) \in 0 .. 25 => w \in W
  BY ValidIds
<1>6. \A w \in W : w \in Word
  OBVIOUS
<1>7. \A id, w : GetInstructionId(w) = id => INSTRUCTION_NAMES[id + 1] = Name(w)
  OBVIOUS
<1> HIDE DEF Name, W
<1> QED
  BY <1>3, <1>4, <1>5, <1>6, <1>7, Zenon

(* The arguments of a line, with one label for all. *)
Labelled(l) ==
    IF l.name \in JUMPS /\ l.args # << >> /\ IsLabel(l.args[1])
    THEN <<AnyLabel>> \o Tail(l.args) ELSE l.args

LEMMA TailKept ==
  ASSUME NEW T, NEW args \in Seq(T), args # << >>, NEW x \in T,
         NEW s, s = <<x>> \o Tail(args)
  PROVE  s \in Seq(T) /\ 1 \in DOMAIN s /\ s[1] = x
         /\ (2 \in DOMAIN s <=> 2 \in DOMAIN args)
         /\ (2 \in DOMAIN s => s[2] = args[2])
<1>1. Len(args) \in Nat /\ Len(args) >= 1 /\ DOMAIN args = 1 .. Len(args)
  OBVIOUS
<1>2. Tail(args) \in Seq(T) /\ Len(Tail(args)) = Len(args) - 1
  BY <1>1
<1>3. s \in Seq(T) /\ Len(s) = Len(args) /\ s[1] = x
  BY <1>1, <1>2
<1>4. ASSUME 2 \in DOMAIN args PROVE s[2] = args[2]
  <2>1. Len(args) >= 2 /\ Tail(args)[1] = args[2]
    BY <1>1, <1>4
  <2>2. s[2] = Tail(args)[1]
    BY <1>1, <1>2, <2>1
  <2> QED
    BY <2>1, <2>2
<1> QED
  BY <1>1, <1>3, <1>4

LEMMA OneAndOne == ASSUME NEW x, NEW y PROVE <<x>> \o <<y>> = <<x, y>>
<1>1. <<x>> \in Seq({x, y}) /\ <<y>> \in Seq({x, y}) /\ Len(<<x>>) = 1 /\ Len(<<y>>) = 1
  OBVIOUS
<1> DEFINE s == <<x>> \o <<y>>
<1>2. Len(s) = 2 /\ s \in Seq({x, y})
  BY <1>1
<1>3. s[1] = x /\ s[2] = y
  BY <1>1
<1> HIDE DEF s
<1>4. s = <<x, y>>
  BY <1>2, <1>3
<1> QED
  BY <1>4 DEF s

LEMMA WrittenJump ==
  ASSUME NEW w, NEW id \in {1, 2, 4}, GetInstructionId(w) = id
  PROVE  /\ id \in {1, 2} => AsWritten(w) = <<AnyLabel, Token("RX", Bits(w, 1, 3))>>
         /\ id = 4 => AsWritten(w) = <<AnyLabel>>
<1>0. id \in 0 .. 25
  OBVIOUS
<1>1. INSTRUCTION_NAMES[id + 1] \in JUMPS
  BY DEF INSTRUCTION_NAMES, JUMPS
<1>2. AsWritten(w) = <<AnyLabel>> \o Tail(Operands(w))
  BY <1>1 DEF AsWritten
<1>3. CASE id \in {1, 2}
  <2>1. Operands(w) = <<Token("IMM", BigDelta(w)), Token("RX", Bits(w, 1, 3))>>
    BY <1>0, <1>3, OperandsById
  <2>2. \A x, y : Tail(<<x, y>>) = <<y>>
    OBVIOUS
  <2> QED
    BY <1>2, <1>3, <2>1, <2>2, OneAndOne
<1>4. CASE id = 4
  <2>1. Operands(w) = <<Token("IMM", BigDelta(w))>>
    BY <1>0, <1>4, OperandsById
  <2>2. \A x, z : <<z>> \o Tail(<<x>>) = <<z>>
    OBVIOUS
  <2> QED
    BY <1>2, <1>4, <2>1, <2>2
<1> QED
  BY <1>3, <1>4

(* The jump a line asks for is the one its form is of. *)
LEMMA JumpForms ==
  ASSUME NEW l \in Lines, l.name \in JUMPS
  PROVE  (\E form \in Forms : form[1] = l.name /\ IsPrefix(form[2], Labelled(l))) <=> JumpAsks(l)
<1> DEFINE args == l.args
           s == Labelled(l)
<1>1. args \in Seq(Tokens) /\ AnyLabel \in Tokens
  BY DEF Lines, AnyLabel, Token, Tokens
<1>2. \A id \in 0 .. 25 : INSTRUCTION_NAMES[id + 1] \in JUMPS <=> id \in {1, 2, 4}
  BY DEF INSTRUCTION_NAMES, JUMPS
<1>3. \A id \in {1, 2, 4} : id \in 0 .. 25
  OBVIOUS
<1>4. IsLabel(AnyLabel)
  BY DEF IsLabel, AnyLabel, Token
<1>5. \A token : IsLabel(token) <=> IsLabelToken(token)
  BY DEF IsLabel, IsLabelToken
<1>6. args # << >> <=> 1 \in DOMAIN args
  BY <1>1
<1>7. ASSUME 1 \in DOMAIN args, IsLabel(args[1])
      PROVE  /\ s \in Seq(Tokens) /\ 1 \in DOMAIN s /\ s[1] = AnyLabel
             /\ 2 \in DOMAIN s <=> 2 \in DOMAIN args
             /\ 2 \in DOMAIN s => s[2] = args[2]
  <2>1. s = <<AnyLabel>> \o Tail(args) /\ args # << >>
    BY <1>6, <1>7 DEF Labelled
  <2> HIDE DEF s, args
  <2> QED
    BY <1>1, <2>1, TailKept
<1>8. ASSUME ~(1 \in DOMAIN args /\ IsLabel(args[1])) PROVE s = args
  BY <1>6, <1>8 DEF Labelled
<1> HIDE DEF s
<1>9. s \in Seq(Tokens) /\ (1 \in DOMAIN s /\ s[1] = AnyLabel <=> 1 \in DOMAIN args /\ IsLabel(args[1]))
  BY <1>1, <1>4, <1>7, <1>8
<1>10. \A x : /\ IsPrefix(<<AnyLabel>>, s) <=> 1 \in DOMAIN args /\ IsLabel(args[1])
              /\ IsPrefix(<<AnyLabel, x>>, s)
                    <=> 1 \in DOMAIN args /\ IsLabel(args[1]) /\ 2 \in DOMAIN args /\ args[2] = x
  <2> SUFFICES ASSUME NEW x
               PROVE  /\ IsPrefix(<<AnyLabel>>, s) <=> 1 \in DOMAIN args /\ IsLabel(args[1])
                      /\ IsPrefix(<<AnyLabel, x>>, s)
                            <=> 1 \in DOMAIN args /\ IsLabel(args[1]) /\ 2 \in DOMAIN args /\ args[2] = x
    OBVIOUS
  <2>1. <<AnyLabel>> \in Seq({AnyLabel}) /\ <<AnyLabel, x>> \in Seq({AnyLabel, x})
    OBVIOUS
  <2>2. IsPrefix(<<AnyLabel>>, s) <=> Begins(<<AnyLabel>>, s)
    BY <1>9, <2>1, PrefixIff
  <2>3. IsPrefix(<<AnyLabel, x>>, s) <=> Begins(<<AnyLabel, x>>, s)
    BY <1>9, <2>1, PrefixIff
  <2>4. Begins(<<AnyLabel>>, s) <=> 1 \in DOMAIN s /\ s[1] = AnyLabel
    BY <1>9, BeginsOne
  <2>5. Begins(<<AnyLabel, x>>, s)
           <=> 1 \in DOMAIN s /\ 2 \in DOMAIN s /\ s[1] = AnyLabel /\ s[2] = x
    BY <1>9, BeginsTwo
  <2> QED
    BY <1>7, <1>9, <2>2, <2>3, <2>4, <2>5, Zenon
<1>11. ASSUME JumpAsks(l)
       PROVE  \E form \in Forms : form[1] = l.name /\ IsPrefix(form[2], s)
  <2>1. PICK id \in {1, 2, 4}, b \in 0 .. 7 :
            /\ INSTRUCTION_NAMES[id + 1] = l.name
            /\ JumpArgs(id, b, args)
            /\ IsLabelToken(args[1])
    BY <1>11 DEF JumpAsks
  <2> DEFINE w == JumpRaw(id, b, 0)
             d == 0
  <2>2. d \in 0 .. 255
    OBVIOUS
  <2>3. w = JumpRaw(id, b, d)
    OBVIOUS
  <2> HIDE DEF w, d
  <2>4. JumpHas(w, id, b, d)
    BY <2>2, <2>3, JumpHasFields
  <2>5. w \in Word /\ GetInstructionId(w) = id /\ Bits(w, 1, 3) = b
    BY <2>4 DEF JumpHas
  <2>6. IsPrefix(AsWritten(w), s)
    BY <1>5, <1>10, <2>1, <2>5, WrittenJump DEF JumpArgs
  <2> QED
    BY <1>3, <2>1, <2>5, <2>6, FormsAre
<1>12. ASSUME \E form \in Forms : form[1] = l.name /\ IsPrefix(form[2], s)
       PROVE  JumpAsks(l)
  <2>1. PICK id \in 0 .. 25, w \in Word :
            /\ GetInstructionId(w) = id
            /\ INSTRUCTION_NAMES[id + 1] = l.name
            /\ IsPrefix(AsWritten(w), s)
    BY <1>12, FormsAre
  <2>2. id \in {1, 2, 4} /\ Bits(w, 1, 3) \in 0 .. 7
    BY <1>2, <2>1, FieldTypes
  <2>3. 1 \in DOMAIN args /\ IsLabelToken(args[1])
    BY <1>5, <1>10, <2>1, <2>2, WrittenJump
  <2>4. JumpArgs(id, Bits(w, 1, 3), args)
    BY <1>10, <2>1, <2>2, <2>3, WrittenJump DEF JumpArgs
  <2> QED
    BY <2>1, <2>2, <2>3, <2>4 DEF JumpAsks
<1> QED
  BY <1>11, <1>12 DEF s

LEMMA PlainForms ==
  ASSUME NEW l \in Lines, l.name \notin JUMPS
  PROVE  (\E form \in Forms : form[1] = l.name /\ IsPrefix(form[2], Labelled(l))) <=> PlainAsks(l)
<1>1. Labelled(l) = l.args /\ l.args \in Seq(Tokens)
  BY DEF Labelled, Lines
<1>2. ASSUME NEW id \in 0 .. 25, NEW w \in Word, GetInstructionId(w) = id,
             INSTRUCTION_NAMES[id + 1] = l.name
      PROVE  IsPrefix(AsWritten(w), l.args) <=> Begins(Operands(w), l.args)
  <2>1. AsWritten(w) = Operands(w)
    BY <1>2 DEF AsWritten
  <2>2. PICK S : Operands(w) \in Seq(S)
    BY <1>2, OperandsType DEF IsSequence
  <2> QED
    BY <1>1, <2>1, <2>2, PrefixIff
<1>3. (\E form \in Forms : form[1] = l.name /\ IsPrefix(form[2], l.args))
         <=> \E id \in 0 .. 25, w \in Word :
                 /\ GetInstructionId(w) = id
                 /\ INSTRUCTION_NAMES[id + 1] = l.name
                 /\ IsPrefix(AsWritten(w), l.args)
  BY FormsAre
<1> QED
  BY <1>1, <1>2, <1>3, Zenon DEF PlainAsks

(* ParseLine takes the well-formed lines, and these only. *)
LEMMA ParsesWellFormed ==
  ASSUME NEW l \in Lines, NEW stale, NEW p, p = ParseLine(l, stale)
  PROVE  p.status = "parsed" <=> WellFormed(l)
<1> DEFINE GoodLabels == \A d \in DOMAIN l.declares :
                           /\ l.declares[d].kind \notin {"fullLabel", "long"}
                           /\ d # Len(l.declares) => l.declares[d] = NoLabel
           HasForm == \E form \in Forms : form[1] = l.name /\ IsPrefix(form[2], Labelled(l))
<1>1. ~BadLabels(l.declares) <=> GoodLabels
  <2> DEFINE n == Len(l.declares)
  <2>1. l.declares \in Seq(Tokens \cup {NoLabel})
    BY DEF Lines
  <2>2. n \in Nat /\ DOMAIN l.declares = 1 .. n
    BY <2>1
  <2>3. ASSUME \A d \in 1 .. n : d > 1 => l.declares[d - 1] = NoLabel, NEW d \in 1 .. n, d # n
        PROVE  l.declares[d] = NoLabel
    <3>1. d + 1 \in 1 .. n /\ d + 1 > 1 /\ d + 1 - 1 = d
      BY <2>2, <2>3
    <3> QED
      BY <2>3, <3>1
  <2>4. ASSUME \A d \in 1 .. n : d # n => l.declares[d] = NoLabel, NEW d \in 1 .. n, d > 1
        PROVE  l.declares[d - 1] = NoLabel
    <3>1. d - 1 \in 1 .. n /\ d - 1 # n
      BY <2>2, <2>4
    <3> QED
      BY <2>4, <3>1
  <2>5. (\A d \in 1 .. n : d > 1 => l.declares[d - 1] = NoLabel)
           <=> \A d \in 1 .. n : d # n => l.declares[d] = NoLabel
    BY <2>3, <2>4
  <2> QED
    BY <2>2, <2>5 DEF BadLabels
<1>2. HasForm <=> IF l.name \in JUMPS THEN JumpAsks(l) ELSE PlainAsks(l)
  BY JumpForms, PlainForms
<1>3. WellFormed(l) <=> HasForm /\ GoodLabels
  BY Zenon DEF WellFormed, Labelled
<1> HIDE DEF HasForm, GoodLabels
<1>4. p.status = "parsed"
         <=> /\ ~BadLabels(l.declares)
             /\ IF l.name \in JUMPS THEN JumpAsks(l) ELSE PlainAsks(l)
  BY ParsesIff
<1> QED
  BY <1>1, <1>2, <1>3, <1>4

LEMMA WindowTakesLines ==
  ASSUME TypeOK, Progress, WindowInv, FailInv PROVE LinesAccepted
<1>1. \A k \in LineIds : LineAt(k).status = "parsed" <=> WellFormed(source[k + 1])
  BY LineType, ParsesWellFormed DEF LineAt
<1>2. ASSUME pc = "done", NEW k \in LineIds PROVE WellFormed(source[k + 1])
  <2>1. k \in 0 .. LinesRead - 1
    BY <1>2, Sizes DEF Progress, LineIds
  <2>2. LineAt(k).status = "parsed"
    BY <2>1 DEF WindowInv, SlotHolds
  <2> QED
    BY <1>1, <2>2
<1>3. CurrentLineId < Len(source) => CurrentLineId \in LineIds
  BY Sizes DEF LineIds
<1> QED
  BY <1>1, <1>2, <1>3 DEF LinesAccepted, FailInv

(* ParseLine accepts a line exactly when it asks for an instruction of the *)
(* machine and its labels fit: no operand that has a place is refused,     *)
(* none that has not is taken, and the assembler crashes at no such line   *)
(* but for want of room in the window.                                     *)
THEOREM WellFormedAreAccepted == Spec => []LinesAccepted
<1>1. TypeOK /\ Progress /\ WindowInv /\ FailInv => LinesAccepted
  BY WindowTakesLines
<1> QED
  BY <1>1, WindowInvariant, PTL

----------------------------------------------------------------------------
(* What the assembler leaves behind when it ends well, with nothing in the *)
(* way of its jumps.  No instruction is the word 0.                        *)
LEMMA DoneWrites ==
  ASSUME TypeOK, Progress, WindowInv, FailInv, pc = "done",
         \A k \in LineIds : residue[k] = 0
  PROVE  /\ Len(destination) = Len(source) /\ Len(source) <= MAX_JUMP
         /\ \A k \in LineIds : /\ WellFormed(source[k + 1])
                               /\ UsesALabel(k) => \E t : Targets(k) = {t}
                               /\ destination[k + 1] # 0
<1>1. OutputMeansSource /\ LinesAccepted /\ \A k \in LineIds : ~Misses(k)
  BY WindowMeansSource, WindowTakesLines, DoneHits
<1>2. Len(destination) = Len(source)
  BY <1>1 DEF OutputMeansSource
<1>3. \A k \in LineIds : WellFormed(source[k + 1])
  BY <1>1 DEF LinesAccepted
<1>4. Len(source) <= MAX_JUMP
  BY DEF Progress
<1>5. ASSUME NEW k \in LineIds, UsesALabel(k) PROVE \E t : Targets(k) = {t}
  <2>1. Cardinality(Targets(k)) = 1
    BY <1>1, <1>5 DEF Misses
  <2>2. IsFiniteSet(Targets(k))
    <3>1. IsFiniteSet(LineIds)
      BY Sizes, FS_Interval DEF LineIds
    <3> QED
      BY <3>1, FS_Subset DEF Targets
  <2> QED
    BY <2>1, <2>2, FS_Singleton
<1>6. ASSUME NEW k \in LineIds PROVE destination[k + 1] # 0
  <2>1. residue[k] % 2^8 = 0
    BY <1>6, 2^8 = 256
  <2>2. k \in 0 .. Len(destination) - 1
    BY <1>2 DEF LineIds
  <2>3. MeansLine(destination[k + 1], k)
    BY <1>1, <2>1, <2>2 DEF OutputMeansSource
  <2>4. GetInstructionId(destination[k + 1]) # INVALID_INSTRUCTION_ID
    BY <2>3 DEF MeansLine
  <2>5. GetInstructionId(0) = INVALID_INSTRUCTION_ID
    BY DEF GetInstructionId, BIG_INSTRUCTION_CNT
  <2> QED
    BY <2>4, <2>5
<1> QED
  BY <1>2, <1>3, <1>4, <1>5, <1>6

LEMMA SourceStays == [Next]_vars => UNCHANGED <<source, residue>>
  BY DEF Next, vars, ReadFails, EndOfSource, ParseFails, StoresPastWindow, TakeLine,
         LabelFails, PassSlot, DumpLine, DumpFails, Finish, Terminated, Ends

======================================================================
