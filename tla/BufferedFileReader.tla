---------------------- MODULE BufferedFileReader ----------------------
(***************************************************************************)
(* The buffered reader (buffered_file_reader.c) and the two loops that use *)
(* it: LoadSubprocess takes words until there are none left, AssembleFile  *)
(* takes lines.                                                            *)
(***************************************************************************)
EXTENDS Integers, Sequences, FiniteSets

CONSTANTS
    Files,          \* the contents considered: sequences of bytes
    BufferSize,     \* OS_PAGE_SIZE in both programs
    LineLimit       \* MAX_LINE_LENGTH of AssembleFile

Byte == 0 .. 2^8 - 1

ASSUME FilesAssumption == Files \subseteq Seq(Byte)
ASSUME LineLimitAssumption == LineLimit \in Nat \ {0}

(* ReadToBuffer moves bytes that are left over to the front of the buffer, *)
(* then reads over them.  With a buffer of an even size none ever are when *)
(* it is called.                                                           *)
ASSUME BufferSizeAssumption == BufferSize \in Nat \ {0} /\ BufferSize % 2 = 0

VARIABLES
    content,    \* the bytes of the file, fixed
    reader,     \* the struct, with the state stdio keeps of the file
    pc,         \* where the loop that reads is, or how it ended
    line,       \* ReadLine: the characters put into dst
    delivered   \* the words or lines handed out

vars == <<content, reader, pc, line, delivered>>

Index == 0 .. BufferSize - 1

(* taken counts the bytes fread has delivered. *)
Readers ==
    [BufferedData : [Index -> Byte], BufferedDataSize : 0 .. BufferSize,
     BufferConsumed : 0 .. BufferSize, taken : 0 .. Len(content),
     feof : BOOLEAN, ferror : BOOLEAN]

WordEnds == {"eof", "odd", "error"}
LineLocations == {"line", "drop", "returned", "ended", "failed"}

TypeOK ==
    /\ content \in Files
    /\ reader \in Readers
    /\ reader.BufferConsumed <= reader.BufferedDataSize
    /\ pc \in {"words"} \cup WordEnds \cup LineLocations
    /\ line \in Seq(Byte)

Init ==
    /\ content \in Files
    /\ reader = [BufferedData |-> [k \in Index |-> 0], BufferedDataSize |-> 0,
                 BufferConsumed |-> 0, taken |-> 0, feof |-> FALSE, ferror |-> FALSE]
    /\ pc \in {"words", "line"}
    /\ line = << >>
    /\ delivered = << >>

----------------------------------------------------------------------------
(* The struct. *)

BufferedSize(r) == r.BufferedDataSize - r.BufferConsumed
First(r) == r.BufferedData[r.BufferConsumed]
Consume(r, n) == [r EXCEPT !.BufferConsumed = @ + n]

IsError(r) == r.ferror /\ BufferedSize(r) = 0

(* Fault: the end of the file counts while there are bytes in the buffer. *)
IsEOFEarly(r) == r.feof

IsEOF(r) == r.feof /\ BufferedSize(r) = 0

(* Fault: the last byte of the buffer ends a string. *)
FromFileCutShort(r, k) == IF k = BufferSize - 1 THEN 0 ELSE content[r.taken + k + 1]

(* The byte fread puts at k, and the buffer when it has delivered n bytes  *)
(* to the front.                                                           *)
FromFile(r, k) == content[r.taken + k + 1]
RefilledData(r, n) ==
    [k \in Index |->
        IF k < n THEN FromFile(r, k)
        ELSE IF k < BufferedSize(r) THEN r.BufferedData[r.BufferConsumed + k]
        ELSE r.BufferedData[k]]

(* Fault: the count of consumed bytes is kept. *)
StartKept(r) == r.BufferConsumed

Start(r) == 0

Refilled(r, n, feof, ferror) ==
    [BufferedData |-> RefilledData(r, n), BufferedDataSize |-> BufferedSize(r) + n,
     BufferConsumed |-> Start(r), taken |-> r.taken + n, feof |-> feof,
     ferror |-> ferror]

(* fread asks for all the room there is; it delivers less at the end of    *)
(* the file, which sets feof, or on an error, which sets ferror.           *)
ReadToBuffer(r) ==
    LET room == BufferSize - BufferedSize(r)
        rest == Len(content) - r.taken
    IN  IF r.feof \/ r.ferror THEN {[reader |-> r, ok |-> FALSE]}
        ELSE {[reader |-> Refilled(r, n, n < room, FALSE), ok |-> n # 0] :
                 n \in {IF rest < room THEN rest ELSE room}}
             \cup
             {[reader |-> Refilled(r, n, FALSE, TRUE), ok |-> n # 0] :
                 n \in {k \in 0 .. rest : k < room}}

(* Fault: the bytes of a word are taken the wrong way around. *)
BigEndian(low, high) == high + 2^8 * low

LittleEndian(low, high) == low + 2^8 * high

NextWord(r) == LittleEndian(First(r), r.BufferedData[r.BufferConsumed + 1])

ReadUint16(r) ==
    LET step(x) ==
            IF x.ok /\ BufferedSize(x.reader) >= 2
            THEN [reader |-> Consume(x.reader, 2), ok |-> TRUE, word |-> NextWord(x.reader)]
            ELSE [reader |-> x.reader, ok |-> FALSE, word |-> 0]
    IN  IF BufferedSize(r) >= 2 THEN {step([reader |-> r, ok |-> TRUE])}
        ELSE {step(x) : x \in ReadToBuffer(r)}

(* A loop that wants one more byte: BUFFERED_DATA_SIZE == 0 &&             *)
(* !ReadToBuffer(reader) is the negation of ok.                            *)
NextByte(r) ==
    IF BufferedSize(r) = 0 THEN ReadToBuffer(r) ELSE {[reader |-> r, ok |-> TRUE]}

----------------------------------------------------------------------------
(* LoadSubprocess: the loop over the words. *)

TakeWord ==
    /\ pc = "words"
    /\ \E x \in ReadUint16(reader) :
         /\ x.ok
         /\ reader' = x.reader
         /\ delivered' = Append(delivered, x.word)
    /\ UNCHANGED <<content, pc, line>>

WordsEnd ==
    /\ pc = "words"
    /\ \E x \in ReadUint16(reader) :
         /\ ~x.ok
         /\ reader' = x.reader
         /\ pc' = IF IsError(x.reader) THEN "error"
                  ELSE IF ~IsEOF(x.reader) THEN "odd" ELSE "eof"
    /\ UNCHANGED <<content, line, delivered>>

----------------------------------------------------------------------------
(* AssembleFile: the loop over the lines, with ReadLine and DropLineEnd.   *)

IsLineEnd(c) == c \in {10, 13}

(* Fault: the last place of the buffer counts as used. *)
FitsWithEnd == Len(line) < LineLimit - 1

Fits == Len(line) < LineLimit

(* ReadLine: a character of the line, the end of the line, or no more.     *)
TakeCharacter ==
    /\ pc = "line"
    /\ \E x \in NextByte(reader) :
         /\ x.ok
         /\ Fits
         /\ ~IsLineEnd(First(x.reader))
         /\ line' = Append(line, First(x.reader))
         /\ reader' = Consume(x.reader, 1)
    /\ UNCHANGED <<content, pc, delivered>>

LineTooLong ==
    /\ pc = "line"
    /\ \E x \in NextByte(reader) :
         /\ x.ok
         /\ ~Fits
         /\ reader' = x.reader
    /\ pc' = "failed"
    /\ UNCHANGED <<content, line, delivered>>

FindLineEnd ==
    /\ pc = "line"
    /\ \E x \in NextByte(reader) :
         /\ x.ok
         /\ Fits
         /\ IsLineEnd(First(x.reader))
         /\ reader' = x.reader
    /\ pc' = "drop"
    /\ UNCHANGED <<content, line, delivered>>

(* Faults: only one line end is taken; none is. *)
DropOnce == "returned"
DropNothing(r) == r

(* DropLineEnd takes all line ends up to the next line. *)
DropMore == "drop"
Dropped(r) == Consume(r, 1)
DropLineEnd ==
    /\ pc = "drop"
    /\ \E x \in NextByte(reader) :
         /\ x.ok
         /\ IF IsLineEnd(First(x.reader))
            THEN reader' = Dropped(x.reader) /\ pc' = DropMore
            ELSE reader' = x.reader /\ pc' = "returned"
    /\ UNCHANGED <<content, line, delivered>>

(* Either loop runs out of bytes. *)
NoMoreBytes ==
    /\ pc \in {"line", "drop"}
    /\ \E x \in NextByte(reader) :
         /\ ~x.ok
         /\ reader' = x.reader
         /\ pc' = IF IsError(x.reader) THEN "failed" ELSE "returned"
    /\ UNCHANGED <<content, line, delivered>>

(* AssembleFile takes an empty string at the end of the file for the end.  *)
EndOfLines == (line # << >> => Head(line) = 0) /\ IsEOF(reader)

UseLine ==
    /\ pc = "returned"
    /\ ~EndOfLines
    /\ delivered' = Append(delivered, line)
    /\ line' = << >>
    /\ pc' = "line"
    /\ UNCHANGED <<content, reader>>

LinesEnd ==
    /\ pc = "returned"
    /\ EndOfLines
    /\ pc' = "ended"
    /\ UNCHANGED <<content, reader, line, delivered>>

Ended == pc \in WordEnds \cup {"ended", "failed"}
Terminated == Ended /\ UNCHANGED vars

Next == \/ TakeWord \/ WordsEnd
        \/ TakeCharacter \/ LineTooLong \/ FindLineEnd \/ DropLineEnd
        \/ NoMoreBytes \/ UseLine \/ LinesEnd
        \/ Terminated

Spec == Init /\ [][Next]_vars

(* The program is sequential and goes on as long as it can. *)
FairSpec == Spec /\ WF_vars(Next)

----------------------------------------------------------------------------
(* Safety. *)

(* The bytes in the buffer that are not consumed are the next bytes of the *)
(* file: no refill loses, repeats or overwrites one.                       *)
BufferIsWindow ==
    \A k \in 0 .. BufferedSize(reader) - 1 :
        reader.BufferedData[reader.BufferConsumed + k] =
            content[reader.taken - BufferedSize(reader) + k + 1]

TakingWords == pc \in {"words"} \cup WordEnds
WordAt(k) == content[2 * k - 1] + 2^8 * content[2 * k]

(* What ReadUint16 hands out is the file, word by word.                    *)
WordsInOrder ==
    TakingWords =>
        /\ 2 * Len(delivered) = reader.taken - BufferedSize(reader)
        /\ \A k \in DOMAIN delivered : delivered[k] = WordAt(k)

(* LoadSubprocess can tell how the file ended: it goes on to run an image  *)
(* only if all of the file is in it, half a word at the end and a read     *)
(* error are noticed.                                                      *)
EndsAreTold ==
    /\ pc = "eof" => 2 * Len(delivered) = Len(content)
    /\ pc \in {"odd", "error"} => Len(content) % 2 = 1 \/ reader.ferror

(* The lines of a text: its runs of bytes between line ends, and before    *)
(* them an empty one if the text begins with a line end.                   *)
Starts ==
    {p \in DOMAIN content :
        ~IsLineEnd(content[p]) /\ (p = 1 \/ IsLineEnd(content[p - 1]))}
RunAt(p) ==
    LET past == {q \in p .. Len(content) + 1 :
                    q = Len(content) + 1 \/ IsLineEnd(content[q])}
    IN  SubSeq(content, p, (CHOOSE q \in past : \A r \in past : q <= r) - 1)
Run(k) == RunAt(CHOOSE p \in Starts : Cardinality({q \in Starts : q <= p}) = k)
EmptyFirst == Starts # {} /\ 1 \notin Starts
LineCnt == Cardinality(Starts) + IF EmptyFirst THEN 1 ELSE 0
LineAt(k) ==
    IF ~EmptyFirst THEN Run(k) ELSE IF k = 1 THEN << >> ELSE Run(k - 1)

(* The assembler sees the lines of the text, all of them by the end.  A    *)
(* text has no NUL: one at the start of the last line would end the source *)
(* before it.                                                              *)
IsText == \A k \in DOMAIN content : content[k] # 0
LinesInOrder ==
    ~TakingWords /\ IsText =>
        /\ Len(delivered) <= LineCnt
        /\ \A k \in DOMAIN delivered : delivered[k] = LineAt(k)
        /\ pc = "ended" => Len(delivered) = LineCnt

(* The assembler gives up on a text only if it cannot be read or has a     *)
(* line too long for the buffer.  One of just LineLimit characters counts  *)
(* as too long, though it fits, unless the file ends with it.              *)
LinesFit ==
    pc = "failed" => \/ reader.ferror
                     \/ \E p \in Starts : Len(RunAt(p)) >= LineLimit

----------------------------------------------------------------------------
(* Liveness. *)

(* The four loops without a condition (of LoadSubprocess and AssembleFile  *)
(* over the file, of ReadLine and DropLineEnd over the buffer) come to an  *)
(* end, also when the file cannot be read further.                         *)
LoopsEnd == <>Ended
======================================================================
