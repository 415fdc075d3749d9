------------------ MODULE BufferedFileReaderProofs --------------------
(***************************************************************************)
(* For files of any length and a buffer of any even size: the buffer is a  *)
(* window of the file, words and lines come out in order, the loader can   *)
(* tell how the file ended, and the assembler gives up on a text only if   *)
(* it has to.                                                              *)
(*                                                                         *)
(* The argument: as long as neither feof nor ferror is set, every fread    *)
(* filled the buffer (Whole), and words are taken two bytes at a time from *)
(* a buffer of even size (Even); so the buffer is empty whenever it is     *)
(* refilled, and reading over its front destroys nothing.                  *)
(*                                                                         *)
(* For lines (LineInv): there is a place s of the text where the current   *)
(* line begins, behind a run of line ends, and a place e up to which it    *)
(* has been copied; the bytes taken since are line ends; and as many lines *)
(* are out as the text begins before s.                                    *)
(***************************************************************************)
EXTENDS BufferedFileReader, FiniteSetTheorems, WellFoundedInduction,
        SequenceTheorems, TLAPS

WindowOf(r) ==
    \A k \in 0 .. BufferedSize(r) - 1 :
        r.BufferedData[r.BufferConsumed + k] =
            content[r.taken - BufferedSize(r) + k + 1]
Whole(r) == ~r.feof /\ ~r.ferror => r.BufferedDataSize \in {0, BufferSize}
Even(r) == r.BufferConsumed % 2 = 0

(* How many bytes have been handed out. *)
Position(r) == r.taken - BufferedSize(r)

Sound(r) ==
    /\ r \in Readers
    /\ r.BufferConsumed <= r.BufferedDataSize
    /\ BufferedSize(r) <= r.taken
    /\ WindowOf(r)
    /\ Whole(r)
    /\ r.feof => r.taken = Len(content)

IInv ==
    /\ content \in Files
    /\ Sound(reader)
    /\ pc \in {"words"} \cup WordEnds \cup LineLocations
    /\ line \in Seq(Byte)
    /\ TakingWords => Even(reader) /\ delivered \in Seq(Nat)
    /\ WordsInOrder
    /\ EndsAreTold

----------------------------------------------------------------------------
(* The reader alone. *)

LEMMA ContentType ==
    ASSUME content \in Files
    PROVE  content \in Seq(Byte) /\ Len(content) \in Nat
  BY FilesAssumption

(* Consuming n of the bytes in the buffer. *)
LEMMA ConsumeSound ==
    ASSUME content \in Files, NEW r, Sound(r), NEW n \in Nat, n <= BufferedSize(r)
    PROVE  /\ Sound(Consume(r, n))
           /\ BufferedSize(Consume(r, n)) = BufferedSize(r) - n
           /\ Position(Consume(r, n)) = Position(r) + n
  <1> DEFINE c == Consume(r, n)
  <1>1. /\ r.BufferedDataSize \in Nat /\ r.BufferConsumed \in Nat /\ r.taken \in Nat
        /\ r.BufferedDataSize <= BufferSize /\ BufferSize \in Nat
    BY ContentType, BufferSizeAssumption DEF Sound, Readers
  <1>2. /\ c \in Readers
        /\ c.BufferConsumed = r.BufferConsumed + n
        /\ c.BufferedDataSize = r.BufferedDataSize
        /\ c.taken = r.taken
        /\ c.BufferedData = r.BufferedData
        /\ c.feof = r.feof /\ c.ferror = r.ferror
    BY <1>1 DEF Sound, Readers, Consume, BufferedSize
  <1>3. BufferedSize(c) = BufferedSize(r) - n /\ Position(c) = Position(r) + n
    BY <1>1, <1>2 DEF BufferedSize, Position
  <1>4. WindowOf(c)
    <2> SUFFICES ASSUME NEW k \in 0 .. BufferedSize(c) - 1
                 PROVE  c.BufferedData[c.BufferConsumed + k] =
                            content[c.taken - BufferedSize(c) + k + 1]
      BY DEF WindowOf
    <2>1. k + n \in 0 .. BufferedSize(r) - 1
      BY <1>1, <1>2, <1>3 DEF BufferedSize
    <2>2. r.BufferedData[r.BufferConsumed + (k + n)] =
              content[r.taken - BufferedSize(r) + (k + n) + 1]
      BY <2>1 DEF Sound, WindowOf
    <2>3. /\ r.BufferConsumed + (k + n) = c.BufferConsumed + k
          /\ r.taken - BufferedSize(r) + (k + n) + 1 = c.taken - BufferedSize(c) + k + 1
      BY <1>1, <1>2, <1>3 DEF BufferedSize
    <2> QED
      BY <1>2, <2>2, <2>3
  <1> QED
    BY <1>1, <1>2, <1>3, <1>4 DEF Sound, Whole, BufferedSize

(* A refill of an empty buffer, and one that is refused. *)
LEMMA ReadToBufferSound ==
    ASSUME content \in Files, NEW r, Sound(r),
           r.feof \/ r.ferror \/ BufferedSize(r) = 0,
           NEW x \in ReadToBuffer(r)
    PROVE  /\ Sound(x.reader)
           /\ Position(x.reader) = Position(r)
           /\ Even(r) => Even(x.reader)
           /\ x.ok \in BOOLEAN
           /\ x.ok => BufferedSize(x.reader) > 0
           /\ ~x.ok => /\ BufferedSize(x.reader) = BufferedSize(r)
                       /\ x.reader.feof \/ x.reader.ferror
           /\ x.reader.feof \/ x.reader.ferror
                 \/ BufferedSize(x.reader) = BufferSize
  <1>1. /\ r.BufferedDataSize \in Nat /\ r.BufferConsumed \in Nat /\ r.taken \in Nat
        /\ r.BufferedDataSize <= BufferSize /\ BufferSize \in Nat /\ BufferSize > 0
        /\ Len(content) \in Nat /\ r.taken <= Len(content)
        /\ \A k \in 1 .. Len(content) : content[k] \in Byte
        /\ r.BufferedData \in [Index -> Byte]
        /\ r.feof \in BOOLEAN /\ r.ferror \in BOOLEAN
    BY ContentType, BufferSizeAssumption DEF Sound, Readers
  <1>2. CASE r.feof \/ r.ferror
    <2>1. x = [reader |-> r, ok |-> FALSE]
      BY <1>2 DEF ReadToBuffer
    <2> QED
      BY <1>2, <2>1
  <1>3. CASE ~(r.feof \/ r.ferror)
    <2> DEFINE rest == Len(content) - r.taken
    <2>1. BufferedSize(r) = 0
      BY <1>3
    <2>2. PICK n \in Nat, feof \in BOOLEAN, ferror \in BOOLEAN :
             /\ x = [reader |-> Refilled(r, n, feof, ferror), ok |-> n # 0]
             /\ n <= rest /\ n <= BufferSize
             /\ feof => n = rest
             /\ ~feof /\ ~ferror => n = BufferSize
             /\ n = 0 => feof \/ ferror
      <3>1. CASE x \in {[reader |-> Refilled(r, n, n < BufferSize, FALSE), ok |-> n # 0] :
                          n \in {IF rest < BufferSize THEN rest ELSE BufferSize}}
        <4>1. PICK n \in {IF rest < BufferSize THEN rest ELSE BufferSize} :
                 x = [reader |-> Refilled(r, n, n < BufferSize, FALSE), ok |-> n # 0]
          BY <3>1
        <4>2. /\ n \in Nat /\ (n < BufferSize) \in BOOLEAN
              /\ n <= rest /\ n <= BufferSize /\ (n < BufferSize => n = rest)
              /\ ~(n < BufferSize) => n = BufferSize
          BY <1>1
        <4> n \in Nat
          BY <4>2
        <4> WITNESS n \in Nat, (n < BufferSize) \in BOOLEAN, FALSE \in BOOLEAN
        <4> QED
          BY <4>1, <4>2, <1>1
      <3>2. CASE x \in {[reader |-> Refilled(r, n, FALSE, TRUE), ok |-> n # 0] :
                          n \in {k \in 0 .. rest : k < BufferSize}}
        <4>1. PICK n \in {k \in 0 .. rest : k < BufferSize} :
                 x = [reader |-> Refilled(r, n, FALSE, TRUE), ok |-> n # 0]
          BY <3>2
        <4>2. n \in Nat /\ n <= rest /\ n <= BufferSize
          BY <1>1
        <4> WITNESS n \in Nat, FALSE \in BOOLEAN, TRUE \in BOOLEAN
        <4> QED
          BY <4>1, <4>2
      <3>3. BufferSize - BufferedSize(r) = BufferSize
        BY <1>1, <2>1
      <3> QED
        BY <1>3, <3>1, <3>2, <3>3 DEF ReadToBuffer
    <2> DEFINE q == Refilled(r, n, feof, ferror)
    <2>3. /\ RefilledData(r, n) \in [Index -> Byte]
          /\ \A k \in 0 .. n - 1 : RefilledData(r, n)[k] = content[r.taken + k + 1]
      <3>1. \A k \in Index : k < n => content[r.taken + k + 1] \in Byte
        <4> SUFFICES ASSUME NEW k \in Index, k < n
                     PROVE  content[r.taken + k + 1] \in Byte
          OBVIOUS
        <4>1. r.taken + k + 1 \in 1 .. Len(content)
          BY <1>1, <2>2 DEF Index
        <4> QED
          BY <1>1, <4>1
      <3>2. \A k \in Index : ~(k < BufferedSize(r))
        BY <2>1 DEF Index
      <3>3. RefilledData(r, n) = [k \in Index |->
                IF k < n THEN content[r.taken + k + 1] ELSE r.BufferedData[k]]
        BY <3>2 DEF RefilledData, FromFile
      <3>4. 0 .. n - 1 \subseteq Index
        BY <1>1, <2>2 DEF Index
      <3>5. \A k \in Index : r.BufferedData[k] \in Byte
        BY <1>1
      <3>6. \A k \in Index :
              (IF k < n THEN content[r.taken + k + 1] ELSE r.BufferedData[k]) \in Byte
        BY <3>1, <3>5
      <3>7. RefilledData(r, n) \in [Index -> Byte]
        BY <3>3, <3>6
      <3>8. \A k \in 0 .. n - 1 : k \in Index /\ k < n
        BY <3>4, <2>2
      <3>9. \A k \in 0 .. n - 1 : RefilledData(r, n)[k] = content[r.taken + k + 1]
        BY <3>3, <3>8
      <3> QED
        BY <3>7, <3>9
    <2>4. /\ q \in Readers
          /\ q.BufferConsumed = 0 /\ q.BufferedDataSize = n
          /\ q.taken = r.taken + n /\ q.feof = feof /\ q.ferror = ferror
          /\ q.BufferedData = RefilledData(r, n)
      BY <1>1, <2>1, <2>2, <2>3 DEF Sound, Readers, Refilled, Start
    <2>5. /\ BufferedSize(q) = n
          /\ Position(q) = r.taken
          /\ Position(r) = r.taken
      BY <1>1, <2>1, <2>4 DEF BufferedSize, Position
    <2>6. WindowOf(q)
      <3> SUFFICES ASSUME NEW k \in 0 .. n - 1
                   PROVE  q.BufferedData[q.BufferConsumed + k] =
                              content[q.taken - n + k + 1]
        BY <2>5 DEF WindowOf
      <3>1. q.BufferConsumed + k = k /\ q.taken - n + k + 1 = r.taken + k + 1
        BY <1>1, <2>4
      <3> QED
        BY <2>3, <2>4, <3>1
    <2>7. Sound(q)
      BY <1>1, <2>2, <2>4, <2>5, <2>6 DEF Sound, Whole
    <2>8. Even(q)
      BY <2>4 DEF Even
    <2>9. x = [reader |-> q, ok |-> n # 0]
      BY <2>2
    <2>10. x.reader = q /\ x.ok \in BOOLEAN /\ (x.ok <=> n # 0)
      BY <2>9
    <2>11. feof \/ ferror \/ n = BufferSize
      BY <2>2
    <2>12. n = 0 => feof \/ ferror
      BY <2>2
    <2>13. q.feof \/ q.ferror \/ BufferedSize(q) = BufferSize
      BY <2>4, <2>5, <2>11
    <2>14. n = 0 => q.feof \/ q.ferror
      BY <2>4, <2>12
    <2>15. n # 0 => n > 0
      OBVIOUS
    <2> HIDE DEF q
    <2> QED
      BY <2>1, <2>5, <2>7, <2>8, <2>10, <2>13, <2>14, <2>15
  <1> QED
    BY <1>2, <1>3
(* A word is the next two bytes of the file; if there is none, what is     *)
(* left in the buffer is less than a word and the file has ended or failed.*)
LEMMA ReadUint16Sound ==
    ASSUME content \in Files, NEW r, Sound(r), Even(r), NEW x \in ReadUint16(r)
    PROVE  /\ Sound(x.reader) /\ Even(x.reader)
           /\ x.ok => /\ Position(x.reader) = Position(r) + 2
                      /\ x.word \in Nat
                      /\ x.word = content[Position(r) + 1] + 2^8 * content[Position(r) + 2]
           /\ ~x.ok => /\ Position(x.reader) = Position(r)
                       /\ BufferedSize(x.reader) < 2
                       /\ x.reader.feof \/ x.reader.ferror
  <1> DEFINE Step(y) ==
            IF y.ok /\ BufferedSize(y.reader) >= 2
            THEN [reader |-> Consume(y.reader, 2), ok |-> TRUE, word |-> NextWord(y.reader)]
            ELSE [reader |-> y.reader, ok |-> FALSE, word |-> 0]
  <1>1. /\ r.BufferedDataSize \in Nat /\ r.BufferConsumed \in Nat /\ r.taken \in Nat
        /\ r.BufferConsumed <= r.BufferedDataSize
        /\ BufferSize \in Nat /\ BufferSize >= 2 /\ BufferSize % 2 = 0
        /\ BufferedSize(r) \in Nat
    BY ContentType, BufferSizeAssumption DEF Sound, Readers, BufferedSize
  <1>2. ASSUME BufferedSize(r) < 2, ~(r.feof \/ r.ferror)
        PROVE  BufferedSize(r) = 0
    BY <1>1, <1>2 DEF Sound, Whole, Even, BufferedSize
  <1>3. PICK y :
          /\ x = Step(y)
          /\ Sound(y.reader) /\ Even(y.reader)
          /\ Position(y.reader) = Position(r)
          /\ y.ok \/ BufferedSize(y.reader) < 2
          /\ BufferedSize(y.reader) < 2 => y.reader.feof \/ y.reader.ferror
    <2>1. CASE BufferedSize(r) >= 2
      <3>1. x = Step([reader |-> r, ok |-> TRUE])
        BY <2>1 DEF ReadUint16
      <3>2. ~(BufferedSize(r) < 2)
        BY <1>1, <2>1
      <3> HIDE DEF Step
      <3> DEFINE z == [reader |-> r, ok |-> TRUE]
      <3>3. z.reader = r /\ z.ok
        OBVIOUS
      <3> HIDE DEF z
      <3>4. x = Step(z)
        BY <3>1 DEF z
      <3> QED
        BY <3>2, <3>3, <3>4
    <2>2. CASE ~(BufferedSize(r) >= 2)
      <3>1. PICK y \in ReadToBuffer(r) : x = Step(y)
        BY <2>2 DEF ReadUint16
      <3>2. BufferedSize(r) < 2
        BY <1>1, <2>2
      <3>3. r.feof \/ r.ferror \/ BufferedSize(r) = 0
        BY <1>2, <3>2
      <3>4. /\ Sound(y.reader)
            /\ Position(y.reader) = Position(r)
            /\ Even(r) => Even(y.reader)
            /\ ~y.ok => BufferedSize(y.reader) = BufferedSize(r)
            /\ y.reader.feof \/ y.reader.ferror \/ BufferedSize(y.reader) = BufferSize
        BY <3>3, ReadToBufferSound
      <3>5. BufferedSize(y.reader) < 2 => BufferedSize(y.reader) # BufferSize
        BY <1>1
      <3> HIDE DEF Step
      <3> QED
        BY <3>1, <3>2, <3>4, <3>5
    <2> QED
      BY <2>1, <2>2
  <1>4. /\ y.reader.BufferedDataSize \in Nat /\ y.reader.BufferConsumed \in Nat
        /\ y.reader.taken \in Nat /\ y.reader.taken <= Len(content)
        /\ BufferedSize(y.reader) <= y.reader.taken
        /\ BufferedSize(y.reader) \in Nat /\ Len(content) \in Nat
        /\ \A k \in 1 .. Len(content) : content[k] \in Byte
    BY <1>3, ContentType, BufferSizeAssumption DEF Sound, Readers, BufferedSize
  <1>5. CASE y.ok /\ BufferedSize(y.reader) >= 2
    <2> DEFINE p == Position(r)
    <2>1. /\ x.reader = Consume(y.reader, 2) /\ x.ok
          /\ x.word = NextWord(y.reader)
      BY <1>3, <1>5
    <2>2. Sound(x.reader) /\ Position(x.reader) = p + 2
      BY <1>3, <1>5, <2>1, ConsumeSound
    <2>3. Even(x.reader)
      <3>1. x.reader.BufferConsumed = y.reader.BufferConsumed + 2
        BY <2>1, <1>3 DEF Consume, Sound, Readers
      <3> QED
        BY <1>3, <1>4, <3>1 DEF Even
    <2>4. p = y.reader.taken - BufferedSize(y.reader)
      BY <1>3 DEF Position
    <2>5. /\ y.reader.BufferedData[y.reader.BufferConsumed + 0] = content[p + 0 + 1]
          /\ y.reader.BufferedData[y.reader.BufferConsumed + 1] = content[p + 1 + 1]
      <3>1. 0 \in 0 .. BufferedSize(y.reader) - 1 /\ 1 \in 0 .. BufferedSize(y.reader) - 1
        BY <1>4, <1>5
      <3> QED
        BY <1>3, <2>4, <3>1 DEF Sound, WindowOf
    <2>6. /\ p \in Nat /\ p + 2 <= Len(content)
      BY <1>4, <1>5, <2>4
    <2>7. /\ y.reader.BufferedData[y.reader.BufferConsumed] = content[p + 1]
          /\ y.reader.BufferedData[y.reader.BufferConsumed + 1] = content[p + 2]
      <3>1. /\ y.reader.BufferConsumed + 0 = y.reader.BufferConsumed
            /\ p + 0 + 1 = p + 1 /\ p + 1 + 1 = p + 2
        BY <1>4, <2>6
      <3> QED
        BY <2>5, <3>1
    <2>8. content[p + 1] \in Byte /\ content[p + 2] \in Byte
      <3>1. p + 1 \in 1 .. Len(content) /\ p + 2 \in 1 .. Len(content)
        BY <1>4, <2>6
      <3> QED
        BY <1>4, <3>1
    <2>9. x.word = content[p + 1] + 2^8 * content[p + 2]
      BY <2>1, <2>7 DEF NextWord, LittleEndian, First
    <2>10. x.word \in Nat
      <3> DEFINE m == content[p + 1]
                 n == content[p + 2]
      <3>1. m \in Nat /\ n \in Nat
        BY <2>8 DEF Byte
      <3> HIDE DEF m, n
      <3>2. m + 2^8 * n \in Nat
        BY <3>1
      <3> QED
        BY <2>9, <3>2 DEF m, n
    <2> QED
      BY <2>1, <2>2, <2>3, <2>9, <2>10
  <1>6. CASE ~(y.ok /\ BufferedSize(y.reader) >= 2)
    <2>1. x.reader = y.reader /\ x.ok = FALSE
      BY <1>3, <1>6
    <2>2. BufferedSize(y.reader) < 2
      BY <1>3, <1>4, <1>6
    <2> QED
      BY <1>3, <2>1, <2>2
  <1> QED
    BY <1>5, <1>6
(* A byte that is there to be looked at or taken. *)
LEMMA NextByteSound ==
    ASSUME content \in Files, NEW r, Sound(r), NEW x \in NextByte(r)
    PROVE  /\ Sound(x.reader)
           /\ x.ok => 1 <= BufferedSize(x.reader)
  <1>1. BufferedSize(r) \in Nat
    BY ContentType, BufferSizeAssumption DEF Sound, Readers, BufferedSize
  <1>2. CASE BufferedSize(r) = 0
    <2>1. x \in ReadToBuffer(r)
      BY <1>2 DEF NextByte
    <2>2. /\ Sound(x.reader)
          /\ x.ok => BufferedSize(x.reader) > 0
      BY <1>2, <2>1, ReadToBufferSound
    <2>3. BufferedSize(x.reader) \in Nat
      BY <2>2, ContentType, BufferSizeAssumption DEF Sound, Readers, BufferedSize
    <2> QED
      BY <2>2, <2>3
  <1>3. CASE BufferedSize(r) # 0
    <2>1. x = [reader |-> r, ok |-> TRUE]
      BY <1>3 DEF NextByte
    <2>2. x.reader = r
      BY <2>1
    <2>3. 1 <= BufferedSize(r)
      BY <1>1, <1>3
    <2> QED
      BY <2>2, <2>3
  <1> QED
    BY <1>2, <1>3

----------------------------------------------------------------------------
(* The invariant. *)

LEMMA InitInvariant == Init => IInv
  <1> SUFFICES ASSUME Init PROVE IInv
    OBVIOUS
  <1>1. BufferSize \in Nat /\ Len(content) \in Nat /\ content \in Files
    BY ContentType, BufferSizeAssumption DEF Init
  <1>2. /\ reader.BufferedDataSize = 0 /\ reader.BufferConsumed = 0
        /\ reader.taken = 0 /\ reader.feof = FALSE
        /\ reader \in Readers
    <2>1. [k \in Index |-> 0] \in [Index -> Byte]
      BY DEF Byte
    <2> QED
      BY <1>1, <2>1 DEF Init, Readers
  <1>3. BufferedSize(reader) = 0
    BY <1>2 DEF BufferedSize
  <1>4. Sound(reader)
    BY <1>2, <1>3 DEF Sound, WindowOf, Whole
  <1>5. Even(reader)
    BY <1>2 DEF Even
  <1>6. delivered = << >> /\ delivered \in Seq(Nat) /\ Len(delivered) = 0
    BY DEF Init
  <1>7. WordsInOrder
    BY <1>2, <1>3, <1>6 DEF WordsInOrder
  <1>8. EndsAreTold
    BY DEF Init, EndsAreTold
  <1> QED
    BY <1>1, <1>4, <1>5, <1>6, <1>7, <1>8 DEF IInv, Init, LineLocations, WordEnds

(* Another word comes out: it is the next one of the file. *)
LEMMA TakeWordInvariant == IInv /\ TakeWord => IInv'
  <1> SUFFICES ASSUME IInv, TakeWord PROVE IInv'
    OBVIOUS
  <1>1. PICK x \in ReadUint16(reader) :
           x.ok /\ reader' = x.reader /\ delivered' = Append(delivered, x.word)
    BY DEF TakeWord
  <1>2. /\ content \in Files /\ Sound(reader) /\ Even(reader) /\ TakingWords
        /\ delivered \in Seq(Nat) /\ pc = "words" /\ pc' = pc
        /\ content' = content /\ line' = line /\ line \in Seq(Byte)
    BY DEF IInv, TakeWord, TakingWords
  <1>3. /\ Sound(x.reader) /\ Even(x.reader) /\ x.word \in Nat
        /\ Position(x.reader) = Position(reader) + 2
        /\ x.word = content[Position(reader) + 1] + 2^8 * content[Position(reader) + 2]
    BY <1>1, <1>2, ReadUint16Sound
  <1>4. Sound(reader)'
    BY <1>1, <1>2, <1>3 DEF Sound, Readers, WindowOf, Whole, BufferedSize, Index
  <1>5. Even(reader)'
    BY <1>1, <1>3 DEF Even
  <1>6. /\ Position(reader) = 2 * Len(delivered)
        /\ \A k \in DOMAIN delivered : delivered[k] = WordAt(k)
    BY <1>2 DEF IInv, WordsInOrder, Position
  <1>7. /\ delivered' \in Seq(Nat)
        /\ Len(delivered) \in Nat /\ Len(delivered') = Len(delivered) + 1
        /\ DOMAIN delivered' = 1 .. Len(delivered) + 1
        /\ DOMAIN delivered = 1 .. Len(delivered)
        /\ \A k \in 1 .. Len(delivered) : delivered'[k] = delivered[k]
        /\ delivered'[Len(delivered) + 1] = x.word
    BY <1>1, <1>2, <1>3
  <1>8. x.word = WordAt(Len(delivered) + 1)
    <2>1. /\ 2 * (Len(delivered) + 1) - 1 = Position(reader) + 1
          /\ 2 * (Len(delivered) + 1) = Position(reader) + 2
      BY <1>6, <1>7
    <2> QED
      BY <1>3, <2>1 DEF WordAt
  <1>9. \A k \in DOMAIN delivered' : delivered'[k] = WordAt(k)
    <2> SUFFICES ASSUME NEW k \in 1 .. Len(delivered) + 1
                 PROVE  delivered'[k] = WordAt(k)
      BY <1>7
    <2>1. CASE k = Len(delivered) + 1
      BY <1>7, <1>8, <2>1
    <2>2. CASE k # Len(delivered) + 1
      <3>1. k \in 1 .. Len(delivered)
        BY <1>7, <2>2
      <3> QED
        BY <1>6, <1>7, <3>1
    <2> QED
      BY <2>1, <2>2
  <1>10. WordsInOrder'
    <2>1. 2 * Len(delivered') = Position(x.reader)
      BY <1>3, <1>6, <1>7
    <2>2. Position(x.reader) = (reader.taken - BufferedSize(reader))'
      BY <1>1 DEF Position, BufferedSize
    <2>3. (\A k \in DOMAIN delivered : delivered[k] = WordAt(k))'
      BY <1>2, <1>9 DEF WordAt
    <2> QED
      BY <2>1, <2>2, <2>3 DEF WordsInOrder
  <1>11. EndsAreTold'
    BY <1>2 DEF EndsAreTold
  <1> QED
    BY <1>2, <1>4, <1>5, <1>7, <1>10, <1>11 DEF IInv, TakingWords

(* No word is left: how the file ended is told from the flags. *)
LEMMA WordsEndInvariant == IInv /\ WordsEnd => IInv'
  <1> SUFFICES ASSUME IInv, WordsEnd PROVE IInv'
    OBVIOUS
  <1>1. PICK x \in ReadUint16(reader) :
           /\ ~x.ok /\ reader' = x.reader
           /\ pc' = IF IsError(x.reader) THEN "error"
                    ELSE IF ~IsEOF(x.reader) THEN "odd" ELSE "eof"
    BY DEF WordsEnd
  <1>2. /\ content \in Files /\ Sound(reader) /\ Even(reader) /\ TakingWords
        /\ delivered \in Seq(Nat) /\ delivered' = delivered
        /\ content' = content /\ line' = line /\ line \in Seq(Byte)
    BY DEF IInv, WordsEnd, TakingWords
  <1>3. /\ Sound(x.reader) /\ Even(x.reader)
        /\ Position(x.reader) = Position(reader)
        /\ BufferedSize(x.reader) < 2
        /\ x.reader.feof \/ x.reader.ferror
    BY <1>1, <1>2, ReadUint16Sound
  <1>4. Sound(reader)'
    BY <1>1, <1>2, <1>3 DEF Sound, Readers, WindowOf, Whole, BufferedSize, Index
  <1>5. Even(reader)'
    BY <1>1, <1>3 DEF Even
  <1>6. 2 * Len(delivered) = Position(reader)
    BY <1>2 DEF IInv, WordsInOrder, Position
  <1>7. WordsInOrder'
    <2>1. Position(x.reader) = (reader.taken - BufferedSize(reader))'
      BY <1>1 DEF Position, BufferedSize
    <2>2. (\A k \in DOMAIN delivered : delivered[k] = WordAt(k))'
      BY <1>2 DEF IInv, WordsInOrder, WordAt
    <2> QED
      BY <1>2, <1>3, <1>6, <2>1, <2>2 DEF WordsInOrder
  <1>8. pc' \in WordEnds
    BY <1>1 DEF WordEnds
  <1>9. EndsAreTold'
    <2>1. /\ BufferedSize(x.reader) \in {0, 1}
          /\ x.reader.taken \in Nat /\ Len(delivered) \in Nat
          /\ x.reader.feof => x.reader.taken = Len(content)
          /\ 2 * Len(delivered) = x.reader.taken - BufferedSize(x.reader)
      <3>1. /\ x.reader.BufferedDataSize \in Nat /\ x.reader.BufferConsumed \in Nat
            /\ x.reader.BufferConsumed <= x.reader.BufferedDataSize
            /\ x.reader.taken \in Nat
        BY <1>2, <1>3, ContentType, BufferSizeAssumption DEF Sound, Readers
      <3>2. BufferedSize(x.reader) \in {0, 1}
        BY <1>3, <3>1 DEF BufferedSize
      <3> QED
        BY <1>2, <1>3, <1>6, <3>1, <3>2 DEF Sound, Position
    <2>2. CASE pc' = "eof"
      <3>1. IsEOF(x.reader)
        BY <1>1, <2>2
      <3>2. 2 * Len(delivered) = Len(content)
        BY <2>1, <3>1 DEF IsEOF
      <3> QED
        BY <1>2, <2>2, <3>2 DEF EndsAreTold
    <2>3. CASE pc' = "error"
      <3>1. reader'.ferror
        BY <1>1, <2>3 DEF IsError
      <3> QED
        BY <2>3, <3>1 DEF EndsAreTold
    <2>4. CASE pc' = "odd"
      <3>1. ~IsEOF(x.reader)
        BY <1>1, <2>4
      <3>2. CASE x.reader.ferror
        BY <1>1, <2>4, <3>2 DEF EndsAreTold
      <3>3. CASE ~x.reader.ferror
        <4>1. x.reader.feof
          BY <1>3, <3>3
        <4>2. BufferedSize(x.reader) = 1
          BY <2>1, <3>1, <4>1 DEF IsEOF
        <4>3. Len(content) % 2 = 1
          BY <2>1, <4>1, <4>2
        <4> QED
          BY <1>2, <2>4, <4>3 DEF EndsAreTold
      <3> QED
        BY <3>2, <3>3
    <2> QED
      BY <1>8, <2>2, <2>3, <2>4 DEF WordEnds
  <1> QED
    BY <1>2, <1>4, <1>5, <1>7, <1>8, <1>9 DEF IInv, TakingWords
(* The steps that read lines keep the reader sound; what is said of words  *)
(* does not concern them.                                                  *)
LEMMA LineStepInvariant ==
    ASSUME IInv, pc \in LineLocations, pc' \in LineLocations,
           content' = content, line' \in Seq(Byte), Sound(reader)'
    PROVE  IInv'
  <1>1. ~TakingWords' /\ EndsAreTold' /\ WordsInOrder'
    BY DEF TakingWords, WordEnds, LineLocations, EndsAreTold, WordsInOrder
  <1> QED
    BY <1>1 DEF IInv

LEMMA TakeCharacterInvariant == IInv /\ TakeCharacter => IInv'
  <1> SUFFICES ASSUME IInv, TakeCharacter PROVE IInv'
    OBVIOUS
  <1>1. PICK x \in NextByte(reader) :
           /\ x.ok
           /\ line' = Append(line, First(x.reader))
           /\ reader' = Consume(x.reader, 1)
    BY DEF TakeCharacter
  <1>2. /\ content \in Files /\ Sound(reader) /\ content' = content
        /\ line \in Seq(Byte)
        /\ pc \in LineLocations /\ pc' \in LineLocations
    BY DEF IInv, TakeCharacter, LineLocations
  <1>3. Sound(x.reader) /\ 1 <= BufferedSize(x.reader)
    BY <1>1, <1>2, NextByteSound
  <1>4. Sound(Consume(x.reader, 1))
    BY <1>2, <1>3, ConsumeSound
  <1>5. Sound(reader)'
    BY <1>1, <1>2, <1>4 DEF Sound, Readers, WindowOf, Whole, BufferedSize, Index
  <1>6. First(x.reader) \in Byte
    <2>1. /\ x.reader.BufferedData \in [Index -> Byte]
          /\ x.reader.BufferConsumed \in Nat
          /\ x.reader.BufferedDataSize \in 0 .. BufferSize
          /\ BufferSize \in Nat
      BY <1>2, <1>3, ContentType, BufferSizeAssumption DEF Sound, Readers
    <2>2. x.reader.BufferConsumed \in Index
      BY <1>3, <2>1 DEF BufferedSize, Index
    <2> QED
      BY <2>1, <2>2 DEF First
  <1>7. line' \in Seq(Byte)
    BY <1>1, <1>2, <1>6
  <1> QED
    BY <1>2, <1>5, <1>7, LineStepInvariant

LEMMA LineActionsInvariant ==
    IInv /\ (LineTooLong \/ FindLineEnd \/ DropLineEnd \/ NoMoreBytes) => IInv'
  <1> SUFFICES ASSUME IInv, LineTooLong \/ FindLineEnd \/ DropLineEnd \/ NoMoreBytes
               PROVE  IInv'
    OBVIOUS
  <1>1. PICK x \in NextByte(reader) :
           \/ reader' = x.reader
           \/ x.ok /\ reader' = Consume(x.reader, 1)
    BY DEF LineTooLong, FindLineEnd, DropLineEnd, Dropped, DropMore, NoMoreBytes
  <1>2. /\ content \in Files /\ Sound(reader) /\ content' = content
        /\ line' = line /\ line \in Seq(Byte)
        /\ pc \in LineLocations /\ pc' \in LineLocations
    BY DEF IInv, LineTooLong, FindLineEnd, DropLineEnd, DropMore, NoMoreBytes,
        LineLocations
  <1>3. Sound(x.reader) /\ (x.ok => 1 <= BufferedSize(x.reader))
    BY <1>1, <1>2, NextByteSound
  <1>4. x.ok => Sound(Consume(x.reader, 1))
    BY <1>2, <1>3, ConsumeSound
  <1>5. PICK q : reader' = q /\ Sound(q)
    BY <1>1, <1>3, <1>4
  <1>6. Sound(reader)'
    BY <1>2, <1>5 DEF Sound, Readers, WindowOf, Whole, BufferedSize, Index
  <1> QED
    BY <1>2, <1>6, LineStepInvariant

LEMMA LineEndsInvariant == IInv /\ (UseLine \/ LinesEnd) => IInv'
  <1> SUFFICES ASSUME IInv, UseLine \/ LinesEnd PROVE IInv'
    OBVIOUS
  <1>1. /\ Sound(reader) /\ content' = content /\ reader' = reader
        /\ line \in Seq(Byte) /\ line' \in {line, << >>}
        /\ pc \in LineLocations /\ pc' \in LineLocations
    BY DEF IInv, UseLine, LinesEnd, LineLocations
  <1>2. Sound(reader)'
    BY <1>1 DEF Sound, Readers, WindowOf, Whole, BufferedSize, Index
  <1>3. << >> \in Seq(Byte)
    OBVIOUS
  <1> QED
    BY <1>1, <1>2, <1>3, LineStepInvariant

LEMMA NextInvariant == IInv /\ [Next]_vars => IInv'
  <1> SUFFICES ASSUME IInv, [Next]_vars PROVE IInv'
    OBVIOUS
  <1>1. CASE TakeWord
    BY <1>1, TakeWordInvariant
  <1>2. CASE WordsEnd
    BY <1>2, WordsEndInvariant
  <1>3. CASE TakeCharacter
    BY <1>3, TakeCharacterInvariant
  <1>4. CASE LineTooLong \/ FindLineEnd \/ DropLineEnd \/ NoMoreBytes
    BY <1>4, LineActionsInvariant
  <1>5. CASE UseLine \/ LinesEnd
    BY <1>5, LineEndsInvariant
  <1>6. CASE UNCHANGED vars
    <2>1. /\ content' = content /\ reader' = reader /\ pc' = pc
          /\ line' = line /\ delivered' = delivered
      BY <1>6 DEF vars
    <2>2. Sound(reader)' <=> Sound(reader)
      BY <2>1 DEF Sound, Readers, WindowOf, Whole, BufferedSize, Index
    <2>3. Even(reader)' <=> Even(reader)
      BY <2>1 DEF Even
    <2>4. TakingWords' <=> TakingWords
      BY <2>1 DEF TakingWords
    <2>5. WordsInOrder' <=> WordsInOrder
      BY <2>1, <2>4 DEF WordsInOrder, WordAt, BufferedSize
    <2>6. EndsAreTold' <=> EndsAreTold
      BY <2>1 DEF EndsAreTold
    <2> QED
      BY <2>1, <2>2, <2>3, <2>4, <2>5, <2>6 DEF IInv
  <1> QED
    BY <1>1, <1>2, <1>3, <1>4, <1>5, <1>6 DEF Next, Terminated

(* IInv holds in every state the reader and its callers reach.                *)
THEOREM Invariant == Spec => []IInv
  BY InitInvariant, NextInvariant, PTL DEF Spec

----------------------------------------------------------------------------
(* Type correctness, with it that BufferConsumed never passes what is in   *)
(* the buffer, where the unsigned difference of the two would wrap.        *)
THEOREM ReaderType == Spec => []TypeOK
  <1>1. IInv => TypeOK
    BY DEF IInv, Sound, TypeOK
  <1> QED
    BY <1>1, Invariant, PTL

(* The bytes not yet consumed are the next ones of the file: no refill of  *)
(* ReadToBuffer loses, repeats or overwrites one.                          *)
THEOREM WindowKept == Spec => []BufferIsWindow
  <1>1. IInv => BufferIsWindow
    BY DEF IInv, Sound, WindowOf, BufferIsWindow
  <1> QED
    BY <1>1, Invariant, PTL

(* ReadUint16 hands out the words of the file in order, however the file   *)
(* and the buffer cut them.                                                *)
THEOREM WordsAreInOrder == Spec => []WordsInOrder
  <1>1. IInv => WordsInOrder
    BY DEF IInv
  <1> QED
    BY <1>1, Invariant, PTL

(* LoadSubprocess takes an image for whole only if it is: IsError and      *)
(* IsEOF tell it of read errors and of half a word at the end.             *)
THEOREM LoaderIsTold == Spec => []EndsAreTold
  <1>1. IInv => EndsAreTold
    BY DEF IInv
  <1> QED
    BY <1>1, Invariant, PTL

----------------------------------------------------------------------------
(* The lines of a text. *)

(* How many lines begin in the first n bytes: the runs, and the empty line *)
(* before them.                                                            *)
CountUpTo(n) == Cardinality({q \in Starts : q <= n})
Extra(n) == IF EmptyFirst /\ n > 0 THEN 1 ELSE 0

(* A set of natural numbers has a least one. *)
LEMMA Least ==
    ASSUME NEW S \in SUBSET Nat, S # {}
    PROVE  \E m \in S : \A n \in S : m <= n
  <1>1. PICK m \in S : \A n \in S : ~(<<n, m>> \in OpToRel(<, Nat))
    BY WFMin, NatLessThanWellFounded, Zenon
  <1>2. \A n \in S : ~(n < m)
    BY <1>1 DEF OpToRel
  <1> QED
    BY <1>2

LEMMA TextFacts ==
    ASSUME content \in Files
    PROVE  /\ Len(content) \in Nat
           /\ \A k \in 1 .. Len(content) : content[k] \in Byte
           /\ content \in Seq(Byte)
           /\ Starts \subseteq 1 .. Len(content)
           /\ IsFiniteSet(Starts)
  <1>1. content \in Seq(Byte)
    BY FilesAssumption
  <1>2. DOMAIN content = 1 .. Len(content) /\ Len(content) \in Nat
    BY <1>1
  <1>3. Starts \subseteq 1 .. Len(content)
    BY <1>2 DEF Starts
  <1>4. IsFiniteSet(1 .. Len(content))
    BY <1>2, FS_Interval
  <1>5. IsFiniteSet(Starts)
    BY <1>3, <1>4, FS_Subset
  <1> QED
    BY <1>1, <1>2, <1>3, <1>5

(* Where lines begin. *)
LEMMA IsStart ==
    ASSUME content \in Files, NEW p \in Nat, p > 0, p <= Len(content)
    PROVE  p \in Starts <=> ~IsLineEnd(content[p]) /\ (p = 1 \/ IsLineEnd(content[p - 1]))
  <1>1. DOMAIN content = 1 .. Len(content) /\ Len(content) \in Nat
    BY FilesAssumption
  <1>2. p \in DOMAIN content
    BY <1>1
  <1> QED
    BY <1>2 DEF Starts

LEMMA StartFacts ==
    ASSUME content \in Files, NEW q \in Starts
    PROVE  /\ q \in Nat /\ 0 < q /\ q <= Len(content)
           /\ ~IsLineEnd(content[q])
           /\ q # 1 => IsLineEnd(content[q - 1])
  BY TextFacts DEF Starts

LEMMA CountType ==
    ASSUME content \in Files, NEW n
    PROVE  /\ IsFiniteSet({q \in Starts : q <= n})
           /\ CountUpTo(n) \in Nat /\ CountUpTo(n) <= Cardinality(Starts)
           /\ Cardinality(Starts) \in Nat
  <1>1. IsFiniteSet(Starts) /\ {q \in Starts : q <= n} \in SUBSET Starts
    BY TextFacts
  <1> QED
    BY <1>1, FS_Subset, FS_CardinalityType DEF CountUpTo

(* The count from s to p, with no start between them and with one. *)
LEMMA CountNone ==
    ASSUME content \in Files, NEW s \in Nat, NEW p \in Nat, s <= p,
           \A q \in Starts : ~(s < q /\ q <= p)
    PROVE  CountUpTo(p) = CountUpTo(s)
  <1>1. \A q \in Starts : q \in Nat
    BY TextFacts
  <1>2. {q \in Starts : q <= p} = {q \in Starts : q <= s}
    BY <1>1
  <1> QED
    BY <1>2 DEF CountUpTo

LEMMA CountOne ==
    ASSUME content \in Files, NEW s \in Nat, NEW p \in Nat, s < p, s + 1 \in Starts,
           \A q \in Starts : ~(s + 1 < q /\ q <= p)
    PROVE  CountUpTo(p) = CountUpTo(s) + 1
  <1>1. \A q \in Starts : q \in Nat
    BY TextFacts
  <1>2. {q \in Starts : q <= p} = {q \in Starts : q <= s} \cup {s + 1}
    <2>1. \A q \in Starts : q <= p <=> (q <= s \/ q = s + 1)
      BY <1>1
    <2> QED
      BY <2>1
  <1>3. s + 1 \notin {q \in Starts : q <= s}
    OBVIOUS
  <1>4. IsFiniteSet({q \in Starts : q <= s})
    BY CountType
  <1> QED
    BY <1>2, <1>3, <1>4, FS_AddElement DEF CountUpTo

(* The count of a start is its number. *)
LEMMA RunOf ==
    ASSUME content \in Files, NEW p \in Starts
    PROVE  Run(CountUpTo(p)) = RunAt(p)
  <1>1. \A q \in Starts : q \in Nat
    BY TextFacts
  <1>2. ASSUME NEW q \in Starts, NEW r \in Starts, q < r
        PROVE  CountUpTo(q) # CountUpTo(r)
    <2> DEFINE Q == {t \in Starts : t <= q}
               R == {t \in Starts : t <= r}
    <2>1. Q \in SUBSET R /\ r \in R /\ r \notin Q
      BY <1>1, <1>2
    <2>2. IsFiniteSet(R)
      BY CountType
    <2>3. Cardinality(R) # Cardinality(Q)
      BY <2>1, <2>2, FS_Subset
    <2> QED
      BY <2>3 DEF CountUpTo
  <1>3. \A q \in Starts : CountUpTo(q) = CountUpTo(p) => q = p
    BY <1>1, <1>2
  <1>4. (CHOOSE q \in Starts : CountUpTo(q) = CountUpTo(p)) = p
    BY <1>3
  <1>5. (CHOOSE q \in Starts :
            Cardinality({t \in Starts : t <= q}) = CountUpTo(p)) = p
    BY <1>4 DEF CountUpTo
  <1> QED
    BY <1>5 DEF Run

(* A run goes up to the first line end, if that is known, and is at least   *)
(* as long as what is known to have none.                                  *)
LEMMA RunEnds ==
    ASSUME content \in Files, NEW p \in 1 .. Len(content), NEW e \in p .. Len(content),
           \A k \in p .. e : ~IsLineEnd(content[k]),
           e = Len(content) \/ IsLineEnd(content[e + 1])
    PROVE  RunAt(p) = SubSeq(content, p, e)
  <1> DEFINE past == {q \in p .. Len(content) + 1 :
                         q = Len(content) + 1 \/ IsLineEnd(content[q])}
             m == CHOOSE q \in past : \A r \in past : q <= r
  <1>1. Len(content) \in Nat
    BY TextFacts
  <1>2. e + 1 \in past
    BY <1>1
  <1>3. \A r \in past : r \in Int /\ e + 1 <= r
    BY <1>1
  <1>4. \A q \in past : (\A r \in past : q <= r) => q = e + 1
    BY <1>2, <1>3
  <1> HIDE DEF past
  <1>5. m = e + 1
    BY <1>2, <1>3, <1>4
  <1> HIDE DEF m
  <1>6. m - 1 = e
    BY <1>1, <1>5
  <1> QED
    BY <1>6 DEF RunAt, m, past

LEMMA RunIsLong ==
    ASSUME content \in Files, NEW p \in 1 .. Len(content), NEW e \in p .. Len(content),
           \A k \in p .. e : ~IsLineEnd(content[k])
    PROVE  Len(RunAt(p)) >= e - p + 1
  <1> DEFINE past == {q \in p .. Len(content) + 1 :
                         q = Len(content) + 1 \/ IsLineEnd(content[q])}
             m == CHOOSE q \in past : \A r \in past : q <= r
  <1>1. Len(content) \in Nat /\ content \in Seq(Byte)
    BY TextFacts
  <1>2. Len(content) + 1 \in past /\ past \in SUBSET Nat
    BY <1>1
  <1>3. \A r \in past : e + 1 <= r
    BY <1>1
  <1>4. \A r \in past : p <= r /\ r <= Len(content) + 1
    BY <1>1
  <1> HIDE DEF past
  <1>5. \E q \in past : \A r \in past : q <= r
    BY <1>2, Least
  <1>6. m \in past
    BY <1>5
  <1> HIDE DEF m
  <1>7. m \in Nat /\ e + 1 <= m /\ p <= m /\ m <= Len(content) + 1
    BY <1>2, <1>3, <1>4, <1>6
  <1>8. Len(SubSeq(content, p, m - 1)) = m - p
    <2>1. p \in 1 .. Len(content) + 1 /\ m - 1 \in p - 1 .. Len(content)
      BY <1>1, <1>7
    <2>2. Len(SubSeq(content, p, m - 1)) = (IF p <= m - 1 THEN (m - 1) - p + 1 ELSE 0)
      BY <1>1, <2>1, SubSeqProperties
    <2> QED
      BY <1>7, <2>2
  <1>9. RunAt(p) = SubSeq(content, p, m - 1)
    BY DEF RunAt, m, past
  <1> QED
    BY <1>1, <1>7, <1>8, <1>9

----------------------------------------------------------------------------
(* Where ReadLine is in the text. *)

(* A line that is not the first begins behind a line end, or there is none. *)
Begins(n) == n = Len(content) \/ (~IsLineEnd(content[n + 1]) /\ IsLineEnd(content[n]))

(* The line from s has been copied up to e. *)
InLine(s, e) ==
    /\ s \in 0 .. Len(content) /\ e \in s .. Len(content) /\ Len(line) = e - s
    /\ \A k \in s + 1 .. e : line[k - s] = content[k] /\ ~IsLineEnd(content[k])
    /\ s > 0 => Begins(s)
    /\ Len(delivered) = CountUpTo(s) + Extra(s)

(* Where the two loops are in the line ends behind it. *)
Past(e) ==
    /\ e <= Position(reader)
    /\ \A k \in e + 1 .. Position(reader) : IsLineEnd(content[k])
    /\ pc = "line" => Position(reader) = e
    /\ pc = "drop" => e < Len(content) /\ IsLineEnd(content[e + 1])
    /\ pc = "returned" =>
          \/ IsEOF(reader)
          \/ /\ e < Position(reader) /\ Position(reader) < Len(content)
             /\ ~IsLineEnd(content[Position(reader) + 1])

LineInv ==
    /\ ~TakingWords => delivered \in Seq(Seq(Byte))
    /\ pc \in {"line", "drop", "returned"} =>
          \E s, e \in Nat : InLine(s, e) /\ Past(e)
    /\ LinesInOrder
    /\ LinesFit

LEMMA InLineType ==
    ASSUME content \in Files, NEW s \in Nat, NEW e \in Nat, InLine(s, e)
    PROVE  /\ Len(content) \in Nat
           /\ s <= e /\ e <= Len(content) /\ Len(line) = e - s
  <1>1. Len(content) \in Nat
    BY TextFacts
  <1> QED
    BY <1>1 DEF InLine

LEMMA LineStarts ==
    ASSUME content \in Files, NEW s \in Nat, NEW e \in Nat, InLine(s, e), s < e
    PROVE  s + 1 \in Starts
  <1>1. Len(content) \in Nat
    BY TextFacts
  <1>2. s <= e /\ e <= Len(content)
    BY InLineType
  <1>3. ~IsLineEnd(content[s + 1])
    <2>1. s + 1 \in s + 1 .. e
      BY <1>1, <1>2
    <2> QED
      BY <2>1 DEF InLine
  <1>4. s + 1 = 1 \/ IsLineEnd(content[(s + 1) - 1])
    <2>1. CASE s = 0
      BY <2>1
    <2>2. CASE s # 0
      <3>1. s > 0 /\ s # Len(content)
        BY <1>2, <2>2, TextFacts
      <3>2. IsLineEnd(content[s])
        BY <3>1 DEF InLine, Begins
      <3>3. (s + 1) - 1 = s
        BY <1>1, <1>2
      <3> QED
        BY <3>2, <3>3
    <2> QED
      BY <2>1, <2>2
  <1> QED
    BY <1>1, <1>2, <1>3, <1>4 DEF Starts

LEMMA LineIsRun ==
    ASSUME content \in Files, line \in Seq(Byte), NEW s \in Nat, NEW e \in Nat, InLine(s, e), s < e,
           e = Len(content) \/ IsLineEnd(content[e + 1])
    PROVE  line = Run(CountUpTo(s) + 1)
  <1>1. /\ Len(content) \in Nat
        /\ s <= e /\ e <= Len(content) /\ Len(line) = e - s
        /\ content \in Seq(Byte)
        /\ \A k \in 1 .. Len(content) : content[k] \in Byte
    BY TextFacts, InLineType
  <1>2. s + 1 \in Starts
    BY LineStarts
  <1>3. CountUpTo(s + 1) = CountUpTo(s) + 1
    <2>1. \A q \in Starts : ~(s + 1 < q /\ q <= s + 1)
      BY TextFacts
    <2> QED
      BY <1>1, <1>2, <2>1, CountOne
  <1>4. RunAt(s + 1) = SubSeq(content, s + 1, e)
    <2>1. \A k \in s + 1 .. e : ~IsLineEnd(content[k])
      BY DEF InLine
    <2>2. s + 1 \in 1 .. Len(content) /\ e \in s + 1 .. Len(content)
      BY <1>1
    <2> QED
      BY <2>1, <2>2, RunEnds
  <1>5. line = SubSeq(content, s + 1, e)
    <2> DEFINE run == SubSeq(content, s + 1, e)
    <2>1. \A k \in s + 1 .. e : content[k] \in Byte
      BY <1>1
    <2>2. /\ run \in Seq(Byte) /\ Len(run) = e - s
          /\ \A k \in 1 .. e - s : run[k] = content[(s + 1) + k - 1]
      <3>1. /\ run \in Seq(Byte)
            /\ Len(run) = IF s + 1 <= e THEN e - (s + 1) + 1 ELSE 0
            /\ \A k \in 1 .. e - (s + 1) + 1 : run[k] = content[(s + 1) + k - 1]
        BY <1>1, <2>1, SubSeqProperties
      <3> QED
        BY <1>1, <3>1
    <2> HIDE DEF run
    <2>3. ASSUME NEW k \in 1 .. e - s
          PROVE  run[k] = line[k]
      <3>1. k + s \in s + 1 .. e /\ (k + s) - s = k /\ (s + 1) + k - 1 = k + s
        BY <1>1
      <3>2. line[(k + s) - s] = content[k + s]
        BY <3>1 DEF InLine
      <3> QED
        BY <2>2, <3>1, <3>2
    <2>4. line = run
      BY <1>1, <2>2, <2>3
    <2> QED
      BY <2>4 DEF run
  <1>6. Run(CountUpTo(s + 1)) = RunAt(s + 1)
    BY <1>2, RunOf
  <1> QED
    BY <1>3, <1>4, <1>5, <1>6

(* A line that is used is the next one of the text, and the next begins    *)
(* behind the line ends that follow it.                                    *)
LEMMA NextLine ==
    ASSUME IInv, pc = "returned", ~EndOfLines,
           NEW s \in Nat, NEW e \in Nat, InLine(s, e), Past(e)
    PROVE  /\ line = LineAt(Len(delivered) + 1)
           /\ Position(reader) \in 0 .. Len(content)
           /\ Position(reader) > 0 => Begins(Position(reader))
           /\ Len(delivered) + 1 = CountUpTo(Position(reader)) + Extra(Position(reader))
           /\ Len(delivered) + 1 <= LineCnt
  <1> DEFINE p == Position(reader)
  <1>1. /\ content \in Files /\ line \in Seq(Byte)
        /\ Len(content) \in Nat
        /\ s <= e /\ e <= Len(content) /\ Len(line) = e - s
        /\ Starts \subseteq 1 .. Len(content)
    BY TextFacts, InLineType DEF IInv
  <1>2. p \in e .. Len(content)
    <2>1. /\ reader.BufferedDataSize \in Nat /\ reader.BufferConsumed \in Nat
          /\ reader.taken \in Nat /\ reader.taken <= Len(content)
          /\ reader.BufferConsumed <= reader.BufferedDataSize
          /\ BufferedSize(reader) <= reader.taken
      BY <1>1, BufferSizeAssumption DEF IInv, Sound, Readers
    <2>2. p \in Int /\ p <= Len(content)
      BY <1>1, <2>1 DEF Position, BufferedSize
    <2>3. e <= p
      BY DEF Past
    <2> QED
      BY <1>1, <2>2, <2>3
  <1>3. IsEOF(reader) => p = Len(content)
    BY <1>1 DEF IInv, Sound, IsEOF, Position
  <1>4. IsEOF(reader) \/ (e < p /\ p < Len(content) /\ ~IsLineEnd(content[p + 1]))
    BY DEF Past
  <1>5. \A k \in e + 1 .. p : IsLineEnd(content[k])
    BY DEF Past
  <1> HIDE DEF p
  <1>6. e = Len(content) \/ IsLineEnd(content[e + 1])
    <2>1. CASE e = p
      BY <1>1, <1>2, <1>3, <1>4, <2>1
    <2>2. CASE e # p
      <3>1. e + 1 \in e + 1 .. p
        BY <1>1, <1>2, <2>2
      <3> QED
        BY <1>5, <3>1
    <2> QED
      BY <2>1, <2>2
  <1>7. p > 0 => Begins(p)
    <2>1. CASE IsEOF(reader)
      BY <1>3, <2>1 DEF Begins
    <2>2. CASE ~IsEOF(reader)
      <3>1. p \in e + 1 .. p
        BY <1>1, <1>2, <1>4, <2>2
      <3> QED
        BY <1>4, <1>5, <2>2, <3>1 DEF Begins
    <2> QED
      BY <2>1, <2>2
  <1>8. CountUpTo(s) \in Nat /\ Extra(s) \in {0, 1} /\ Extra(p) \in {0, 1}
    BY <1>1, CountType DEF Extra
  <1>9. Len(delivered) = CountUpTo(s) + Extra(s)
    BY DEF InLine
  <1>10. \A q \in Starts : ~(e + 1 <= q /\ q <= p)
    <2> SUFFICES ASSUME NEW q \in Starts, e + 1 <= q, q <= p PROVE FALSE
      OBVIOUS
    <2>1. q \in e + 1 .. p
      BY <1>1, <1>2
    <2>2. ~IsLineEnd(content[q])
      BY DEF Starts
    <2> QED
      BY <1>5, <2>1, <2>2
  <1>11. CountUpTo(p) <= Cardinality(Starts) /\ Cardinality(Starts) \in Nat
    BY <1>1, CountType
  <1>12. CountUpTo(p) \in Nat /\ CountUpTo(p) + Extra(p) <= LineCnt
    <2>1. CountUpTo(p) \in Nat
      BY <1>1, CountType
    <2>2. CASE EmptyFirst
      BY <1>8, <1>11, <2>1, <2>2 DEF LineCnt
    <2>3. CASE ~EmptyFirst
      BY <1>11, <2>1, <2>3 DEF LineCnt, Extra
    <2> QED
      BY <2>2, <2>3
  <1>13. CASE s < e
    <2>1. s + 1 \in Starts
      BY <1>1, <1>13, LineStarts
    <2>2. \A q \in Starts : ~(s + 1 < q /\ q <= p)
      <3> SUFFICES ASSUME NEW q \in Starts, s + 1 < q, q <= p PROVE FALSE
        OBVIOUS
      <3>1. q <= e
        BY <1>1, <1>2, <1>10
      <3>2. q - 1 \in s + 1 .. e /\ q # 1
        BY <1>1, <3>1
      <3>3. IsLineEnd(content[q - 1])
        BY <3>2 DEF Starts
      <3> QED
        BY <3>2, <3>3 DEF InLine
    <2>3. CountUpTo(p) = CountUpTo(s) + 1
      <3>1. s \in Nat /\ p \in Nat /\ s < p
        BY <1>1, <1>2, <1>13
      <3> QED
        BY <1>1, <2>1, <2>2, <3>1, CountOne
    <2>4. EmptyFirst => s > 0
      BY <1>1, <2>1 DEF EmptyFirst
    <2>5. Extra(p) = Extra(s)
      BY <1>1, <1>2, <1>13, <2>4 DEF Extra
    <2>6. line = Run(CountUpTo(s) + 1)
      BY <1>1, <1>6, <1>13, LineIsRun
    <2>7. line = LineAt(Len(delivered) + 1)
      <3>1. CASE EmptyFirst
        <4>1. Extra(s) = 1
          BY <2>4, <3>1 DEF Extra
        <4>2. Len(delivered) + 1 # 1 /\ (Len(delivered) + 1) - 1 = CountUpTo(s) + 1
          BY <1>8, <1>9, <4>1
        <4> QED
          BY <2>6, <3>1, <4>2 DEF LineAt
      <3>2. CASE ~EmptyFirst
        <4>1. Len(delivered) + 1 = CountUpTo(s) + 1
          BY <1>8, <1>9, <3>2 DEF Extra
        <4> QED
          BY <2>6, <3>2, <4>1 DEF LineAt
      <3> QED
        BY <3>1, <3>2
    <2>8. Len(delivered) + 1 = CountUpTo(p) + Extra(p)
      BY <1>8, <1>9, <2>3, <2>5
    <2>9. Len(delivered) + 1 <= LineCnt
      BY <1>11, <1>12, <2>8
    <2> QED
      BY <1>1, <1>2, <1>7, <2>7, <2>8, <2>9 DEF p
  <1>14. CASE ~(s < e)
    <2>1. e = s /\ line = << >>
      BY <1>1, <1>14
    <2>2. ~IsEOF(reader)
      BY <2>1 DEF EndOfLines
    <2>3. e < p /\ p < Len(content) /\ ~IsLineEnd(content[p + 1])
      BY <1>4, <2>2
    <2>4. IsLineEnd(content[s + 1])
      BY <1>1, <1>2, <1>6, <2>1, <2>3
    <2>5. s = 0
      <3>1. s # Len(content)
        BY <1>1, <1>2, <2>1, <2>3
      <3>2. ~Begins(s)
        BY <2>4, <3>1 DEF Begins
      <3> QED
        BY <1>1, <3>2 DEF InLine
    <2>6. EmptyFirst
      <3>1. IsLineEnd(content[(p + 1) - 1])
        <4>1. p \in e + 1 .. p /\ (p + 1) - 1 = p
          BY <1>1, <1>2, <2>3
        <4> QED
          BY <1>5, <4>1
      <3>2. p + 1 \in Starts
        BY <1>1, <1>2, <2>3, <3>1 DEF Starts
      <3>3. 1 \notin Starts
        BY <2>4, <2>5 DEF Starts
      <3> QED
        BY <3>2, <3>3 DEF EmptyFirst
    <2>7. CountUpTo(p) = CountUpTo(s)
      <3>1. \A q \in Starts : ~(s < q /\ q <= p)
        BY <1>1, <1>2, <1>10, <2>1
      <3> QED
        BY <1>1, <1>2, <2>1, <3>1, CountNone
    <2>8. CountUpTo(s) = 0
      <3>1. \A q \in Starts : q \in Nat /\ 0 < q
        BY <1>1, StartFacts
      <3>2. {q \in Starts : q <= s} = {}
        BY <2>5, <3>1
      <3> QED
        BY <3>2, FS_EmptySet DEF CountUpTo
    <2>9. Extra(s) = 0 /\ Extra(p) = 1
      BY <1>1, <1>2, <2>3, <2>5, <2>6 DEF Extra
    <2>10. Len(delivered) + 1 = 1
      BY <1>9, <2>8, <2>9
    <2>11. line = LineAt(Len(delivered) + 1)
      BY <2>1, <2>6, <2>10 DEF LineAt
    <2>12. Len(delivered) + 1 = CountUpTo(p) + Extra(p)
      BY <2>7, <2>8, <2>9, <2>10
    <2>13. Len(delivered) + 1 <= LineCnt
      BY <1>11, <1>12, <2>12
    <2> QED
      BY <1>1, <1>2, <1>7, <2>11, <2>12, <2>13 DEF p
  <1> QED
    BY <1>13, <1>14

(* At the end all lines have been used. *)
LEMMA LastLine ==
    ASSUME IInv, pc = "returned", EndOfLines, IsText,
           NEW s \in Nat, NEW e \in Nat, InLine(s, e), Past(e)
    PROVE  Len(delivered) = LineCnt
  <1>1. /\ content \in Files /\ line \in Seq(Byte)
        /\ Len(content) \in Nat
        /\ s <= e /\ e <= Len(content) /\ Len(line) = e - s
        /\ Starts \subseteq 1 .. Len(content)
    BY TextFacts, InLineType DEF IInv
  <1>2. line = << >> /\ e = s
    <2> SUFFICES ASSUME s < e PROVE FALSE
      BY <1>1
    <2>1. line # << >> /\ 1 \in DOMAIN line /\ s + 1 \in s + 1 .. e /\ (s + 1) - s = 1
      BY <1>1
    <2>2. line[1] = content[s + 1]
      BY <2>1 DEF InLine
    <2>3. Head(line) = line[1]
      BY <1>1, <2>1
    <2>4. content[s + 1] # 0
      BY <1>1 DEF IsText
    <2> QED
      BY <2>1, <2>2, <2>3, <2>4 DEF EndOfLines
  <1>3. Position(reader) = Len(content)
    BY <1>1 DEF EndOfLines, IInv, Sound, IsEOF, Position
  <1>4. \A q \in Starts : q <= s
    <2> SUFFICES ASSUME NEW q \in Starts, ~(q <= s) PROVE FALSE
      OBVIOUS
    <2>1. q \in e + 1 .. Position(reader)
      BY <1>1, <1>2, <1>3
    <2>2. ~IsLineEnd(content[q])
      BY DEF Starts
    <2> QED
      BY <2>1, <2>2 DEF Past
  <1>5. CountUpTo(s) = Cardinality(Starts)
    <2>1. {q \in Starts : q <= s} = Starts
      BY <1>4
    <2> QED
      BY <2>1 DEF CountUpTo
  <1>6. EmptyFirst => s > 0
    <2> SUFFICES ASSUME EmptyFirst PROVE s > 0
      OBVIOUS
    <2>1. PICK q \in Starts : TRUE
      BY DEF EmptyFirst
    <2>2. q \in Nat /\ 0 < q
      BY <1>1, StartFacts
    <2> QED
      BY <1>4, <2>2
  <1>7. Extra(s) = IF EmptyFirst THEN 1 ELSE 0
    BY <1>6 DEF Extra
  <1> QED
    BY <1>5, <1>7 DEF InLine, LineCnt

----------------------------------------------------------------------------
(* The steps that read lines. *)

(* The byte that is looked at is the next one of the file. *)
LEMMA NextByteNext ==
    ASSUME content \in Files, NEW r, Sound(r), NEW x \in NextByte(r)
    PROVE  /\ Position(x.reader) = Position(r)
           /\ Position(r) \in Nat /\ Position(r) <= Len(content)
           /\ x.ok => /\ Position(r) < Len(content)
                      /\ First(x.reader) = content[Position(r) + 1]
           /\ ~x.ok => /\ BufferedSize(x.reader) = 0
                       /\ x.reader.feof \/ x.reader.ferror
  <1>1. BufferedSize(r) \in Nat
    BY ContentType, BufferSizeAssumption DEF Sound, Readers, BufferedSize
  <1>2. Sound(x.reader) /\ (x.ok => 1 <= BufferedSize(x.reader))
    BY NextByteSound
  <1>3. /\ Position(x.reader) = Position(r)
        /\ ~x.ok => /\ BufferedSize(x.reader) = 0
                    /\ x.reader.feof \/ x.reader.ferror
    <2>1. CASE BufferedSize(r) = 0
      <3>1. x \in ReadToBuffer(r)
        BY <2>1 DEF NextByte
      <3> QED
        BY <2>1, <3>1, ReadToBufferSound
    <2>2. CASE BufferedSize(r) # 0
      <3>1. x = [reader |-> r, ok |-> TRUE]
        BY <2>2 DEF NextByte
      <3> QED
        BY <3>1
    <2> QED
      BY <2>1, <2>2
  <1> DEFINE q == x.reader
  <1>4. Sound(q) /\ Position(q) = Position(r) /\ (x.ok => 1 <= BufferedSize(q))
    BY <1>2, <1>3
  <1> HIDE DEF q
  <1>5. /\ q.BufferedDataSize \in Nat /\ q.BufferConsumed \in Nat
        /\ q.taken \in Nat /\ q.taken <= Len(content) /\ Len(content) \in Nat
        /\ q.BufferConsumed <= q.BufferedDataSize
        /\ BufferedSize(q) <= q.taken
    BY <1>4, ContentType, BufferSizeAssumption DEF Sound, Readers
  <1>6. BufferedSize(q) \in Nat /\ Position(q) = q.taken - BufferedSize(q)
    BY <1>5 DEF BufferedSize, Position
  <1>7. ASSUME x.ok
        PROVE  /\ Position(r) < Len(content)
               /\ First(q) = content[Position(r) + 1]
    <2>1. 0 \in 0 .. BufferedSize(q) - 1
      BY <1>4, <1>6, <1>7
    <2>2. q.BufferedData[q.BufferConsumed + 0] = content[q.taken - BufferedSize(q) + 0 + 1]
      BY <1>4, <2>1 DEF Sound, WindowOf
    <2>3. /\ q.BufferConsumed + 0 = q.BufferConsumed
          /\ q.taken - BufferedSize(q) + 0 + 1 = Position(r) + 1
      BY <1>4, <1>5, <1>6
    <2>4. Position(r) < Len(content)
      BY <1>4, <1>5, <1>6, <1>7
    <2> QED
      BY <2>2, <2>3, <2>4 DEF First
  <1>8. Position(r) \in Nat /\ Position(r) <= Len(content)
    BY <1>4, <1>5, <1>6
  <1> QED
    BY <1>3, <1>7, <1>8 DEF q

(* What is said of the text alone. *)
LEMMA TextKept ==
    ASSUME content' = content
    PROVE  /\ \A n : CountUpTo(n)' = CountUpTo(n) /\ Extra(n)' = Extra(n)
           /\ \A n : Begins(n)' <=> Begins(n)
           /\ \A k : LineAt(k)' = LineAt(k)
           /\ LineCnt' = LineCnt /\ (IsText' <=> IsText)
           /\ Starts' = Starts /\ \A k : RunAt(k)' = RunAt(k)
  <1>1. Starts' = Starts /\ (IsText' <=> IsText)
    BY DEF Starts, IsText
  <1>2. EmptyFirst' <=> EmptyFirst
    BY <1>1 DEF EmptyFirst
  <1>3. ASSUME NEW n PROVE CountUpTo(n)' = CountUpTo(n) /\ Extra(n)' = Extra(n)
    BY <1>1, <1>2 DEF CountUpTo, Extra
  <1>4. ASSUME NEW n PROVE Begins(n)' <=> Begins(n)
    BY DEF Begins
  <1>5. ASSUME NEW k PROVE RunAt(k)' = RunAt(k)
    BY DEF RunAt
  <1>6. ASSUME NEW k PROVE Run(k)' = Run(k)
    BY <1>1, <1>5 DEF Run
  <1>7. ASSUME NEW k PROVE LineAt(k)' = LineAt(k)
    BY <1>2, <1>6 DEF LineAt
  <1>8. LineCnt' = LineCnt
    BY <1>1, <1>2 DEF LineCnt
  <1> QED
    BY <1>1, <1>3, <1>4, <1>5, <1>7, <1>8

(* A step that hands out nothing. *)
LEMMA LineStep ==
    ASSUME LineInv, content' = content, delivered' = delivered,
           pc \in LineLocations, pc' \in LineLocations \ {"ended"},
           pc' = "failed" => LinesFit',
           pc' \in {"line", "drop", "returned"} =>
               (\E s, e \in Nat : InLine(s, e) /\ Past(e))'
    PROVE  LineInv'
  <1>1. ~TakingWords /\ pc' # "ended"
    BY DEF TakingWords, WordEnds, LineLocations
  <1>2. LinesInOrder'
    <2>1. IsText' => /\ Len(delivered') <= LineCnt'
                     /\ \A k \in DOMAIN delivered' : delivered'[k] = LineAt(k)'
      BY <1>1, TextKept DEF LineInv, LinesInOrder
    <2> QED
      BY <1>1, <2>1 DEF LinesInOrder
  <1>3. LinesFit'
    BY DEF LinesFit
  <1>4. delivered' \in Seq(Seq(Byte))
    BY <1>1 DEF LineInv
  <1> QED
    BY <1>2, <1>3, <1>4 DEF LineInv

LEMMA TakeCharacterLines == IInv /\ LineInv /\ TakeCharacter => LineInv'
  <1> SUFFICES ASSUME IInv, LineInv, TakeCharacter PROVE LineInv'
    OBVIOUS
  <1>1. PICK x \in NextByte(reader) :
           /\ x.ok
           /\ ~IsLineEnd(First(x.reader))
           /\ line' = Append(line, First(x.reader))
           /\ reader' = Consume(x.reader, 1)
    BY DEF TakeCharacter
  <1>2. PICK s \in Nat, e \in Nat : InLine(s, e) /\ Past(e)
    BY TextFacts DEF LineInv, TakeCharacter, IInv
  <1>3. /\ content \in Files /\ Sound(reader) /\ line \in Seq(Byte)
        /\ content' = content /\ delivered' = delivered /\ pc = "line" /\ pc' = "line"
    BY DEF IInv, TakeCharacter
  <1>4. /\ Position(reader) = e /\ e < Len(content)
        /\ First(x.reader) = content[e + 1]
        /\ Position(x.reader) = e
    BY <1>1, <1>2, <1>3, NextByteNext DEF Past
  <1>5. Position(reader') = e + 1
    BY <1>1, <1>3, <1>4, NextByteSound, ConsumeSound
  <1>6. /\ Len(content) \in Nat /\ s <= e /\ e <= Len(content) /\ Len(line) = e - s
        /\ content[e + 1] \in Byte
    <2>1. e + 1 \in 1 .. Len(content)
      BY <1>3, <1>4, TextFacts
    <2> QED
      BY <1>2, <1>3, <2>1, InLineType, TextFacts
  <1>7. /\ Len(line') = e + 1 - s
        /\ \A k \in 1 .. e - s : line'[k] = line[k]
        /\ line'[e - s + 1] = content[e + 1]
    BY <1>1, <1>3, <1>4, <1>6
  <1>8. ASSUME NEW k \in s + 1 .. e + 1
        PROVE  line'[k - s] = content[k] /\ ~IsLineEnd(content[k])
    <2>1. CASE k = e + 1
      <3>1. k - s = e - s + 1
        BY <2>1
      <3> QED
        BY <1>1, <1>4, <1>7, <2>1, <3>1
    <2>2. CASE k # e + 1
      <3>1. k \in s + 1 .. e /\ k - s \in 1 .. e - s
        BY <2>2
      <3> QED
        BY <1>2, <1>7, <3>1 DEF InLine
    <2> QED
      BY <2>1, <2>2
  <1>9. InLine(s, e + 1)'
    <2>1. s \in 0 .. Len(content) /\ e + 1 \in s .. Len(content)
      BY <1>4, <1>6
    <2>2. (s > 0 => Begins(s))'
      BY <1>2, <1>3, TextKept DEF InLine
    <2>3. Len(delivered') = CountUpTo(s)' + Extra(s)'
      BY <1>2, <1>3, TextKept DEF InLine
    <2> QED
      BY <1>3, <1>7, <1>8, <2>1, <2>2, <2>3 DEF InLine
  <1>10. Past(e + 1)'
    BY <1>3, <1>5 DEF Past, Position, BufferedSize
  <1>11. (\E n, m \in Nat : InLine(n, m) /\ Past(m))'
    <2>1. e + 1 \in Nat
      OBVIOUS
    <2> QED
      BY <1>9, <1>10, <2>1
  <1> QED
    BY <1>3, <1>11, LineStep DEF LineLocations

(* The line is too long: the text has one of LineLimit characters. *)
LEMMA LineTooLongLines == IInv /\ LineInv /\ LineTooLong => LineInv'
  <1> SUFFICES ASSUME IInv, LineInv, LineTooLong PROVE LineInv'
    OBVIOUS
  <1>1. /\ content \in Files /\ content' = content /\ delivered' = delivered
        /\ pc = "line" /\ pc' = "failed" /\ ~Fits
    BY DEF IInv, LineTooLong
  <1>2. PICK s \in Nat, e \in Nat : InLine(s, e)
    BY <1>1 DEF LineInv
  <1>3. /\ Len(content) \in Nat /\ s <= e /\ e <= Len(content) /\ Len(line) = e - s
        /\ e - s >= LineLimit /\ LineLimit \in Nat /\ LineLimit > 0
    <2>1. Len(content) \in Nat /\ s <= e /\ e <= Len(content) /\ Len(line) = e - s
      BY <1>1, <1>2, InLineType
    <2> QED
      BY <1>1, <2>1, LineLimitAssumption DEF Fits
  <1>4. s + 1 \in Starts
    BY <1>1, <1>2, <1>3, LineStarts
  <1>5. Len(RunAt(s + 1)) >= LineLimit
    <2>1. \A k \in s + 1 .. e : ~IsLineEnd(content[k])
      BY <1>2 DEF InLine
    <2>2. s + 1 \in 1 .. Len(content) /\ e \in s + 1 .. Len(content)
      BY <1>3
    <2>3. Len(RunAt(s + 1)) >= e - (s + 1) + 1
      BY <1>1, <2>1, <2>2, RunIsLong
    <2>4. e - (s + 1) + 1 = e - s
      OBVIOUS
    <2>5. s + 1 + Len(RunAt(s + 1)) - (s + 1) = Len(RunAt(s + 1))
      <3>1. Len(RunAt(s + 1)) \in Int
        BY <1>1, <2>1, <2>2, RunIsLong
      <3> QED
        BY <3>1
    <2> QED
      BY <1>3, <2>3, <2>4
  <1>6. LinesFit'
    BY <1>1, <1>4, <1>5, TextKept DEF LinesFit
  <1> QED
    BY <1>1, <1>6, LineStep DEF LineLocations

LEMMA FindLineEndLines == IInv /\ LineInv /\ FindLineEnd => LineInv'
  <1> SUFFICES ASSUME IInv, LineInv, FindLineEnd PROVE LineInv'
    OBVIOUS
  <1>1. PICK x \in NextByte(reader) :
           x.ok /\ IsLineEnd(First(x.reader)) /\ reader' = x.reader
    BY DEF FindLineEnd
  <1>2. PICK s \in Nat, e \in Nat : InLine(s, e) /\ Past(e)
    BY DEF LineInv, FindLineEnd
  <1>3. /\ content \in Files /\ Sound(reader) /\ line' = line
        /\ content' = content /\ delivered' = delivered /\ pc = "line" /\ pc' = "drop"
    BY DEF IInv, FindLineEnd
  <1>4. /\ Position(reader) = e /\ e < Len(content)
        /\ First(x.reader) = content[e + 1]
        /\ Position(x.reader) = e
    BY <1>1, <1>2, <1>3, NextByteNext DEF Past
  <1>5. InLine(s, e)'
    BY <1>2, <1>3, TextKept DEF InLine
  <1>6. Past(e)'
    BY <1>1, <1>3, <1>4 DEF Past, Position, BufferedSize
  <1> QED
    BY <1>3, <1>5, <1>6, LineStep DEF LineLocations

LEMMA DropLineEndLines == IInv /\ LineInv /\ DropLineEnd => LineInv'
  <1> SUFFICES ASSUME IInv, LineInv, DropLineEnd PROVE LineInv'
    OBVIOUS
  <1>1. PICK x \in NextByte(reader) :
           /\ x.ok
           /\ IF IsLineEnd(First(x.reader))
              THEN reader' = Consume(x.reader, 1) /\ pc' = "drop"
              ELSE reader' = x.reader /\ pc' = "returned"
    BY DEF DropLineEnd, Dropped, DropMore
  <1>2. PICK s \in Nat, e \in Nat : InLine(s, e) /\ Past(e)
    BY DEF LineInv, DropLineEnd
  <1>3. /\ content \in Files /\ Sound(reader) /\ line' = line
        /\ content' = content /\ delivered' = delivered /\ pc = "drop"
    BY DEF IInv, DropLineEnd
  <1> DEFINE p == Position(reader)
  <1>4. /\ p \in Nat /\ p < Len(content)
        /\ First(x.reader) = content[p + 1]
        /\ Position(x.reader) = p
    BY <1>1, <1>3, NextByteNext
  <1>5. /\ e <= p /\ e < Len(content) /\ IsLineEnd(content[e + 1])
        /\ \A k \in e + 1 .. p : IsLineEnd(content[k])
    BY <1>2, <1>3 DEF Past
  <1>6. InLine(s, e)'
    BY <1>2, <1>3, TextKept DEF InLine
  <1> HIDE DEF p
  <1>7. CASE IsLineEnd(First(x.reader))
    <2>1. Position(reader') = p + 1 /\ pc' = "drop"
      BY <1>1, <1>3, <1>4, <1>7, NextByteSound, ConsumeSound
    <2>2. \A k \in e + 1 .. p + 1 : IsLineEnd(content[k])
      <3> SUFFICES ASSUME NEW k \in e + 1 .. p + 1 PROVE IsLineEnd(content[k])
        OBVIOUS
      <3>1. CASE k = p + 1
        BY <1>4, <1>7, <3>1
      <3>2. CASE k # p + 1
        <4>1. k \in e + 1 .. p
          BY <1>4, <3>2
        <4> QED
          BY <1>5, <4>1
      <3> QED
        BY <3>1, <3>2
    <2>3. Position(reader)' = p + 1
      BY <2>1 DEF Position, BufferedSize
    <2>4. e <= p + 1
      BY <1>4, <1>5
    <2>5. Past(e)'
      BY <1>3, <1>5, <2>1, <2>2, <2>3, <2>4 DEF Past
    <2> QED
      BY <1>3, <1>6, <2>1, <2>5, LineStep DEF LineLocations
  <1>8. CASE ~IsLineEnd(First(x.reader))
    <2>1. reader' = x.reader /\ pc' = "returned"
      BY <1>1, <1>8
    <2>2. Position(reader)' = p
      BY <1>4, <2>1 DEF Position, BufferedSize
    <2>3. ~IsLineEnd(content[p + 1])
      BY <1>4, <1>8
    <2>4. e < p
      BY <1>4, <1>5, <2>3
    <2>5. Past(e)'
      BY <1>3, <1>4, <1>5, <2>1, <2>2, <2>3, <2>4 DEF Past
    <2> QED
      BY <1>3, <1>6, <2>1, <2>5, LineStep DEF LineLocations
  <1> QED
    BY <1>7, <1>8

LEMMA NoMoreBytesLines == IInv /\ LineInv /\ NoMoreBytes => LineInv'
  <1> SUFFICES ASSUME IInv, LineInv, NoMoreBytes PROVE LineInv'
    OBVIOUS
  <1>1. PICK x \in NextByte(reader) :
           /\ ~x.ok /\ reader' = x.reader
           /\ pc' = IF IsError(x.reader) THEN "failed" ELSE "returned"
    BY DEF NoMoreBytes
  <1>2. PICK s \in Nat, e \in Nat : InLine(s, e) /\ Past(e)
    BY DEF LineInv, NoMoreBytes
  <1>3. /\ content \in Files /\ Sound(reader) /\ line' = line
        /\ content' = content /\ delivered' = delivered /\ pc \in {"line", "drop"}
    BY DEF IInv, NoMoreBytes
  <1>4. /\ BufferedSize(x.reader) = 0
        /\ x.reader.feof \/ x.reader.ferror
        /\ Position(x.reader) = Position(reader)
    BY <1>1, <1>3, NextByteNext
  <1>5. CASE IsError(x.reader)
    <2>1. reader'.ferror
      BY <1>1, <1>5 DEF IsError
    <2>2. pc' = "failed" /\ LinesFit'
      BY <1>1, <1>5, <2>1 DEF LinesFit
    <2> QED
      BY <1>3, <2>2, LineStep DEF LineLocations
  <1>6. CASE ~IsError(x.reader)
    <2>1. pc' = "returned"
      BY <1>1, <1>6
    <2>2. IsEOF(x.reader)
      BY <1>4, <1>6 DEF IsError, IsEOF
    <2>3. IsEOF(reader)'
      BY <1>1, <2>2 DEF IsEOF, BufferedSize
    <2>4. Position(reader)' = Position(reader)
      BY <1>1, <1>4 DEF Position, BufferedSize
    <2>5. Past(e)'
      BY <1>2, <1>3, <2>1, <2>3, <2>4 DEF Past
    <2>6. InLine(s, e)'
      BY <1>2, <1>3, TextKept DEF InLine
    <2> QED
      BY <1>3, <2>1, <2>5, <2>6, LineStep DEF LineLocations
  <1> QED
    BY <1>5, <1>6

(* AssembleFile takes the line, or there is none left to take. *)
LEMMA UseLineLines == IInv /\ LineInv /\ UseLine => LineInv'
  <1> SUFFICES ASSUME IInv, LineInv, UseLine PROVE LineInv'
    OBVIOUS
  <1>1. /\ content \in Files /\ line \in Seq(Byte) /\ content' = content
        /\ reader' = reader /\ pc = "returned" /\ pc' = "line" /\ ~EndOfLines
        /\ delivered' = Append(delivered, line) /\ line' = << >>
    BY DEF IInv, UseLine
  <1>2. PICK s \in Nat, e \in Nat : InLine(s, e) /\ Past(e)
    BY <1>1 DEF LineInv
  <1>3. PICK p \in Nat, n \in Nat :
        /\ p = Position(reader) /\ n = Len(delivered)
        /\ line = LineAt(n + 1)
        /\ p <= Len(content)
        /\ p > 0 => Begins(p)
        /\ n + 1 = CountUpTo(p) + Extra(p)
        /\ n + 1 <= LineCnt
    <2>1. /\ Position(reader) \in 0 .. Len(content) /\ Len(content) \in Nat
          /\ ~TakingWords
      BY <1>1, <1>2, NextLine, TextFacts DEF TakingWords, WordEnds
    <2>2. delivered \in Seq(Seq(Byte))
      BY <2>1 DEF LineInv
    <2>3. Position(reader) \in Nat /\ Len(delivered) \in Nat /\ Position(reader) <= Len(content)
      BY <2>1, <2>2
    <2> QED
      BY <1>1, <1>2, <2>3, NextLine
  <1>4. /\ ~TakingWords /\ ~TakingWords'
    BY <1>1 DEF TakingWords, WordEnds
  <1>5. delivered \in Seq(Seq(Byte))
    BY <1>4 DEF LineInv
  <1>6. /\ delivered' \in Seq(Seq(Byte)) /\ n \in Nat /\ Len(delivered') = n + 1
        /\ \A k \in DOMAIN delivered' : k = n + 1 \/ k \in DOMAIN delivered
        /\ \A k \in DOMAIN delivered : delivered'[k] = delivered[k]
        /\ delivered'[n + 1] = line
    BY <1>1, <1>3, <1>5
  <1>7. Position(reader)' = p
    BY <1>1, <1>3 DEF Position, BufferedSize
  <1>8. p \in Nat /\ Len(content) \in Nat /\ p <= Len(content)
    BY <1>1, <1>3, TextFacts
  <1>9. InLine(p, p)'
    <2>1. (p > 0 => Begins(p))'
      BY <1>1, <1>3, <1>7, TextKept
    <2>2. Len(delivered') = CountUpTo(p)' + Extra(p)'
      BY <1>1, <1>3, <1>6, TextKept
    <2>3. Len(line') = p - p /\ p \in 0 .. Len(content) /\ p \in p .. Len(content)
      BY <1>1, <1>8
    <2> QED
      BY <1>1, <1>7, <1>8, <2>1, <2>2, <2>3 DEF InLine
  <1>10. Past(p)'
    BY <1>1, <1>7, <1>8 DEF Past
  <1>11. LinesInOrder'
    <2>1. IsText => \A k \in DOMAIN delivered : delivered[k] = LineAt(k)
      BY <1>4 DEF LineInv, LinesInOrder
    <2>2. IsText => \A k \in DOMAIN delivered' : delivered'[k] = LineAt(k)
      BY <1>3, <1>6, <2>1
    <2> QED
      BY <1>1, <1>3, <1>6, <2>2, TextKept DEF LinesInOrder
  <1>12. LinesFit'
    BY <1>1 DEF LinesFit
  <1> QED
    BY <1>6, <1>7, <1>8, <1>9, <1>10, <1>11, <1>12 DEF LineInv

LEMMA LinesEndLines == IInv /\ LineInv /\ LinesEnd => LineInv'
  <1> SUFFICES ASSUME IInv, LineInv, LinesEnd PROVE LineInv'
    OBVIOUS
  <1>1. /\ content' = content /\ delivered' = delivered
        /\ pc = "returned" /\ pc' = "ended" /\ EndOfLines
    BY DEF LinesEnd
  <1>2. PICK s \in Nat, e \in Nat : InLine(s, e) /\ Past(e)
    BY <1>1 DEF LineInv
  <1>3. ~TakingWords
    BY <1>1 DEF TakingWords, WordEnds
  <1>4. IsText => Len(delivered) = LineCnt
    BY <1>1, <1>2, LastLine
  <1>5. IsText => /\ Len(delivered) <= LineCnt
                  /\ \A k \in DOMAIN delivered : delivered[k] = LineAt(k)
    BY <1>3 DEF LineInv, LinesInOrder
  <1>6. LinesInOrder'
    BY <1>1, <1>4, <1>5, TextKept DEF LinesInOrder
  <1>7. LinesFit'
    BY <1>1 DEF LinesFit
  <1>8. delivered' \in Seq(Seq(Byte))
    BY <1>1, <1>3 DEF LineInv
  <1> QED
    BY <1>1, <1>6, <1>7, <1>8 DEF LineInv

LEMMA NextLines == IInv /\ LineInv /\ [Next]_vars => LineInv'
  <1> SUFFICES ASSUME IInv, LineInv, [Next]_vars PROVE LineInv'
    OBVIOUS
  <1>1. CASE TakeWord \/ WordsEnd
    <2>1. TakingWords' /\ pc' \notin LineLocations
      BY <1>1 DEF TakeWord, WordsEnd, TakingWords, WordEnds, LineLocations
    <2> QED
      BY <2>1 DEF LineInv, LinesInOrder, LinesFit, LineLocations
  <1>2. CASE TakeCharacter
    BY <1>2, TakeCharacterLines
  <1>3. CASE LineTooLong
    BY <1>3, LineTooLongLines
  <1>4. CASE FindLineEnd
    BY <1>4, FindLineEndLines
  <1>5. CASE DropLineEnd
    BY <1>5, DropLineEndLines
  <1>6. CASE NoMoreBytes
    BY <1>6, NoMoreBytesLines
  <1>7. CASE UseLine
    BY <1>7, UseLineLines
  <1>8. CASE LinesEnd
    BY <1>8, LinesEndLines
  <1>9. CASE UNCHANGED vars
    <2>1. /\ content' = content /\ reader' = reader /\ pc' = pc
          /\ line' = line /\ delivered' = delivered
      BY <1>9 DEF vars
    <2>2. TakingWords' <=> TakingWords
      BY <2>1 DEF TakingWords
    <2>3. (LinesInOrder' <=> LinesInOrder) /\ (LinesFit' <=> LinesFit)
      BY <2>1, <2>2, TextKept DEF LinesInOrder, LinesFit
    <2>4. Position(reader)' = Position(reader) /\ (IsEOF(reader)' <=> IsEOF(reader))
      BY <2>1 DEF Position, IsEOF, BufferedSize
    <2>5. ASSUME NEW s \in Nat, NEW e \in Nat, InLine(s, e), Past(e)
          PROVE  InLine(s, e)' /\ Past(e)'
      BY <2>1, <2>4, <2>5, TextKept DEF InLine, Past
    <2> QED
      BY <2>1, <2>2, <2>3, <2>5 DEF LineInv
  <1> QED
    BY <1>1, <1>2, <1>3, <1>4, <1>5, <1>6, <1>7, <1>8, <1>9 DEF Next, Terminated

LEMMA InitLines == Init => LineInv
  <1> SUFFICES ASSUME Init PROVE LineInv
    OBVIOUS
  <1>1. /\ content \in Files /\ pc \in {"words", "line"} /\ line = << >>
        /\ delivered = << >>
        /\ reader.BufferedDataSize = 0 /\ reader.BufferConsumed = 0 /\ reader.taken = 0
    BY DEF Init
  <1>2. Len(content) \in Nat
    BY <1>1, TextFacts
  <1>3. Position(reader) = 0
    BY <1>1 DEF Position, BufferedSize
  <1>4. CountUpTo(0) = 0
    <2>1. \A q \in Starts : q \in Nat /\ 0 < q
      BY <1>1, StartFacts
    <2>2. {q \in Starts : q <= 0} = {}
      BY <2>1
    <2> QED
      BY <2>2, FS_EmptySet DEF CountUpTo
  <1>5. Extra(0) = 0
    BY DEF Extra
  <1>6. InLine(0, 0)
    <2>1. Len(line) = 0 - 0 /\ Len(delivered) = 0
      BY <1>1
    <2>2. Len(delivered) = CountUpTo(0) + Extra(0)
      BY <1>4, <1>5, <2>1
    <2> QED
      BY <1>2, <2>1, <2>2 DEF InLine
  <1>7. Past(0)
    BY <1>1, <1>3 DEF Past
  <1>8. \E s, e \in Nat : InLine(s, e) /\ Past(e)
    BY <1>6, <1>7
  <1>9. LinesInOrder
    <2>1. Cardinality(Starts) \in Nat
      BY <1>1, CountType
    <2>2. 0 <= LineCnt
      BY <2>1 DEF LineCnt
    <2>3. Len(delivered) = 0 /\ DOMAIN delivered = {}
      BY <1>1
    <2> QED
      BY <1>1, <2>2, <2>3 DEF LinesInOrder
  <1>10. delivered \in Seq(Seq(Byte)) /\ LinesFit
    BY <1>1 DEF LinesFit
  <1> QED
    BY <1>8, <1>9, <1>10 DEF LineInv

(* ReadLine and DropLineEnd hand out the lines of the text, each once and  *)
(* in order, however the buffer cuts them, and the end is not taken for    *)
(* there before all of them are out.                                       *)
THEOREM LinesAreInOrder == Spec => []LinesInOrder
  <1>1. IInv /\ LineInv => LinesInOrder
    BY DEF LineInv
  <1>2. Spec => []LineInv
    BY InitLines, NextLines, Invariant, PTL DEF Spec
  <1> QED
    BY <1>1, <1>2, Invariant, PTL

(* A source is given up only for a read error or a line that does not fit, *)
(* so a file with short lines is never refused.                            *)
THEOREM LinesAreTaken == Spec => []LinesFit
  <1>1. LineInv => LinesFit
    BY DEF LineInv
  <1>2. Spec => []LineInv
    BY InitLines, NextLines, Invariant, PTL DEF Spec
  <1> QED
    BY <1>1, <1>2, PTL
=============================================================================
