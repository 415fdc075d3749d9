---------------------------- MODULE Words ----------------------------
(***************************************************************************)
(* Machine words of the vm: the fixed-width arithmetic of the C types the  *)
(* emulated machine is built from (uint16_t registers and memory cells,    *)
(* uint8_t register halves, int8_t jump deltas).                           *)
(***************************************************************************)
EXTENDS Integers

Byte == 0 .. 2^8 - 1
Word == 0 .. 2^16 - 1

(* What an assignment to a uint16_t keeps of an integer. *)
U16(n) == n % 2^16

(* A byte read as an int8_t. *)
S8(b) == IF b < 128 THEN b ELSE b - 256

LowByte(w) == w % 256
HighByte(w) == w \div 256

(* A word with one of its two bytes replaced. *)
WithLow(w, b) == HighByte(w) * 256 + b
WithHigh(w, b) == b * 256 + LowByte(w)

(* The field of size bits that begins lo bits above the bottom of raw. *)
Bits(raw, lo, size) == (raw \div 2^lo) % 2^size

(* A word as the set of its one bits, and back. *)
Ones(w) == {k \in 0 .. 15 : (w \div 2^k) % 2 = 1}
Weight(S, k) == IF k \in S THEN 2^k ELSE 0
FromOnes(S) ==
    Weight(S, 0) + Weight(S, 1) + Weight(S, 2) + Weight(S, 3)
        + Weight(S, 4) + Weight(S, 5) + Weight(S, 6) + Weight(S, 7)
        + Weight(S, 8) + Weight(S, 9) + Weight(S, 10) + Weight(S, 11)
        + Weight(S, 12) + Weight(S, 13) + Weight(S, 14) + Weight(S, 15)

BitAnd(x, y) == FromOnes(Ones(x) \cap Ones(y))
BitOr(x, y) == FromOnes(Ones(x) \cup Ones(y))
BitXor(x, y) == FromOnes((Ones(x) \ Ones(y)) \cup (Ones(y) \ Ones(x)))
BitNot(x) == 2^16 - 1 - x
ShiftLeft(x, s) == U16(x * 2^s)
ShiftRight(x, s) == x \div 2^s
======================================================================
