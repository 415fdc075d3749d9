--------------------------- MODULE Assembly ---------------------------
(***************************************************************************)
(* Raw operations by name, to write the programs of the model-checked      *)
(* instances in.  Registers are 0 .. 7, halves 0 .. 7 (low) and 8 .. 15    *)
(* (high), jump deltas count instructions from the jump itself.            *)
(***************************************************************************)
EXTENDS Integers

TwoRX(id, a, b) == id * 256 + a * 32 + b * 4
Big(id) == 32768 + id * 4096

movv(rs, v) == Big(0) + rs * 256 + v
jne(delta, r) == Big(1) + (delta % 256) * 16 + r * 2
je(delta, r) == Big(2) + (delta % 256) * 16 + r * 2
cmpxchg(a, b, c) == Big(3) + a * 512 + b * 64 + c * 8
jmp(delta) == Big(4) + (delta % 256) * 16
call(delta) == 5 * 256 + (delta % 256)
shr(a, n) == 6 * 256 + a * 32 + n * 2
shl(a, n) == 7 * 256 + a * 32 + n * 2
xor(a, b) == TwoRX(8, a, b)
sub(a, b) == TwoRX(9, a, b)
or(a, b) == TwoRX(10, a, b)
mul(a, b) == TwoRX(11, a, b)
movr(a, b) == TwoRX(12, a, b)
mov2(a, b) == TwoRX(13, a, b)
mov1(a, b) == TwoRX(14, a, b)
div(a, b) == TwoRX(15, a, b)
and(a, b) == TwoRX(16, a, b)
add(a, b) == TwoRX(17, a, b)
out(rs) == 18 * 256 + rs * 16
in(rs) == 19 * 256 + rs * 16
push(a) == TwoRX(20, a, 0)
pop(a) == TwoRX(21, a, 0)
not(a) == TwoRX(22, a, 0)
ret == 23 * 256
reset == 24 * 256
nop == 25 * 256
======================================================================
