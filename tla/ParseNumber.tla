------------------------- MODULE ParseNumber --------------------------
(***************************************************************************)
(* The number parser (parse_number.c).  A string is a sequence of          *)
(* characters; the digits are 0 to 9, any other character is not in Digit. *)
(***************************************************************************)
EXTENDS Integers, Sequences

Digit == 0 .. 9
NotANumber == -1

(* Fault: the largest number is taken for one too many. *)
InRangeBelow(n, upper) == n < upper

InRange(n, upper) == n <= upper

(* The value of the first k characters.  It is compared with the bound     *)
(* digit by digit, so the wider type it is kept in does not overflow.      *)
ParseNumber(string, upper) ==
    LET prefixValue[k \in 0 .. Len(string)] ==
            IF k = 0 THEN 0
            ELSE IF prefixValue[k - 1] = NotANumber \/ string[k] \notin Digit
            THEN NotANumber
            ELSE LET n == 10 * prefixValue[k - 1] + string[k]
                 IN  IF InRange(n, upper) THEN n ELSE NotANumber
    IN  IF string = << >> THEN NotANumber ELSE prefixValue[Len(string)]

----------------------------------------------------------------------------
(* What it should be: the number a string of digits stands for, if the     *)
(* string is one and the number is not too large.                          *)
Value(digits) ==
    LET value[k \in 0 .. Len(digits)] ==
            IF k = 0 THEN 0 ELSE 10 * value[k - 1] + digits[k]
    IN  value[Len(digits)]

IsNumber(string, upper) ==
    /\ string # << >>
    /\ \A k \in 1 .. Len(string) : string[k] \in Digit
    /\ Value(string) <= upper
======================================================================
