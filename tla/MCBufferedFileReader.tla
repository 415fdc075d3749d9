-------------------- MODULE MCBufferedFileReader ----------------------
(***************************************************************************)
(* All files of up to six bytes, taken as words and as text, and some with *)
(* a NUL in them, through a buffer of four.                                *)
(***************************************************************************)
EXTENDS BufferedFileReader

MCBytes == {10, 13, 65, 66}
Upto(n, S) == UNION {[1 .. k -> S] : k \in 0 .. n}
MCFiles == Upto(6, MCBytes) \cup Upto(4, {0, 10, 65})
======================================================================
