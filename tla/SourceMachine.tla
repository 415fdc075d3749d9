------------------------ MODULE SourceMachine -------------------------
(***************************************************************************)
(* What the assembler and the vm promise the author of one source program: *)
(* a machine that executes the lines of the source, one after the other,   *)
(* on registers and on data words of its own.  There are no raw            *)
(* operations, windows, code files, turns or other programs here.  The     *)
(* streams are shared: others may read and write between two steps.        *)
(*                                                                         *)
(* The promise is made to programs that keep to themselves: one that uses  *)
(* a word outside its room, or executes what is not a line of its source,  *)
(* has no step here.                                                       *)
(***************************************************************************)
EXTENDS Words, Sequences

VARIABLES
    program,    \* its lines, its base address, its room (word indices) and
                \* its budget of steps (0: none), fixed
    status,     \* "pending", "running", "exited" or "dropped"
    at,         \* the address of the line to be executed
    reg,        \* R0X to R7X, the last being the stack pointer
    data,       \* the words of its room that hold no line
    steps,      \* steps taken, counted when there is a budget
    exitCode,
    input,      \* what is left of the standard input
    output      \* what all programs have written

own == <<status, at, reg, data, steps, exitCode>>
vars == <<program, own, input, output>>

base == program.base
lines == program.lines
R == 0 .. 7
SP == 7

Init ==
    /\ status = "pending"
    /\ at = base
    /\ reg = [r \in R |-> IF r = SP THEN base ELSE 0]
    /\ data = [w \in program.room \ (base \div 2 .. base \div 2 + Len(lines) - 1) |-> 0]
    /\ steps = 0
    /\ exitCode = 0

----------------------------------------------------------------------------
(* The line to be executed. *)

AddressOf(k) == base + 2 * (k - 1)
Here == {k \in DOMAIN lines : AddressOf(k) = at}
Line == lines[CHOOSE k \in Here : TRUE]
Arg(k) == Line.args[k]

Running == status = "running" /\ (program.budget # 0 => steps < program.budget)
Does(names) == Running /\ Here # {} /\ Line.name \in names

Value(token) ==
    CASE token.kind = "IMM" -> token.value
      [] token.kind = "RX"  -> reg[token.value]
      [] token.kind = "RS"  -> IF token.value >= 8 THEN HighByte(reg[token.value - 8])
                               ELSE LowByte(reg[token.value])

(* The registers with a value put where the token says. *)
Put(token, value) ==
    LET r == token.value % 8
    IN  [reg EXCEPT ![r] = IF token.kind = "RX" THEN value
                           ELSE IF token.value >= 8 THEN WithHigh(@, value)
                           ELSE WithLow(@, value)]

Result(name, x, y) ==
    CASE name = "mov" -> y
      [] name = "add" -> U16(x + y)
      [] name = "sub" -> U16(x - y)
      [] name = "mul" -> U16(x * y)
      [] name = "div" -> x \div y
      [] name = "and" -> BitAnd(x, y)
      [] name = "or"  -> BitOr(x, y)
      [] name = "xor" -> BitXor(x, y)
      [] name = "shl" -> ShiftLeft(x, y)
      [] name = "shr" -> ShiftRight(x, y)
BINARY == {"mov", "add", "sub", "mul", "div", "and", "or", "xor", "shl", "shr"}

(* Memory is named by a register that holds an even address.               *)
Pointed(k) == reg[Arg(k).value]
Even(address) == address % 2 = 0
Owned(address) == Even(address) /\ address \div 2 \in DOMAIN data
Cell(address) == data[address \div 2]
Stored(address, value) == [data EXCEPT ![address \div 2] = value]

(* The line is done: on to the next, or to another one.                    *)
GoTo(address) ==
    /\ at' = address
    /\ steps' = IF program.budget = 0 THEN 0 ELSE steps + 1
    /\ UNCHANGED <<program, status, exitCode>>
Done == GoTo(U16(at + 2))
silent == <<input, output>>

----------------------------------------------------------------------------
(* The lines. *)

IsReference(k) == Arg(k).kind = "RX_REF"

Compute ==
    /\ Does(BINARY) /\ ~IsReference(1) /\ ~IsReference(2)
    /\ Line.name = "div" => Value(Arg(2)) # 0
    /\ reg' = Put(Arg(1), Result(Line.name, Value(Arg(1)), Value(Arg(2))))
    /\ Done /\ UNCHANGED <<data, silent>>

Negate ==
    /\ Does({"not"})
    /\ reg' = Put(Arg(1), BitNot(Value(Arg(1))))
    /\ Done /\ UNCHANGED <<data, silent>>

Fetch ==
    /\ Does({"mov"}) /\ IsReference(2) /\ Owned(Pointed(2))
    /\ reg' = Put(Arg(1), Cell(Pointed(2)))
    /\ Done /\ UNCHANGED <<data, silent>>

Store ==
    /\ Does({"mov"}) /\ IsReference(1) /\ Owned(Pointed(1))
    /\ data' = Stored(Pointed(1), Value(Arg(2)))
    /\ Done /\ UNCHANGED <<reg, silent>>

Exchange ==
    /\ Does({"cmpxchg"}) /\ Owned(Pointed(1))
    /\ IF Cell(Pointed(1)) = Value(Arg(2))
       THEN /\ data' = Stored(Pointed(1), Value(Arg(3)))
            /\ reg' = Put(Arg(3), Value(Arg(2)))
       ELSE UNCHANGED <<data, reg>>
    /\ Done /\ UNCHANGED silent

Top == U16(reg[SP] - 2)
HasTop == Even(reg[SP]) /\ reg[SP] >= 2

Push ==
    /\ Does({"push"}) /\ HasTop /\ Owned(Top)
    /\ reg' = [reg EXCEPT ![SP] = Top]
    /\ data' = Stored(Top, reg'[Arg(1).value])
    /\ Done /\ UNCHANGED silent

Pop ==
    /\ Does({"pop"}) /\ Owned(reg[SP])
    /\ reg' = [Put(Arg(1), Cell(reg[SP])) EXCEPT ![SP] = U16(@ + 2)]
    /\ Done /\ UNCHANGED <<data, silent>>

Callee == at + 2 * S8(Value(Arg(1)))
Call ==
    /\ Does({"call"}) /\ HasTop /\ Owned(Top)
    /\ Callee \in Word
    /\ reg' = [reg EXCEPT ![SP] = Top]
    /\ data' = Stored(Top, U16(at + 2))
    /\ GoTo(Callee) /\ UNCHANGED silent

Return ==
    /\ Does({"ret"}) /\ Owned(reg[SP])
    /\ reg' = [reg EXCEPT ![SP] = U16(@ + 2)]
    /\ GoTo(Cell(reg[SP])) /\ UNCHANGED <<data, silent>>

(* A jump goes to the line that declares the label. *)
Taken == CASE Line.name = "jmp" -> TRUE
           [] Line.name = "je"  -> Value(Arg(2)) = 0
           [] Line.name = "jne" -> Value(Arg(2)) # 0
Jump ==
    /\ Does({"jmp", "je", "jne"})
    /\ IF Taken
       THEN \E k \in DOMAIN lines : lines[k].declares = <<Arg(1)>> /\ GoTo(AddressOf(k))
       ELSE Done
    /\ UNCHANGED <<reg, data, silent>>

In ==
    /\ Does({"in"})
    /\ IF input = << >> THEN UNCHANGED <<reg, input>>
       ELSE reg' = Put(Arg(1), Head(input)) /\ input' = Tail(input)
    /\ Done /\ UNCHANGED <<data, output>>

Out ==
    /\ Does({"out"})
    /\ output' = Append(output, Value(Arg(1)))
    /\ Done /\ UNCHANGED <<reg, data, input>>

Nop == Does({"nop"}) /\ Done /\ UNCHANGED <<reg, data, silent>>

----------------------------------------------------------------------------
(* The ways to end.  An instruction that fails counts as a step; running   *)
(* off the lines and out of budget does not.                               *)

Exit(code) == status' = "exited" /\ exitCode' = code /\ UNCHANGED <<program, data, silent>>
LastStep == steps' = (IF program.budget = 0 THEN 0 ELSE steps + 1)

Reset ==
    /\ Does({"reset"})
    /\ Exit(LowByte(reg[0])) /\ LastStep
    /\ UNCHANGED <<at, reg>>

Fail ==
    /\ \/ Does({"div"}) /\ Value(Arg(2)) = 0
       \/ Does({"mov", "cmpxchg"}) /\ \E k \in {1, 2} : IsReference(k) /\ ~Even(Pointed(k))
       \/ Does({"push", "call"}) /\ ~HasTop
       \/ Does({"pop", "ret"}) /\ ~Even(reg[SP])
    /\ Exit(1) /\ LastStep
    /\ UNCHANGED <<at, reg>>

(* The address is odd, or there is nothing at it. *)
RunOff ==
    /\ Running
    /\ Here = {}
    /\ ~Even(at) \/ (Owned(at) /\ Cell(at) = 0)
    /\ Exit(1) /\ UNCHANGED <<at, reg, steps>>

TimeOut ==
    /\ status = "running"
    /\ program.budget # 0 /\ steps = program.budget
    /\ Exit(1) /\ UNCHANGED <<at, reg, steps>>

----------------------------------------------------------------------------
(* What is not the program's doing. *)

Start == status = "pending" /\ status' = "running"
             /\ UNCHANGED <<program, at, reg, data, steps, exitCode, silent>>

(* It is not assembled or loaded, or the vm stops as a whole. *)
Drop == status \in {"pending", "running"} /\ status' = "dropped"
            /\ UNCHANGED <<program, at, reg, data, steps, exitCode, silent>>

(* Other programs take input and write output. *)
Others ==
    /\ UNCHANGED <<program, own>>
    /\ \E k \in 0 .. Len(input) : input' = SubSeq(input, k + 1, Len(input))
    /\ Len(output') >= Len(output) /\ SubSeq(output', 1, Len(output)) = output

Step == \/ Compute \/ Negate \/ Fetch \/ Store \/ Exchange \/ Push \/ Pop
        \/ Call \/ Return \/ Jump \/ In \/ Out \/ Nop
        \/ Reset \/ Fail \/ RunOff \/ TimeOut
Next == Start \/ Drop \/ Others \/ Step

Spec == Init /\ [][Next]_vars
======================================================================
