------------------------------- MODULE StdIo --------------------------------
(***************************************************************************)
(* The routines of potter_tongue_libs/io, loop by loop, over the one       *)
(* buffer that they share: numbers are written into it from its end, lines *)
(* are read into its beginning, and nothing ever clears it.                *)
(*                                                                         *)
(* Registers: rax (unsigned), ptr (rdi in printing, rsi in reading,        *)
(* relative to the buffer), count (rcx of flagrate_bombarda, rdi of        *)
(* accio_bombarda), negative (r12).  A step is one round of a loop or the  *)
(* straight code between loops.                                            *)
(***************************************************************************)
EXTENDS Integers, Sequences

CONSTANTS
    WordSize,               \* 2^64
    FloatBits,              \* 24, the mantissa of a single
    BufferSize,             \* 512
    MaxDigits,              \* digits of a number, 19
    Numbers, Precisions, Strings, Radicands,    \* parameters of the calls
    Inputs,                 \* what is typed
    Terminal,               \* a read gives one line; if not, what is there
    MaxCalls

ASSUME SizeAssumption ==
    /\ WordSize \in Nat /\ MaxDigits \in Nat /\ BufferSize \in Nat
    /\ Numbers \union Radicands \subseteq -(WordSize \div 2) .. (WordSize \div 2 - 1)
    /\ Precisions \subseteq Nat
    /\ 0 < WordSize /\ WordSize % 2 = 0 /\ BufferSize < WordSize
    /\ MaxDigits + 2 <= BufferSize
    /\ \A p \in Precisions : p + 3 <= BufferSize

(* MaxDigits digits are enough for a word.                                 *)
ASSUME PowerAssumption ==
    /\ 10 ^ 0 = 1
    /\ WordSize \div 2 < 10 ^ MaxDigits
    /\ \A k \in 0..BufferSize : 10 ^ k \in Nat /\ 10 ^ (k + 1) = 10 * 10 ^ k

Byte == 0..255
ASSUME InputAssumption ==
    /\ Inputs \subseteq Seq(Byte)
    /\ Strings \subseteq Seq(Byte \ {0})       \* they come from a text
    /\ Terminal \in BOOLEAN

VARIABLES
    buffer, pc, rax, ptr, count, negative,
    got,            \* how many characters the last read(2) gave
    call, input, taken, screen, answers, calls      \* as in Console

registers == <<rax, ptr, count, negative>>
world     == <<input, taken, screen, answers, calls>>
vars      == <<buffer, pc, registers, got, call, world>>

NewLine == 10
Minus   == 45
Point   == 46
Zero    == 48

NoCall == [fn |-> "none", number |-> 0, precision |-> 0, string |-> <<>>]

Cells == 0..(BufferSize - 1)

CallOf(fn, n, p, s) == [fn |-> fn, number |-> n, precision |-> p, string |-> s]

Calls ==
    {CallOf("flagrate", n, 0, <<>>) : n \in Numbers}
      \union {CallOf("crucio", n, 0, <<>>) : n \in Radicands}
      \union {CallOf("flagrate_bombarda", n, p, <<>>) : n \in Numbers, p \in Precisions}
      \union {CallOf("accio", 0, 0, <<>>)}
      \union {CallOf("accio_bombarda", 0, p, <<>>) : p \in Precisions}
      \union {CallOf("flagrate_s", 0, 0, s) : s \in Strings}

Init ==
    /\ buffer = [i \in Cells |-> 0]
    /\ pc = "ready"
    /\ rax = 0 /\ ptr = 0 /\ count = 0 /\ negative = FALSE
    /\ got = 0
    /\ call = NoCall
    /\ input \in Inputs
    /\ taken = 0 /\ screen = <<>> /\ answers = <<>> /\ calls = 0

Entering(fn) ==
    /\ pc = "ready"
    /\ calls < MaxCalls
    /\ call' \in Calls
    /\ call'.fn \in fn
    /\ calls' = calls + 1
    /\ UNCHANGED <<buffer, got, input, taken, screen, answers>>

Return(nextScreen, nextAnswers) ==
    /\ pc' = "ready"
    /\ call' = NoCall
    /\ screen' = nextScreen
    /\ answers' = nextAnswers
    /\ UNCHANGED <<buffer, got, input, taken, calls>>

Goto(next) == pc' = next /\ UNCHANGED <<got, call, world>>

-----------------------------------------------------------------------------
(* flagrate and flagrate_bombarda: digits from the last one on, downwards  *)
(* from the end of the buffer.  neg makes the magnitude, for the smallest  *)
(* number too, as div takes rax as unsigned.                               *)
EnterPrint ==
    /\ Entering({"flagrate", "flagrate_bombarda"})
    /\ rax' = IF call'.number < 0 THEN -call'.number ELSE call'.number
    /\ negative' = (call'.number < 0)
    /\ count' = call'.precision
    /\ ptr' = BufferSize - 1
    /\ pc' = IF call'.fn = "flagrate" THEN "whole" ELSE "fraction"

Put(c) ==
    /\ ptr \in Cells
    /\ buffer' = [buffer EXCEPT ![ptr] = c]
    /\ ptr' = ptr - 1

PutDigit == Put(Zero + (rax % 10)) /\ rax' = rax \div 10

(* .PRECISION_DIGITS: rcx is decremented and then tested.                  *)
FractionDigit ==
    /\ pc = "fraction"
    /\ PutDigit
    /\ count' = (count - 1) % WordSize
    /\ Goto(IF count' = 0 THEN "point" ELSE "fraction")
    /\ UNCHANGED negative

PutPoint ==
    /\ pc = "point"
    /\ Put(Point)
    /\ Goto("whole")
    /\ UNCHANGED <<rax, count, negative>>

(* .WHILE_DIGITS_LEFT: at least one digit.                                 *)
WholeDigit ==
    /\ pc = "whole"
    /\ PutDigit
    /\ Goto(IF rax' = 0 THEN "sign" ELSE "whole")
    /\ UNCHANGED <<count, negative>>

PutSign ==
    /\ pc = "sign"
    /\ negative
    /\ Put(Minus)
    /\ Goto("write")
    /\ UNCHANGED <<rax, count, negative>>

SkipSign ==
    /\ pc = "sign"
    /\ ~negative
    /\ Goto("write")
    /\ UNCHANGED <<buffer, registers>>

(* write(2) of what lies behind rdi, and the return.                       *)
Write ==
    /\ pc = "write"
    /\ LET text == [i \in 1..(BufferSize - 1 - ptr) |-> buffer[ptr + i]]
       IN Return(screen \o text, answers)
    /\ UNCHANGED registers

-----------------------------------------------------------------------------
(* flagrate_s: the string lies in the data segment, behind it a zero.      *)
EnterPrintString ==
    /\ Entering({"flagrate_s"})
    /\ ptr' = 0
    /\ pc' = "strlen"
    /\ UNCHANGED <<rax, count, negative>>

StringByte == IF ptr = Len(call.string) THEN 0 ELSE call.string[ptr + 1]

Strlen ==
    /\ pc = "strlen"
    /\ StringByte # 0
    /\ ptr' = ptr + 1
    /\ Goto("strlen")
    /\ UNCHANGED <<buffer, rax, count, negative>>

WriteString ==
    /\ pc = "strlen"
    /\ StringByte = 0
    /\ Return(screen \o SubSeq(call.string, 1, ptr), answers)
    /\ UNCHANGED registers

-----------------------------------------------------------------------------
(* accio and accio_bombarda.                                               *)
EnterRead ==
    /\ Entering({"accio", "accio_bombarda"})
    /\ rax' = 0 /\ ptr' = 0
    /\ count' = call'.precision
    /\ pc' = "read"
    /\ UNCHANGED negative

(* How much read(2) gives (external): from a terminal a line, or as much   *)
(* of it as fits; from a pipe or a file anything up to all that there is;  *)
(* at the end of the input nothing.                                        *)
IsLine(n) ==
    /\ \A i \in 1..(n - 1) : input[taken + i] # NewLine
    /\ input[taken + n] = NewLine \/ n = BufferSize \/ taken + n = Len(input)

ReadSizes ==
    IF taken = Len(input) THEN {0}
    ELSE {n \in 1..(Len(input) - taken) : n <= BufferSize /\ (Terminal => IsLine(n))}

ReadLine ==
    /\ pc = "read"
    /\ got' \in ReadSizes
    /\ buffer' = [i \in Cells |-> IF i < got' THEN input[taken + i + 1] ELSE buffer[i]]
    /\ taken' = taken + got'
    /\ negative' = (buffer'[0] = Minus)
    /\ ptr' = IF negative' THEN 1 ELSE 0
    /\ pc' = "digits"
    /\ UNCHANGED <<rax, count, call, input, screen, answers, calls>>

NoNewLineBug(c) == c = Point /\ call.fn = "accio_bombarda"

EndsDigits(c) == c = NewLine \/ (c = Point /\ call.fn = "accio_bombarda")

GetDigit ==
    /\ rax' = (rax * 10 + buffer[ptr] - Zero) % WordSize
    /\ ptr' = ptr + 1
    /\ UNCHANGED <<buffer, negative>>

ReadDigit ==
    /\ pc = "digits"
    /\ ptr \in Cells
    /\ ~EndsDigits(buffer[ptr])
    /\ GetDigit
    /\ Goto("digits")
    /\ UNCHANGED count

PointKeptBug ==
    /\ pc = "digits"
    /\ ptr \in Cells
    /\ EndsDigits(buffer[ptr])
    /\ Goto(IF call.fn = "accio" THEN "negate" ELSE "precision")
    /\ UNCHANGED <<buffer, registers>>

(* .END_WHILE and .DECIMAL_POINT_REACHED; accio has no fraction.           *)
EndDigits ==
    /\ pc = "digits"
    /\ ptr \in Cells
    /\ EndsDigits(buffer[ptr])
    /\ ptr' = IF buffer[ptr] = Point THEN ptr + 1 ELSE ptr
    /\ Goto(IF call.fn = "accio" THEN "negate" ELSE "precision")
    /\ UNCHANGED <<buffer, rax, count, negative>>

(* .PARSE_PRECISION_TIMES                                                  *)
ReadFraction ==
    /\ pc = "precision"
    /\ count # 0
    /\ ptr \in Cells
    /\ buffer[ptr] # NewLine
    /\ GetDigit
    /\ count' = count - 1
    /\ Goto("precision")

EndFraction ==
    /\ pc = "precision"
    /\ count = 0 \/ (ptr \in Cells /\ buffer[ptr] = NewLine)
    /\ Goto("remaining")
    /\ UNCHANGED <<buffer, registers>>

UncountedZerosBug ==
    /\ pc = "remaining"
    /\ count # 0
    /\ rax' = (rax * 10) % WordSize
    /\ Goto("remaining")
    /\ UNCHANGED <<buffer, ptr, count, negative>>

(* .REMAINING_DIGITS                                                       *)
Remaining ==
    /\ pc = "remaining"
    /\ count # 0
    /\ rax' = (rax * 10) % WordSize
    /\ count' = count - 1
    /\ Goto("remaining")
    /\ UNCHANGED <<buffer, ptr, negative>>

EndRemaining ==
    /\ pc = "remaining"
    /\ count = 0
    /\ Goto("negate")
    /\ UNCHANGED <<buffer, registers>>

Signed(word) == IF word < WordSize \div 2 THEN word ELSE word - WordSize

Negate ==
    /\ pc = "negate"
    /\ LET result == IF negative THEN (-rax) % WordSize ELSE rax
       IN Return(screen, Append(answers, Signed(result)))
    /\ UNCHANGED registers

-----------------------------------------------------------------------------
(* crucio: a conversion to single precision, a root of that precision, a   *)
(* truncation.  Rounding is to the nearest, to the even one of two.        *)
Bits(n) == CHOOSE b \in 0..64 : n < 2 ^ b /\ (b > 0 => 2 ^ (b - 1) <= n)

FloorRoot(n) == CHOOSE r \in 0..n : r * r <= n /\ n < (r + 1) * (r + 1)

cvtsi2ss(n) ==
    LET excess == Bits(n) - FloatBits
        unit == 2 ^ excess
        up   == 2 * (n % unit) > unit \/ (2 * (n % unit) = unit /\ (n \div unit) % 2 = 1)
    IN IF excess <= 0 THEN n ELSE (n \div unit + (IF up THEN 1 ELSE 0)) * unit

(* The rounded root may be the next integer when the true one is not.      *)
cvttss2si_sqrtss(n) ==
    LET root  == FloorRoot(n)
        free  == FloatBits - Bits(root)
        unit  == 2 ^ (-free)
        below == 2 ^ (1 + free)
    IN IF free >= 0
         THEN IF n * below * below >= ((root + 1) * below - 1) * ((root + 1) * below - 1)
                THEN root + 1 ELSE root
         ELSE IF 4 * n > (2 * (root \div unit) + 1) * (2 * (root \div unit) + 1) * unit * unit
                THEN (root \div unit + 1) * unit ELSE (root \div unit) * unit

(* A negative number has no root: the processor answers with its           *)
(* "integer indefinite", the smallest word.                                *)
SquareRoot ==
    [n \in Radicands |->
        IF n < 0 THEN -(WordSize \div 2) ELSE cvttss2si_sqrtss(cvtsi2ss(n))]

EnterCrucio ==
    /\ Entering({"crucio"})
    /\ pc' = "root"
    /\ UNCHANGED registers

Crucio ==
    /\ pc = "root"
    /\ Return(screen, Append(answers, SquareRoot[call.number]))
    /\ UNCHANGED registers

-----------------------------------------------------------------------------
Touches ==
    \/ pc \in {"fraction", "point", "whole", "digits"}
    \/ pc = "sign" /\ negative
    \/ pc = "precision" /\ count # 0

(* An access outside of the buffer reads or overwrites what lies there, or *)
(* faults: nothing more is said of the program.                            *)
LeaveBuffer ==
    /\ Touches
    /\ ptr \notin Cells
    /\ Goto("outside")
    /\ UNCHANGED <<buffer, registers>>

Enter == EnterPrint \/ EnterPrintString \/ EnterRead \/ EnterCrucio

Step ==
    \/ FractionDigit \/ PutPoint \/ WholeDigit \/ PutSign \/ SkipSign \/ Write
    \/ Strlen \/ WriteString
    \/ ReadLine \/ ReadDigit \/ EndDigits
    \/ ReadFraction \/ EndFraction \/ Remaining \/ EndRemaining \/ Negate
    \/ Crucio
    \/ LeaveBuffer

Next == Enter \/ Step

(* A routine that was entered goes on; nobody has to call one.             *)
Spec == Init /\ [][Next]_vars /\ WF_vars(Step)

-----------------------------------------------------------------------------
(* Variables keep their types: no register outgrows a word.                *)
TypeOK ==
    /\ buffer \in [Cells -> Byte]
    /\ pc \in {"ready", "fraction", "point", "whole", "sign", "write", "strlen", "read",
               "digits", "precision", "remaining", "negate", "root", "outside"}
    /\ rax \in 0..(WordSize - 1)
    /\ ptr \in Nat \union {-1}
    /\ count \in 0..(WordSize - 1)
    /\ negative \in BOOLEAN
    /\ got \in 0..BufferSize
    /\ call \in Calls \union {NoCall}
    /\ taken \in 0..Len(input)

(* The line at the beginning of the buffer is all there.                   *)
LineThere == \E i \in Cells : i < got /\ buffer[i] = NewLine

(* Two uses that the routines do not survive: a precision of zero in       *)
(* flagrate-bombarda, whose loop counts 2^64 rounds then, and a read that  *)
(* gives no line, at the end of the input or of a line that is too long.   *)
Misused ==
    \/ call.fn = "flagrate_bombarda" /\ call.precision = 0
    \/ call.fn \in {"accio", "accio_bombarda"} /\ ~LineThere

(* No other call reads or writes outside of the buffer, whatever earlier   *)
(* calls have left in it.                                                  *)
StaysInBuffer == pc = "outside" => Misused

(* Each call does what the library promises.                               *)
Promise == INSTANCE Console WITH
              taken <- IF call.fn \in {"accio", "accio_bombarda"} /\ pc # "read"
                         THEN taken - got ELSE taken

ImplementsConsole == Promise!Spec

(* How many steps a routine may still take: cells that are left, digits    *)
(* that are owed.                                                          *)
StepsLeft ==
    CASE pc \in {"fraction", "point", "whole"} -> ptr + 5
      [] pc = "sign"      -> ptr + 4
      [] pc = "write"     -> ptr + 3
      [] pc = "strlen"    -> Len(call.string) - ptr + 1
      [] pc = "read"      -> BufferSize + count + 5
      [] pc = "digits"    -> BufferSize - ptr + count + 4
      [] pc = "precision" -> BufferSize - ptr + count + 3
      [] pc = "remaining" -> count + 2
      [] pc \in {"negate", "root"} -> 1
      [] OTHER -> 0

(* No loop goes round without getting closer to its end, be the routine    *)
(* misused or not and whatever the buffer holds.                           *)
EveryStepCounts == [][pc # "ready" => StepsLeft' \in Nat /\ StepsLeft' < StepsLeft]_vars

(* Every call comes to an end.                                             *)
Returns == (pc # "ready") ~> (pc \in {"ready", "outside"})
=============================================================================
