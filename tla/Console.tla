------------------------------ MODULE Console -------------------------------
(***************************************************************************)
(* What the library of potter_tongue_libs/io promises to a program: each   *)
(* call is one step that prints, reads or computes (README.md:203-237 and  *)
(* the heads of the routines).  An abstract specification, implemented by  *)
(* StdIo.                                                                  *)
(***************************************************************************)
EXTENDS Integers, Sequences

CONSTANTS
    WordSize,       \* numbers lie in -(WordSize \div 2) .. WordSize \div 2 - 1
    FloatBits,      \* bits of a single precision mantissa
    BufferSize,     \* no line is longer
    Calls,          \* [fn, number, precision, string]
    Inputs,         \* what may be typed, as sequences of characters
    MaxCalls

VARIABLES
    call,           \* the call at hand, or NoCall
    input, taken,   \* what is typed, and how many characters of it are used
    screen,         \* all that was printed
    answers,        \* all that was read or computed
    calls           \* how many calls there were

vars == <<call, input, taken, screen, answers, calls>>

NewLine == 10
Minus   == 45
Point   == 46
Zero    == 48

Words  == -(WordSize \div 2) .. (WordSize \div 2 - 1)
NoCall == [fn |-> "none", number |-> 0, precision |-> 0, string |-> <<>>]

IsDigit(c) == c \in Zero..(Zero + 9)
Magnitude(n) == IF n < 0 THEN -n ELSE n

-----------------------------------------------------------------------------
(* Digits of a natural number, and the number that digits stand for.       *)
Digits[n \in Nat] ==
    IF n < 10 THEN <<Zero + n>> ELSE Append(Digits[n \div 10], Zero + (n % 10))

ValueOf(s) ==
    LET value[i \in 0..Len(s)] == IF i = 0 THEN 0 ELSE 10 * value[i - 1] + s[i] - Zero
    IN value[Len(s)]

Sign(n) == IF n < 0 THEN <<Minus>> ELSE <<>>

Decimal(n) == Sign(n) \o Digits[Magnitude(n)]

(* The last `precision' digits stand behind the point.                     *)
Fraction(n, precision) == [i \in 1..precision |-> Zero + ((n \div 10 ^ (precision - i)) % 10)]

Fixed(n, precision) ==
    Sign(n) \o Digits[Magnitude(n) \div 10 ^ precision]
      \o <<Point>> \o Fraction(Magnitude(n), precision)

(* The line that follows the first `from' characters.                      *)
LineAfter(from) ==
    LET end == CHOOSE i \in (from + 1)..Len(input) :
                   /\ input[i] = NewLine
                   /\ \A j \in (from + 1)..(i - 1) : input[j] # NewLine
    IN SubSeq(input, from + 1, end)

HasLineAfter(from) == \E i \in (from + 1)..Len(input) : input[i] = NewLine

Unsigned(line) == IF line[1] = Minus THEN Tail(line) ELSE line

(* A line that is a number: an integer part, and for accio-bombarda a      *)
(* fraction.  Its value is scaled by the precision, missing digits are     *)
(* zero and further ones are cut off (README.md:231-237).                  *)
Splits(fn, line) ==
    LET body == Unsigned(line)
        size == Len(body) - 1
    IN {p \in 2..(size + 1) :
          /\ \A i \in 1..size : i # p => IsDigit(body[i])
          /\ p <= size => fn = "accio_bombarda" /\ body[p] = Point
          /\ size < BufferSize - 1}

NumberIn(line, split, precision) ==
    LET body     == Unsigned(line)
        zeros    == [i \in 1..precision |-> Zero]
        fraction == SubSeq(body, split + 1, Len(body) - 1) \o zeros
        value    == ValueOf(SubSeq(body, 1, split - 1) \o SubSeq(fraction, 1, precision))
    IN IF line[1] = Minus THEN -value ELSE value

(* What a read may answer: the number on the next line if it is one that   *)
(* fits a word.  Of anything else nothing is promised.                     *)
Answers(from, fn, precision) ==
    LET line   == LineAfter(from)
        values == IF HasLineAfter(from)
                    THEN {NumberIn(line, p, precision) : p \in Splits(fn, line)} \intersect Words
                    ELSE {}
    IN IF values = {} THEN Words ELSE values

(* The square root is exact as long as the number fits a mantissa; above,  *)
(* it is only near.                                                        *)
Roots(n) ==
    LET root == CHOOSE r \in 0..n : r * r <= n /\ n < (r + 1) * (r + 1)
        near == IF n < 2 ^ FloatBits THEN 0 ELSE 1 + root \div 2 ^ (FloatBits - 1)
    IN IF n < 0 THEN Words ELSE (root - near)..(root + near)

-----------------------------------------------------------------------------
Init ==
    /\ call = NoCall
    /\ input \in Inputs
    /\ taken = 0
    /\ screen = <<>>
    /\ answers = <<>>
    /\ calls = 0

Enter(c) ==
    /\ call = NoCall
    /\ calls < MaxCalls
    /\ call' = c
    /\ calls' = calls + 1
    /\ UNCHANGED <<input, taken, screen, answers>>

Says(text) ==
    /\ screen' = screen \o text
    /\ call' = NoCall
    /\ UNCHANGED <<input, taken, answers, calls>>

Answer(n) ==
    /\ answers' = Append(answers, n)
    /\ call' = NoCall
    /\ UNCHANGED <<input, screen, calls>>

Show ==
    \/ call.fn = "flagrate" /\ Says(Decimal(call.number))
    \/ call.fn = "flagrate_bombarda" /\ call.precision > 0
         /\ Says(Fixed(call.number, call.precision))
    \/ call.fn = "flagrate_s" /\ Says(call.string)

Read ==
    /\ call.fn \in {"accio", "accio_bombarda"}
    /\ \E n \in Answers(taken, call.fn, call.precision) : Answer(n)
    /\ taken' \in IF HasLineAfter(taken) /\ Len(LineAfter(taken)) <= BufferSize
                    THEN {taken + Len(LineAfter(taken))} ELSE taken..Len(input)

Root ==
    /\ call.fn = "crucio"
    /\ \E n \in Roots(call.number) : Answer(n)
    /\ UNCHANGED taken

Next == (\E c \in Calls : Enter(c)) \/ Show \/ Read \/ Root

Spec == Init /\ [][Next]_vars
=============================================================================
