--------------------------- MODULE StdIo_proofs ----------------------------
(***************************************************************************)
(* No routine of the library leaves the buffer, and together they do what  *)
(* Console promises, for every size of words and of the buffer, all        *)
(* parameters and everything that is typed.                                *)
(***************************************************************************)
EXTENDS StdIo, SequenceTheorems, WellFoundedInduction, TLAPS

Readers  == {"accio", "accio_bombarda"}
Printers == {"flagrate", "flagrate_bombarda"}

(* Which routine is at work where.                                         *)
PlaceOK ==
    /\ pc \in {"fraction", "point"} => call.fn = "flagrate_bombarda"
    /\ pc \in {"whole", "sign", "write"} => call.fn \in Printers
    /\ pc \in {"read", "digits", "negate"} => call.fn \in Readers
    /\ pc \in {"precision", "remaining"} => call.fn = "accio_bombarda"

Written == BufferSize - 1 - ptr

(* A bound of what w digits leave of a number.                             *)
Left(w) == IF w < MaxDigits THEN 10 ^ (MaxDigits - w) ELSE 1

PointSize == IF call.fn = "flagrate" THEN 0 ELSE 1

GoodPrint == call.fn = "flagrate" \/ call.precision > 0

(* Printing has used as many cells as there are digits behind it.          *)
PrintOK ==
    /\ pc = "fraction" /\ GoodPrint =>
         count \in 1..call.precision /\ Written = call.precision - count /\ rax < Left(Written)
    /\ pc = "point" /\ GoodPrint => Written = call.precision /\ rax < Left(Written)
    /\ pc = "whole" /\ GoodPrint =>
         /\ Written >= PointSize
         /\ rax < Left(Written - PointSize)
         /\ Written = call.precision + PointSize \/ rax > 0
    /\ pc = "sign" /\ GoodPrint =>
         /\ Written >= 0
         /\ \/ Written <= call.precision + PointSize + 1
            \/ Written <= MaxDigits + PointSize

(* Reading has not passed the end of the line.                             *)
ReadOK ==
    /\ pc \in {"digits", "precision"} => ptr \in Nat
    /\ pc \in {"digits", "precision"} /\ LineThere =>
         \E i \in Cells : i < got /\ buffer[i] = NewLine /\ ptr <= i

IInv == TypeOK /\ input \in Inputs /\ PlaceOK /\ PrintOK /\ ReadOK /\ StaysInBuffer

-----------------------------------------------------------------------------
(* Ten to the power of a difference, and zero.                             *)
LEMMA LeftStep ==
    ASSUME NEW w \in Nat, NEW n \in Nat, n < Left(w)
    PROVE  n \div 10 < Left(w + 1) /\ n \div 10 \in Nat /\ n \div 10 <= n
<1>1. CASE w + 1 < MaxDigits
  <2>1. 10 ^ (MaxDigits - w) = 10 * 10 ^ (MaxDigits - (w + 1))
    <3> DEFINE k == MaxDigits - (w + 1)
    <3>1. k \in 0..BufferSize /\ MaxDigits - w = k + 1
      BY <1>1, SizeAssumption DEF SizeAssumption
    <3>2. 10 ^ (k + 1) = 10 * 10 ^ k
      BY <3>1, PowerAssumption DEF PowerAssumption
    <3> QED BY <3>1, <3>2
  <2>2. 10 ^ (MaxDigits - (w + 1)) \in Nat
    BY <1>1, PowerAssumption, SizeAssumption DEF PowerAssumption, SizeAssumption
  <2> DEFINE x == 10 ^ (MaxDigits - (w + 1))
  <2>3. Left(w) = 10 * x /\ Left(w + 1) = x
    BY <2>1, <1>1, SizeAssumption DEF Left, SizeAssumption
  <2>4. x \in Nat BY <2>2
  <2> HIDE DEF x
  <2> QED BY <2>3, <2>4
<1>2. CASE w + 1 = MaxDigits
  <2>1. 10 ^ (MaxDigits - w) = 10
    <3> DEFINE k == MaxDigits - (w + 1)
    <3>1. k \in 0..BufferSize /\ MaxDigits - w = k + 1 /\ k = 0
      BY <1>2, SizeAssumption DEF SizeAssumption
    <3>2. 10 ^ (k + 1) = 10 * 10 ^ k
      BY <3>1, PowerAssumption DEF PowerAssumption
    <3>3. 10 ^ k = 1
      BY <3>1, PowerAssumption DEF PowerAssumption
    <3> QED BY <3>1, <3>2, <3>3
  <2>2. Left(w) = 10 /\ Left(w + 1) = 1
    BY <2>1, <1>2, SizeAssumption DEF Left, SizeAssumption
  <2> QED BY <2>2
<1>3. CASE w >= MaxDigits
  <2>1. Left(w) = 1 /\ Left(w + 1) = 1
    BY <1>3, SizeAssumption DEF Left, SizeAssumption
  <2> QED BY <2>1
<1> QED BY <1>1, <1>2, <1>3, SizeAssumption DEF SizeAssumption

(* What is left of a number is zero once all its digits are gone.          *)
LEMMA NothingLeft ==
    ASSUME NEW w \in Nat, NEW n \in Nat, n < Left(w), n > 0
    PROVE  w < MaxDigits
BY SizeAssumption DEF Left, SizeAssumption

(* What the parameters of a call may be.                                   *)
LEMMA CallFacts ==
    ASSUME NEW c \in Calls
    PROVE  /\ c.precision \in Nat
           /\ c.precision = 0 \/ c.precision + 3 <= BufferSize
           /\ c.fn \in {"flagrate", "crucio", "accio"} => c.precision = 0
           /\ c.fn \in Printers => c.number \in -(WordSize \div 2)..(WordSize \div 2 - 1)
           /\ c.fn = "crucio" => c.number \in Radicands
           /\ c.string \in Seq(Byte)
<1> USE SizeAssumption, InputAssumption
        DEF Calls, CallOf, Printers, SizeAssumption, InputAssumption
<1>1. CASE c \in {CallOf("flagrate", n, 0, <<>>) : n \in Numbers}
  <2>1. PICK n \in Numbers : c = CallOf("flagrate", n, 0, <<>>)
    BY <1>1
  <2> QED BY <2>1
<1>2. CASE c \in {CallOf("crucio", n, 0, <<>>) : n \in Radicands}
  <2>1. PICK n \in Radicands : c = CallOf("crucio", n, 0, <<>>)
    BY <1>2
  <2> QED BY <2>1
<1>3. CASE c \in {CallOf("flagrate_bombarda", n, p, <<>>) : n \in Numbers, p \in Precisions}
  <2>1. PICK n \in Numbers, p \in Precisions : c = CallOf("flagrate_bombarda", n, p, <<>>)
    BY <1>3
  <2> QED BY <2>1
<1>4. CASE c = CallOf("accio", 0, 0, <<>>)
  BY <1>4
<1>5. CASE c \in {CallOf("accio_bombarda", 0, p, <<>>) : p \in Precisions}
  <2>1. PICK p \in Precisions : c = CallOf("accio_bombarda", 0, p, <<>>)
    BY <1>5
  <2> QED BY <2>1
<1>6. CASE c \in {CallOf("flagrate_s", 0, 0, s) : s \in Strings}
  BY <1>6
<1> QED BY <1>1, <1>2, <1>3, <1>4, <1>5, <1>6

LEMMA InitIInv == Init => IInv
<1> SUFFICES ASSUME Init PROVE IInv
  OBVIOUS
<1>1. TypeOK
  <2>1. input \in Inputs /\ Len(input) \in Nat
    BY InputAssumption DEF Init, InputAssumption
  <2>2. buffer \in [Cells -> Byte]
    BY DEF Init, Byte
  <2>3. rax \in 0..(WordSize - 1) /\ count \in 0..(WordSize - 1) /\ got \in 0..BufferSize
    BY SizeAssumption DEF Init, SizeAssumption
  <2>4. taken \in 0..Len(input) /\ ptr \in Nat \union {-1}
    BY <2>1 DEF Init
  <2>5. call \in Calls \union {NoCall} /\ pc = "ready" /\ negative \in BOOLEAN
    BY DEF Init
  <2> QED BY <2>2, <2>3, <2>4, <2>5 DEF TypeOK
<1>2. PlaceOK /\ PrintOK /\ ReadOK /\ StaysInBuffer
  BY DEF Init, PlaceOK, PrintOK, ReadOK, StaysInBuffer
<1> QED BY <1>1, <1>2 DEF Init, IInv

(* Entering a routine.                                                     *)
LEMMA EnterStep ==
    ASSUME IInv, Enter
    PROVE  IInv'
<1>1. CASE EnterPrint
  <2> DEFINE n == call'.number
  <2>1. call' \in Calls /\ call'.fn \in Printers
    BY <1>1 DEF EnterPrint, Entering, Printers
  <2>2. n \in -(WordSize \div 2)..(WordSize \div 2 - 1)
    BY <2>1, CallFacts
  <2>3. /\ WordSize \div 2 \in Nat /\ WordSize \div 2 < WordSize
        /\ WordSize \div 2 < 10 ^ MaxDigits
    BY SizeAssumption, PowerAssumption DEF SizeAssumption, PowerAssumption
  <2>4. rax' \in 0..(WordSize - 1) /\ rax' <= WordSize \div 2
    <3>1. rax' = IF n < 0 THEN -n ELSE n
      BY <1>1 DEF EnterPrint
    <3> DEFINE h == WordSize \div 2
    <3>2. h \in Nat /\ h < WordSize /\ n \in -h..(h - 1)
      BY <2>2, <2>3
    <3> HIDE DEF n, h
    <3>3. rax' \in 0..(WordSize - 1) /\ rax' <= h
      BY <3>1, <3>2, SizeAssumption DEF SizeAssumption
    <3> QED BY <3>3 DEF h
  <2>5. rax' < Left(0)
    <3>1. Left(0) = 10 ^ MaxDigits
      <4>1. CASE MaxDigits = 0
        BY <4>1, PowerAssumption DEF PowerAssumption, Left
      <4>2. CASE MaxDigits > 0
        BY <4>2, SizeAssumption DEF SizeAssumption, Left
      <4> QED BY <4>1, <4>2, SizeAssumption DEF SizeAssumption
    <3>2. 10 ^ MaxDigits \in Nat
      BY PowerAssumption, SizeAssumption DEF PowerAssumption, SizeAssumption
    <3> DEFINE t == 10 ^ MaxDigits
    <3> DEFINE h == WordSize \div 2
    <3>3. h \in Nat /\ h < t /\ t \in Nat /\ rax' <= h /\ rax' \in Nat
      BY <2>3, <2>4, <3>2, SizeAssumption DEF SizeAssumption
    <3> HIDE DEF t, h
    <3>4. rax' < t
      BY <3>3
    <3> QED BY <3>1, <3>4 DEF t
  <2>6. /\ call'.precision \in Nat
        /\ call'.precision = 0 \/ call'.precision + 3 <= BufferSize
        /\ call'.fn = "flagrate" => call'.precision = 0
    BY <2>1, CallFacts
  <2>7. TypeOK' /\ input' \in Inputs
    BY <1>1, <2>1, <2>4, <2>6, SizeAssumption
       DEF EnterPrint, Entering, IInv, TypeOK, SizeAssumption
  <2>8. PlaceOK' /\ ReadOK' /\ StaysInBuffer'
    BY <1>1, <2>1 DEF EnterPrint, Entering, PlaceOK, ReadOK, StaysInBuffer, Printers, Readers
  <2>9. Written' = 0
    BY <1>1, SizeAssumption DEF EnterPrint, Written, SizeAssumption
  <2>10. PrintOK'
    <3>1. CASE call'.fn = "flagrate"
      <4>1. pc' = "whole" /\ PointSize' = 0 /\ call'.precision = 0
        BY <1>1, <3>1, <2>6 DEF EnterPrint, PointSize
      <4>2. (Left(Written - PointSize))' = Left(0)
        BY <4>1, <2>9 DEF Left
      <4> QED BY <4>1, <4>2, <2>5, <2>9 DEF PrintOK
    <3>2. CASE call'.fn = "flagrate_bombarda"
      <4>1. pc' = "fraction" /\ count' = call'.precision
        BY <1>1, <3>2 DEF EnterPrint
      <4>2. (Left(Written))' = Left(0)
        BY <2>9 DEF Left
      <4>3. GoodPrint' => call'.precision > 0
        BY <3>2 DEF GoodPrint
      <4> QED BY <4>1, <4>2, <4>3, <2>5, <2>6, <2>9 DEF PrintOK
    <3> QED BY <2>1, <3>1, <3>2 DEF Printers
  <2> QED BY <2>7, <2>8, <2>10 DEF IInv
<1>2. CASE EnterPrintString \/ EnterCrucio
  BY <1>2 DEF EnterPrintString, EnterCrucio, Entering, registers, IInv, TypeOK, PlaceOK, PrintOK,
              ReadOK, StaysInBuffer
<1>3. CASE EnterRead
  <2>1. call' \in Calls /\ call'.fn \in Readers
    BY <1>3 DEF EnterRead, Entering, Readers
  <2>2. count' \in 0..(WordSize - 1)
    BY <1>3, <2>1, CallFacts, SizeAssumption DEF EnterRead, SizeAssumption
  <2> QED
    BY <1>3, <2>1, <2>2, SizeAssumption
       DEF EnterRead, Entering, IInv, TypeOK, PlaceOK, PrintOK, ReadOK, StaysInBuffer, SizeAssumption
<1> QED BY <1>1, <1>2, <1>3 DEF Enter

-----------------------------------------------------------------------------
(* Printing.  Each step keeps the bound of what is still to be written.    *)
LEMMA PutFacts ==
    ASSUME IInv, PutDigit
    PROVE  /\ buffer' \in [Cells -> Byte]
           /\ ptr \in Nat /\ ptr' = ptr - 1 /\ ptr' \in Nat \union {-1}
           /\ rax' \in 0..(WordSize - 1)
           /\ Written \in Nat /\ Written' = Written + 1
           /\ rax' = rax \div 10
<1>1. rax \in Nat /\ rax < WordSize /\ rax % 10 \in 0..9 /\ rax \div 10 \in Nat /\ rax \div 10 <= rax
  BY SizeAssumption DEF IInv, TypeOK, SizeAssumption
<1>2. Zero + (rax % 10) \in Byte
  BY <1>1 DEF Zero, Byte
<1>3. buffer' \in [Cells -> Byte]
  BY <1>2 DEF PutDigit, Put, IInv, TypeOK
<1>4. ptr \in Nat /\ ptr' = ptr - 1 /\ ptr <= BufferSize - 1
  BY SizeAssumption DEF PutDigit, Put, Cells, SizeAssumption
<1>5. rax' = rax \div 10 /\ rax' \in 0..(WordSize - 1)
  BY <1>1, SizeAssumption DEF PutDigit, SizeAssumption
<1> QED BY <1>3, <1>4, <1>5, SizeAssumption DEF Written, SizeAssumption

LEMMA FractionDigitStep == ASSUME IInv, FractionDigit PROVE IInv'
<1>1. PutDigit /\ UNCHANGED <<got, call, input, taken, negative>> /\ pc = "fraction"
  BY DEF FractionDigit, Goto, world
<1>2. pc' = (IF count' = 0 THEN "point" ELSE "fraction") /\ count' = (count - 1) % WordSize
  BY DEF FractionDigit, Goto
<1>3. count \in 0..(WordSize - 1) /\ count' \in 0..(WordSize - 1)
  BY <1>2, SizeAssumption DEF IInv, TypeOK, SizeAssumption
<1>4. TypeOK' /\ input' \in Inputs
  BY <1>1, <1>2, <1>3, PutFacts DEF IInv, TypeOK
<1>5. PlaceOK' /\ ReadOK' /\ StaysInBuffer'
  BY <1>1, <1>2 DEF IInv, PlaceOK, ReadOK, StaysInBuffer
<1>6. ASSUME GoodPrint
      PROVE  /\ pc' = "fraction" => count' \in 1..call.precision /\ Written' = call.precision - count'
             /\ pc' = "point" => Written' = call.precision
             /\ rax' < Left(Written')
  <2>1. /\ count \in 1..call.precision /\ Written = call.precision - count
        /\ rax < Left(Written)
    BY <1>1, <1>6 DEF IInv, PrintOK
  <2>2. call.precision \in Nat
    BY <2>1, CallFacts DEF IInv, TypeOK, NoCall
  <2>3. count' = count - 1
    BY <1>2, <1>3, <2>1, SizeAssumption DEF SizeAssumption
  <2>4. rax' < Left(Written + 1)
    BY <2>1, <1>1, LeftStep, PutFacts, SizeAssumption DEF IInv, TypeOK, SizeAssumption
  <2> QED BY <1>1, <1>2, <2>1, <2>2, <2>3, <2>4, PutFacts
<1>7. GoodPrint' = GoodPrint /\ call'.precision = call.precision
  BY <1>1 DEF GoodPrint
<1>8. (Left(Written))' = Left(Written')
  BY DEF Left
<1>9. PrintOK'
  BY <1>1, <1>2, <1>6, <1>7, <1>8 DEF PrintOK
<1> QED BY <1>4, <1>5, <1>9 DEF IInv

LEMMA PutPointStep == ASSUME IInv, PutPoint PROVE IInv'
<1>1. /\ pc = "point" /\ pc' = "whole" /\ ptr \in Cells /\ ptr' = ptr - 1
      /\ UNCHANGED <<got, call, input, taken, rax, count, negative>>
  BY DEF PutPoint, Put, Goto, world
<1>2. buffer' \in [Cells -> Byte]
  BY DEF PutPoint, Put, Point, Byte, IInv, TypeOK
<1>3. TypeOK' /\ input' \in Inputs
  BY <1>1, <1>2, SizeAssumption DEF IInv, TypeOK, Cells, SizeAssumption
<1>4. PlaceOK' /\ ReadOK' /\ StaysInBuffer'
  BY <1>1 DEF IInv, PlaceOK, ReadOK, StaysInBuffer, Printers
<1>5. call.fn = "flagrate_bombarda" /\ call'.fn = "flagrate_bombarda"
  BY <1>1 DEF IInv, PlaceOK
<1>6. Written' = Written + 1 /\ Written \in Nat
  BY <1>1, SizeAssumption DEF Written, Cells, SizeAssumption
<1>7. ASSUME GoodPrint'
      PROVE  Written' >= 1 /\ rax' < Left(Written' - 1) /\ Written' = call'.precision + 1
  <2>1. Written = call.precision /\ rax < Left(Written)
    BY <1>1, <1>7 DEF GoodPrint, IInv, PrintOK
  <2>2. Written' - 1 = Written
    BY <1>6
  <2> QED BY <2>1, <2>2, <1>1, <1>6
<1>8. PointSize' = 1 /\ (Left(Written - PointSize))' = Left(Written' - 1)
  BY <1>5 DEF PointSize, Left
<1>9. PrintOK'
  BY <1>1, <1>7, <1>8 DEF PrintOK
<1> QED BY <1>3, <1>4, <1>9 DEF IInv

LEMMA WholeDigitStep == ASSUME IInv, WholeDigit PROVE IInv'
<1>1. /\ PutDigit /\ UNCHANGED <<got, call, input, taken, count, negative>> /\ pc = "whole"
      /\ pc' = (IF rax' = 0 THEN "sign" ELSE "whole")
  BY DEF WholeDigit, Goto, world
<1>2. TypeOK' /\ input' \in Inputs
  BY <1>1, PutFacts DEF IInv, TypeOK
<1>3. PlaceOK' /\ ReadOK' /\ StaysInBuffer'
  BY <1>1 DEF IInv, PlaceOK, ReadOK, StaysInBuffer
<1>4. /\ PointSize \in {0, 1} /\ PointSize' = PointSize /\ GoodPrint' = GoodPrint
      /\ (Left(Written - PointSize))' = Left(Written' - PointSize)
      /\ call'.precision = call.precision
  BY <1>1 DEF PointSize, GoodPrint, Left
<1>5. ASSUME GoodPrint
      PROVE  /\ Written' \in Nat /\ Written' >= PointSize
             /\ rax' < Left(Written' - PointSize)
             /\ Written' <= call.precision + PointSize + 1 \/ Written' <= MaxDigits + PointSize
  <2> DEFINE w == Written - PointSize
  <2>1. /\ w \in Nat /\ rax < Left(w) /\ Written = w + PointSize
        /\ Written = call.precision + PointSize \/ rax > 0
    BY <1>1, <1>4, <1>5, PutFacts DEF IInv, PrintOK
  <2>2. rax \in Nat
    BY SizeAssumption DEF IInv, TypeOK, SizeAssumption
  <2>3. rax' < Left(w + 1) /\ (rax > 0 => w < MaxDigits)
    <3> HIDE DEF w
    <3> QED BY <1>1, <2>1, <2>2, LeftStep, NothingLeft, PutFacts
  <2>4. Written' = Written + 1 /\ Written \in Nat /\ Written' - PointSize = w + 1
    BY <1>1, <1>4, <2>1, PutFacts
  <2>5. call.precision \in Nat
    BY CallFacts DEF IInv, TypeOK, NoCall
  <2> HIDE DEF w
  <2> QED BY <1>4, <2>1, <2>3, <2>4, <2>5, SizeAssumption DEF SizeAssumption
<1>6. PrintOK'
  <2>1. rax' \in Nat
    BY <1>1, PutFacts, SizeAssumption DEF SizeAssumption
  <2> QED BY <1>1, <1>4, <1>5, <2>1 DEF PrintOK
<1> QED BY <1>2, <1>3, <1>6 DEF IInv

LEMMA EndPrintStep ==
    ASSUME IInv, PutSign \/ SkipSign \/ Write \/ Strlen \/ WriteString \/ Crucio
    PROVE  IInv'
<1>1. CASE PutSign
  <2>1. buffer' \in [Cells -> Byte]
    BY <1>1 DEF PutSign, Put, Minus, Byte, IInv, TypeOK
  <2>2. ptr' \in Nat \union {-1}
    BY <1>1, SizeAssumption DEF PutSign, Put, Cells, SizeAssumption
  <2> QED BY <1>1, <2>1, <2>2 DEF PutSign, Goto, world, IInv, TypeOK, PlaceOK, PrintOK, ReadOK, StaysInBuffer
<1>2. CASE SkipSign
  BY <1>2 DEF SkipSign, Goto, world, registers, IInv, TypeOK, PlaceOK, PrintOK, ReadOK, StaysInBuffer
<1>3. CASE Write \/ WriteString \/ Crucio
  BY <1>3 DEF Write, WriteString, Crucio, Return, registers, IInv, TypeOK, PlaceOK, PrintOK, ReadOK,
              StaysInBuffer
<1>4. CASE Strlen
  <2>1. ptr' \in Nat \union {-1}
    BY <1>4 DEF Strlen, IInv, TypeOK
  <2> QED BY <1>4, <2>1 DEF Strlen, Goto, world, IInv, TypeOK, PlaceOK, PrintOK, ReadOK, StaysInBuffer
<1> QED BY <1>1, <1>2, <1>3, <1>4

-----------------------------------------------------------------------------
(* Reading.  The new line that the read has given stays ahead.             *)
LEMMA ReadLineStep == ASSUME IInv, ReadLine PROVE IInv'
<1>1. input \in Seq(Byte) /\ Len(input) \in Nat /\ taken \in 0..Len(input)
  BY InputAssumption DEF IInv, TypeOK, InputAssumption
<1>2. got' \in 0..BufferSize /\ taken + got' <= Len(input)
  BY <1>1, SizeAssumption DEF ReadLine, ReadSizes, SizeAssumption
<1>3. taken' \in 0..Len(input)
  BY <1>1, <1>2, SizeAssumption DEF ReadLine, SizeAssumption
<1>4. buffer' \in [Cells -> Byte]
  <2>1. \A i \in Cells : i < got' => input[taken + i + 1] \in Byte
    BY <1>1, <1>2, SizeAssumption DEF Cells, SizeAssumption
  <2> QED BY <2>1 DEF ReadLine, IInv, TypeOK
<1>5. /\ pc = "read" /\ pc' = "digits" /\ ptr' \in {0, 1} /\ negative' \in BOOLEAN
      /\ ptr' = 1 => buffer'[0] = Minus
      /\ UNCHANGED <<rax, count, call, input>>
  <2>1. negative' = (buffer'[0] = Minus) /\ ptr' = (IF negative' THEN 1 ELSE 0)
    BY DEF ReadLine
  <2>2. CASE buffer'[0] = Minus
    <3>1. negative' = TRUE
      BY <2>1, <2>2, Zenon
    <3>2. ptr' = 1
      BY <2>1, <3>1, Zenon
    <3>3. pc = "read" /\ pc' = "digits" /\ UNCHANGED <<rax, count, call, input>>
      BY Zenon DEF ReadLine
    <3> QED BY <2>2, <3>1, <3>2, <3>3
  <2>3. CASE buffer'[0] # Minus
    <3>1. negative' = FALSE
      BY <2>1, <2>3, Zenon
    <3>2. ptr' = 0
      BY <2>1, <3>1, Zenon
    <3>3. pc = "read" /\ pc' = "digits" /\ UNCHANGED <<rax, count, call, input>>
      BY Zenon DEF ReadLine
    <3>4. ptr' \in {0, 1} /\ ptr' # 1
      BY <3>2
    <3>5. negative' \in BOOLEAN
      BY <3>1, Zenon
    <3> QED BY <3>3, <3>4, <3>5, Zenon
  <2> QED BY <2>2, <2>3
<1>6. TypeOK' /\ input' \in Inputs
  BY <1>2, <1>3, <1>4, <1>5 DEF IInv, TypeOK
<1>7. \A i \in Cells : buffer'[i] = NewLine => ptr' <= i
  BY <1>5, SizeAssumption DEF Minus, NewLine, Cells, SizeAssumption
<1>8. ReadOK'
  BY <1>5, <1>7 DEF ReadOK, LineThere
<1>9. PlaceOK' /\ PrintOK' /\ StaysInBuffer'
  BY <1>5 DEF IInv, PlaceOK, PrintOK, StaysInBuffer
<1> QED BY <1>6, <1>8, <1>9 DEF IInv

(* A cell that is no new line is passed.                                   *)
LEMMA Passed ==
    ASSUME IInv, pc \in {"digits", "precision"}, ptr \in Cells, buffer[ptr] # NewLine,
           LineThere
    PROVE  \E i \in Cells : i < got /\ buffer[i] = NewLine /\ ptr + 1 <= i
<1>1. PICK i \in Cells : i < got /\ buffer[i] = NewLine /\ ptr <= i
  BY DEF IInv, ReadOK
<1>2. ptr + 1 <= i
  BY <1>1, SizeAssumption DEF Cells, SizeAssumption
<1> QED BY <1>1, <1>2

LEMMA ReadDigitStep == ASSUME IInv, ReadDigit \/ EndDigits \/ ReadFraction PROVE IInv'
<1>1. /\ pc \in {"digits", "precision"} /\ ptr \in Cells /\ ptr \in Nat
      /\ UNCHANGED <<buffer, got, call, input, taken, negative>>
  BY SizeAssumption
     DEF ReadDigit, EndDigits, ReadFraction, GetDigit, Goto, world, Cells, SizeAssumption
<1>2. rax' \in 0..(WordSize - 1)
  <2>1. buffer[ptr] \in Byte
    BY <1>1 DEF IInv, TypeOK
  <2>2. (rax * 10 + buffer[ptr] - Zero) % WordSize \in 0..(WordSize - 1)
    <3> DEFINE x == rax * 10 + buffer[ptr] - Zero
    <3>1. x \in Int
      <4>1. rax \in Int /\ buffer[ptr] \in Int
        <5>1. rax \in Int
          BY SizeAssumption DEF IInv, TypeOK, SizeAssumption
        <5> QED BY <2>1, <5>1 DEF Byte
      <4> QED BY <4>1 DEF Zero
    <3> HIDE DEF x
    <3>2. WordSize \in Nat /\ WordSize > 0
      BY SizeAssumption DEF SizeAssumption
    <3>3. x % WordSize \in 0..(WordSize - 1)
      BY <3>1, <3>2
    <3> QED BY <3>3 DEF x
  <2> QED BY <2>2 DEF ReadDigit, EndDigits, ReadFraction, GetDigit, IInv, TypeOK
<1>3. count' \in 0..(WordSize - 1)
  BY SizeAssumption DEF ReadDigit, EndDigits, ReadFraction, IInv, TypeOK, SizeAssumption
<1>4. \/ ptr' = ptr + 1 /\ buffer[ptr] # NewLine
      \/ ptr' = ptr
  BY DEF ReadDigit, EndDigits, ReadFraction, GetDigit, EndsDigits, NewLine, Point
<1>5. pc' \in {"digits", "precision", "negate"}
  BY DEF ReadDigit, EndDigits, ReadFraction, Goto
<1>6. TypeOK' /\ input' \in Inputs
  BY <1>1, <1>2, <1>3, <1>4, <1>5 DEF IInv, TypeOK
<1>7. ReadOK'
  <2>1. ptr' \in Nat
    BY <1>1, <1>4
  <2>2. LineThere' = LineThere
    BY <1>1 DEF LineThere
  <2>3. ASSUME LineThere PROVE \E i \in Cells : i < got /\ buffer[i] = NewLine /\ ptr' <= i
    BY <1>1, <1>4, <2>3, Passed DEF IInv, ReadOK
  <2> QED BY <1>1, <2>1, <2>2, <2>3 DEF ReadOK
<1>8. PlaceOK'
  BY <1>1 DEF ReadDigit, EndDigits, ReadFraction, EndsDigits, Goto, IInv, PlaceOK, Readers
<1>9. PrintOK' /\ StaysInBuffer'
  BY <1>5 DEF PrintOK, StaysInBuffer
<1> QED BY <1>6, <1>7, <1>8, <1>9 DEF IInv

LEMMA EndReadStep ==
    ASSUME IInv, EndFraction \/ Remaining \/ EndRemaining \/ Negate
    PROVE  IInv'
<1>1. CASE EndFraction \/ EndRemaining
  BY <1>1 DEF EndFraction, EndRemaining, Goto, world, registers, IInv, TypeOK, PlaceOK, PrintOK,
              ReadOK, StaysInBuffer, Readers
<1>2. CASE Remaining
  <2>1. rax' \in 0..(WordSize - 1) /\ count' \in 0..(WordSize - 1)
    BY <1>2, SizeAssumption DEF Remaining, IInv, TypeOK, SizeAssumption
  <2> QED BY <1>2, <2>1 DEF Remaining, Goto, world, IInv, TypeOK, PlaceOK, PrintOK, ReadOK, StaysInBuffer
<1>3. CASE Negate
  BY <1>3 DEF Negate, Return, registers, IInv, TypeOK, PlaceOK, PrintOK, ReadOK, StaysInBuffer
<1> QED BY <1>1, <1>2, <1>3

-----------------------------------------------------------------------------
(* Only a misused routine leaves the buffer.                               *)
LEMMA LeaveStep == ASSUME IInv, LeaveBuffer PROVE IInv'
<1>1. ~Misused => FALSE
  <2> SUFFICES ASSUME ~Misused PROVE ptr \in Cells
    BY DEF LeaveBuffer
  <2>1. Touches
    BY DEF LeaveBuffer
  <2>2. /\ call.precision \in Nat /\ ptr \in Int
        /\ call.precision = 0 \/ call.precision + 3 <= BufferSize
        /\ call.fn = "flagrate" => call.precision = 0
    BY CallFacts, SizeAssumption DEF IInv, TypeOK, NoCall, SizeAssumption
  <2>3. CASE pc \in {"fraction", "point", "whole", "sign"}
    <3>1. GoodPrint /\ call.fn \in Printers
      BY <2>2, <2>3 DEF Misused, GoodPrint, IInv, PlaceOK, Printers
    <3>2. PointSize \in {0, 1} /\ (call.precision = 0 => PointSize = 0)
      BY <3>1, <2>2 DEF PointSize, GoodPrint
    <3>3. CASE pc \in {"fraction", "point"}
      BY <3>1, <3>3, <2>2, SizeAssumption DEF IInv, PrintOK, Written, Cells, SizeAssumption
    <3>4. CASE pc = "whole"
      <4> DEFINE w == Written - PointSize
      <4>1. /\ Written >= PointSize /\ rax < Left(w)
            /\ Written = call.precision + PointSize \/ rax > 0
        BY <3>1, <3>4 DEF IInv, PrintOK
      <4>2. w \in Nat /\ rax \in Nat
        BY <4>1, <3>2, <2>2, SizeAssumption DEF Written, IInv, TypeOK, SizeAssumption
      <4>3. rax > 0 => w < MaxDigits
        <5> HIDE DEF w
        <5> QED BY <4>1, <4>2, NothingLeft
      <4> QED BY <4>1, <4>2, <4>3, <3>2, <2>2, SizeAssumption DEF Written, Cells, SizeAssumption
    <3>5. CASE pc = "sign"
      BY <3>1, <3>2, <3>5, <2>2, SizeAssumption DEF IInv, PrintOK, Written, Cells, SizeAssumption
    <3> QED BY <2>3, <3>3, <3>4, <3>5
  <2>4. CASE pc \in {"digits", "precision"}
    <3>1. LineThere
      BY <2>4 DEF Misused, IInv, PlaceOK, Readers
    <3> QED BY <3>1, <2>4, SizeAssumption DEF IInv, ReadOK, Cells, SizeAssumption
  <2> QED BY <2>1, <2>3, <2>4 DEF Touches
<1>2. pc' = "outside" /\ UNCHANGED <<buffer, registers, got, call, world>>
  BY DEF LeaveBuffer, Goto
<1>3. Misused' = Misused
  BY <1>2 DEF Misused, LineThere
<1> QED BY <1>1, <1>2, <1>3
        DEF IInv, TypeOK, PlaceOK, PrintOK, ReadOK, StaysInBuffer, registers, world

LEMMA NextStep == IInv /\ [Next]_vars => IInv'
<1> SUFFICES ASSUME IInv, [Next]_vars PROVE IInv'
  OBVIOUS
<1>1. CASE Next
  BY <1>1, EnterStep, FractionDigitStep, PutPointStep, WholeDigitStep, EndPrintStep, ReadLineStep,
     ReadDigitStep, EndReadStep, LeaveStep DEF Next, Step
<1>2. CASE UNCHANGED vars
  BY <1>2 DEF vars, registers, world, IInv, TypeOK, PlaceOK, PrintOK, ReadOK, StaysInBuffer, Misused,
              LineThere, Written, PointSize, GoodPrint, Left
<1> QED BY <1>1, <1>2

LEMMA InvariantHolds == Spec => []IInv
BY InitIInv, NextStep, PTL DEF Spec

(* Variables keep their types, for all words, buffers and inputs.          *)
THEOREM TypeCorrect == Spec => []TypeOK
<1>1. IInv => TypeOK
  BY DEF IInv
<1> QED BY <1>1, InvariantHolds, PTL

(* Whatever was printed and read before, no routine reads or writes        *)
(* outside of the buffer, but for the two misuses: 512 bytes suffice for   *)
(* any 64-bit number with up to 509 digits behind the point.               *)
THEOREM BufferSuffices == Spec => []StaysInBuffer
<1>1. IInv => StaysInBuffer
  BY DEF IInv
<1> QED BY <1>1, InvariantHolds, PTL
-----------------------------------------------------------------------------
(* The pointer never passes the end of what it runs over.                  *)
RoundOK ==
    /\ pc = "strlen" => ptr \in 0..Len(call.string)
    /\ pc \in {"digits", "precision"} => ptr \in 0..BufferSize

LEMMA RoundStep ==
    ASSUME IInv, RoundOK, Next
    PROVE  RoundOK'
<1>1. BufferSize \in Nat /\ BufferSize >= 2
  BY SizeAssumption DEF SizeAssumption
<1>2. CASE EnterPrintString
  <2>1. pc' = "strlen" /\ ptr' = 0 /\ call' \in Calls
    BY <1>2 DEF EnterPrintString, Entering
  <2>2. Len(call'.string) \in Nat
    BY <2>1, CallFacts
  <2> QED BY <2>1, <2>2 DEF RoundOK
<1>3. CASE Strlen
  <2>1. pc = "strlen" /\ pc' = "strlen" /\ ptr' = ptr + 1 /\ call' = call /\ ptr # Len(call.string)
    BY <1>3 DEF Strlen, StringByte, Goto
  <2>2. Len(call.string) \in Nat
    BY CallFacts DEF IInv, TypeOK, NoCall
  <2> QED BY <2>1, <2>2 DEF RoundOK
<1>4. CASE ReadLine
  <2>1. pc' = "digits" /\ (ptr' = 0 \/ ptr' = 1)
    BY <1>4, Zenon DEF ReadLine
  <2> QED BY <1>1, <2>1 DEF RoundOK
<1>5. CASE ReadDigit \/ EndDigits \/ ReadFraction
  <2>1. /\ pc \in {"digits", "precision"} /\ ptr \in Cells /\ (ptr' = ptr \/ ptr' = ptr + 1)
        /\ pc' # "strlen"
    BY <1>5 DEF ReadDigit, EndDigits, ReadFraction, GetDigit, Goto
  <2> QED BY <1>1, <2>1 DEF RoundOK, Cells
<1>6. CASE EnterPrint \/ EnterRead \/ EnterCrucio
  <2>1. pc' \notin {"strlen", "digits", "precision"}
    BY <1>6 DEF EnterPrint, EnterRead, EnterCrucio
  <2> QED BY <2>1 DEF RoundOK
<1>7. CASE \/ FractionDigit \/ PutPoint \/ WholeDigit \/ PutSign \/ SkipSign \/ Write \/ WriteString
           \/ EndFraction \/ Remaining \/ EndRemaining \/ Negate \/ Crucio \/ LeaveBuffer
  <2>1. pc' \notin {"strlen", "digits", "precision"}
    BY <1>7 DEF FractionDigit, PutPoint, WholeDigit, PutSign, SkipSign, Write, WriteString,
                EndFraction, Remaining, EndRemaining, Negate, Crucio, LeaveBuffer, Goto, Return
  <2> QED BY <2>1 DEF RoundOK
<1> QED BY <1>2, <1>3, <1>4, <1>5, <1>6, <1>7 DEF Next, Enter, Step

LEMMA RoundsHold == Spec => [](IInv /\ RoundOK)
<1>1. Init => IInv /\ RoundOK
  BY InitIInv DEF Init, RoundOK
<1>2. IInv /\ RoundOK /\ [Next]_vars => (IInv /\ RoundOK)'
  <2> SUFFICES ASSUME IInv, RoundOK, [Next]_vars PROVE RoundOK'
    BY NextStep
  <2>1. CASE Next
    BY <2>1, RoundStep
  <2>2. CASE UNCHANGED vars
    BY <2>2 DEF vars, registers, RoundOK
  <2> QED BY <2>1, <2>2
<1> QED BY <1>1, <1>2, PTL DEF Spec

(* What is left at each place.                                             *)
LEMMA StepsLeftIs ==
    /\ pc \in {"fraction", "point", "whole"} => StepsLeft = ptr + 5
    /\ pc = "sign" => StepsLeft = ptr + 4
    /\ pc = "write" => StepsLeft = ptr + 3
    /\ pc = "strlen" => StepsLeft = Len(call.string) - ptr + 1
    /\ pc = "read" => StepsLeft = BufferSize + count + 5
    /\ pc = "digits" => StepsLeft = BufferSize - ptr + count + 4
    /\ pc = "precision" => StepsLeft = BufferSize - ptr + count + 3
    /\ pc = "remaining" => StepsLeft = count + 2
    /\ pc \in {"negate", "root"} => StepsLeft = 1
    /\ pc \in {"ready", "outside"} => StepsLeft = 0
BY DEF StepsLeft

LEMMA StepsLeftAfter ==
    /\ pc' \in {"fraction", "point", "whole"} => StepsLeft' = ptr' + 5
    /\ pc' = "sign" => StepsLeft' = ptr' + 4
    /\ pc' = "write" => StepsLeft' = ptr' + 3
    /\ pc' = "strlen" => StepsLeft' = Len(call'.string) - ptr' + 1
    /\ pc' = "read" => StepsLeft' = BufferSize + count' + 5
    /\ pc' = "digits" => StepsLeft' = BufferSize - ptr' + count' + 4
    /\ pc' = "precision" => StepsLeft' = BufferSize - ptr' + count' + 3
    /\ pc' = "remaining" => StepsLeft' = count' + 2
    /\ pc' \in {"negate", "root"} => StepsLeft' = 1
    /\ pc' \in {"ready", "outside"} => StepsLeft' = 0
BY DEF StepsLeft

LEMMA StepCounts ==
    ASSUME IInv, RoundOK, IInv', RoundOK', Step
    PROVE  StepsLeft' \in Nat /\ StepsLeft' < StepsLeft
<1>1. /\ BufferSize \in Nat /\ ptr \in Int /\ ptr >= -1 /\ ptr' \in Int /\ ptr' >= -1
      /\ count \in Nat /\ count' \in Nat
  <2>1. ptr \in Nat \union {-1} /\ ptr' \in Nat \union {-1}
    BY DEF IInv, TypeOK
  <2>2. BufferSize \in Nat /\ count \in Nat /\ count' \in Nat
    BY SizeAssumption DEF IInv, TypeOK, SizeAssumption
  <2> QED BY <2>1, <2>2
<1>2. Len(call.string) \in Nat
  BY CallFacts DEF IInv, TypeOK, NoCall
<1>3. pc \notin {"ready", "outside"} => StepsLeft >= 1 /\ StepsLeft \in Nat
  <2>1. CASE pc \in {"fraction", "point", "whole", "sign", "write"}
    <3>1. StepsLeft = ptr + 5 \/ StepsLeft = ptr + 4 \/ StepsLeft = ptr + 3
      BY <2>1, StepsLeftIs
    <3> QED BY <3>1, <1>1
  <2>2. CASE pc = "strlen"
    BY <2>2, <1>1, <1>2, StepsLeftIs DEF RoundOK
  <2>3. CASE pc = "read"
    <3>1. StepsLeft = BufferSize + count + 5
      BY <2>3, StepsLeftIs
    <3> QED BY <3>1, <1>1
  <2>4. CASE pc \in {"digits", "precision"}
    <3>1. ptr \in 0..BufferSize
      BY <2>4 DEF RoundOK
    <3>2. \/ StepsLeft = BufferSize - ptr + count + 4
          \/ StepsLeft = BufferSize - ptr + count + 3
      BY <2>4, StepsLeftIs
    <3> QED BY <3>1, <3>2, <1>1
  <2>5. CASE pc = "remaining"
    BY <2>5, <1>1, StepsLeftIs
  <2>6. CASE pc \in {"negate", "root"}
    BY <2>6, StepsLeftIs
  <2> QED BY <2>1, <2>2, <2>3, <2>4, <2>5, <2>6 DEF IInv, TypeOK
<1>4. CASE FractionDigit \/ PutPoint \/ WholeDigit
  <2>1. /\ pc \in {"fraction", "point", "whole"} /\ ptr' = ptr - 1
        /\ pc' \in {"fraction", "point", "whole", "sign"}
    BY <1>4 DEF FractionDigit, PutPoint, WholeDigit, PutDigit, Put, Goto
  <2> QED BY <2>1, <1>1, StepsLeftIs, StepsLeftAfter
<1>5. CASE PutSign \/ SkipSign
  <2>1. pc = "sign" /\ pc' = "write" /\ (ptr' = ptr - 1 \/ ptr' = ptr)
    BY <1>5 DEF PutSign, SkipSign, Put, Goto, registers
  <2>2. StepsLeft = ptr + 4 /\ StepsLeft' = ptr' + 3
    BY <2>1, StepsLeftIs, StepsLeftAfter, Zenon
  <2>3. ptr' <= ptr
    BY <2>1, <1>1
  <2>4. ptr' + 3 \in Nat /\ ptr' + 3 < ptr + 4
    <3>1. \A x, y \in Int : x >= -1 /\ x <= y => x + 3 \in Nat /\ x + 3 < y + 4
      OBVIOUS
    <3> QED BY <3>1, <2>3, <1>1
  <2> QED BY <2>2, <2>4, Zenon
<1>6. CASE Write \/ WriteString \/ Negate \/ Crucio \/ LeaveBuffer
  <2>1. pc' \in {"ready", "outside"} /\ pc \notin {"ready", "outside"}
    BY <1>6 DEF Write, WriteString, Negate, Crucio, LeaveBuffer, Touches, Return, Goto
  <2>2. StepsLeft' = 0
    BY <2>1, StepsLeftAfter
  <2> QED BY <2>1, <2>2, <1>3
<1>7. CASE Strlen
  <2>1. pc = "strlen" /\ pc' = "strlen" /\ ptr' = ptr + 1 /\ call' = call
    BY <1>7 DEF Strlen, Goto
  <2>2. StepsLeft = Len(call.string) - ptr + 1 /\ StepsLeft' = Len(call'.string) - ptr' + 1
    BY <2>1, StepsLeftIs, StepsLeftAfter, Zenon
  <2>3. Len(call'.string) = Len(call.string) /\ ptr' \in 0..Len(call.string)
    BY <2>1 DEF RoundOK
  <2> QED BY <2>1, <2>2, <2>3, <1>1, <1>2
<1>8. CASE ReadLine
  <2>1. pc = "read" /\ pc' = "digits" /\ count' = count
    BY <1>8, Zenon DEF ReadLine
  <2>2. StepsLeft = BufferSize + count + 5 /\ StepsLeft' = BufferSize - ptr' + count' + 4
    BY <2>1, StepsLeftIs, StepsLeftAfter, Zenon
  <2>3. ptr' \in 0..BufferSize
    BY <2>1 DEF RoundOK
  <2>4. \A b, c \in Nat : \A x \in 0..b : b - x + c + 4 \in Nat /\ b - x + c + 4 < b + c + 5
    OBVIOUS
  <2> QED BY <2>1, <2>2, <2>3, <2>4, <1>1
<1>9. CASE ReadDigit
  <2>1. pc = "digits" /\ pc' = "digits" /\ ptr' = ptr + 1 /\ count' = count
    BY <1>9 DEF ReadDigit, GetDigit, Goto
  <2> QED BY <2>1, <1>1, StepsLeftIs, StepsLeftAfter DEF RoundOK
<1>10. CASE EndDigits
  <2>1. /\ pc = "digits" /\ pc' \in {"negate", "precision"} /\ (ptr' = ptr \/ ptr' = ptr + 1)
        /\ count' = count
    BY <1>10 DEF EndDigits, Goto
  <2> QED BY <2>1, <1>1, StepsLeftIs, StepsLeftAfter DEF RoundOK
<1>11. CASE ReadFraction
  <2>1. pc = "precision" /\ pc' = "precision" /\ ptr' = ptr + 1 /\ count' = count - 1
    BY <1>11 DEF ReadFraction, GetDigit, Goto
  <2> QED BY <2>1, <1>1, StepsLeftIs, StepsLeftAfter DEF RoundOK
<1>12. CASE EndFraction
  <2>1. pc = "precision" /\ pc' = "remaining" /\ count' = count
    BY <1>12 DEF EndFraction, Goto, registers
  <2> QED BY <2>1, <1>1, StepsLeftIs, StepsLeftAfter DEF RoundOK
<1>13. CASE Remaining \/ EndRemaining
  <2>1. /\ pc = "remaining"
        /\ \/ pc' = "remaining" /\ count' = count - 1
           \/ pc' = "negate"
    BY <1>13 DEF Remaining, EndRemaining, Goto
  <2> QED BY <2>1, <1>1, StepsLeftIs, StepsLeftAfter
<1> QED BY <1>4, <1>5, <1>6, <1>7, <1>8, <1>9, <1>10, <1>11, <1>12, <1>13 DEF Step

(* Every round of every loop is counted: no call of the library goes on    *)
(* for ever, whatever the numbers, the buffer's old bytes and the line.    *)
THEOREM LoopsComeToAnEnd == Spec => EveryStepCounts
<1>1. /\ IInv /\ RoundOK /\ (IInv /\ RoundOK)' /\ [Next]_vars
      => [pc # "ready" => StepsLeft' \in Nat /\ StepsLeft' < StepsLeft]_vars
  <2> SUFFICES ASSUME IInv, RoundOK, (IInv /\ RoundOK)', Next, pc # "ready"
               PROVE  StepsLeft' \in Nat /\ StepsLeft' < StepsLeft
    BY Zenon
  <2>1. ~Enter
    BY DEF Enter, EnterPrint, EnterPrintString, EnterRead, EnterCrucio, Entering
  <2> QED BY <2>1, StepCounts DEF Next
<1> QED BY <1>1, RoundsHold, PTL DEF Spec, EveryStepCounts

-----------------------------------------------------------------------------
(* The routines of the library implement Console, for every size of words  *)
(* and of the buffer, all parameters and all lines.  An invariant relates  *)
(* the registers to what the call promises: what is behind the pointer and *)
(* what rax still holds make up the number to print (ShownOK); rax has the *)
(* value of what was read of a line, modulo the size of a word, however    *)
(* the line splits at its point (ReadMeant).  Digits and values are        *)
(* recursive functions; that they are what their definitions say, and the  *)
(* inductions over them, come from least counterexamples.                  *)
(*                                                                         *)
(* Numerals in the statements: 48 is the digit 0, 46 the point, 45 the     *)
(* minus, 10 the end of a line.                                            *)

(* A set of numbers has a least one.                                       *)
LEMMA Least ==
    ASSUME NEW T \in SUBSET Nat, T # {}
    PROVE  \E n \in T : \A m \in T : n <= m
<1> DEFINE R == OpToRel(<, Nat)
<1>1. IsWellFoundedOn(R, Nat)
  BY NatLessThanWellFounded
<1>2. \A y, x \in Nat : <<y, x>> \in R <=> y < x
  BY DEF OpToRel
<1> HIDE DEF R
<1>3. PICK x \in T : \A y \in T : ~(<<y, x>> \in R)
  BY <1>1, WFMin
<1>4. \A y \in T : ~(y < x)
  BY <1>2, <1>3
<1> QED BY <1>4

(* Induction, for a set rather than a predicate.                           *)
LEMMA Induction ==
    ASSUME NEW S, 0 \in S, \A k \in Nat : k \in S => k + 1 \in S
    PROVE  \A k \in Nat : k \in S
<1> SUFFICES ASSUME NEW k \in Nat, k \notin S PROVE FALSE
  OBVIOUS
<1> DEFINE T == {n \in Nat : n \notin S}
<1>1. T \in SUBSET Nat /\ T # {}
  OBVIOUS
<1>2. PICK n \in T : \A m \in T : n <= m
  BY <1>1, Least
<1>3. n \in Nat /\ n # 0 /\ n - 1 \in Nat /\ ~(n <= n - 1) /\ n - 1 + 1 = n
  OBVIOUS
<1>4. n - 1 \in S
  BY <1>2, <1>3
<1> QED BY <1>3, <1>4

-----------------------------------------------------------------------------
(* The function Digits is what its definition says.                        *)
DigitsTo(f, n) ==
    f = [i \in 0..n |-> IF i < 10 THEN <<48 + i>> ELSE Append(f[i \div 10], 48 + (i % 10))]

(* A number without its last digit is less.                                *)
LEMMA Tenth ==
    ASSUME NEW i \in Nat, i >= 10
    PROVE  i \div 10 \in Nat /\ i \div 10 < i /\ i % 10 \in 0..9
OBVIOUS

(* There is such a table of digits up to every number...                   *)
LEMMA DigitsToAll == \A n \in Nat : \E f : DigitsTo(f, n)
<1> DEFINE S == {n \in Nat : \E f : DigitsTo(f, n)}
<1>1. 0 \in S
  <2>1. DigitsTo([i \in 0..0 |-> <<48 + i>>], 0)
    BY DEF DigitsTo
  <2> QED BY <2>1
<1>2. ASSUME NEW k \in Nat, k \in S PROVE k + 1 \in S
  <2>1. PICK f : DigitsTo(f, k)
    BY <1>2
  <2> DEFINE g == [i \in 0..(k + 1) |->
                      IF i < 10 THEN <<48 + i>> ELSE Append(f[i \div 10], 48 + (i % 10))]
  <2>2. \A i \in 0..k : g[i] = f[i]
    <3> TAKE i \in 0..k
    <3>1. g[i] = IF i < 10 THEN <<48 + i>> ELSE Append(f[i \div 10], 48 + (i % 10))
      OBVIOUS
    <3>2. f[i] = IF i < 10 THEN <<48 + i>> ELSE Append(f[i \div 10], 48 + (i % 10))
      BY <2>1 DEF DigitsTo
    <3> QED BY <3>1, <3>2
  <2>3. \A i \in 0..(k + 1) : i >= 10 => i \div 10 \in 0..k
    <3> TAKE i \in 0..(k + 1)
    <3> SUFFICES ASSUME i >= 10 PROVE i \div 10 \in 0..k
      OBVIOUS
    <3> QED BY Tenth
  <2>4. \A i \in 0..(k + 1) : i >= 10 => f[i \div 10] = g[i \div 10]
    BY <2>2, <2>3
  <2>5. g = [i \in 0..(k + 1) |->
                IF i < 10 THEN <<48 + i>> ELSE Append(g[i \div 10], 48 + (i % 10))]
    <3> DEFINE h == [i \in 0..(k + 1) |->
                        IF i < 10 THEN <<48 + i>> ELSE Append(g[i \div 10], 48 + (i % 10))]
    <3>1. \A i \in 0..(k + 1) : g[i] = h[i]
      <4> TAKE i \in 0..(k + 1)
      <4>1. g[i] = IF i < 10 THEN <<48 + i>> ELSE Append(f[i \div 10], 48 + (i % 10))
        OBVIOUS
      <4>2. h[i] = IF i < 10 THEN <<48 + i>> ELSE Append(g[i \div 10], 48 + (i % 10))
        OBVIOUS
      <4>3. i < 10 \/ i >= 10
        OBVIOUS
      <4> QED BY <4>1, <4>2, <4>3, <2>4
    <3> QED BY <3>1
  <2>6. DigitsTo(g, k + 1)
    BY <2>5 DEF DigitsTo
  <2> QED BY <2>6
<1> HIDE DEF S
<1>3. \A k \in Nat : k \in S
  BY <1>1, <1>2, Induction
<1> QED BY <1>3 DEF S

(* ...and tables agree where both have an entry.                           *)
LEMMA DigitsToSame ==
    ASSUME NEW m \in Nat, NEW n \in Nat, NEW f, NEW g, DigitsTo(f, m), DigitsTo(g, n)
    PROVE  \A i \in Nat : i <= m /\ i <= n => f[i] = g[i]
<1> SUFFICES ASSUME NEW j \in Nat, j <= m, j <= n, f[j] # g[j] PROVE FALSE
  OBVIOUS
<1> DEFINE T == {i \in Nat : i <= m /\ i <= n /\ f[i] # g[i]}
<1>1. PICK i \in T : \A k \in T : i <= k
  <2>1. T \in SUBSET Nat /\ T # {}
    OBVIOUS
  <2> HIDE DEF T
  <2> QED BY <2>1, Least
<1>2. i \in Nat /\ i \in 0..m /\ i \in 0..n /\ f[i] # g[i]
  OBVIOUS
<1>3. /\ f[i] = IF i < 10 THEN <<48 + i>> ELSE Append(f[i \div 10], 48 + (i % 10))
      /\ g[i] = IF i < 10 THEN <<48 + i>> ELSE Append(g[i \div 10], 48 + (i % 10))
  BY <1>2 DEF DigitsTo
<1>4. CASE i >= 10
  <2>1. i \div 10 \in Nat /\ i \div 10 < i
    BY <1>2, <1>4, Tenth
  <2>2. i \div 10 \notin T
    BY <1>1, <1>2, <2>1
  <2>3. f[i \div 10] = g[i \div 10]
    BY <1>2, <2>1, <2>2
  <2> QED BY <1>2, <1>3, <2>3
<1>5. CASE i < 10
  BY <1>2, <1>3, <1>5
<1> QED BY <1>2, <1>4, <1>5

(* The digits of a number are those of its tenth and a last one.           *)
LEMMA DigitsAre ==
    \A n \in Nat : Promise!Digits[n] =
        IF n < 10 THEN <<48 + n>> ELSE Append(Promise!Digits[n \div 10], 48 + (n % 10))
<1> DEFINE part == [n \in Nat |-> CHOOSE f : DigitsTo(f, n)]
           F    == [n \in Nat |-> part[n][n]]
           Rec(f) == [n \in Nat |->
                        IF n < 10 THEN <<48 + n>> ELSE Append(f[n \div 10], 48 + (n % 10))]
<1>1. \A n \in Nat : DigitsTo(part[n], n)
  <2> TAKE n \in Nat
  <2>1. \E f : DigitsTo(f, n)
    BY DigitsToAll
  <2>2. part[n] = CHOOSE f : DigitsTo(f, n)
    OBVIOUS
  <2> QED BY <2>1, <2>2, Zenon
<1> HIDE DEF part
<1>2. \A n \in Nat : F[n] = IF n < 10 THEN <<48 + n>>
                                      ELSE Append(F[n \div 10], 48 + (n % 10))
  <2> TAKE n \in Nat
  <2>1. DigitsTo(part[n], n)
    BY <1>1
  <2>2. part[n][n] = IF n < 10 THEN <<48 + n>> ELSE Append(part[n][n \div 10], 48 + (n % 10))
    <3>1. PICK g : g = part[n]
      OBVIOUS
    <3>2. DigitsTo(g, n) /\ n \in 0..n
      BY <2>1, <3>1
    <3>3. g[n] = IF n < 10 THEN <<48 + n>> ELSE Append(g[n \div 10], 48 + (n % 10))
      BY <3>2 DEF DigitsTo
    <3> QED BY <3>1, <3>3
  <2>3. CASE n >= 10
    <3>1. n \div 10 \in Nat /\ n \div 10 < n
      BY <2>3, Tenth
    <3>2. DigitsTo(part[n \div 10], n \div 10)
      BY <1>1, <3>1
    <3>3. n \div 10 <= n
      BY <3>1
    <3>4. part[n][n \div 10] = part[n \div 10][n \div 10]
      <4> DEFINE q == n \div 10
      <4>1. q \in Nat /\ q <= n /\ q <= q /\ DigitsTo(part[q], q)
        BY <3>1, <3>2
      <4> HIDE DEF q
      <4> QED BY <4>1, <2>1, DigitsToSame DEF q
    <3> QED BY <2>2, <2>3, <3>1, <3>4
  <2>4. CASE n < 10
    BY <2>2, <2>4
  <2> QED BY <2>3, <2>4
<1>3. F = Rec(F)
  BY <1>2
<1>4. Promise!Digits = CHOOSE f : f = Rec(f)
  BY Zenon DEF Promise!Digits, Promise!Zero
<1>5. Promise!Digits = Rec(Promise!Digits)
  <2> HIDE DEF F, Rec
  <2> QED BY <1>3, <1>4, Zenon
<1> HIDE DEF F
<1> DEFINE D == Promise!Digits
<1>6. D = Rec(D)
  BY <1>5
<1> HIDE DEF D
<1>7. \A n \in Nat : D[n] = IF n < 10 THEN <<48 + n>> ELSE Append(D[n \div 10], 48 + (n % 10))
  BY <1>6
<1> QED BY <1>7 DEF D

LEMMA DigitsSeq == \A n \in Nat : Promise!Digits[n] \in Seq(Nat)
<1> SUFFICES ASSUME NEW j \in Nat, Promise!Digits[j] \notin Seq(Nat) PROVE FALSE
  OBVIOUS
<1> DEFINE T == {n \in Nat : Promise!Digits[n] \notin Seq(Nat)}
<1>1. PICK n \in T : \A k \in T : n <= k
  <2>1. T \in SUBSET Nat /\ T # {}
    OBVIOUS
  <2> HIDE DEF T
  <2> QED BY <2>1, Least
<1>2. n \in Nat /\ Promise!Digits[n] \notin Seq(Nat)
  OBVIOUS
<1>3. Promise!Digits[n] = IF n < 10 THEN <<48 + n>>
                                   ELSE Append(Promise!Digits[n \div 10], 48 + (n % 10))
  BY <1>2, DigitsAre
<1>4. CASE n < 10
  BY <1>2, <1>3, <1>4
<1>5. CASE n >= 10
  <2>1. n \div 10 \in Nat /\ n \div 10 < n /\ 48 + (n % 10) \in Nat
    BY <1>2, <1>5, Tenth
  <2>2. n \div 10 \notin T
    BY <1>1, <1>2, <2>1
  <2>3. Promise!Digits[n \div 10] \in Seq(Nat)
    BY <2>1, <2>2
  <2> QED BY <1>2, <1>3, <1>5, <2>1, <2>3
<1> QED BY <1>2, <1>4, <1>5

(* A greater factor makes a product greater by the other one at least.     *)
LEMMA Times ==
    ASSUME NEW d \in Nat, NEW a \in Int, NEW b \in Int, a >= b + 1
    PROVE  d * a >= d * b + d
<1>1. a - b - 1 \in Nat
  OBVIOUS
<1>2. \A x, y \in Nat : x * y \in Nat
  OBVIOUS
<1>3. d * (a - b - 1) \in Nat
  BY <1>1, <1>2
<1>4. d * (a - b - 1) = d * a - d * b - d
  OBVIOUS
<1>5. d * a \in Int /\ d * b \in Int
  OBVIOUS
<1> QED BY <1>3, <1>4, <1>5

(* A quotient is known from its remainder.                                 *)
LEMMA Quotient ==
    ASSUME NEW n \in Int, NEW d \in Nat, d > 0, NEW q \in Int, NEW r \in 0..(d - 1),
           n = d * q + r
    PROVE  n \div d = q /\ n % d = r
<1> DEFINE p == n \div d
           s == n % d
<1>1. p \in Int /\ s \in 0..(d - 1) /\ n = d * p + s
  OBVIOUS
<1> HIDE DEF p, s
<1>2. d * p \in Int /\ d * q \in Int
  BY <1>1
<1>3. p < q + 1
  <2> SUFFICES ASSUME p >= q + 1 PROVE FALSE
    BY <1>1
  <2>1. d * p >= d * q + d
    BY <1>1, Times
  <2> QED BY <1>1, <1>2, <2>1
<1>4. q < p + 1
  <2> SUFFICES ASSUME q >= p + 1 PROVE FALSE
    BY <1>1
  <2>1. d * q >= d * p + d
    BY <1>1, Times
  <2> QED BY <1>1, <1>2, <2>1
<1>5. p = q
  BY <1>1, <1>3, <1>4
<1>6. s = r
  BY <1>1, <1>2, <1>5
<1> QED BY <1>5, <1>6 DEF p, s

(* Dividing twice is dividing by the product.                              *)
LEMMA TwoQuotients ==
    ASSUME NEW m \in Nat, NEW b \in Nat, b > 0
    PROVE  (m \div b) \div 10 = m \div (10 * b)
<1> DEFINE q == m \div b
           r == m % b
<1>1. q \in Int /\ r \in 0..(b - 1) /\ m = b * q + r
  OBVIOUS
<1> HIDE DEF q, r
<1> DEFINE p == q \div 10
           s == q % 10
<1>2. p \in Int /\ s \in 0..9 /\ q = 10 * p + s
  BY <1>1
<1> HIDE DEF p, s
<1>3. m = (10 * b) * p + (b * s + r)
  <2>1. b * (10 * p + s) = (10 * b) * p + b * s
    BY <1>2
  <2>2. b * q = (10 * b) * p + b * s
    BY <1>2, <2>1
  <2> DEFINE x == b * q
             y == (10 * b) * p
             z == b * s
  <2>3. x \in Int /\ y \in Int /\ z \in Int
    BY <1>1, <1>2
  <2> HIDE DEF x, y, z
  <2>4. m = x + r /\ x = y + z
    BY <1>1, <2>2 DEF x, y, z
  <2>5. m = y + (z + r)
    BY <1>1, <2>3, <2>4
  <2> QED BY <2>5 DEF y, z
<1>4. b * s + r \in 0..(10 * b - 1)
  <2>1. b * s \in Nat /\ b * 10 = 10 * b
    <3>1. \A x, y \in Nat : x * y \in Nat /\ x * y = y * x
      OBVIOUS
    <3> QED BY <1>2, <3>1
  <2>2. b * 10 >= b * s + b
    BY <1>2, Times
  <2> DEFINE z == b * s
  <2> HIDE DEF z
  <2>3. z \in Nat /\ 10 * b >= z + b
    BY <2>1, <2>2 DEF z
  <2>4. z + r \in 0..(10 * b - 1)
    BY <1>1, <2>3
  <2> QED BY <2>4 DEF z
<1>5. m \div (10 * b) = p
  <2> DEFINE d == 10 * b
             t == b * s + r
  <2>1. d \in Nat /\ d > 0 /\ t \in 0..(d - 1) /\ m = d * p + t
    BY <1>3, <1>4
  <2> HIDE DEF d, t
  <2>2. m \div d = p
    BY <1>2, <2>1, Quotient
  <2> QED BY <2>2 DEF d
<1> QED BY <1>5 DEF p, q

(* Powers of ten as far as a buffer has cells.                             *)
LEMMA Powers == \A k \in 0..BufferSize : 10 ^ k \in Nat /\ 10 ^ k > 0 /\ 10 ^ (k + 1) = 10 * 10 ^ k
<1> DEFINE S == {k \in Nat : k <= BufferSize => 10 ^ k > 0}
<1>1. 0 \in S
  BY PowerAssumption DEF PowerAssumption
<1>2. ASSUME NEW k \in Nat, k \in S PROVE k + 1 \in S
  <2> SUFFICES ASSUME k + 1 <= BufferSize PROVE 10 ^ (k + 1) > 0
    OBVIOUS
  <2>1. k \in 0..BufferSize /\ 10 ^ k > 0
    BY <1>2, SizeAssumption DEF SizeAssumption
  <2>2. 10 ^ k \in Nat /\ 10 ^ (k + 1) = 10 * 10 ^ k
    BY <2>1, PowerAssumption DEF PowerAssumption
  <2> QED BY <2>1, <2>2
<1> HIDE DEF S
<1>3. \A k \in Nat : k \in S
  BY <1>1, <1>2, Induction
<1> USE DEF S
<1> QED BY <1>3, PowerAssumption, SizeAssumption DEF PowerAssumption, SizeAssumption

(* Joining sequences of numbers.                                           *)
LEMMA JoinLaws ==
    ASSUME NEW s \in Seq(Nat), NEW t \in Seq(Nat), NEW u \in Seq(Nat)
    PROVE  /\ s \o t \in Seq(Nat)
           /\ (s \o t) \o u = s \o (t \o u)
           /\ <<>> \o s = s /\ s \o <<>> = s
BY ConcatProperties, ConcatAssociative, ConcatEmptySeq

LEMMA AppendJoins ==
    ASSUME NEW s \in Seq(Nat), NEW c \in Nat
    PROVE  Append(s, c) = s \o <<c>>
<1>1. Append(s, c) \in Seq(Nat) /\ s \o <<c>> \in Seq(Nat) /\ <<c>> \in Seq(Nat)
  OBVIOUS
<1>2. Len(Append(s, c)) = Len(s \o <<c>>)
  OBVIOUS
<1>3. \A i \in 1..Len(Append(s, c)) : Append(s, c)[i] = (s \o <<c>>)[i]
  OBVIOUS
<1> QED BY <1>1, <1>2, <1>3, SeqEqual

(* A digit in front of a fraction.                                         *)
LEMMA FractionIs ==
    ASSUME NEW n \in Nat, NEW w \in 0..BufferSize
    PROVE  /\ Promise!Fraction(n, w) \in Seq(Nat)
           /\ Len(Promise!Fraction(n, w)) = w
           /\ \A i \in 1..w : Promise!Fraction(n, w)[i] = 48 + ((n \div 10 ^ (w - i)) % 10)
<1>1. w \in Nat
  BY SizeAssumption DEF SizeAssumption
<1>2. \A i \in 1..w : 48 + ((n \div 10 ^ (w - i)) % 10) \in Nat
  <2> TAKE i \in 1..w
  <2>1. w - i \in 0..BufferSize
    BY SizeAssumption DEF SizeAssumption
  <2>2. 10 ^ (w - i) \in Nat /\ 10 ^ (w - i) > 0
    BY <2>1, Powers
  <2>3. \A x, y \in Nat : y > 0 => 48 + ((x \div y) % 10) \in Nat
    OBVIOUS
  <2> QED BY <2>2, <2>3
<1>3. Promise!Fraction(n, w) = [i \in 1..w |-> 48 + ((n \div 10 ^ (w - i)) % 10)]
  BY Zenon DEF Promise!Fraction, Promise!Zero
<1> DEFINE e(i) == 48 + ((n \div 10 ^ (w - i)) % 10)
<1>4. \A i \in 1..w : e(i) \in Nat
  BY <1>2
<1>5. Promise!Fraction(n, w) = [i \in 1..w |-> e(i)]
  BY <1>3
<1> HIDE DEF e
<1>6. [i \in 1..w |-> e(i)] \in Seq(Nat) /\ Len([i \in 1..w |-> e(i)]) = w
  BY <1>1, <1>4
<1>7. \A i \in 1..w : Promise!Fraction(n, w)[i] = e(i)
  BY <1>5
<1> QED BY <1>5, <1>6, <1>7 DEF e

LEMMA FractionGrows ==
    ASSUME NEW n \in Nat, NEW w \in Nat, w < BufferSize
    PROVE  Promise!Fraction(n, w + 1) = <<48 + ((n \div 10 ^ w) % 10)>> \o Promise!Fraction(n, w)
<1> DEFINE f == Promise!Fraction(n, w)
           g == Promise!Fraction(n, w + 1)
           c == 48 + ((n \div 10 ^ w) % 10)
<1>1. w \in 0..BufferSize /\ w + 1 \in 0..BufferSize
  BY SizeAssumption DEF SizeAssumption
<1>2. /\ f \in Seq(Nat) /\ Len(f) = w
      /\ \A i \in 1..w : f[i] = 48 + ((n \div 10 ^ (w - i)) % 10)
  BY <1>1, FractionIs
<1>3. /\ g \in Seq(Nat) /\ Len(g) = w + 1
      /\ \A i \in 1..(w + 1) : g[i] = 48 + ((n \div 10 ^ (w + 1 - i)) % 10)
  <2> DEFINE v == w + 1
  <2>1. v \in 0..BufferSize
    BY <1>1
  <2> HIDE DEF v
  <2>2. /\ Promise!Fraction(n, v) \in Seq(Nat) /\ Len(Promise!Fraction(n, v)) = v
        /\ \A i \in 1..v : Promise!Fraction(n, v)[i] = 48 + ((n \div 10 ^ (v - i)) % 10)
    BY <2>1, FractionIs
  <2> QED BY <2>2 DEF v
<1>4. c = g[1]
  <2>1. w + 1 - 1 = w /\ 1 \in 1..(w + 1)
    OBVIOUS
  <2> QED BY <1>3, <2>1
<1>5. \A i \in 2..(w + 1) : g[i] = f[i - 1]
  <2> TAKE i \in 2..(w + 1)
  <2>1. w + 1 - i = w - (i - 1) /\ i \in 1..(w + 1) /\ i - 1 \in 1..w
    OBVIOUS
  <2> QED BY <1>2, <1>3, <2>1
<1>6. c \in Nat
  BY <1>3, <1>4
<1> HIDE DEF f, g, c
<1>7. <<c>> \o f \in Seq(Nat) /\ Len(<<c>> \o f) = w + 1
  BY <1>2, <1>6
<1>8. \A i \in 1..(w + 1) : (<<c>> \o f)[i] = IF i = 1 THEN c ELSE f[i - 1]
  BY <1>2, <1>6
<1>9. \A i \in 1..Len(g) : g[i] = (<<c>> \o f)[i]
  <2> SUFFICES ASSUME NEW i \in 1..(w + 1) PROVE g[i] = (<<c>> \o f)[i]
    BY <1>3
  <2>1. i = 1 \/ i \in 2..(w + 1)
    OBVIOUS
  <2> QED BY <1>4, <1>5, <1>8, <2>1
<1>10. g = <<c>> \o f
  BY <1>3, <1>7, <1>9, SeqEqual
<1> QED BY <1>10 DEF f, g, c

-----------------------------------------------------------------------------
(* What lies behind the pointer.                                           *)
Behind == [i \in 1..Written |-> buffer[ptr + i]]

(* A character that is put comes in front of those behind the pointer.     *)
LEMMA PutInFront ==
    ASSUME IInv, NEW c \in Nat, Put(c)
    PROVE  /\ Behind' = <<c>> \o Behind
           /\ Behind \in Seq(Nat)
           /\ Written \in 0..(BufferSize - 1) /\ Written' = Written + 1
<1>1. ptr \in Int /\ ptr >= 0 /\ ptr <= BufferSize - 1 /\ BufferSize \in Nat /\ ptr \in Cells
  BY SizeAssumption DEF Put, Cells, SizeAssumption
<1>2. /\ buffer \in [Cells -> Byte] /\ buffer' = [buffer EXCEPT ![ptr] = c] /\ ptr' = ptr - 1
  BY DEF Put, IInv, TypeOK
<1>3. Written \in 0..(BufferSize - 1) /\ Written' = Written + 1 /\ Written = BufferSize - 1 - ptr
  BY <1>1, <1>2 DEF Written
<1>4. \A i \in 1..Written : ptr + i \in Cells /\ ptr + i # ptr
  BY <1>1, <1>3 DEF Cells
<1>5. \A i \in 1..Written : buffer[ptr + i] \in Nat
  BY <1>2, <1>4 DEF Byte
<1>6. Behind \in Seq(Nat) /\ Len(Behind) = Written
  BY <1>3, <1>5 DEF Behind
<1>7. \A i \in 1..Written : Behind[i] = buffer[ptr + i]
  BY DEF Behind
<1>8. Behind' = [i \in 1..Written' |-> buffer'[ptr' + i]]
  BY DEF Behind
<1>9. \A i \in 1..(Written + 1) : buffer'[ptr' + i] = IF i = 1 THEN c ELSE Behind[i - 1]
  <2> TAKE i \in 1..(Written + 1)
  <2>1. CASE i = 1
    <3>1. ptr' + i = ptr
      BY <1>1, <1>2, <2>1
    <3> QED BY <1>1, <1>2, <2>1, <3>1
  <2>2. CASE i # 1
    <3>1. i - 1 \in 1..Written /\ ptr' + i = ptr + (i - 1)
      BY <1>1, <1>2, <1>3, <2>2
    <3>2. buffer'[ptr + (i - 1)] = buffer[ptr + (i - 1)]
      BY <1>2, <1>4, <3>1
    <3> QED BY <1>7, <2>2, <3>1, <3>2
  <2> QED BY <2>1, <2>2
<1>10. \A i \in 1..(Written + 1) : Behind'[i] = IF i = 1 THEN c ELSE Behind[i - 1]
  BY <1>3, <1>8, <1>9
<1>11. Behind' \in Seq(Nat) /\ Len(Behind') = Written + 1
  <2>1. \A i \in 1..(Written + 1) : buffer'[ptr' + i] \in Nat
    BY <1>3, <1>5, <1>7, <1>9
  <2>2. Behind' = [i \in 1..(Written + 1) |-> buffer'[ptr' + i]] /\ Written + 1 \in Nat
    BY <1>3, <1>8
  <2> QED BY <2>1, <2>2
<1>12. <<c>> \o Behind \in Seq(Nat) /\ Len(<<c>> \o Behind) = Written + 1
  BY <1>3, <1>6
<1>13. \A i \in 1..(Written + 1) : (<<c>> \o Behind)[i] = IF i = 1 THEN c ELSE Behind[i - 1]
  BY <1>3, <1>6
<1>14. \A i \in 1..Len(Behind') : Behind'[i] = (<<c>> \o Behind)[i]
  BY <1>10, <1>11, <1>13
<1> QED BY <1>3, <1>6, <1>11, <1>12, <1>14, SeqEqual

(* Which call is at hand.                                                  *)
CallOK ==
    /\ pc = "ready" => call = NoCall
    /\ pc # "ready" => call \in Calls
    /\ pc = "strlen" => call.fn = "flagrate_s"
    /\ pc = "root" => call.fn = "crucio"

Size == Promise!Magnitude(call.number)

WholePart == IF call.fn = "flagrate" THEN Size ELSE Size \div 10 ^ call.precision

AfterWhole ==
    IF call.fn = "flagrate" THEN <<>> ELSE <<Point>> \o Promise!Fraction(Size, call.precision)

Number == Promise!Digits[WholePart] \o AfterWhole

(* The characters that were written are the last ones of the number, and   *)
(* rax has the others.                                                     *)
ShownOK ==
    /\ pc \in {"fraction", "point", "whole", "sign"} => (negative <=> call.number < 0)
    /\ pc = "fraction" /\ ~GoodPrint =>
         \/ Written = 0 /\ count = 0
         \/ Written \in 1..BufferSize /\ count = WordSize - Written
    /\ pc = "fraction" /\ GoodPrint =>
         rax = Size \div 10 ^ Written /\ Behind = Promise!Fraction(Size, Written)
    /\ pc \in {"point", "whole", "sign", "write"} => GoodPrint
    /\ pc = "point" =>
         rax = Size \div 10 ^ call.precision /\ Behind = Promise!Fraction(Size, call.precision)
    /\ pc = "whole" => Promise!Digits[rax] \o Behind = Number
    /\ pc = "sign" => Behind = Number
    /\ pc = "write" => Behind = Promise!Sign(call.number) \o Number

-----------------------------------------------------------------------------
LEMMA CallStep == ASSUME IInv, CallOK, Next PROVE CallOK'
<1>1. CASE EnterPrint \/ EnterRead
  BY <1>1 DEF EnterPrint, EnterRead, Entering, CallOK
<1>2. CASE EnterPrintString \/ EnterCrucio
  BY <1>2 DEF EnterPrintString, EnterCrucio, Entering, CallOK
<1>3. CASE Write \/ WriteString \/ Negate \/ Crucio
  BY <1>3 DEF Write, WriteString, Negate, Crucio, Return, CallOK
<1>4. CASE FractionDigit \/ PutPoint \/ WholeDigit \/ PutSign \/ SkipSign \/ Strlen
  BY <1>4 DEF FractionDigit, PutPoint, WholeDigit, PutSign, SkipSign, Strlen, Goto, CallOK
<1>5. CASE ReadLine \/ ReadDigit \/ EndDigits \/ ReadFraction
  BY <1>5 DEF ReadLine, ReadDigit, EndDigits, ReadFraction, Goto, CallOK
<1>6. CASE EndFraction \/ Remaining \/ EndRemaining \/ LeaveBuffer
  BY <1>6 DEF EndFraction, Remaining, EndRemaining, LeaveBuffer, Touches, Goto, CallOK
<1> QED BY <1>1, <1>2, <1>3, <1>4, <1>5, <1>6 DEF Next, Enter, Step

(* What is to be printed depends on the call only.                         *)
LEMMA SameCall ==
    ASSUME call' = call
    PROVE  /\ Size' = Size /\ WholePart' = WholePart /\ AfterWhole' = AfterWhole
           /\ Number' = Number /\ GoodPrint' = GoodPrint
<1>1. Size' = Size
  BY Zenon DEF Size
<1>2. WholePart' = WholePart /\ AfterWhole' = AfterWhole /\ GoodPrint' = GoodPrint
  BY <1>1, Zenon DEF WholePart, AfterWhole, GoodPrint
<1> QED BY <1>1, <1>2, Zenon DEF Number

(* The parts of a number to print are numbers and texts.                   *)
LEMMA SizeIs ==
    ASSUME IInv, CallOK, pc # "ready", call.fn \in Printers
    PROVE  /\ Size \in Nat
           /\ call.precision \in 0..BufferSize
           /\ WholePart \in Nat
           /\ AfterWhole \in Seq(Nat)
           /\ Number \in Seq(Nat)
<1>1. call \in Calls
  BY DEF CallOK
<1>2. call.number \in -(WordSize \div 2)..(WordSize \div 2 - 1)
  BY <1>1, CallFacts
<1>3. call.precision \in 0..BufferSize
  BY <1>1, CallFacts, SizeAssumption DEF SizeAssumption
<1>4. Size \in Nat
  <2>1. call.number \in Int
    BY <1>2, SizeAssumption DEF SizeAssumption
  <2> QED BY <2>1 DEF Size, Promise!Magnitude
<1>5. 10 ^ call.precision \in Nat /\ 10 ^ call.precision > 0
  BY <1>3, Powers
<1>6. WholePart \in Nat
  <2>1. \A x, y \in Nat : y > 0 => x \div y \in Nat
    OBVIOUS
  <2>2. Size \div 10 ^ call.precision \in Nat
    BY <1>4, <1>5, <2>1
  <2> QED BY <1>4, <2>2 DEF WholePart
<1>7. AfterWhole \in Seq(Nat)
  <2>1. Promise!Fraction(Size, call.precision) \in Seq(Nat)
    BY <1>3, <1>4, FractionIs
  <2>2. <<Point>> \in Seq(Nat) /\ <<>> \in Seq(Nat)
    BY DEF Point
  <2>3. <<Point>> \o Promise!Fraction(Size, call.precision) \in Seq(Nat)
    BY <2>1, <2>2, JoinLaws
  <2> QED BY <2>2, <2>3 DEF AfterWhole
<1>8. Promise!Digits[WholePart] \in Seq(Nat)
  BY <1>6, DigitsSeq
<1> QED BY <1>3, <1>4, <1>6, <1>7, <1>8, JoinLaws DEF Number

(* Printing begins with nothing behind the pointer.                        *)
LEMMA ShownEnter == ASSUME IInv, IInv', Enter PROVE ShownOK'
<1>1. CASE EnterPrint
  <2>1. /\ call' \in Calls /\ call'.fn \in Printers
        /\ negative' = (call'.number < 0)
        /\ rax' = IF call'.number < 0 THEN -call'.number ELSE call'.number
        /\ count' = call'.precision /\ ptr' = BufferSize - 1
        /\ pc' = IF call'.fn = "flagrate" THEN "whole" ELSE "fraction"
    BY <1>1 DEF EnterPrint, Entering, Printers
  <2>2. Written' = 0 /\ BufferSize \in Nat
    BY <2>1, SizeAssumption DEF Written, SizeAssumption
  <2>3. Behind' = <<>>
    <3>1. Behind' = [i \in 1..0 |-> buffer'[ptr' + i]]
      BY <2>2 DEF Behind
    <3> QED BY <3>1
  <2>4. rax' = Size' /\ Size' \in Nat
    <3>1. call'.number \in Int
      BY <2>1, CallFacts, SizeAssumption DEF SizeAssumption
    <3> QED BY <2>1, <3>1 DEF Size, Promise!Magnitude
  <2>5. CASE call'.fn = "flagrate"
    <3>1. pc' = "whole" /\ GoodPrint'
      BY <2>1, <2>5 DEF GoodPrint
    <3>2. Number' = Promise!Digits[Size'] \o <<>>
      BY <2>5, Zenon DEF Number, WholePart, AfterWhole
    <3> QED BY <2>1, <2>3, <2>4, <3>1, <3>2 DEF ShownOK
  <2>6. CASE call'.fn # "flagrate"
    <3>1. pc' = "fraction" /\ (GoodPrint' <=> call'.precision > 0) /\ call'.precision \in Nat
      BY <2>1, <2>6, CallFacts DEF GoodPrint
    <3>2. ~GoodPrint' => count' = 0
      BY <2>1, <3>1
    <3>3. rax' = Size' \div 10 ^ Written'
      <4>1. \A x \in Nat : x \div 1 = x
        OBVIOUS
      <4>2. 10 ^ 0 = 1
        BY PowerAssumption DEF PowerAssumption
      <4> QED BY <2>2, <2>4, <4>1, <4>2
    <3>4. Promise!Fraction(Size', Written') = <<>>
      <4>1. 0 \in 0..BufferSize
        BY <2>2
      <4>2. Promise!Fraction(Size', 0) \in Seq(Nat) /\ Len(Promise!Fraction(Size', 0)) = 0
        BY <4>1, <2>4, FractionIs
      <4> QED BY <2>2, <4>2, EmptySeq
    <3> QED BY <2>1, <2>2, <2>3, <3>1, <3>2, <3>3, <3>4 DEF ShownOK
  <2> QED BY <2>5, <2>6
<1>2. CASE EnterPrintString \/ EnterRead \/ EnterCrucio
  BY <1>2 DEF EnterPrintString, EnterRead, EnterCrucio, Entering, ShownOK
<1> QED BY <1>1, <1>2 DEF Enter

(* A digit of the fraction.  With a precision of zero the count goes       *)
(* round.                                                                  *)
LEMMA ShownFraction == ASSUME IInv, CallOK, ShownOK, FractionDigit PROVE ShownOK'
<1>1. /\ PutDigit /\ call' = call /\ negative' = negative /\ pc = "fraction"
      /\ pc' = IF count' = 0 THEN "point" ELSE "fraction"
      /\ count' = (count - 1) % WordSize
  BY DEF FractionDigit, Goto, world
<1>2. call.fn = "flagrate_bombarda" /\ call.fn \in Printers
  BY <1>1 DEF IInv, PlaceOK, Printers
<1>3. /\ Size \in Nat /\ call.precision \in 0..BufferSize
      /\ Size' = Size /\ GoodPrint' = GoodPrint
  BY <1>1, <1>2, SizeIs, SameCall
<1>4. /\ Written \in 0..(BufferSize - 1) /\ Written' = Written + 1
      /\ rax \in Nat /\ rax' = rax \div 10
      /\ Behind' = <<48 + (rax % 10)>> \o Behind
  <2>1. rax \in Nat /\ 48 + (rax % 10) \in Nat
    BY SizeAssumption DEF IInv, TypeOK, SizeAssumption
  <2>2. Put(48 + (rax % 10)) /\ rax' = rax \div 10
    BY <1>1 DEF PutDigit, Zero
  <2> QED BY <2>1, <2>2, PutInFront
<1>5. CASE GoodPrint
  <2>1. /\ rax = Size \div 10 ^ Written /\ Behind = Promise!Fraction(Size, Written)
        /\ count \in 1..call.precision /\ Written = call.precision - count
    BY <1>1, <1>5 DEF ShownOK, IInv, PrintOK
  <2>2. Behind' = Promise!Fraction(Size, Written + 1)
    <3> DEFINE w == Written
    <3>1. w \in Nat /\ w < BufferSize
      BY <1>4, SizeAssumption DEF SizeAssumption
    <3> HIDE DEF w
    <3>2. Promise!Fraction(Size, w + 1)
            = <<48 + ((Size \div 10 ^ w) % 10)>> \o Promise!Fraction(Size, w)
      BY <1>3, <3>1, FractionGrows
    <3> QED BY <1>4, <2>1, <3>2 DEF w
  <2>3. rax' = Size \div 10 ^ (Written + 1)
    <3> DEFINE w == Written
               b == 10 ^ w
    <3>1. w \in 0..BufferSize
      BY <1>4, SizeAssumption DEF SizeAssumption
    <3>2. b \in Nat /\ b > 0 /\ 10 ^ (w + 1) = 10 * b
      <4> HIDE DEF w
      <4> QED BY <3>1, Powers
    <3> HIDE DEF b, w
    <3>3. (Size \div b) \div 10 = Size \div (10 * b)
      BY <1>3, <3>2, TwoQuotients
    <3>4. rax = Size \div b
      BY <2>1 DEF b, w
    <3>5. rax' = Size \div 10 ^ (w + 1)
      BY <1>4, <3>2, <3>3, <3>4
    <3> QED BY <3>5 DEF w
  <2>4. count' = count - 1
    <3>1. count \in 0..(WordSize - 1) /\ WordSize \in Nat
      BY SizeAssumption DEF IInv, TypeOK, SizeAssumption
    <3>2. \A x, y \in Nat : x > 0 /\ x < y => (x - 1) % y = x - 1
      OBVIOUS
    <3> QED BY <1>1, <1>3, <2>1, <3>1, <3>2
  <2>5. count' = 0 => Written + 1 = call.precision
    BY <1>3, <2>1, <2>4
  <2> QED BY <1>1, <1>3, <1>4, <1>5, <2>2, <2>3, <2>5 DEF ShownOK
<1>6. CASE ~GoodPrint
  <2>1. /\ WordSize \in Nat /\ BufferSize < WordSize /\ BufferSize \in Nat
    BY SizeAssumption DEF SizeAssumption
  <2>2. \/ Written = 0 /\ count = 0
        \/ Written \in 1..BufferSize /\ count = WordSize - Written
    BY <1>1, <1>6 DEF ShownOK
  <2>3. count' = WordSize - (Written + 1)
    <3>1. CASE Written = 0 /\ count = 0
      <4>1. \A x \in Nat : x > 0 => (0 - 1) % x = x - 1
        <5> TAKE x \in Nat
        <5> SUFFICES ASSUME x > 0 PROVE (0 - 1) % x = x - 1
          OBVIOUS
        <5>1. 0 - 1 = x * (-1) + (x - 1) /\ x - 1 \in 0..(x - 1) /\ 0 - 1 \in Int /\ -1 \in Int
          OBVIOUS
        <5> QED BY <5>1, Quotient
      <4> QED BY <1>1, <2>1, <3>1, <4>1
    <3>2. CASE Written \in 1..BufferSize /\ count = WordSize - Written
      <4>1. \A x, y \in Nat : x > 0 /\ x <= y => (x - 1) % y = x - 1
        OBVIOUS
      <4>2. count \in Nat /\ count > 0 /\ count <= WordSize /\ count - 1 = WordSize - (Written + 1)
        BY <2>1, <3>2
      <4> QED BY <1>1, <2>1, <4>1, <4>2
    <3> QED BY <2>2, <3>1, <3>2
  <2>4. count' # 0 /\ Written + 1 \in 1..BufferSize
    BY <1>4, <2>1, <2>3
  <2> QED BY <1>1, <1>3, <1>4, <1>6, <2>3, <2>4 DEF ShownOK
<1> QED BY <1>5, <1>6

LEMMA JoinAssociates ==
    \A s, t, u \in Seq(Nat) : (s \o t) \o u = s \o (t \o u)
BY ConcatAssociative

LEMMA ShownPoint == ASSUME IInv, CallOK, ShownOK, PutPoint PROVE ShownOK'
<1>1. /\ pc = "point" /\ pc' = "whole" /\ Put(Point)
      /\ call' = call /\ negative' = negative /\ rax' = rax
  BY DEF PutPoint, Goto, world
<1>2. call.fn = "flagrate_bombarda" /\ call.fn \in Printers
  BY <1>1 DEF IInv, PlaceOK, Printers
<1>3. Number' = Number /\ GoodPrint' = GoodPrint /\ Size \in Nat /\ call.precision \in 0..BufferSize
  BY <1>1, <1>2, SizeIs, SameCall
<1>4. Behind' = <<Point>> \o Behind
  <2>1. Point \in Nat
    BY DEF Point
  <2> QED BY <1>1, <2>1, PutInFront
<1>5. rax = WholePart /\ Behind = Promise!Fraction(Size, call.precision) /\ GoodPrint
  <2>1. WholePart = Size \div 10 ^ call.precision
    BY <1>2 DEF WholePart
  <2> QED BY <1>1, <2>1 DEF ShownOK
<1>6. AfterWhole = <<Point>> \o Promise!Fraction(Size, call.precision)
  BY <1>2 DEF AfterWhole
<1>7. Promise!Digits[rax'] \o Behind' = Number'
  BY <1>1, <1>3, <1>4, <1>5, <1>6 DEF Number
<1>8. negative' <=> call'.number < 0
  BY <1>1 DEF ShownOK
<1> QED BY <1>1, <1>3, <1>5, <1>7, <1>8 DEF ShownOK

(* A digit of the whole part, the last of them or not.                     *)
LEMMA ShownWhole == ASSUME IInv, CallOK, ShownOK, WholeDigit PROVE ShownOK'
<1>1. /\ PutDigit /\ pc = "whole" /\ pc' = (IF rax' = 0 THEN "sign" ELSE "whole")
      /\ call' = call /\ negative' = negative
  BY DEF WholeDigit, Goto, world
<1>2. call.fn \in Printers
  BY <1>1 DEF IInv, PlaceOK
<1>3. Number' = Number /\ GoodPrint' = GoodPrint
  BY <1>1, SameCall
<1> DEFINE d == 48 + (rax % 10)
           D == Promise!Digits
<1>4. rax \in Nat /\ d \in Nat
  BY SizeAssumption DEF IInv, TypeOK, SizeAssumption
<1>5. Behind' = <<d>> \o Behind /\ Behind \in Seq(Nat) /\ rax' = rax \div 10
  <2>1. Put(d) /\ rax' = rax \div 10
    BY <1>1 DEF PutDigit, Zero
  <2> HIDE DEF d
  <2> QED BY <1>4, <2>1, PutInFront
<1>6. D[rax] \o Behind = Number /\ GoodPrint /\ (negative <=> call.number < 0)
  BY <1>1 DEF ShownOK
<1>7. D[rax] = IF rax < 10 THEN <<48 + rax>> ELSE Append(D[rax \div 10], d)
  BY <1>4, DigitsAre
<1>8. CASE rax' = 0
  <2>1. \A x \in Nat : x \div 10 = 0 => x < 10 /\ x % 10 = x
    OBVIOUS
  <2>2. rax < 10 /\ d = 48 + rax
    BY <1>4, <1>5, <1>8, <2>1
  <2>3. Behind' = Number
    <3> HIDE DEF d, D
    <3> QED BY <1>5, <1>6, <1>7, <2>2
  <2>4. pc' = "sign"
    BY <1>1, <1>8
  <2> QED BY <1>1, <1>3, <1>6, <2>3, <2>4 DEF ShownOK
<1>9. CASE rax' # 0
  <2>1. \A x \in Nat : x \div 10 # 0 => x >= 10 /\ x \div 10 \in Nat
    OBVIOUS
  <2>2. rax >= 10 /\ rax' \in Nat
    BY <1>4, <1>5, <1>9, <2>1
  <2>3. D[rax'] \in Seq(Nat)
    BY <2>2, DigitsSeq
  <2> HIDE DEF d, D
  <2>4. D[rax] = Append(D[rax'], d)
    BY <1>4, <1>5, <1>7, <2>2
  <2>5. D[rax] = D[rax'] \o <<d>>
    BY <1>4, <2>3, <2>4, AppendJoins
  <2>6. <<d>> \in Seq(Nat)
    BY <1>4
  <2>7. D[rax'] \o Behind' = Number
    <3>1. (D[rax'] \o <<d>>) \o Behind = D[rax'] \o (<<d>> \o Behind)
      BY <1>5, <2>3, <2>6, JoinAssociates, Zenon
    <3> QED BY <1>5, <1>6, <2>5, <3>1, Zenon
  <2>8. pc' = "whole"
    BY <1>1, <1>9
  <2>9. (Promise!Digits[rax] \o Behind)' = Promise!Digits[rax'] \o Behind'
    OBVIOUS
  <2> QED BY <1>1, <1>3, <1>6, <2>7, <2>8, <2>9 DEF ShownOK, D
<1> QED BY <1>8, <1>9

LEMMA ShownSign == ASSUME IInv, CallOK, ShownOK, PutSign \/ SkipSign PROVE ShownOK'
<1>1. /\ pc = "sign" /\ pc' = "write" /\ call' = call
  BY DEF PutSign, SkipSign, Goto, world
<1>2. call.fn \in Printers /\ (negative <=> call.number < 0) /\ Behind = Number /\ GoodPrint
  BY <1>1 DEF IInv, PlaceOK, ShownOK
<1>3. Number' = Number /\ GoodPrint' = GoodPrint /\ Number \in Seq(Nat)
  BY <1>1, <1>2, SameCall, SizeIs
<1>4. CASE PutSign
  <2>1. Put(45) /\ negative
    BY <1>4 DEF PutSign, Minus
  <2>2. Behind' = <<45>> \o Behind
    BY <2>1, PutInFront
  <2>3. Promise!Sign(call.number) = <<45>>
    BY <1>2, <2>1 DEF Promise!Sign, Promise!Minus
  <2> QED BY <1>1, <1>2, <1>3, <2>2, <2>3 DEF ShownOK
<1>5. CASE SkipSign
  <2>1. ~negative /\ buffer' = buffer /\ ptr' = ptr
    BY <1>5 DEF SkipSign, registers
  <2>2. Behind' = Behind
    BY <2>1, Zenon DEF Behind, Written
  <2>3. Promise!Sign(call.number) = <<>>
    BY <1>2, <2>1 DEF Promise!Sign, Promise!Minus
  <2>4. Behind = <<>> \o Number
    BY <1>2, <1>3, JoinLaws
  <2> QED BY <1>1, <1>2, <1>3, <2>2, <2>3, <2>4 DEF ShownOK
<1> QED BY <1>4, <1>5

(* What is behind the pointer is right in every step.                      *)
LEMMA ShownStep ==
    ASSUME IInv, IInv', CallOK, ShownOK, [Next]_vars
    PROVE  ShownOK'
<1>1. CASE Enter
  BY <1>1, ShownEnter
<1>2. CASE FractionDigit \/ PutPoint \/ WholeDigit \/ PutSign \/ SkipSign
  BY <1>2, ShownFraction, ShownPoint, ShownWhole, ShownSign
<1>3. CASE Write \/ WriteString \/ Negate \/ Crucio
  BY <1>3 DEF Write, WriteString, Negate, Crucio, Return, ShownOK
<1>4. CASE Strlen \/ ReadLine \/ ReadDigit \/ EndDigits
  BY <1>4 DEF Strlen, ReadLine, ReadDigit, EndDigits, Goto, ShownOK
<1>5. CASE ReadFraction \/ EndFraction \/ Remaining \/ EndRemaining \/ LeaveBuffer
  BY <1>5 DEF ReadFraction, EndFraction, Remaining, EndRemaining, LeaveBuffer, Goto, ShownOK
<1>6. CASE UNCHANGED vars
  <2>1. /\ pc' = pc /\ call' = call /\ rax' = rax /\ ptr' = ptr /\ count' = count
        /\ negative' = negative /\ buffer' = buffer
    BY <1>6 DEF vars, registers
  <2>2. /\ Behind' = Behind /\ Written' = Written /\ Size' = Size
        /\ Number' = Number /\ GoodPrint' = GoodPrint
    <3>1. Written' = Written
      BY <2>1 DEF Written
    <3>2. Behind' = Behind
      BY <2>1, <3>1, Zenon DEF Behind
    <3> QED BY <2>1, <3>1, <3>2, SameCall
  <2> QED BY <2>1, <2>2 DEF ShownOK
<1> QED BY <1>1, <1>2, <1>3, <1>4, <1>5, <1>6 DEF Next, Step

-----------------------------------------------------------------------------
(* Digits, a sign and a point make up what is promised.                    *)
LEMMA Shown ==
    ASSUME IInv, CallOK, pc # "ready", call.fn \in Printers
    PROVE  Promise!Sign(call.number) \o Number =
             IF call.fn = "flagrate" THEN Promise!Decimal(call.number)
                                     ELSE Promise!Fixed(call.number, call.precision)
<1> DEFINE g == Promise!Sign(call.number)
           D == Promise!Digits[WholePart]
           F == Promise!Fraction(Size, call.precision)
<1>1. Size \in Nat /\ call.precision \in 0..BufferSize /\ WholePart \in Nat
  BY SizeIs
<1>2. g \in Seq(Nat) /\ D \in Seq(Nat) /\ F \in Seq(Nat) /\ <<46>> \in Seq(Nat)
  <2>1. g \in Seq(Nat)
    BY DEF Promise!Sign, Promise!Minus
  <2>2. D \in Seq(Nat)
    BY <1>1, DigitsSeq
  <2>3. F \in Seq(Nat)
    BY <1>1, FractionIs
  <2> QED BY <2>1, <2>2, <2>3
<1>3. CASE call.fn = "flagrate"
  <2>1. Number = D \o <<>> /\ WholePart = Size
    BY <1>3, Zenon DEF Number, AfterWhole, WholePart
  <2>2. Number = D
    BY <1>2, <2>1, JoinLaws
  <2>3. Promise!Decimal(call.number) = g \o D
    BY <2>1, Zenon DEF Promise!Decimal, Size
  <2> QED BY <1>3, <2>2, <2>3
<1>4. CASE call.fn # "flagrate"
  <2>1. Number = D \o (<<46>> \o F)
    BY <1>4, Zenon DEF Number, AfterWhole, Point
  <2>2. Promise!Fixed(call.number, call.precision) = g \o D \o <<46>> \o F
    <3>1. WholePart = Size \div 10 ^ call.precision
      BY <1>4 DEF WholePart
    <3> QED BY <3>1, Zenon DEF Promise!Fixed, Promise!Point, Size
  <2> HIDE DEF g, D, F
  <2>3. g \o (D \o (<<46>> \o F)) = g \o D \o <<46>> \o F
    <3>1. <<46>> \o F \in Seq(Nat) /\ g \o D \in Seq(Nat)
      BY <1>2, JoinLaws
    <3>2. g \o (D \o (<<46>> \o F)) = (g \o D) \o (<<46>> \o F)
      BY <1>2, <3>1, JoinAssociates, Zenon
    <3>3. ((g \o D) \o <<46>>) \o F = (g \o D) \o (<<46>> \o F)
      <4>1. ASSUME NEW h \in Seq(Nat) PROVE (h \o <<46>>) \o F = h \o (<<46>> \o F)
        <5> DEFINE point == <<46>>
        <5> HIDE DEF point
        <5>1. point \in Seq(Nat)
          BY <1>2 DEF point
        <5>2. (h \o point) \o F = h \o (point \o F)
          BY <1>2, <5>1, JoinLaws
        <5> QED BY <5>2 DEF point
      <4> QED BY <3>1, <4>1, Zenon
    <3> QED BY <3>2, <3>3
  <2> QED BY <1>4, <2>1, <2>2, <2>3 DEF g
<1> QED BY <1>3, <1>4

(* Remainders.                                                             *)
LEMMA Shifted ==
    ASSUME NEW x \in Int, NEW y \in Int, NEW k \in Int, NEW w \in Nat, w > 0, y = w * k + x
    PROVE  y % w = x % w
<1> DEFINE q == x \div w
           r == x % w
<1>1. q \in Int /\ r \in 0..(w - 1) /\ x = w * q + r
  OBVIOUS
<1> HIDE DEF q, r
<1>2. y = w * (k + q) + r
  <2>1. w * (k + q) = w * k + w * q
    BY <1>1
  <2> DEFINE a == w * k
             b == w * q
             c == w * (k + q)
  <2>2. a \in Int /\ b \in Int /\ c \in Int
    BY <1>1
  <2>3. c = a + b /\ y = a + x /\ x = b + r
    BY <1>1, <2>1
  <2> HIDE DEF a, b, c
  <2>4. y = c + r
    BY <1>1, <2>2, <2>3
  <2> QED BY <2>4 DEF c
<1>3. k + q \in Int
  BY <1>1
<1>4. y % w = r
  BY <1>1, <1>2, <1>3, Quotient
<1> QED BY <1>4 DEF r

(* A digit more, in a register that overflows and out of it.               *)
LEMMA NextRemainder ==
    ASSUME NEW v \in Int, NEW d \in Int, NEW w \in Nat, w > 0
    PROVE  (10 * (v % w) + d) % w = (10 * v + d) % w
<1> DEFINE q == v \div w
           r == v % w
<1>1. q \in Int /\ r \in Int /\ v = w * q + r
  OBVIOUS
<1> HIDE DEF q, r
<1>2. 10 * v + d = w * (10 * q) + (10 * r + d)
  <2>1. w * (10 * q) = 10 * (w * q)
    BY <1>1
  <2> DEFINE a == w * q
  <2>2. a \in Int /\ v = a + r
    BY <1>1
  <2> HIDE DEF a
  <2>3. 10 * v + d = 10 * a + (10 * r + d)
    BY <1>1, <2>2
  <2> QED BY <2>1, <2>3 DEF a
<1>3. (10 * v + d) % w = (10 * r + d) % w
  <2>1. 10 * v + d \in Int /\ 10 * r + d \in Int /\ 10 * q \in Int
    BY <1>1
  <2> QED BY <1>2, <2>1, Shifted
<1> QED BY <1>3 DEF r

LEMMA NegatedRemainder ==
    ASSUME NEW v \in Int, NEW w \in Nat, w > 0
    PROVE  (-(v % w)) % w = (-v) % w
<1> DEFINE q == v \div w
           r == v % w
<1>1. q \in Int /\ r \in Int /\ v = w * q + r
  OBVIOUS
<1> HIDE DEF q, r
<1>2. -r = w * q + (-v)
  <2> DEFINE a == w * q
  <2>1. a \in Int /\ v = a + r
    BY <1>1
  <2> HIDE DEF a
  <2>2. -r = a + (-v)
    BY <1>1, <2>1
  <2> QED BY <2>2 DEF a
<1>3. (-r) % w = (-v) % w
  <2>1. \A x, y \in Int : y = w * q + x => y % w = x % w
    BY <1>1, Shifted
  <2>2. -r \in Int /\ -v \in Int
    BY <1>1
  <2> QED BY <1>2, <2>1, <2>2
<1> QED BY <1>3 DEF r

(* A word is read back from its remainder.                                 *)
LEMMA SignedIs ==
    ASSUME NEW n \in Promise!Words
    PROVE  Signed(n % WordSize) = n
<1> DEFINE h == WordSize \div 2
<1>1. WordSize \in Nat /\ h \in Nat /\ 2 * h <= WordSize /\ WordSize <= 2 * h + 1 /\ WordSize > 0
  BY SizeAssumption DEF SizeAssumption
<1>2. n \in -h..(h - 1)
  BY DEF Promise!Words
<1> HIDE DEF h
<1>3. CASE n >= 0
  <2>1. n \in 0..(WordSize - 1) /\ n < h /\ n = WordSize * 0 + n
    BY <1>1, <1>2, <1>3
  <2>2. n % WordSize = n
    BY <1>1, <2>1, Quotient
  <2> QED BY <2>1, <2>2 DEF Signed, h
<1>4. CASE n < 0
  <2>1. /\ n + WordSize \in 0..(WordSize - 1) /\ ~(n + WordSize < h)
        /\ n = WordSize * (-1) + (n + WordSize)
    BY <1>1, <1>2, <1>4
  <2>2. n % WordSize = n + WordSize
    <3> DEFINE r == n + WordSize
    <3>1. n \in Int /\ -1 \in Int /\ r \in 0..(WordSize - 1) /\ n = WordSize * (-1) + r
      BY <1>1, <1>2, <2>1
    <3> HIDE DEF r
    <3>2. n % WordSize = r
      BY <1>1, <3>1, Quotient
    <3> QED BY <3>2 DEF r
  <2>3. Signed(n % WordSize) = (n + WordSize) - WordSize
    BY <2>1, <2>2, Zenon DEF Signed, h
  <2>4. (n + WordSize) - WordSize = n
    BY <1>1, <1>2
  <2> QED BY <2>3, <2>4, Zenon
<1> QED BY <1>1, <1>2, <1>3, <1>4

LEMMA SignedWord ==
    ASSUME NEW r \in 0..(WordSize - 1)
    PROVE  Signed(r) \in Promise!Words
<1> DEFINE h == WordSize \div 2
<1>1. WordSize \in Nat /\ h \in Nat /\ 2 * h = WordSize
  BY SizeAssumption DEF SizeAssumption
<1> HIDE DEF h
<1>2. r < h => r \in -h..(h - 1)
  BY <1>1
<1>3. ~(r < h) => r - WordSize \in -h..(h - 1)
  BY <1>1
<1> QED BY <1>2, <1>3 DEF h, Signed, Promise!Words

(* The values of the beginnings of a text.                                 *)
ValuesTo(s, n, f) ==
    f = [i \in 0..n |-> IF i = 0 THEN 0 ELSE 10 * f[i - 1] + (s[i] - 48)]

Values(s) == CHOOSE f : ValuesTo(s, Len(s), f)

(* There is such a table of values...                                      *)
LEMMA ValuesExist ==
    ASSUME NEW s \in Seq(Int)
    PROVE  \A n \in Nat : n <= Len(s) => \E f : ValuesTo(s, n, f)
<1> DEFINE S == {n \in Nat : n <= Len(s) => \E f : ValuesTo(s, n, f)}
<1>1. 0 \in S
  <2>1. ValuesTo(s, 0, [i \in 0..0 |-> 0])
    BY DEF ValuesTo
  <2> QED BY <2>1
<1>2. ASSUME NEW n \in Nat, n \in S PROVE n + 1 \in S
  <2> SUFFICES ASSUME n + 1 <= Len(s) PROVE \E f : ValuesTo(s, n + 1, f)
    OBVIOUS
  <2>1. n <= Len(s)
    OBVIOUS
  <2>2. PICK f : ValuesTo(s, n, f)
    BY <1>2, <2>1
  <2> DEFINE g == [i \in 0..(n + 1) |-> IF i = 0 THEN 0 ELSE 10 * f[i - 1] + (s[i] - 48)]
  <2>3. \A i \in 0..n : g[i] = f[i]
    <3> TAKE i \in 0..n
    <3>1. g[i] = IF i = 0 THEN 0 ELSE 10 * f[i - 1] + (s[i] - 48)
      OBVIOUS
    <3>2. f[i] = IF i = 0 THEN 0 ELSE 10 * f[i - 1] + (s[i] - 48)
      BY <2>2 DEF ValuesTo
    <3> QED BY <3>1, <3>2
  <2>4. \A i \in 0..(n + 1) : i # 0 => g[i - 1] = f[i - 1]
    <3> TAKE i \in 0..(n + 1)
    <3> SUFFICES ASSUME i # 0 PROVE g[i - 1] = f[i - 1]
      OBVIOUS
    <3>1. i - 1 \in 0..n
      OBVIOUS
    <3> HIDE DEF g
    <3> QED BY <2>3, <3>1
  <2>5. \A i \in 0..(n + 1) : g[i] = IF i = 0 THEN 0 ELSE 10 * g[i - 1] + (s[i] - 48)
    <3> TAKE i \in 0..(n + 1)
    <3>1. g[i] = IF i = 0 THEN 0 ELSE 10 * f[i - 1] + (s[i] - 48)
      OBVIOUS
    <3> HIDE DEF g
    <3> QED BY <2>4, <3>1
  <2>6. g = [i \in 0..(n + 1) |-> g[i]]
    OBVIOUS
  <2> HIDE DEF g
  <2>7. g = [i \in 0..(n + 1) |-> IF i = 0 THEN 0 ELSE 10 * g[i - 1] + (s[i] - 48)]
    BY <2>5, <2>6
  <2> QED BY <2>7 DEF ValuesTo
<1> HIDE DEF S
<1>3. \A n \in Nat : n \in S
  BY <1>1, <1>2, Induction
<1> QED BY <1>3 DEF S

(* ...and its last entry is the value of the text.                         *)
LEMMA ValuesAre ==
    ASSUME NEW s \in Seq(Int)
    PROVE  /\ Values(s)[0] = 0
           /\ \A i \in 1..Len(s) : Values(s)[i] = 10 * Values(s)[i - 1] + (s[i] - 48)
           /\ \A i \in 0..Len(s) : Values(s)[i] \in Int
           /\ Promise!ValueOf(s) = Values(s)[Len(s)]
<1>1. Len(s) \in Nat
  OBVIOUS
<1>2. ValuesTo(s, Len(s), Values(s))
  <2>1. \E f : ValuesTo(s, Len(s), f)
    BY <1>1, ValuesExist
  <2> QED BY <2>1, Zenon DEF Values
<1>3. PICK f : f = Values(s)
  OBVIOUS
<1>4. f = [i \in 0..Len(s) |-> IF i = 0 THEN 0 ELSE 10 * f[i - 1] + (s[i] - 48)]
  BY <1>2, <1>3 DEF ValuesTo
<1>5. f[0] = 0
  BY <1>1, <1>4
<1>6. \A i \in 1..Len(s) : f[i] = 10 * f[i - 1] + (s[i] - 48)
  <2> TAKE i \in 1..Len(s)
  <2>1. i \in 0..Len(s) /\ i # 0
    BY <1>1
  <2>2. f[i] = IF i = 0 THEN 0 ELSE 10 * f[i - 1] + (s[i] - 48)
    BY <1>4, <2>1
  <2> QED BY <2>1, <2>2
<1>7. \A i \in 0..Len(s) : f[i] \in Int
  <2> DEFINE S == {i \in Nat : i <= Len(s) => f[i] \in Int}
  <2>1. 0 \in S
    BY <1>5
  <2>2. ASSUME NEW i \in Nat, i \in S PROVE i + 1 \in S
    <3> SUFFICES ASSUME i + 1 <= Len(s) PROVE f[i + 1] \in Int
      OBVIOUS
    <3>1. f[i] \in Int /\ s[i + 1] \in Int
      BY <1>1, <2>2
    <3>2. f[i + 1] = 10 * f[i + 1 - 1] + (s[i + 1] - 48)
      BY <1>1, <1>6
    <3>3. i + 1 - 1 = i
      OBVIOUS
    <3> QED BY <3>1, <3>2, <3>3
  <2> HIDE DEF S
  <2>3. \A i \in Nat : i \in S
    BY <2>1, <2>2, Induction
  <2> QED BY <1>1, <2>3 DEF S
<1>8. Promise!ValueOf(s) = f[Len(s)]
  <2>1. Promise!ValueOf(s) = Values(s)[Len(s)]
    BY Zenon DEF Promise!ValueOf, Promise!Zero, Values, ValuesTo
  <2> QED BY <1>3, <2>1
<1> QED BY <1>3, <1>5, <1>6, <1>7, <1>8

-----------------------------------------------------------------------------
(* The first line behind what was read.                                    *)
LEMMA LineIs ==
    ASSUME input \in Seq(Byte), NEW from \in Nat, Promise!HasLineAfter(from)
    PROVE  LET line == Promise!LineAfter(from) IN
           /\ line \in Seq(Byte) /\ Len(line) \in Nat /\ Len(line) > 0
           /\ from + Len(line) <= Len(input)
           /\ \A i \in 1..Len(line) : line[i] = input[from + i]
           /\ \A i \in 1..(Len(line) - 1) : line[i] # 10
           /\ line[Len(line)] = 10
<1> DEFINE At(i) == /\ i \in (from + 1)..Len(input) /\ input[i] = 10
                    /\ \A j \in (from + 1)..(i - 1) : input[j] # 10
           T == {i \in Nat : i \in (from + 1)..Len(input) /\ input[i] = 10}
<1>1. Len(input) \in Nat
  OBVIOUS
<1>2. PICK i \in (from + 1)..Len(input) : input[i] = 10
  BY DEF Promise!HasLineAfter, Promise!NewLine
<1>3. i \in Nat /\ i \in T
  BY <1>1, <1>2
<1>4. PICK m \in T : \A k \in T : m <= k
  <2>1. T \in SUBSET Nat /\ T # {}
    BY <1>3
  <2> HIDE DEF T
  <2> QED BY <2>1, Least
<1>5. At(m)
  <2>1. m \in (from + 1)..Len(input) /\ input[m] = 10
    BY <1>4
  <2>2. \A j \in (from + 1)..(m - 1) : input[j] # 10
    <3> SUFFICES ASSUME NEW j \in (from + 1)..(m - 1), input[j] = 10 PROVE FALSE
      OBVIOUS
    <3>1. j \in T /\ ~(m <= j)
      BY <1>1, <2>1
    <3> QED BY <1>4, <3>1
  <2> QED BY <2>1, <2>2
<1> DEFINE end == CHOOSE j : At(j)
<1>6. At(end)
  BY <1>5, Zenon
<1>7. Promise!LineAfter(from) = SubSeq(input, from + 1, end)
  BY Zenon DEF Promise!LineAfter, Promise!NewLine
<1> HIDE DEF end
<1>8. PICK e : e = end
  OBVIOUS
<1>9. /\ e \in (from + 1)..Len(input) /\ input[e] = 10
      /\ \A j \in (from + 1)..(e - 1) : input[j] # 10
  BY <1>6, <1>8
<1> HIDE DEF At
<1> DEFINE line == SubSeq(input, from + 1, e)
<1>10. e \in Int /\ from + 1 \in Int /\ \A j \in (from + 1)..e : input[j] \in Byte
  BY <1>1, <1>9
<1>11. /\ line \in Seq(Byte) /\ Len(line) = e - from
       /\ \A j \in 1..(e - from) : line[j] = input[from + j]
  <2>1. line \in Seq(Byte) /\ Len(line) = IF from + 1 <= e THEN e - (from + 1) + 1 ELSE 0
    BY <1>10, SubSeqProperties
  <2>2. \A j \in 1..(e - (from + 1) + 1) : line[j] = input[from + 1 + j - 1]
    BY <1>10, SubSeqProperties
  <2>3. e - (from + 1) + 1 = e - from /\ from + 1 <= e
    BY <1>9
  <2>4. \A j \in 1..(e - from) : from + 1 + j - 1 = from + j
    BY <1>9
  <2> HIDE DEF line
  <2> QED BY <2>1, <2>2, <2>3, <2>4
<1>12. Promise!LineAfter(from) = line
  BY <1>7, <1>8
<1> HIDE DEF line
<1>13. Len(line) \in Nat /\ Len(line) > 0 /\ from + Len(line) = e /\ e <= Len(input)
  BY <1>1, <1>9, <1>11
<1>14. \A j \in 1..Len(line) : line[j] = input[from + j]
  BY <1>11
<1>15. \A j \in 1..(Len(line) - 1) : line[j] # 10
  <2> TAKE j \in 1..(Len(line) - 1)
  <2>1. from + j \in (from + 1)..(e - 1) /\ j \in 1..Len(line)
    BY <1>13
  <2> QED BY <1>9, <1>14, <2>1
<1>16. line[Len(line)] = 10
  <2>1. Len(line) \in 1..Len(line)
    BY <1>13
  <2> QED BY <1>9, <1>13, <1>14, <2>1
<1> QED BY <1>11, <1>12, <1>13, <1>14, <1>15, <1>16

(* What SubSeq returns, bounds and elements.                              *)
LEMMA SliceElements ==
    ASSUME NEW m \in Int, NEW n \in Int, NEW s, \A i \in m..n : s[i] \in Nat
    PROVE  /\ SubSeq(s, m, n) \in Seq(Nat)
           /\ Len(SubSeq(s, m, n)) = IF m <= n THEN n - m + 1 ELSE 0
           /\ \A i \in 1..(n - m + 1) : SubSeq(s, m, n)[i] = s[m + i - 1]
BY SubSeqProperties

LEMMA PrefixElements ==
    ASSUME NEW s \in Seq(Nat), NEW k \in Nat, k <= Len(s)
    PROVE  /\ SubSeq(s, 1, k) \in Seq(Nat)
           /\ Len(SubSeq(s, 1, k)) = k
           /\ \A i \in 1..k : SubSeq(s, 1, k)[i] = s[i]
<1>1. \A i \in 1..k : s[i] \in Nat
  OBVIOUS
<1> QED BY <1>1

LEMMA JoinElements ==
  ASSUME NEW k \in Nat, NEW t \in Seq(Nat), NEW z \in Seq(Nat), Len(z) = k
  PROVE  /\ t \o z \in Seq(Nat) /\ Len(t \o z) = Len(t) + k
         /\ \A i \in 1..(Len(t) + k) : (t \o z)[i] = IF i <= Len(t) THEN t[i] ELSE z[i - Len(t)]
OBVIOUS

(* The digits that a line without its sign stands for.                     *)
Meant(b, p, k) ==
    SubSeq(b, 1, p - 1) \o SubSeq(SubSeq(b, p + 1, Len(b) - 1) \o [i \in 1..k |-> 48], 1, k)

MadeOf(b, p, k) ==
    /\ Meant(b, p, k) \in Seq(Nat)
    /\ Len(Meant(b, p, k)) = p - 1 + k
    /\ \A i \in 1..(p - 1) : Meant(b, p, k)[i] = b[i]
    /\ \A i \in 1..k : Meant(b, p, k)[p - 1 + i] = IF p + i < Len(b) THEN b[p + i] ELSE 48

(* What the text of a number has at each place.                            *)
LEMMA MeantIs ==
    ASSUME NEW b \in Seq(Nat), NEW p \in 1..Len(b), NEW k \in Nat
    PROVE  MadeOf(b, p, k)
<1> DEFINE s == SubSeq(b, 1, p - 1)
           t == SubSeq(b, p + 1, Len(b) - 1)
           z == [i \in 1..k |-> 48]
           u == SubSeq(t \o z, 1, k)
<1>1. Len(b) \in Nat /\ p \in Int /\ 1 <= p /\ p <= Len(b)
  OBVIOUS
<1>2. s \in Seq(Nat) /\ Len(s) = p - 1 /\ \A i \in 1..(p - 1) : s[i] = b[i]
  <2>1. \A i \in 1..(p - 1) : b[i] \in Nat
    BY <1>1
  <2> QED BY <1>1, <2>1
<1>3. /\ t \in Seq(Nat) /\ Len(t) = IF p + 1 <= Len(b) - 1 THEN Len(b) - 1 - p ELSE 0
      /\ \A i \in 1..(Len(b) - 1 - p) : t[i] = b[p + i]
  <2> DEFINE m == p + 1
             n == Len(b) - 1
  <2>1. m \in Int /\ n \in Int /\ \A i \in m..n : b[i] \in Nat
    BY <1>1
  <2>2. m = p + 1 /\ n = Len(b) - 1
    OBVIOUS
  <2>3. t = SubSeq(b, m, n)
    OBVIOUS
  <2> HIDE DEF m, n, t
  <2>4. /\ t \in Seq(Nat)
        /\ Len(t) = IF m <= n THEN n - m + 1 ELSE 0
        /\ \A i \in 1..(n - m + 1) : t[i] = b[m + i - 1]
    <3>1. /\ SubSeq(b, m, n) \in Seq(Nat)
          /\ Len(SubSeq(b, m, n)) = IF m <= n THEN n - m + 1 ELSE 0
          /\ \A i \in 1..(n - m + 1) : SubSeq(b, m, n)[i] = b[m + i - 1]
      BY <2>1, SliceElements
    <3> QED BY <2>3, <3>1
  <2>5. n - m + 1 = Len(b) - 1 - p /\ (m <= n <=> p + 1 <= Len(b) - 1)
    BY <1>1, <2>2
  <2>6. \A i \in 1..(Len(b) - 1 - p) : t[i] = b[p + i]
    <3> TAKE i \in 1..(Len(b) - 1 - p)
    <3>1. m + i - 1 = p + i
      BY <1>1, <2>2
    <3>2. t[i] = b[m + i - 1]
      BY <2>4, <2>5
    <3> QED BY <3>1, <3>2
  <2>7. Len(t) = IF p + 1 <= Len(b) - 1 THEN Len(b) - 1 - p ELSE 0
    BY <2>4, <2>5
  <2> QED BY <2>4, <2>6, <2>7
<1>4. z \in Seq(Nat) /\ Len(z) = k /\ \A i \in 1..k : z[i] = 48
  OBVIOUS
<1> HIDE DEF s, t, z
<1>5. /\ t \o z \in Seq(Nat) /\ Len(t \o z) = Len(t) + k
      /\ \A i \in 1..(Len(t) + k) : (t \o z)[i] = IF i <= Len(t) THEN t[i] ELSE z[i - Len(t)]
  <2>1. t \in Seq(Nat) /\ z \in Seq(Nat) /\ Len(z) = k
    BY <1>3, <1>4
  <2> QED BY <2>1, JoinElements
<1>6. u \in Seq(Nat) /\ Len(u) = k /\ \A i \in 1..k : u[i] = (t \o z)[i]
  <2> DEFINE v == t \o z
  <2>1. v \in Seq(Nat) /\ Len(v) = Len(t) + k
    BY <1>5
  <2>2. u = SubSeq(v, 1, k)
    BY DEF u
  <2>3. Len(t) \in Nat
    BY <1>3
  <2> HIDE DEF u, v
  <2>4. k <= Len(v)
    BY <2>1, <2>3
  <2>5. SubSeq(v, 1, k) \in Seq(Nat) /\ Len(SubSeq(v, 1, k)) = k
        /\ \A i \in 1..k : SubSeq(v, 1, k)[i] = v[i]
    BY <2>1, <2>4, PrefixElements
  <2>6. u \in Seq(Nat) /\ Len(u) = k /\ \A i \in 1..k : u[i] = v[i]
    BY <2>2, <2>5
  <2> QED BY <2>6 DEF v
<1>7. \A i \in 1..k : u[i] = IF p + i < Len(b) THEN b[p + i] ELSE 48
  <2> TAKE i \in 1..k
  <2>1. Len(t) \in Nat /\ i \in 1..(Len(t) + k)
    BY <1>3
  <2>2. u[i] = IF i <= Len(t) THEN t[i] ELSE z[i - Len(t)]
    BY <1>5, <1>6, <2>1
  <2>3. i <= Len(t) <=> p + i < Len(b)
    BY <1>1, <1>3
  <2>4. i <= Len(t) => t[i] = b[p + i]
    BY <1>1, <1>3, <2>3
  <2>5. ~(i <= Len(t)) => z[i - Len(t)] = 48
    <3>1. ~(i <= Len(t)) => i - Len(t) \in 1..k
      BY <2>1
    <3> QED BY <1>4, <3>1
  <2> QED BY <2>2, <2>3, <2>4, <2>5
<1> HIDE DEF u
<1>8. /\ s \o u \in Seq(Nat) /\ Len(s \o u) = p - 1 + k
      /\ \A i \in 1..(p - 1 + k) : (s \o u)[i] = IF i <= p - 1 THEN s[i] ELSE u[i - (p - 1)]
  <2>1. /\ s \o u \in Seq(Nat) /\ Len(s \o u) = Len(s) + Len(u)
        /\ \A i \in 1..(Len(s) + Len(u)) : (s \o u)[i] = IF i <= Len(s) THEN s[i] ELSE u[i - Len(s)]
    BY <1>2, <1>6, ConcatProperties
  <2> QED BY <1>2, <1>6, <2>1
<1>9. Meant(b, p, k) = s \o u
  BY Zenon DEF Meant, s, t, z, u
<1> DEFINE m == s \o u
<1>10. /\ m \in Seq(Nat) /\ Len(m) = p - 1 + k
       /\ \A i \in 1..(p - 1 + k) : m[i] = IF i <= p - 1 THEN s[i] ELSE u[i - (p - 1)]
  BY <1>8
<1> HIDE DEF m
<1>11. \A i \in 1..(p - 1) : m[i] = b[i]
  <2> TAKE i \in 1..(p - 1)
  <2>1. i \in 1..(p - 1 + k) /\ i <= p - 1
    BY <1>1
  <2>2. m[i] = s[i]
    BY <1>10, <2>1
  <2>3. s[i] = b[i]
    BY <1>2
  <2> QED BY <2>2, <2>3
<1>12. \A i \in 1..k : m[p - 1 + i] = IF p + i < Len(b) THEN b[p + i] ELSE 48
  <2> TAKE i \in 1..k
  <2>1. p - 1 + i \in 1..(p - 1 + k) /\ ~(p - 1 + i <= p - 1) /\ p - 1 + i - (p - 1) = i
    BY <1>1
  <2> QED BY <1>7, <1>10, <2>1
<1> QED BY <1>9, <1>10, <1>11, <1>12 DEF MadeOf, m

(* A line without its sign.                                                *)
LEMMA UnsignedIs ==
    ASSUME NEW line \in Seq(Byte), Len(line) > 0, line[Len(line)] = 10
    PROVE  LET b == Promise!Unsigned(line)
               d == IF line[1] = 45 THEN 1 ELSE 0
           IN  /\ b \in Seq(Nat) /\ Len(b) \in Nat /\ Len(b) > 0
               /\ Len(line) = Len(b) + d
               /\ \A i \in 1..Len(b) : b[i] = line[i + d]
               /\ b[Len(b)] = 10
<1>1. Len(line) \in Nat /\ line # <<>>
  OBVIOUS
<1>2. \A i \in 1..Len(line) : line[i] \in Nat
  <2>1. \A i \in 1..Len(line) : line[i] \in Byte
    OBVIOUS
  <2>2. \A c \in Byte : c \in Nat
    BY DEF Byte
  <2> QED BY <2>1, <2>2
<1>3. CASE line[1] = 45
  <2>1. Promise!Unsigned(line) = Tail(line)
    BY <1>3 DEF Promise!Unsigned, Promise!Minus
  <2>2. Len(line) # 1
    BY <1>3
  <2>3. /\ Tail(line) \in Seq(Byte) /\ Len(Tail(line)) = Len(line) - 1
        /\ \A i \in 1..Len(Tail(line)) : Tail(line)[i] = line[i + 1]
    BY <1>1, HeadTailProperties
  <2> DEFINE b == Tail(line)
  <2> HIDE DEF b
  <2>4. /\ b \in Seq(Byte) /\ Len(b) = Len(line) - 1 /\ Len(b) \in Nat /\ Len(b) > 0
        /\ \A i \in 1..Len(b) : b[i] = line[i + 1]
    BY <1>1, <2>2, <2>3 DEF b
  <2>5. b[Len(b)] = 10
    BY <2>4
  <2>6. b \in Seq(Nat)
    <3>1. \A i \in 1..Len(b) : b[i] \in Byte
      BY <2>4
    <3>2. \A c \in Byte : c \in Nat
      BY DEF Byte
    <3>3. \A i \in 1..Len(b) : b[i] \in Nat
      BY <3>1, <3>2
    <3> QED BY <2>4, <3>3
  <2> QED BY <1>1, <1>3, <2>1, <2>4, <2>5, <2>6 DEF b
<1>4. CASE line[1] # 45
  <2>1. Promise!Unsigned(line) = line
    BY <1>4 DEF Promise!Unsigned, Promise!Minus
  <2>2. line \in Seq(Nat)
    BY <1>1, <1>2
  <2>3. \A i \in 1..Len(line) : line[i] = line[i + 0]
    BY <1>1
  <2> QED BY <1>1, <1>4, <2>1, <2>2, <2>3
<1> QED BY <1>3, <1>4

Reading == {"digits", "precision", "remaining", "negate"}

From   == taken - got
Line   == Promise!LineAfter(From)
Body   == Promise!Unsigned(Line)
First  == IF negative THEN 1 ELSE 0
Places == call.precision
Text(p)     == Meant(Body, p, Places)
Value(p, i) == IF i = 0 THEN 0 ELSE Values(Text(p))[i]

(* A read from a terminal gives the whole line, if it fits the buffer.     *)
GotOK ==
    /\ pc = "read" => rax = 0
    /\ pc \in {"read", "digits"} => count = Places
    /\ pc \in Reading =>
         /\ From \in Nat
         /\ \A i \in Cells : i < got => buffer[i] = input[From + i + 1]
         /\ Promise!HasLineAfter(From) /\ Len(Line) <= BufferSize =>
              got = Len(Line) /\ (negative <=> Line[1] = 45)

(* How far the digits are read, and what of, when the line is a number     *)
(* that splits at p.                                                       *)
MeantOK(p) ==
    /\ pc = "digits" =>
         \E j \in 0..(p - 1) : ptr = First + j /\ rax = Value(p, j) % WordSize
    /\ pc = "precision" =>
         \E j \in 0..Places :
            /\ count = Places - j
            /\ rax = Value(p, p - 1 + j) % WordSize
            /\ p < Len(Body) => ptr = First + p + j /\ p + j < Len(Body)
            /\ p = Len(Body) => ptr = First + p - 1 /\ j = 0
    /\ pc = "remaining" =>
         \E j \in 0..Places :
            /\ count = Places - j
            /\ rax = Value(p, p - 1 + j) % WordSize
            /\ j < Places => Len(Body) <= p + j + 1
    /\ pc = "negate" => rax = Value(p, p - 1 + Places) % WordSize

ReadMeant ==
    pc \in Reading /\ Promise!HasLineAfter(From) =>
      \A p \in Promise!Splits(call.fn, Line) : MeantOK(p)

-----------------------------------------------------------------------------
(* What is known of a line that is a number.                               *)
Facts(p) ==
    /\ Places \in Nat
    /\ call.fn = "accio" => Places = 0
    /\ Len(Body) \in Nat /\ p \in 2..Len(Body)
    /\ First \in {0, 1} /\ (negative <=> Line[1] = 45)
    /\ \A i \in 1..Len(Body) : First + i - 1 \in Cells /\ buffer[First + i - 1] = Body[i]
    /\ Body[Len(Body)] = 10
    /\ \A i \in 1..(Len(Body) - 1) : i # p => Body[i] \in 48..57
    /\ p < Len(Body) => Body[p] = 46 /\ call.fn = "accio_bombarda"
    /\ Text(p) \in Seq(Nat) /\ Len(Text(p)) = p - 1 + Places
    /\ \A i \in 1..(p - 1) : Text(p)[i] = Body[i]
    /\ \A i \in 1..Places : Text(p)[p - 1 + i] = IF p + i < Len(Body) THEN Body[p + i] ELSE 48

(* The facts of a line that is a number.                                   *)
LEMMA FactsHold ==
    ASSUME IInv, CallOK, GotOK, pc \in Reading, Promise!HasLineAfter(From),
           NEW p \in Promise!Splits(call.fn, Line)
    PROVE  Facts(p)
<1>1. /\ call \in Calls /\ From \in Nat /\ input \in Seq(Byte) /\ BufferSize \in Nat
  BY InputAssumption, SizeAssumption
     DEF CallOK, Reading, GotOK, IInv, InputAssumption, SizeAssumption
<1>2. Places \in Nat /\ (call.fn = "accio" => Places = 0)
  BY <1>1, CallFacts DEF Places
<1>3. /\ Line \in Seq(Byte) /\ Len(Line) \in Nat /\ Len(Line) > 0
      /\ \A i \in 1..Len(Line) : Line[i] = input[From + i]
      /\ Line[Len(Line)] = 10
  BY <1>1, LineIs DEF Line
<1> DEFINE d == IF Line[1] = 45 THEN 1 ELSE 0
<1>4. /\ Body \in Seq(Nat) /\ Len(Body) \in Nat /\ Len(Body) > 0
      /\ Len(Line) = Len(Body) + d
      /\ \A i \in 1..Len(Body) : Body[i] = Line[i + d]
      /\ Body[Len(Body)] = 10
  BY <1>3, UnsignedIs DEF Body
<1>5. /\ p \in 2..(Len(Body) - 1 + 1)
      /\ \A i \in 1..(Len(Body) - 1) : i # p => Promise!IsDigit(Body[i])
      /\ p <= Len(Body) - 1 => call.fn = "accio_bombarda" /\ Body[p] = 46
      /\ Len(Body) - 1 < BufferSize - 1
  BY Zenon DEF Promise!Splits, Body, Promise!Point
<1>6. p \in 2..Len(Body) /\ p \in 1..Len(Body) /\ Len(Line) <= BufferSize
  BY <1>1, <1>4, <1>5
<1>7. got = Len(Line) /\ (negative <=> Line[1] = 45)
  BY <1>6 DEF GotOK
<1>8. First = d /\ First \in {0, 1}
  BY <1>7 DEF First
<1> HIDE DEF d
<1>9. \A i \in 1..Len(Body) : First + i - 1 \in Cells /\ buffer[First + i - 1] = Body[i]
  <2> TAKE i \in 1..Len(Body)
  <2> DEFINE c == First + i - 1
  <2>1. /\ c \in 0..(BufferSize - 1) /\ c < got /\ From + c + 1 = From + (i + d)
        /\ i + d \in 1..Len(Line)
    <3>1. i \in 1..Len(Body) /\ c = d + i - 1 /\ d \in {0, 1}
      BY <1>8
    <3> HIDE DEF c
    <3> DEFINE n == Len(Body)
               m == Len(Line)
               f == From
    <3>2. /\ n \in Nat /\ m = n + d /\ m <= BufferSize /\ got = m /\ f \in Nat /\ i \in 1..n
          /\ BufferSize \in Nat
      BY <1>1, <1>4, <1>6, <1>7
    <3> HIDE DEF n, m, f
    <3>3. /\ c \in 0..(BufferSize - 1) /\ c < got /\ f + c + 1 = f + (i + d)
          /\ i + d \in 1..m
      BY <3>1, <3>2
    <3> QED BY <3>3 DEF m, f
  <2>2. c \in Cells
    BY <2>1 DEF Cells
  <2> HIDE DEF c
  <2>3. buffer[c] = input[From + c + 1]
    BY <2>1, <2>2 DEF GotOK
  <2>4. Body[i] = input[From + (i + d)]
    BY <1>3, <1>4, <2>1
  <2> QED BY <2>1, <2>2, <2>3, <2>4 DEF c
<1>10. \A i \in 1..(Len(Body) - 1) : i # p => Body[i] \in 48..57
  BY <1>5 DEF Promise!IsDigit, Promise!Zero
<1>11. p < Len(Body) => Body[p] = 46 /\ call.fn = "accio_bombarda"
  <2>1. p < Len(Body) => p <= Len(Body) - 1
    BY <1>4, <1>6
  <2> QED BY <1>5, <2>1
<1>12. /\ Text(p) \in Seq(Nat) /\ Len(Text(p)) = p - 1 + Places
       /\ \A i \in 1..(p - 1) : Text(p)[i] = Body[i]
       /\ \A i \in 1..Places : Text(p)[p - 1 + i] = IF p + i < Len(Body) THEN Body[p + i] ELSE 48
  <2> DEFINE b == Body
             k == Places
  <2>1. b \in Seq(Nat) /\ p \in 1..Len(b) /\ k \in Nat
    BY <1>2, <1>4, <1>6
  <2>2. Text(p) = Meant(b, p, k)
    BY DEF Text
  <2> HIDE DEF b, k
  <2>3. MadeOf(b, p, k)
    BY <2>1, MeantIs
  <2> QED BY <2>2, <2>3 DEF MadeOf, b, k
<1> QED BY <1>2, <1>4, <1>6, <1>7, <1>8, <1>9, <1>10, <1>11, <1>12 DEF Facts

(* One more digit.                                                         *)
LEMMA DigitRead ==
    ASSUME NEW p, Facts(p), NEW j \in 0..(p - 2 + Places), NEW c \in Int, c = Text(p)[j + 1],
           rax = Value(p, j) % WordSize
    PROVE  (rax * 10 + (c - 48)) % WordSize = Value(p, j + 1) % WordSize
<1> DEFINE s == Text(p)
<1>1. s \in Seq(Nat) /\ Len(s) = p - 1 + Places /\ p \in Nat /\ Places \in Nat
  BY DEF Facts
<1>2. s \in Seq(Int)
  BY <1>1
<1> HIDE DEF s
<1>3. /\ Values(s)[0] = 0
      /\ \A i \in 1..Len(s) : Values(s)[i] = 10 * Values(s)[i - 1] + (s[i] - 48)
      /\ \A i \in 0..Len(s) : Values(s)[i] \in Int
  BY <1>2, ValuesAre
<1>4. j + 1 \in 1..Len(s) /\ j \in 0..Len(s) /\ j + 1 - 1 = j
  BY <1>1
<1> DEFINE v == Values(s)[j]
<1>5. v \in Int /\ Values(s)[j + 1] = 10 * v + (c - 48)
  <2>1. Values(s)[j + 1] = 10 * Values(s)[j + 1 - 1] + (s[j + 1] - 48)
    BY <1>3, <1>4
  <2>2. s[j + 1] = c
    BY DEF s
  <2> QED BY <1>3, <1>4, <2>1, <2>2
<1>6. rax = v % WordSize /\ Value(p, j + 1) = Values(s)[j + 1]
  <2>1. j \in Int /\ j + 1 # 0
    BY <1>1
  <2>2. Value(p, j) = Values(s)[j] /\ Value(p, j + 1) = Values(s)[j + 1]
    BY <1>3, <2>1, Zenon DEF Value, s
  <2> QED BY <2>2
<1> HIDE DEF v
<1>7. (10 * (v % WordSize) + (c - 48)) % WordSize = (10 * v + (c - 48)) % WordSize
  <2>1. WordSize \in Nat /\ WordSize > 0 /\ c - 48 \in Int
    BY SizeAssumption DEF SizeAssumption
  <2> QED BY <1>5, <2>1, NextRemainder
<1>8. rax * 10 = 10 * (v % WordSize)
  <2>1. v % WordSize \in Int
    BY <1>5, SizeAssumption DEF SizeAssumption
  <2> QED BY <1>6, <2>1
<1> QED BY <1>5, <1>6, <1>7, <1>8

(* The line at hand is the same as long as it is read.                     *)
LEMMA SameLine ==
    ASSUME UNCHANGED <<got, call, input, taken, negative>>
    PROVE  /\ From' = From /\ Line' = Line /\ Body' = Body /\ First' = First /\ Places' = Places
           /\ Promise!HasLineAfter(From)' <=> Promise!HasLineAfter(From)
           /\ Promise!Splits(call.fn, Line)' = Promise!Splits(call.fn, Line)
           /\ \A p, i : Value(p, i)' = Value(p, i)
<1>1. From' = From /\ First' = First /\ Places' = Places
  BY DEF From, First, Places
<1>2. Line' = Line /\ (Promise!HasLineAfter(From)' <=> Promise!HasLineAfter(From))
  BY <1>1, Zenon DEF Line, Promise!LineAfter, Promise!HasLineAfter
<1>3. Body' = Body
  BY <1>2, Zenon DEF Body
<1>4. Promise!Splits(call.fn, Line)' = Promise!Splits(call.fn, Line)
  BY <1>2, Zenon
<1>5. \A p : Text(p)' = Text(p)
  BY <1>1, <1>3, Zenon DEF Text
<1>6. \A p, i : Value(p, i)' = Value(p, i)
  BY <1>5, Zenon DEF Value
<1> QED BY <1>1, <1>2, <1>3, <1>4, <1>6

LEMMA GotLine == ASSUME IInv, IInv', GotOK, ReadLine, Terminal PROVE GotOK'
<1>1. /\ pc = "read" /\ pc' = "digits" /\ got' \in ReadSizes
      /\ buffer' = [i \in Cells |-> IF i < got' THEN input[taken + i + 1] ELSE buffer[i]]
      /\ taken' = taken + got' /\ negative' = (buffer'[0] = Minus)
      /\ count' = count /\ call' = call /\ input' = input
  BY DEF ReadLine
<1>2. input \in Seq(Byte) /\ Len(input) \in Nat /\ taken \in 0..Len(input) /\ BufferSize \in Nat
      /\ got' \in 0..BufferSize /\ BufferSize > 0
  BY InputAssumption, SizeAssumption DEF IInv, TypeOK, InputAssumption, SizeAssumption
<1>3. From' = taken /\ From' \in Nat
  <2>1. \A x, y \in Nat : (x + y) - y = x
    OBVIOUS
  <2>2. taken \in Nat /\ got' \in Nat
    BY <1>2
  <2>3. (taken + got') - got' = taken
    BY <2>1, <2>2
  <2>4. From' = (taken + got') - got'
    BY <1>1, Zenon DEF From
  <2> QED BY <2>2, <2>3, <2>4
<1>4. \A i \in Cells : i < got' => buffer'[i] = input'[From' + i + 1]
  BY <1>1, <1>3
<1>5. (Promise!HasLineAfter(From))' <=> Promise!HasLineAfter(taken)
  BY <1>1, <1>3, Zenon DEF Promise!HasLineAfter
<1>6. Line' = Promise!LineAfter(taken)
  BY <1>1, <1>3, Zenon DEF Line, Promise!LineAfter
<1>7. ASSUME Promise!HasLineAfter(taken), Len(Line') <= BufferSize
      PROVE  got' = Len(Line') /\ (negative' <=> Line'[1] = 45)
  <2> DEFINE L == Line'
  <2>1. /\ L \in Seq(Byte) /\ Len(L) \in Nat /\ Len(L) > 0
        /\ taken + Len(L) <= Len(input)
        /\ \A i \in 1..Len(L) : L[i] = input[taken + i]
        /\ \A i \in 1..(Len(L) - 1) : L[i] # 10
        /\ L[Len(L)] = 10
    <3>1. taken \in Nat
      BY <1>2
    <3> QED BY <1>2, <1>6, <1>7, <3>1, LineIs
  <2> HIDE DEF L
  <2>2. taken # Len(input)
    BY <1>2, <2>1
  <2>3. got' \in 1..(Len(input) - taken) /\ IsLine(got')
    BY <1>1, <2>2 DEF ReadSizes
  <2>4. /\ \A i \in 1..(got' - 1) : input[taken + i] # 10
        /\ input[taken + got'] = 10 \/ got' = BufferSize \/ taken + got' = Len(input)
    BY <2>3 DEF IsLine, NewLine
  <2>5. got' <= Len(L)
    <3> SUFFICES ASSUME ~(got' <= Len(L)) PROVE FALSE
      OBVIOUS
    <3>1. Len(L) \in 1..(got' - 1) /\ Len(L) \in 1..Len(L)
      BY <1>2, <2>1
    <3> QED BY <2>1, <2>4, <3>1
  <2>6. got' = Len(L)
    <3> SUFFICES ASSUME got' # Len(L) PROVE FALSE
      OBVIOUS
    <3>1. got' \in 1..(Len(L) - 1) /\ got' \in 1..Len(L)
      BY <1>2, <2>1, <2>3, <2>5
    <3>2. input[taken + got'] # 10
      BY <2>1, <3>1
    <3>3. got' # BufferSize /\ taken + got' # Len(input)
      <4>1. Len(L) <= BufferSize /\ got' < Len(L) /\ taken \in Nat
        BY <1>2, <1>7, <2>1, <3>1 DEF L
      <4>2. \A a, b, c, d, e \in Nat : a < b /\ b <= c /\ d + b <= e => a # c /\ d + a # e
        OBVIOUS
      <4>3. got' \in Nat /\ Len(L) \in Nat
        BY <1>2, <2>1
      <4> QED BY <1>2, <2>1, <4>1, <4>2, <4>3
    <3> QED BY <2>4, <3>2, <3>3
  <2>7. buffer'[0] = L[1]
    <3>1. 0 \in Cells /\ 0 < got' /\ 1 \in 1..Len(L) /\ taken + 0 + 1 = taken + 1
      BY <1>2, <2>1, <2>6 DEF Cells
    <3>2. buffer'[0] = input[taken + 0 + 1]
      BY <1>1, <3>1
    <3> QED BY <2>1, <3>1, <3>2
  <2>8. negative' <=> L[1] = 45
    BY <1>1, <2>7 DEF Minus
  <2> QED BY <2>6, <2>8 DEF L
<1>8. count' = Places'
  BY <1>1 DEF GotOK, Places
<1> QED BY <1>1, <1>3, <1>4, <1>5, <1>7, <1>8 DEF GotOK

LEMMA GotStep == ASSUME IInv, IInv', GotOK, [Next]_vars, Terminal PROVE GotOK'
<1>1. CASE EnterRead
  BY <1>1 DEF EnterRead, Entering, GotOK, Reading, Places
<1>2. CASE EnterPrint \/ EnterPrintString \/ EnterCrucio
  BY <1>2 DEF EnterPrint, EnterPrintString, EnterCrucio, Entering, GotOK, Reading
<1>3. CASE ReadLine
  BY <1>3, GotLine
<1>4. CASE Write \/ WriteString \/ Negate \/ Crucio
  BY <1>4 DEF Write, WriteString, Negate, Crucio, Return, GotOK, Reading
<1>5. CASE FractionDigit \/ PutPoint \/ WholeDigit \/ PutSign \/ SkipSign \/ Strlen \/ LeaveBuffer
  BY <1>5 DEF FractionDigit, PutPoint, WholeDigit, PutSign, SkipSign, Strlen, LeaveBuffer, Goto,
              GotOK, Reading
<1>6. ASSUME ReadDigit \/ EndDigits \/ ReadFraction \/ EndFraction \/ Remaining \/ EndRemaining
      PROVE  GotOK'
  <2>1. /\ pc \in Reading /\ pc' # "read"
        /\ pc' = "digits" => pc = "digits" /\ count' = count
        /\ UNCHANGED <<buffer, got, call, input, taken, negative>>
    BY <1>6 DEF ReadDigit, EndDigits, ReadFraction, EndFraction, Remaining,
       EndRemaining, GetDigit,
                Goto, world, registers, Reading
  <2>2. /\ From' = From /\ Line' = Line /\ Places' = Places
        /\ Promise!HasLineAfter(From)' <=> Promise!HasLineAfter(From)
    BY <2>1, SameLine
  <2> QED BY <2>1, <2>2 DEF GotOK
<1>7. CASE UNCHANGED vars
  <2>1. UNCHANGED <<pc, rax, count, buffer, got, call, input, taken, negative>>
    BY <1>7 DEF vars, registers, world
  <2>2. /\ From' = From /\ Line' = Line /\ Places' = Places
        /\ Promise!HasLineAfter(From)' <=> Promise!HasLineAfter(From)
    BY <2>1, SameLine
  <2> QED BY <2>1, <2>2 DEF GotOK
<1> QED BY <1>1, <1>2, <1>3, <1>4, <1>5, <1>6, <1>7 DEF Next, Enter, Step

(* The line, its text and its split stay, and its facts are at hand.       *)
LEMMA Kept ==
    ASSUME IInv, CallOK, GotOK, ReadMeant, pc \in Reading,
           UNCHANGED <<got, call, input, taken, negative>>,
           pc' \in Reading /\ Promise!HasLineAfter(From)',
           NEW p \in Promise!Splits(call.fn, Line)'
    PROVE  /\ Facts(p) /\ MeantOK(p)
           /\ Body' = Body /\ First' = First /\ Places' = Places
           /\ \A i : Value(p, i)' = Value(p, i)
<1>1. p \in Promise!Splits(call.fn, Line) /\ Promise!HasLineAfter(From)
  BY SameLine
<1>2. Facts(p)
  BY <1>1, FactsHold
<1>3. MeantOK(p)
  BY <1>1 DEF ReadMeant
<1> QED BY <1>2, <1>3, SameLine

(* A digit in front of the point: the pointer was not at the point or the  *)
(* end.                                                                    *)
LEMMA ReadDigitMeant ==
    ASSUME NEW p, Facts(p), MeantOK(p), ReadDigit,
           Body' = Body, First' = First, Places' = Places, \A i : Value(p, i)' = Value(p, i)
    PROVE  MeantOK(p)'
<1>1. /\ pc = "digits" /\ pc' = "digits" /\ ~EndsDigits(buffer[ptr])
      /\ rax' = (rax * 10 + (buffer[ptr] - 48)) % WordSize /\ ptr' = ptr + 1
  BY DEF ReadDigit, GetDigit, Goto, Zero
<1>2. PICK j \in 0..(p - 1) : ptr = First + j /\ rax = Value(p, j) % WordSize
  BY <1>1 DEF MeantOK
<1>3. /\ Places \in Nat /\ Len(Body) \in Nat /\ p \in 2..Len(Body) /\ First \in {0, 1}
      /\ \A i \in 1..Len(Body) : buffer[First + i - 1] = Body[i]
      /\ Body[Len(Body)] = 10
      /\ p < Len(Body) => Body[p] = 46 /\ call.fn = "accio_bombarda"
      /\ \A i \in 1..(p - 1) : Text(p)[i] = Body[i]
      /\ \A i \in 1..(Len(Body) - 1) : i # p => Body[i] \in 48..57
  BY DEF Facts
<1>4. First + (j + 1) - 1 = ptr /\ j + 1 \in 1..Len(Body)
  BY <1>2, <1>3
<1>5. buffer[ptr] = Body[j + 1]
  BY <1>3, <1>4
<1>6. j # p - 1
  <2> SUFFICES ASSUME j = p - 1 PROVE FALSE
    OBVIOUS
  <2>1. buffer[ptr] = Body[p]
    <3>1. j + 1 = p
      BY <1>3
    <3> QED BY <1>5, <3>1
  <2>2. p = Len(Body) \/ p < Len(Body)
    BY <1>3
  <2> QED BY <1>1, <1>3, <2>1, <2>2 DEF EndsDigits, NewLine, Point
<1>7. j + 1 \in 0..(p - 1) /\ j + 1 \in 1..(p - 1) /\ j \in 0..(p - 2 + Places)
  BY <1>2, <1>3, <1>6
<1>8. buffer[ptr] = Text(p)[j + 1] /\ buffer[ptr] \in Int
  <2>1. j + 1 \in 1..(Len(Body) - 1) /\ j + 1 # p
    BY <1>3, <1>7
  <2> QED BY <1>3, <1>5, <1>7, <2>1
<1>9. rax' = Value(p, j + 1) % WordSize
  BY <1>1, <1>2, <1>7, <1>8, DigitRead
<1>10. ptr' = First' + (j + 1)
  BY <1>1, <1>2, <1>3
<1>11. rax' = Value(p, j + 1)' % WordSize
  BY <1>9
<1> DEFINE k == j + 1
<1>12. k \in 0..(p - 1) /\ ptr' = First' + k /\ rax' = Value(p, k)' % WordSize
  BY <1>7, <1>10, <1>11
<1> HIDE DEF k
<1> QED BY <1>1, <1>12 DEF MeantOK

(* The point or the end of the line: all digits in front of it are read.   *)
LEMMA EndDigitsMeant ==
    ASSUME NEW p, Facts(p), MeantOK(p), EndDigits, GotOK,
           Body' = Body, First' = First, Places' = Places, \A i : Value(p, i)' = Value(p, i)
    PROVE  MeantOK(p)'
<1>1. /\ pc = "digits" /\ EndsDigits(buffer[ptr])
      /\ pc' = IF call.fn = "accio" THEN "negate" ELSE "precision"
      /\ ptr' = IF buffer[ptr] = 46 THEN ptr + 1 ELSE ptr
      /\ rax' = rax /\ count' = count /\ count = Places
  BY DEF EndDigits, Goto, GotOK, Point
<1>2. PICK j \in 0..(p - 1) : ptr = First + j /\ rax = Value(p, j) % WordSize
  BY <1>1 DEF MeantOK
<1>3. /\ Places \in Nat /\ Len(Body) \in Nat /\ p \in 2..Len(Body) /\ First \in {0, 1}
      /\ \A i \in 1..Len(Body) : buffer[First + i - 1] = Body[i]
      /\ Body[Len(Body)] = 10
      /\ p < Len(Body) => Body[p] = 46 /\ call.fn = "accio_bombarda"
      /\ \A i \in 1..(Len(Body) - 1) : i # p => Body[i] \in 48..57
      /\ call.fn = "accio" => Places = 0
  BY DEF Facts
<1>4. First + (j + 1) - 1 = ptr /\ j + 1 \in 1..Len(Body)
  BY <1>2, <1>3
<1>5. buffer[ptr] = Body[j + 1]
  BY <1>3, <1>4
<1>6. j = p - 1
  <2> SUFFICES ASSUME j # p - 1 PROVE FALSE
    OBVIOUS
  <2>1. j + 1 \in 1..(Len(Body) - 1) /\ j + 1 # p
    BY <1>2, <1>3
  <2>2. Body[j + 1] \in 48..57
    BY <1>3, <2>1
  <2>3. Body[j + 1] \in {10, 46}
    BY <1>1, <1>5 DEF EndsDigits, NewLine, Point
  <2> QED BY <2>2, <2>3
<1>7. buffer[ptr] = Body[p]
  <2>1. j + 1 = p
    BY <1>3, <1>6
  <2> QED BY <1>5, <2>1
<1>8. rax' = Value(p, p - 1)' % WordSize
  BY <1>1, <1>2, <1>6
<1>9. CASE call.fn = "accio"
  <2>1. pc' = "negate" /\ p - 1 + Places' = p - 1
    BY <1>1, <1>3, <1>9
  <2> QED BY <1>8, <2>1 DEF MeantOK
<1>10. CASE call.fn # "accio"
  <2>1. pc' = "precision" /\ p - 1 + 0 = p - 1 /\ 0 \in 0..Places' /\ count' = Places' - 0
    BY <1>1, <1>3, <1>10
  <2>2. p < Len(Body)' => ptr' = First' + p + 0 /\ p + 0 < Len(Body)'
    BY <1>1, <1>2, <1>3, <1>6, <1>7
  <2>3. p = Len(Body)' => ptr' = First' + p - 1
    BY <1>1, <1>2, <1>3, <1>6, <1>7
  <2> QED BY <1>8, <2>1, <2>2, <2>3 DEF MeantOK
<1> QED BY <1>9, <1>10

(* A digit behind the point.                                               *)
LEMMA ReadFractionMeant ==
    ASSUME NEW p, Facts(p), MeantOK(p), ReadFraction,
           Body' = Body, First' = First, Places' = Places, \A i : Value(p, i)' = Value(p, i)
    PROVE  MeantOK(p)'
<1>1. /\ pc = "precision" /\ pc' = "precision" /\ count # 0 /\ buffer[ptr] # 10
      /\ rax' = (rax * 10 + (buffer[ptr] - 48)) % WordSize /\ ptr' = ptr + 1 /\ count' = count - 1
  BY DEF ReadFraction, GetDigit, Goto, Zero, NewLine
<1>2. PICK j \in 0..Places :
            /\ count = Places - j
            /\ rax = Value(p, p - 1 + j) % WordSize
            /\ p < Len(Body) => ptr = First + p + j /\ p + j < Len(Body)
            /\ p = Len(Body) => ptr = First + p - 1 /\ j = 0
  BY <1>1 DEF MeantOK
<1>3. /\ Places \in Nat /\ Len(Body) \in Nat /\ p \in 2..Len(Body) /\ First \in {0, 1}
      /\ \A i \in 1..Len(Body) : buffer[First + i - 1] = Body[i]
      /\ Body[Len(Body)] = 10
      /\ \A i \in 1..(Len(Body) - 1) : i # p => Body[i] \in 48..57
      /\ \A i \in 1..Places : Text(p)[p - 1 + i] = IF p + i < Len(Body) THEN Body[p + i] ELSE 48
  BY DEF Facts
<1>4. p < Len(Body)
  <2> SUFFICES ASSUME p = Len(Body) PROVE FALSE
    BY <1>3
  <2>1. p \in 1..Len(Body) /\ First + p - 1 = ptr
    BY <1>2, <1>3
  <2>2. buffer[ptr] = Body[p]
    BY <1>3, <2>1
  <2> QED BY <1>1, <1>3, <2>2
<1>5. ptr = First + p + j /\ p + j < Len(Body) /\ j \in Int /\ First \in Int
  BY <1>2, <1>3, <1>4
<1>6. buffer[ptr] = Body[p + (j + 1)]
  <2>1. p + (j + 1) \in 1..Len(Body) /\ First + (p + (j + 1)) - 1 = ptr
    BY <1>3, <1>5, <1>2
  <2> QED BY <1>3, <2>1
<1>7. p + (j + 1) < Len(Body)
  <2> SUFFICES ASSUME p + (j + 1) = Len(Body) PROVE FALSE
    BY <1>3, <1>5
  <2> QED BY <1>1, <1>3, <1>6
<1>8. j + 1 \in 1..Places
  BY <1>1, <1>2, <1>3
<1>9. buffer[ptr] = Text(p)[p - 1 + (j + 1)] /\ buffer[ptr] \in Int
  <2>1. p + (j + 1) \in 1..(Len(Body) - 1) /\ p + (j + 1) # p
    BY <1>3, <1>5, <1>7, <1>2
  <2> DEFINE i == j + 1
  <2>2. i \in 1..Places /\ p + i < Len(Body)
    BY <1>7, <1>8
  <2> HIDE DEF i
  <2>3. Text(p)[p - 1 + i] = Body[p + i]
    BY <1>3, <2>2
  <2>4. Body[p + (j + 1)] \in 48..57
    BY <1>3, <2>1
  <2>5. Text(p)[p - 1 + (j + 1)] = Body[p + (j + 1)]
    BY <2>3 DEF i
  <2> QED BY <1>6, <2>4, <2>5
<1>10. rax' = Value(p, p - 1 + (j + 1)) % WordSize
  <2> DEFINE i == p - 1 + j
  <2>1. i \in 0..(p - 2 + Places) /\ i + 1 = p - 1 + (j + 1)
    BY <1>2, <1>3, <1>8
  <2>2. rax = Value(p, i) % WordSize
    BY <1>2
  <2> HIDE DEF i
  <2>3. (rax * 10 + (buffer[ptr] - 48)) % WordSize = Value(p, i + 1) % WordSize
    BY <1>9, <2>1, <2>2, DigitRead
  <2> QED BY <1>1, <2>1, <2>3
<1> DEFINE k == j + 1
<1>11. /\ k \in 0..Places' /\ count' = Places' - k /\ rax' = Value(p, p - 1 + k)' % WordSize
       /\ ptr' = First' + p + k /\ p + k < Len(Body)'
  BY <1>1, <1>2, <1>3, <1>5, <1>7, <1>8, <1>10
<1>12. ~(p = Len(Body)')
  BY <1>3, <1>4
<1> HIDE DEF k
<1> QED BY <1>1, <1>11, <1>12 DEF MeantOK

(* Places that are left are behind the last digit of the line.             *)
LEMMA EndFractionMeant ==
    ASSUME NEW p, Facts(p), MeantOK(p), EndFraction,
           Body' = Body, First' = First, Places' = Places, \A i : Value(p, i)' = Value(p, i)
    PROVE  MeantOK(p)'
<1>1. /\ pc = "precision" /\ pc' = "remaining" /\ (count = 0 \/ buffer[ptr] = 10)
      /\ rax' = rax /\ count' = count
  BY DEF EndFraction, Goto, NewLine, registers
<1>2. PICK j \in 0..Places :
            /\ count = Places - j
            /\ rax = Value(p, p - 1 + j) % WordSize
            /\ p < Len(Body) => ptr = First + p + j /\ p + j < Len(Body)
            /\ p = Len(Body) => ptr = First + p - 1 /\ j = 0
  BY <1>1 DEF MeantOK
<1>3. /\ Places \in Nat /\ Len(Body) \in Nat /\ p \in 2..Len(Body) /\ First \in {0, 1}
      /\ \A i \in 1..Len(Body) : buffer[First + i - 1] = Body[i]
      /\ \A i \in 1..(Len(Body) - 1) : i # p => Body[i] \in 48..57
  BY DEF Facts
<1>4. ASSUME j < Places PROVE Len(Body) <= p + j + 1
  <2> SUFFICES ASSUME p + j + 1 < Len(Body) PROVE FALSE
    BY <1>2, <1>3
  <2>1. buffer[ptr] = 10
    BY <1>1, <1>2, <1>3, <1>4
  <2>2. p < Len(Body) /\ ptr = First + p + j
    BY <1>2, <1>3
  <2>3. p + j + 1 \in 1..Len(Body) /\ First + (p + j + 1) - 1 = ptr
    BY <1>2, <1>3, <2>2
  <2>4. buffer[ptr] = Body[p + j + 1]
    BY <1>3, <2>3
  <2>5. p + j + 1 \in 1..(Len(Body) - 1) /\ p + j + 1 # p
    BY <1>2, <1>3
  <2>6. Body[p + j + 1] \in 48..57
    BY <1>3, <2>5
  <2> QED BY <2>1, <2>4, <2>6
<1>5. /\ j \in 0..Places' /\ count' = Places' - j /\ rax' = Value(p, p - 1 + j)' % WordSize
      /\ j < Places' => Len(Body)' <= p + j + 1
  BY <1>1, <1>2, <1>4
<1> QED BY <1>1, <1>5 DEF MeantOK

(* They count as zeros.                                                    *)
LEMMA RemainingMeant ==
    ASSUME NEW p, Facts(p), MeantOK(p), Remaining \/ EndRemaining, rax \in Nat,
           Body' = Body, First' = First, Places' = Places, \A i : Value(p, i)' = Value(p, i)
    PROVE  MeantOK(p)'
<1>1. pc = "remaining"
  BY DEF Remaining, EndRemaining
<1>2. PICK j \in 0..Places :
            /\ count = Places - j
            /\ rax = Value(p, p - 1 + j) % WordSize
            /\ j < Places => Len(Body) <= p + j + 1
  BY <1>1 DEF MeantOK
<1>3. /\ Places \in Nat /\ Len(Body) \in Nat /\ p \in 2..Len(Body)
      /\ \A i \in 1..Places : Text(p)[p - 1 + i] = IF p + i < Len(Body) THEN Body[p + i] ELSE 48
  BY DEF Facts
<1>4. CASE Remaining
  <2>1. count # 0 /\ rax' = (rax * 10) % WordSize /\ count' = count - 1 /\ pc' = "remaining"
    BY <1>4 DEF Remaining, Goto
  <2>2. j + 1 \in 1..Places /\ ~(p + (j + 1) < Len(Body))
    BY <1>2, <1>3, <2>1
  <2>3. Text(p)[p - 1 + (j + 1)] = 48
    BY <1>3, <2>2
  <2>4. rax' = Value(p, p - 1 + (j + 1)) % WordSize
    <3> DEFINE i == p - 1 + j
               c == 48
    <3>1. i \in 0..(p - 2 + Places) /\ i + 1 = p - 1 + (j + 1)
      BY <1>2, <1>3, <2>2
    <3>2. rax = Value(p, i) % WordSize /\ c = Text(p)[i + 1] /\ c \in Int
      BY <1>2, <2>3, <3>1
    <3>3. rax * 10 + (c - 48) = rax * 10
      OBVIOUS
    <3> HIDE DEF i, c
    <3>4. (rax * 10 + (c - 48)) % WordSize = Value(p, i + 1) % WordSize
      BY <3>1, <3>2, DigitRead
    <3> QED BY <2>1, <3>1, <3>3, <3>4
  <2> DEFINE k == j + 1
  <2>5. /\ k \in 0..Places' /\ count' = Places' - k /\ rax' = Value(p, p - 1 + k)' % WordSize
        /\ k < Places' => Len(Body)' <= p + k + 1
    BY <1>2, <1>3, <2>1, <2>2, <2>4
  <2> HIDE DEF k
  <2> QED BY <2>1, <2>5 DEF MeantOK
<1>5. CASE EndRemaining
  <2>1. count = 0 /\ rax' = rax /\ pc' = "negate"
    BY <1>5 DEF EndRemaining, Goto, registers
  <2>2. j = Places
    BY <1>2, <1>3, <2>1
  <2> QED BY <1>2, <2>1, <2>2 DEF MeantOK
<1> QED BY <1>4, <1>5

(* rax has the value of what was read, in every step.                      *)
LEMMA MeantStep ==
    ASSUME IInv, CallOK, GotOK, ReadMeant, [Next]_vars
    PROVE  ReadMeant'
<1> SUFFICES ASSUME pc' \in Reading, Promise!HasLineAfter(From)',
                    NEW p \in Promise!Splits(call.fn, Line)'
             PROVE  MeantOK(p)'
  BY DEF ReadMeant
<1>1. CASE ReadLine
  <2>1. pc = "read" /\ pc' = "digits" /\ rax' = rax /\ ptr' = (IF negative' THEN 1 ELSE 0)
    BY <1>1 DEF ReadLine
  <2>2. p \in Int /\ p >= 2
    <3>1. \E n : p \in 2..n
      BY Zenon DEF Promise!Splits
    <3> QED BY <3>1
  <2>3. 0 \in 0..(p - 1) /\ ptr' = First' + 0
    BY <2>1, <2>2 DEF First
  <2>4. rax' = Value(p, 0)' % WordSize
    <3>1. rax' = 0
      BY <2>1 DEF GotOK
    <3>2. 0 % WordSize = 0
      BY SizeAssumption DEF SizeAssumption
    <3> QED BY <3>1, <3>2 DEF Value
  <2> QED BY <2>1, <2>3, <2>4 DEF MeantOK
<1>2. ASSUME ReadDigit \/ EndDigits \/ ReadFraction \/ EndFraction \/ Remaining \/ EndRemaining
      PROVE  MeantOK(p)'
  <2>1. pc \in Reading /\ UNCHANGED <<got, call, input, taken, negative>>
    BY <1>2 DEF ReadDigit, EndDigits, ReadFraction, EndFraction, Remaining,
       EndRemaining, GetDigit,
                Goto, world, registers, Reading
  <2>2. /\ Facts(p) /\ MeantOK(p)
        /\ Body' = Body /\ First' = First /\ Places' = Places
        /\ \A i : Value(p, i)' = Value(p, i)
    BY <2>1, Kept
  <2>3. rax \in Nat
    BY SizeAssumption DEF IInv, TypeOK, SizeAssumption
  <2> QED BY <1>2, <2>2, <2>3, ReadDigitMeant, EndDigitsMeant, ReadFractionMeant, EndFractionMeant,
             RemainingMeant
<1>3. CASE UNCHANGED vars
  <2>1. UNCHANGED <<pc, rax, ptr, count, got, call, input, taken, negative>>
    BY <1>3 DEF vars, registers, world
  <2>2. /\ MeantOK(p)
        /\ Body' = Body /\ First' = First /\ Places' = Places
        /\ \A i : Value(p, i)' = Value(p, i)
    BY <2>1, Kept
  <2> QED BY <2>1, <2>2 DEF MeantOK
<1>4. CASE Enter
  BY <1>4 DEF Enter, EnterPrint, EnterPrintString, EnterRead, EnterCrucio, Entering, Reading
<1>5. CASE Write \/ WriteString \/ Negate \/ Crucio
  BY <1>5 DEF Write, WriteString, Negate, Crucio, Return, Reading
<1>6. CASE FractionDigit \/ PutPoint \/ WholeDigit \/ PutSign \/ SkipSign \/ Strlen \/ LeaveBuffer
  BY <1>6 DEF FractionDigit, PutPoint, WholeDigit, PutSign, SkipSign, Strlen,
     LeaveBuffer, Goto, Reading
<1> QED BY <1>1, <1>2, <1>3, <1>4, <1>5, <1>6 DEF Next, Step

-----------------------------------------------------------------------------
Result == IF negative THEN (-rax) % WordSize ELSE rax

(* The word that is left at the end is the number of the line, if that is  *)
(* a word.                                                                 *)
LEMMA ResultMeant ==
    ASSUME NEW p, Facts(p), MeantOK(p), pc = "negate",
           Promise!NumberIn(Line, p, Places) \in Promise!Words
    PROVE  Signed(Result) = Promise!NumberIn(Line, p, Places)
<1> DEFINE s == Text(p)
           v == Promise!ValueOf(s)
           n == Promise!NumberIn(Line, p, Places)
<1>1. s \in Seq(Nat) /\ Len(s) = p - 1 + Places /\ p \in Nat /\ p >= 2 /\ Places \in Nat
  BY DEF Facts
<1>2. v = Values(s)[p - 1 + Places] /\ v \in Int
  <2>1. s \in Seq(Int) /\ Len(s) \in 0..Len(s)
    BY <1>1
  <2> HIDE DEF s
  <2>2. Promise!ValueOf(s) = Values(s)[Len(s)] /\ Values(s)[Len(s)] \in Int
    BY <2>1, ValuesAre
  <2> QED BY <1>1, <2>2
<1>3. rax = v % WordSize
  <2>1. rax = Value(p, p - 1 + Places) % WordSize
    BY DEF MeantOK
  <2>2. p - 1 + Places # 0
    BY <1>1
  <2>3. Value(p, p - 1 + Places) = Values(s)[p - 1 + Places]
    BY <2>2, Zenon DEF Value
  <2> QED BY <1>2, <2>1, <2>3
<1>4. n = IF Line[1] = 45 THEN -v ELSE v
  BY Zenon DEF Promise!NumberIn, Promise!Minus, Promise!Zero, Text, Meant, Body
<1> HIDE DEF s, v
<1>5. n = IF negative THEN -v ELSE v
  BY <1>4 DEF Facts
<1>6. Result = n % WordSize
  <2>1. (-(v % WordSize)) % WordSize = (-v) % WordSize
    BY <1>2, NegatedRemainder, SizeAssumption DEF SizeAssumption
  <2> HIDE DEF n
  <2> QED BY <1>3, <1>5, <2>1 DEF Result
<1>7. Signed(n % WordSize) = n
  <2>1. n \in Promise!Words
    OBVIOUS
  <2> HIDE DEF n
  <2> QED BY <2>1, SignedIs
<1> QED BY <1>6, <1>7

(* An answer is one that the console may give.                             *)
LEMMA ResultAnswers ==
    ASSUME IInv, CallOK, GotOK, ReadMeant, pc = "negate"
    PROVE  Signed(Result) \in Promise!Answers(From, call.fn, call.precision)
<1> DEFINE values == IF Promise!HasLineAfter(From)
                       THEN {Promise!NumberIn(Line, p, Places) : p \in Promise!Splits(call.fn, Line)}
                              \intersect Promise!Words
                       ELSE {}
<1>1. Promise!Answers(From, call.fn, call.precision) = IF values = {} THEN Promise!Words ELSE values
  BY Zenon DEF Promise!Answers, Line, Places
<1>2. CASE values = {}
  <2>1. rax \in 0..(WordSize - 1) /\ WordSize \in Nat /\ WordSize > 0
    BY SizeAssumption DEF IInv, TypeOK, SizeAssumption
  <2>2. Result \in 0..(WordSize - 1)
    <3>1. \A x, w \in Nat : w > 0 => (-x) % w \in 0..(w - 1)
      OBVIOUS
    <3>2. rax \in Nat
      BY <2>1
    <3> QED BY <2>1, <3>1, <3>2 DEF Result
  <2> HIDE DEF values
  <2> QED BY <1>1, <1>2, <2>2, SignedWord
<1>3. CASE values # {}
  <2>1. PICK n : n \in values
    BY <1>3
  <2>2. /\ Promise!HasLineAfter(From) /\ n \in Promise!Words
        /\ \E p \in Promise!Splits(call.fn, Line) : n = Promise!NumberIn(Line, p, Places)
    BY <2>1, Zenon
  <2>3. PICK p \in Promise!Splits(call.fn, Line) : n = Promise!NumberIn(Line, p, Places)
    BY <2>2
  <2>4. pc \in Reading
    BY DEF Reading
  <2>5. Facts(p) /\ MeantOK(p)
    BY <2>2, <2>4, FactsHold DEF ReadMeant
  <2>6. Signed(Result) = n
    BY <2>2, <2>3, <2>5, ResultMeant
  <2> HIDE DEF values
  <2> QED BY <1>1, <1>3, <2>1, <2>6
<1> QED BY <1>2, <1>3

(* The root is as near as the library promises, of every radicand.         *)
RootsNear == \A n \in Radicands : SquareRoot[n] \in Promise!Roots(n)

PromiseOK == IInv /\ RoundOK /\ CallOK /\ ShownOK /\ GotOK /\ ReadMeant

TakenByConsole ==
    IF call.fn \in {"accio", "accio_bombarda"} /\ pc # "read" THEN taken - got ELSE taken

LEMMA PromiseHolds ==
    ASSUME Terminal
    PROVE  Spec => []PromiseOK
<1>1. Init => PromiseOK
  <2> SUFFICES ASSUME Init PROVE PromiseOK
    OBVIOUS
  <2>1. pc = "ready" /\ call = NoCall
    BY DEF Init
  <2>2. RoundOK /\ CallOK /\ ShownOK /\ GotOK /\ ReadMeant
    BY <2>1 DEF RoundOK, CallOK, ShownOK, GotOK, ReadMeant, Reading
  <2> QED BY <2>2, InitIInv DEF PromiseOK
<1>2. PromiseOK /\ [Next]_vars => PromiseOK'
  <2> SUFFICES ASSUME PromiseOK, [Next]_vars PROVE PromiseOK'
    OBVIOUS
  <2>1. IInv /\ RoundOK /\ CallOK /\ ShownOK /\ GotOK /\ ReadMeant
    BY DEF PromiseOK
  <2>2. IInv'
    BY <2>1, NextStep
  <2>3. RoundOK' /\ CallOK'
    <3>1. CASE Next
      BY <2>1, <3>1, RoundStep, CallStep
    <3>2. CASE UNCHANGED vars
      BY <2>1, <3>2 DEF vars, registers, RoundOK, CallOK
    <3> QED BY <3>1, <3>2
  <2>4. ShownOK' /\ GotOK' /\ ReadMeant'
    BY <2>1, <2>2, ShownStep, GotStep, MeantStep
  <2> QED BY <2>2, <2>3, <2>4 DEF PromiseOK
<1> QED BY <1>1, <1>2, PTL DEF Spec

-----------------------------------------------------------------------------
(* Steps of the console: a call...                                         *)
LEMMA EnterPromised ==
    ASSUME PromiseOK, Enter
    PROVE  \E c \in Calls : Promise!Enter(c)
<1>1. /\ pc = "ready" /\ calls < MaxCalls /\ call' \in Calls /\ calls' = calls + 1
      /\ UNCHANGED <<input, taken, screen, answers>>
      /\ pc' = "read" \/ call'.fn \notin {"accio", "accio_bombarda"}
  BY DEF Enter, EnterPrint, EnterPrintString, EnterRead, EnterCrucio, Entering
<1>2. call = NoCall
  BY <1>1 DEF PromiseOK, CallOK
<1>3. TakenByConsole = taken /\ TakenByConsole' = taken'
  BY <1>1, <1>2 DEF TakenByConsole, NoCall
<1>4. Promise!Enter(call')
  BY <1>1, <1>2, <1>3 DEF Promise!Enter, Promise!NoCall, NoCall, TakenByConsole
<1> QED BY <1>1, <1>4

(* ...a number that is printed...                                          *)
LEMMA WritePromised ==
    ASSUME PromiseOK, Write
    PROVE  Promise!Show
<1>1. /\ pc = "write" /\ screen' = screen \o Behind /\ call' = NoCall
      /\ UNCHANGED <<input, taken, answers, calls>>
  BY Zenon DEF Write, Return, Behind, Written
<1>2. call.fn \in Printers /\ GoodPrint /\ Behind = Promise!Sign(call.number) \o Number
  BY <1>1 DEF PromiseOK, IInv, PlaceOK, ShownOK
<1>3. TakenByConsole' = TakenByConsole
  BY <1>1, <1>2 DEF TakenByConsole, NoCall, Printers
<1>4. Behind = IF call.fn = "flagrate" THEN Promise!Decimal(call.number)
                                       ELSE Promise!Fixed(call.number, call.precision)
  BY <1>1, <1>2, Shown DEF PromiseOK
<1>5. Promise!Says(Behind)
  BY <1>1, <1>3 DEF Promise!Says, Promise!NoCall, NoCall, TakenByConsole
<1> QED BY <1>2, <1>4, <1>5 DEF Promise!Show, GoodPrint, Printers

(* (a string has no zero in it)                                            *)
LEMMA StringIs ==
    ASSUME NEW c \in Calls
    PROVE  /\ c.string \in Seq(Byte)
           /\ \A i \in 1..Len(c.string) : c.string[i] # 0
<1>1. \A s \in Strings : s \in Seq(Byte \ {0})
  BY InputAssumption DEF InputAssumption
<1>2. c.string = <<>> \/ c.string \in Strings
  BY DEF Calls, CallOf
<1>3. c.string \in Seq(Byte)
  BY CallFacts
<1>4. ASSUME c.string \in Strings, NEW i \in 1..Len(c.string) PROVE c.string[i] # 0
  <2>1. PICK s : s = c.string /\ s \in Seq(Byte \ {0})
    BY <1>1, <1>4
  <2>2. s[i] \in Byte \ {0}
    BY <1>4, <2>1
  <2> QED BY <2>1, <2>2
<1> QED BY <1>2, <1>3, <1>4

(* ...a string that is printed...                                          *)
LEMMA WriteStringPromised ==
    ASSUME PromiseOK, WriteString
    PROVE  Promise!Show
<1>1. /\ pc = "strlen" /\ StringByte = 0 /\ screen' = screen \o SubSeq(call.string, 1, ptr)
      /\ call' = NoCall /\ UNCHANGED <<input, taken, answers, calls>>
  BY DEF WriteString, Return
<1>2. call \in Calls /\ call.fn = "flagrate_s" /\ ptr \in 0..Len(call.string)
  BY <1>1 DEF PromiseOK, CallOK, RoundOK
<1>3. PICK s : s = call.string
  OBVIOUS
<1>4. s \in Seq(Byte) /\ Len(s) \in Nat /\ \A i \in 1..Len(s) : s[i] # 0
  BY <1>2, <1>3, StringIs
<1>5. ptr = Len(s)
  <2> SUFFICES ASSUME ptr # Len(s) PROVE FALSE
    OBVIOUS
  <2>1. s[ptr + 1] = 0
    BY <1>1, <1>3 DEF StringByte
  <2>2. ptr + 1 \in 1..Len(s)
    BY <1>2, <1>3, <1>4
  <2> QED BY <1>4, <2>1, <2>2
<1>6. SubSeq(s, 1, ptr) = s
  BY <1>4, <1>5, SubSeqFull
<1>7. TakenByConsole' = TakenByConsole
  BY <1>1, <1>2 DEF TakenByConsole, NoCall
<1>8. Promise!Says(call.string)
  BY <1>1, <1>3, <1>6, <1>7 DEF Promise!Says, Promise!NoCall, NoCall, TakenByConsole
<1> QED BY <1>2, <1>8 DEF Promise!Show

(* ...a number that is read...                                             *)
LEMMA NegatePromised ==
    ASSUME PromiseOK, Negate
    PROVE  Promise!Read
<1>1. /\ pc = "negate" /\ answers' = Append(answers, Signed(Result)) /\ call' = NoCall
      /\ UNCHANGED <<got, input, screen, taken, calls>>
  BY DEF Negate, Return, Result
<1>2. call.fn \in {"accio", "accio_bombarda"}
  BY <1>1 DEF PromiseOK, IInv, PlaceOK, Readers
<1>3. TakenByConsole = From /\ TakenByConsole' = taken
  BY <1>1, <1>2 DEF TakenByConsole, From, NoCall
<1>4. Signed(Result) \in Promise!Answers(From, call.fn, call.precision)
  BY <1>1, ResultAnswers DEF PromiseOK
<1>5. Promise!Answer(Signed(Result))
  BY <1>1 DEF Promise!Answer, Promise!NoCall, NoCall
<1>6. taken \in IF Promise!HasLineAfter(From) /\ Len(Promise!LineAfter(From)) <= BufferSize
                  THEN {From + Len(Promise!LineAfter(From))} ELSE From..Len(input)
  <2>1. From \in Nat /\ taken \in Nat /\ got \in Nat /\ taken <= Len(input) /\ Len(input) \in Nat
    <3>1. input \in Seq(Byte) /\ taken \in 0..Len(input) /\ got \in 0..BufferSize
      BY InputAssumption DEF PromiseOK, IInv, TypeOK, InputAssumption
    <3>2. From \in Nat
      BY <1>1 DEF PromiseOK, GotOK, Reading
    <3> QED BY <3>1, <3>2, SizeAssumption DEF SizeAssumption
  <2>2. taken = From + got
    BY <2>1 DEF From
  <2>3. Promise!HasLineAfter(From) /\ Len(Promise!LineAfter(From)) <= BufferSize =>
          got = Len(Promise!LineAfter(From))
    BY <1>1 DEF PromiseOK, GotOK, Reading, Line
  <2> HIDE DEF From
  <2>4. taken \in From..Len(input)
    BY <2>1, <2>2
  <2> QED BY <2>2, <2>3, <2>4
<1> QED BY <1>2, <1>3, <1>4, <1>5, <1>6, Zenon DEF Promise!Read, TakenByConsole

(* ...a root.                                                              *)
LEMMA CrucioPromised ==
    ASSUME PromiseOK, Crucio, RootsNear
    PROVE  Promise!Root
<1>1. /\ pc = "root" /\ answers' = Append(answers, SquareRoot[call.number]) /\ call' = NoCall
      /\ UNCHANGED <<input, screen, taken, calls>>
  BY DEF Crucio, Return
<1>2. call \in Calls /\ call.fn = "crucio"
  BY <1>1 DEF PromiseOK, CallOK
<1>3. SquareRoot[call.number] \in Promise!Roots(call.number)
  BY <1>2, CallFacts DEF RootsNear
<1>4. TakenByConsole' = TakenByConsole
  BY <1>1, <1>2 DEF TakenByConsole, NoCall
<1>5. Promise!Answer(SquareRoot[call.number])
  BY <1>1 DEF Promise!Answer, Promise!NoCall, NoCall
<1> QED BY <1>2, <1>3, <1>4, <1>5, Zenon DEF Promise!Root, TakenByConsole

(* Every other step is none of the console.                                *)
LEMMA OthersStutter ==
    ASSUME PromiseOK,
           \/ FractionDigit \/ PutPoint \/ WholeDigit \/ PutSign \/ SkipSign \/ Strlen
           \/ ReadLine \/ ReadDigit \/ EndDigits \/ ReadFraction \/ EndFraction
           \/ Remaining \/ EndRemaining \/ LeaveBuffer \/ UNCHANGED vars
    PROVE  UNCHANGED Promise!vars
<1>1. UNCHANGED <<call, input, screen, answers, calls>> /\ TakenByConsole' = TakenByConsole
  <2>1. CASE ReadLine
    <3>1. /\ pc = "read" /\ pc' = "digits" /\ taken' = taken + got'
          /\ UNCHANGED <<call, input, screen, answers, calls>> /\ got' \in ReadSizes
      BY <2>1 DEF ReadLine
    <3>2. call.fn \in {"accio", "accio_bombarda"}
      BY <3>1 DEF PromiseOK, IInv, PlaceOK, Readers
    <3>3. (taken + got') - got' = taken
      <4>1. input \in Seq(Byte) /\ taken \in 0..Len(input)
        BY InputAssumption DEF PromiseOK, IInv, TypeOK, InputAssumption
      <4>2. taken \in Nat /\ got' \in Nat
        BY <3>1, <4>1 DEF ReadSizes
      <4>3. \A x, y \in Nat : (x + y) - y = x
        OBVIOUS
      <4> QED BY <4>2, <4>3
    <3>4. TakenByConsole' = (taken + got') - got' /\ TakenByConsole = taken
      BY <3>1, <3>2, Zenon DEF TakenByConsole
    <3> QED BY <3>1, <3>3, <3>4
  <2>2. CASE FractionDigit \/ PutPoint \/ WholeDigit \/ PutSign \/ SkipSign \/ Strlen
    BY <2>2 DEF FractionDigit, PutPoint, WholeDigit, PutSign, SkipSign, Strlen, Goto,
       world, TakenByConsole,
                PromiseOK, CallOK, IInv, PlaceOK, Printers
  <2>3. CASE ReadDigit \/ EndDigits \/ ReadFraction \/ EndFraction
    BY <2>3 DEF ReadDigit, EndDigits, ReadFraction, EndFraction, Goto, world, TakenByConsole
  <2>4. CASE Remaining \/ EndRemaining \/ LeaveBuffer
    BY <2>4 DEF Remaining, EndRemaining, LeaveBuffer, Touches, Goto, world, TakenByConsole
  <2>5. CASE UNCHANGED vars
    BY <2>5 DEF vars, world, TakenByConsole
  <2> QED BY <2>1, <2>2, <2>3, <2>4, <2>5
<1> QED BY <1>1 DEF Promise!vars, TakenByConsole

(* Each call does what the library promises: what is printed is the number *)
(* with its sign, all its digits and the fraction asked for, or the whole  *)
(* string; what is read is the number on the line, scaled and cut to the   *)
(* precision, and the line is used up; every other step changes nothing    *)
(* that a program can see.  Reads are from a terminal; the accuracy of the *)
(* roots, a matter of single radicands, is assumed.                        *)
THEOREM EachCallKept ==
    ASSUME Terminal, RootsNear
    PROVE  Spec => ImplementsConsole
<1>1. Init => Promise!Init
  BY DEF Init, Promise!Init, Promise!NoCall, NoCall
<1>2. PromiseOK /\ [Next]_vars => [Promise!Next]_(Promise!vars)
  <2> SUFFICES ASSUME PromiseOK, [Next]_vars PROVE Promise!Next \/ UNCHANGED Promise!vars
    OBVIOUS
  <2>1. CASE Enter
    BY <2>1, EnterPromised DEF Promise!Next
  <2>2. CASE Write \/ WriteString
    BY <2>2, WritePromised, WriteStringPromised DEF Promise!Next
  <2>3. CASE Negate
    BY <2>3, NegatePromised DEF Promise!Next
  <2>4. CASE Crucio
    BY <2>4, CrucioPromised DEF Promise!Next
  <2> QED BY <2>1, <2>2, <2>3, <2>4, OthersStutter DEF Next, Step
<1> QED BY <1>1, <1>2, PromiseHolds, PTL DEF Spec, ImplementsConsole, Promise!Spec
=============================================================================
