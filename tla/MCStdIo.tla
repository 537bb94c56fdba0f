------------------------------ MODULE MCStdIo -------------------------------
(* Words of ten bits, singles with a mantissa of four, a buffer of eight.  *)
EXTENDS StdIo, FiniteSets

MCNumbers    == {-512, -100, -7, 0, 9, 10, 99, 511}
MCRadicands  == {-1, 0, 1, 3, 15, 16, 35, 63, 120, 195, 224, 440, 483, 511}
MCPrecisions == {0, 1, 2, 5}
MCStrings    == {<<72, 105>>}

(* 1, -7 | 2.5, -0.04 | 512 (too big), 31.9999 | an empty line, - and a    *)
(* point | a line that is too long | the end of the input in a line.       *)
MCInputs ==
    {<<49, 10, 45, 55, 10>>, <<50, 46, 53, 10, 45, 48, 46, 48, 52, 10>>,
     <<53, 49, 50, 10, 51, 49, 46, 57, 57, 57, 57, 10>>, <<10, 45, 46, 10>>,
     <<49, 50, 51, 52, 53, 54, 55, 56, 57, 10>>, <<52, 50>>}

MCPiped == {<<49, 10, 50, 10>>}

(* What StdIo_proofs assumes of the square roots.                          *)
ASSUME RootsNear == \A n \in Radicands : SquareRoot[n] \in Promise!Roots(n)

(* The k-th line ends there.                                               *)
EndOfLine(k) ==
    CHOOSE i \in 0..Len(input) :
        /\ i = 0 \/ input[i] = NewLine
        /\ Cardinality({j \in 1..i : input[j] = NewLine}) = k

(* accio.nasm:2, "reads decimal number from STDIN": the first read answers *)
(* with the first number that was typed, the second with the second.       *)
AnswersInTurn ==
    \A k \in DOMAIN answers : answers[k] \in Promise!Answers(EndOfLine(k - 1), "accio", 0)
=============================================================================
