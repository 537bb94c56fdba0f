------------------------------ MODULE Reading -------------------------------
(***************************************************************************)
(* The parser on programs that are written as the grammar of README.md     *)
(* says, and on what slips make of them.                                   *)
(***************************************************************************)
EXTENDS Parsing, Grammar, TreeSymbols

CONSTANT Sources  \* sequence of programs (trees): Texts[i] is Sources[i], written

ASSUME SourcesAssumption ==
    /\ DOMAIN Texts = DOMAIN Sources
    /\ \A i \in DOMAIN Sources : Texts[i] = Written(Sources[i])

(* The parser on another text.                                             *)
Again(text) == INSTANCE Parser WITH tokens <- text

Read(text) == Again(text)!parseProgram

Accepted == stage = "parsed" /\ parser.status = "NO_ERROR" /\ Found(parser)

(* A program written as README.md's grammar says (lines 337 to 377) is     *)
(* read as that program, to its last token, and the symbol table gets what *)
(* the code generator relies on, in the same order.                        *)
GrammarRead ==
    stage = "parsed" /\ slips = <<>> =>
        /\ parser.status = "NO_ERROR"
        /\ Node(parser) = Sources[chosen]
        /\ parser.table = SymbolTable(Sources[chosen])
        /\ parser.offset = Len(tokens)

SameRead(again) ==
    /\ again.status = "NO_ERROR"
    /\ Node(again) = Node(parser)
    /\ again.table = parser.table

(* Whatever is accepted after a slip is a program of the grammar too, with *)
(* the symbol table of that program: written out and read again it is the  *)
(* same.  No token was skipped that meant something, and no subtree got    *)
(* lost.                                                                   *)
AcceptedIsWritten ==
    Accepted =>
        /\ SameRead(Read(Written(Node(parser))))
        /\ parser.table = SymbolTable(Node(parser))

(* A file that was cut off is accepted, if at all, between two functions:  *)
(* no part of a function is taken for the whole (CHECK_END_REACHED lets    *)
(* every require function give up without an error at the end).            *)
CutBetweenFunctions ==
    Accepted /\ (\E i \in DOMAIN slips : slips[i][1] = "cut") /\ Len(slips) = 1
        => IsPrefix(Node(parser).functions, Sources[chosen].functions)
=============================================================================
