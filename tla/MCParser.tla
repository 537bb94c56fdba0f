------------------------------ MODULE MCParser ------------------------------
(* The programs of SourcePrograms as texts, with one slip each.            *)
EXTENDS Reading

P == INSTANCE SourcePrograms

Trees(sources) == [i \in DOMAIN sources |-> sources[i].program]

MCSources == Trees(P!Shapes \o <<P!Nested("ADD_OP", "MUL_OP"), P!Nested("MUL_OP", "SUB_OP"),
                                 P!Nested("LESS_OP", "EQUAL_OP"), P!Compared("LESS_EQUAL_OP")>>)

MCSmall == Trees(<<P!Factorial>>)

LOCAL Texts_(sources) == [i \in DOMAIN sources |-> Written(sources[i])]

MCTexts == Texts_(MCSources)

MCSmallTexts == Texts_(MCSmall)

LOCAL Main(block) ==
    Program(<<>>, <<FDecl("f", <<"a">>, <<>>), FDecl("love", <<>>, block)>>)

LOCAL WithoutLast(text, n) == SubSeq(text, 1, Len(text) - n)

(* Behind `- flagrate' of the last function: the number, a new line, the   *)
(* brace, a new line and the end of the program, five tokens.              *)
LOCAL Printing == Written(Main(<<Call("flagrate", <<Num(1)>>)>>))

LOCAL Emptied(text) ==
    [i \in DOMAIN text |-> IF text[i] = Quoted("Hello") THEN NoString ELSE text[i]]

(* Texts with a fault for which parser.h has a message.                    *)
Faulty ==
    << (* parser.h:87, no program end ('Privet-Drive') found               *)
       [text |-> WithoutLast(Printing, 1), message |-> "NO_PROG_END"],
       (* parser.h:96, function call: not enough parameters passed         *)
       [text |-> Written(Main(<<Call("f", <<>>)>>)), message |-> "FUNCTION_CALL_PARAMS_NEEDED"],
       (* parser.h:97, function call: too many parameters passed           *)
       [text |-> Written(Main(<<Call("f", <<Num(1), Num(2)>>)>>)),
        message |-> "FUNCTION_CALL_EXTRA_PARAMS"],
       (* parser.h:116, the variable hasn't been defined                   *)
       [text |-> Written(Main(<<Assign(Id("x"), Num(1))>>)),
        message |-> "VARIABLE_UNDECLARED_USAGE"],
       (* parser.h:99, couldn't find an expression after 'flagrate'        *)
       [text |-> WithoutLast(Printing, 5), message |-> "PRINT_EXPRESSION_NEEDED"],
       (* parser.h:144, after an opening quote " there has to be a string  *)
       [text |-> Emptied(Written(Main(<<Call("flagrate_s", <<String("Hello")>>)>>))),
        message |-> "NO_STRING_AFTER_QUOTE"] >>

(* Programs of README.md's grammar.                                        *)
Proper ==
    << (* README.md:364, readf ( Expression ), as an operand of a sum      *)
       Main(<<Math(Call("accio_bombarda", <<Num(4)>>), "ADD_OP", Num(1))>>),
       (* README.md:362, depulso Var ( ExprList ), with an Expression in brackets *)
       Main(<<Call("f", <<Math(Math(Num(1), "ADD_OP", Num(2)), "MUL_OP", Num(3))>>)>>) >>

(* The parser keeps at least one of these promises.  It keeps none: each   *)
(* faulty text is accepted or ends the process, each proper one is refused *)
(* or read as another program.                                             *)
SomePromiseKept ==
    stage = "parsed" =>
        \/ \E i \in DOMAIN Faulty : Read(Faulty[i].text).printed = Faulty[i].message
        \/ \E i \in DOMAIN Proper : Node(Read(Written(Proper[i]))) = Proper[i]
=============================================================================
