--------------------------- MODULE SourcePrograms ---------------------------
(* Programs to be compiled and run: every operation in every position, and *)
(* the shapes in which a code generator with one accumulator, one stack    *)
(* and numbered labels goes wrong.                                         *)
EXTENDS SyntaxTree

LOCAL Love(block)       == FDecl("love", <<>>, block)
LOCAL Show(e)           == Call("flagrate", <<e>>)
LOCAL Say(e)            == Call("flagrate_s", <<e>>)
LOCAL Plus(a, b)        == Math(a, "ADD_OP", b)
LOCAL Minus(a, b)       == Math(a, "SUB_OP", b)
LOCAL Times(a, b)       == Math(a, "MUL_OP", b)
LOCAL Less(a, b)        == Math(a, "LESS_OP", b)
LOCAL Source(p, input)  == [program |-> p, input |-> input]
LOCAL Of(functions)     == Source(Program(<<>>, functions), <<>>)

LOCAL a == Id("a")
LOCAL b == Id("b")
LOCAL i == Id("i")
LOCAL n == Id("n")

(* Two operations, nested to the left and to the right, over operands that *)
(* are simple, compound and calls; the added 10 keeps divisors from zero.  *)
Nested(op1, op2) ==
    LET Right(e) == IF op1 = "DIV_OP" THEN Plus(e, Num(10)) ELSE e
        Same(e)  == Call("same", <<e>>)
    IN Of(<< Love(<< VDecl("a", Num(7)), VDecl("b", Minus(Num(0), Num(3))),
                     Show(Math(Math(a, op1, Num(5)), op2, b)),
                     Show(Math(a, op1, Right(Math(Num(2), op2, b)))),
                     Show(Math(Same(a), op1, Right(Math(a, op2, Same(b))))) >>),
             FDecl("same", <<"a">>, <<Return(a)>>) >>)

(* Each comparison as a value, as a condition and as the end of a loop.    *)
Compared(op) ==
    Of(<< Love(<< VDecl("a", Minus(Num(0), Num(1))), VDecl("b", Num(3)),
                  Loop(Less(a, Num(2)),
                       << Cond(Math(a, op, Num(0)), <<Show(Num(1))>>, <<Show(Num(2))>>),
                          Show(Math(Num(0), op, a)),
                          Cond(Math(a, op, a), <<Show(Num(3))>>, <<>>),
                          Assign(a, Plus(a, Num(1))) >>),
                  Loop(Math(b, op, Num(1)),
                       << Show(b), Assign(b, Minus(b, Num(1))),
                          Cond(Less(b, Minus(Num(0), Num(2))), <<Assign(b, Num(1))>>, <<>>),
                          Cond(Math(b, "EQUAL_OP", Num(1)), <<Return(Num(0))>>, <<>>) >>),
                  Show(Num(4)) >>) >>)

(* Conditions that are no comparison; nested statements of both kinds.     *)
Nesting ==
    Of(<< Love(<< VDecl("a", Num(3)), VDecl("b", Num(0)),
                  Loop(a, << Assign(b, Num(2)),
                             Loop(b, << Cond(Minus(a, b),
                                             <<Cond(b, <<Show(Plus(a, b))>>, <<Show(Num(9))>>)>>,
                                             <<Show(Num(0))>>),
                                        Assign(b, Minus(b, Num(1))) >>),
                             Assign(a, Minus(a, Num(1))) >>),
                  Cond(Call("zero", <<>>), <<Show(Num(1))>>, <<Show(Num(2))>>) >>),
          FDecl("zero", <<>>, <<Cond(Num(0), <<Return(Num(1))>>, <<>>), Return(Num(0))>>) >>)

(* A reads and the product of what it reads.                               *)
Factorial ==
    Source(Program(<<>>,
        << FDecl("fact", <<"n">>,
                 << Cond(Less(n, Num(2)), <<Return(Num(1))>>, <<>>),
                    Return(Times(n, Call("fact", <<Minus(n, Num(1))>>))) >>),
           Love(<<Show(Call("fact", <<Call("accio", <<>>)>>))>>) >>), <<4>>)

Fibonacci ==
    Of(<< Love(<<Show(Call("fib", <<Num(5)>>))>>),
          FDecl("fib", <<"n">>,
                << Cond(Less(n, Num(2)), <<Return(n)>>, <<>>),
                   Return(Plus(Call("fib", <<Minus(n, Num(1))>>),
                               Call("fib", <<Minus(n, Num(2))>>))) >>) >>)

(* Two functions that call each other, and one that returns nothing.       *)
Mutual ==
    LET Step(name, other, base) ==
            FDecl(name, <<"n">>,
                  << Cond(Math(n, "EQUAL_OP", Num(0)), <<Return(Num(base))>>,
                          <<Call("trace", <<n>>),
                            Return(Call(other, <<Minus(n, Num(1))>>))>>) >>)
    IN Of(<< Step("even", "odd", 1), Step("odd", "even", 0),
             Love(<<Show(Call("even", <<Num(3)>>)), Show(Call("odd", <<Num(3)>>))>>),
             FDecl("trace", <<"i">>, <<Show(i)>>) >>)

(* Parameters in their order, kept while others are evaluated.             *)
Parameters ==
    LET Digits(x, y, z) == Call("digits", <<x, y, z>>)
    IN Source(Program(<<>>,
        << FDecl("digits", <<"a", "b", "i">>,
                 << VDecl("n", Times(a, Num(100))), Assign(b, Times(b, Num(10))),
                    Return(Plus(n, Plus(b, i))) >>),
           Love(<< VDecl("a", Digits(Num(1), Num(2), Num(3))),
                   Show(Digits(a, Digits(Num(4), a, Num(5)), Minus(a, Num(6)))),
                   Show(Digits(Call("accio", <<>>), Call("accio", <<>>),
                               Call("accio", <<>>))) >>) >>), <<7, 8, 9>>)

(* An array is filled, changed through a parameter and read back.          *)
Arrays ==
    LET array == Id("array")
        At(x, e) == MemAccess(x, e)
    IN Of(<< Love(<< VDecl("n", Num(3)), ADecl("array", n), VDecl("i", Num(0)),
                     Loop(Less(i, n), << Assign(At("array", i), Plus(i, Num(1))),
                                         Assign(i, Plus(i, Num(1))) >>),
                     ADecl("other", Plus(Num(1), Num(1))),
                     Assign(At("other", Num(0)), Num(50)),
                     Assign(At("other", Num(1)), Num(60)),
                     Call("shift", <<array, n>>),
                     Assign(At("array", At("array", Num(1))),
                            Plus(At("other", Minus(n, Num(2))), Call("first", <<array>>))),
                     Assign(i, Num(0)),
                     Loop(Less(i, n), <<Show(At("array", i)), Assign(i, Plus(i, Num(1)))>>),
                     Show(At("other", Num(0))) >>),
             FDecl("shift", <<"array", "n">>,
                   << VDecl("i", Num(0)),
                      Loop(Less(i, Minus(n, Num(1))),
                           << Assign(At("array", i), At("array", Plus(i, Num(1)))),
                              Assign(i, Plus(i, Num(1))) >>),
                      Assign(At("array", Num(1)), Num(0)) >>),
             FDecl("first", <<"array">>, <<Return(At("array", Num(0)))>>) >>)

(* A return out of two loops, over an array and what an expression saved.  *)
EarlyReturn ==
    Of(<< FDecl("find", <<"n">>,
                << ADecl("array", Num(2)), VDecl("i", Num(0)),
                   Loop(Num(1), << Loop(Less(i, Num(5)),
                                        << Cond(Math(i, "EQUAL_OP", n),
                                                <<Return(Times(i, Num(2)))>>, <<>>),
                                           Assign(i, Plus(i, Num(1))) >>),
                                   Return(Num(99)) >>) >>),
          Love(<< Show(Plus(Call("find", <<Num(3)>>), Call("find", <<Num(7)>>))) >>) >>)

(* Named strings, literals, one of them twice, and the new line.           *)
Strings ==
    Source(Program(<< <<"greeting", "Hello">>, <<"end", "Bye">> >>,
        << Love(<< Say(Id("greeting")), Say(String("\n")), Say(String("you")),
                   Call("again", <<>>), Say(Id("end")) >>),
           FDecl("again", <<>>, <<Say(String("you")), Say(String("\n"))>>) >>), <<>>)

(* Every function of the library, in expressions too.                      *)
Library ==
    Source(Program(<<>>,
        << Love(<< VDecl("a", Call("accio_bombarda", <<Num(2)>>)),
                   Call("flagrate_bombarda", <<Num(2), Plus(a, Num(5))>>),
                   Show(Minus(Call("accio", <<>>), Call("accio", <<>>))),
                   Show(Plus(a, Call("crucio", <<Num(17)>>))),
                   Show(Minus(Num(0), Num(12))) >>) >>), <<3, 10, 4>>)

Operations == <<"ADD_OP", "SUB_OP", "MUL_OP", "DIV_OP", "EQUAL_OP", "NOT_EQUAL_OP",
                "LESS_OP", "GREATER_OP", "LESS_EQUAL_OP", "GREATER_EQUAL_OP">>

AllNested ==
    [k \in 1 .. 100 |-> Nested(Operations[((k - 1) \div 10) + 1],
                               Operations[((k - 1) % 10) + 1])]

AllCompared == [k \in 1 .. 6 |-> Compared(Operations[k + 4])]

Shapes == << Nesting, Factorial, Fibonacci, Mutual, Parameters, Arrays, EarlyReturn,
             Strings, Library >>

(* A literal with the content of a named string (README.md, "Passing       *)
(* strings to flagrate-s").                                                *)
SameContent ==
    Source(Program(<< <<"TheBoyWhoLived", "Hello, World!">> >>,
        << Love(<<Say(Id("TheBoyWhoLived")), Say(String("Hello, World!"))>>) >>), <<>>)
=============================================================================
