------------------------------ MODULE Grammar -------------------------------
(***************************************************************************)
(* Written(program) is the grammar of README.md, read from left to right:  *)
(* the specification that the parser is held to.  It is not a model of     *)
(* code.                                                                   *)
(***************************************************************************)
EXTENDS Parser

CONSTANT BracketReads  \* accio-bombarda as an operand is put in brackets

ASSUME BracketsAssumption == BracketReads \in BOOLEAN

Level(e) ==
    CASE e.type = "MATH_TYPE" -> CHOOSE l \in DOMAIN Operations :
                                    \E k \in DOMAIN Operations[l] : Operations[l][k] = e.operation
      [] e.type = "CALL_TYPE" -> IF e.id = "accio_bombarda" /\ BracketReads THEN 0 ELSE 4
      [] OTHER -> 4

Sign(operation) ==
    CHOOSE k \in UNION {DOMAIN Operations[l] : l \in DOMAIN Operations} :
        \E l \in DOMAIN Operations : k \in DOMAIN Operations[l] /\ Operations[l][k] = operation

Ks(keywords) == [i \in DOMAIN keywords |-> Keyword(keywords[i])]

Brackets(text) == Ks(<<"BRACKET">>) \o text \o Ks(<<"BRACKET">>)

Separated(texts) ==
    FlattenSeq([i \in DOMAIN texts |-> IF i = 1 THEN texts[i] ELSE Ks(<<"COMMA">>) \o texts[i]])

RECURSIVE Expr(_), Statements(_)

Operand(e, level) == IF Level(e) < level THEN Brackets(Expr(e)) ELSE Expr(e)

Element(e) == <<Name(e.id)>> \o Ks(<<"MEM_ACCESS">>) \o Expr(e.index) \o Ks(<<"MEM_ACCESS">>)

CallText(e) ==
    CASE e.id = "accio"          -> Ks(<<"SCAN">>)
      [] e.id = "accio_bombarda" -> Ks(<<"SCAN_FLOAT">>) \o Brackets(Expr(e.params[1]))
      [] e.id = "crucio"         -> Ks(<<"SQRT">>) \o Brackets(Expr(e.params[1]))
      [] OTHER -> Ks(<<"CALL">>) \o <<Name(e.id)>>
                    \o Brackets(Separated([i \in DOMAIN e.params |-> Expr(Reverse(e.params)[i])]))

Expr(e) ==
    CASE e.type = "NUMBER_TYPE"     -> <<Numeral(e.number)>>
      [] e.type = "ID_TYPE"         -> Ks(<<"DEREF">>) \o <<Name(e.id)>>
      [] e.type = "MEM_ACCESS_TYPE" -> Element(e)
      [] e.type = "MATH_TYPE"       -> Operand(e.left, Level(e)) \o Ks(<<Sign(e.operation)>>)
                                         \o Operand(e.right, Level(e) + 1)
      [] e.type = "CALL_TYPE"       -> CallText(e)

StringName(x)   == Ks(<<"STR_ID_OPEN">>) \o <<Name(x)>> \o Ks(<<"STR_ID_CLOSE">>)
StringQuoted(s) == Ks(<<"STR_QUOTE">>) \o <<Quoted(s)>> \o Ks(<<"STR_QUOTE">>)

PrintText(e) ==
    CASE e.id = "flagrate"          -> Ks(<<"PRINT">>) \o Expr(e.params[1])
      [] e.id = "flagrate_bombarda" -> Ks(<<"PRINT_FLOAT">>) \o Expr(e.params[2])
                                         \o Ks(<<"COMMA">>) \o Expr(e.params[1])
      [] e.id = "flagrate_s"        -> Ks(<<"PRINT_STRING">>) \o
             CASE e.params[1].type = "ID_TYPE" -> StringName(e.params[1].id)
               [] e.params[1] = String("\n")   -> Ks(<<"STR_NEW_LINE">>)
               [] OTHER                        -> StringQuoted(e.params[1].string)
      [] OTHER -> CallText(e)

AssignmentText(s) ==
    (IF s.lvalue.type = "ID_TYPE" THEN <<Name(s.lvalue.id)>> ELSE Element(s.lvalue))
      \o Ks(<<"ASSIGN">>) \o Expr(s.expression)

Command(text) == Ks(<<"CMD_LINE">>) \o text \o Ks(<<"NEW_LINE">>)

Block(block) ==
    Ks(<<"NEW_LINE", "OPEN_BRACE", "NEW_LINE">>) \o Statements(block)
      \o Ks(<<"CLOSE_BRACE", "NEW_LINE">>)

StatementText(s) ==
    CASE s.type = "ASSIGN_TYPE" -> Command(AssignmentText(s))
      [] s.type = "VDECL_TYPE"  -> Command(Ks(<<"VDECL">>) \o AssignmentText(s))
      [] s.type = "ADECL_TYPE"  -> Command(Ks(<<"ADECL">>) \o <<Name(s.id)>> \o Ks(<<"COMMA">>)
                                             \o Expr(s.size))
      [] s.type = "JUMP_TYPE"   -> Command(Ks(<<"RETURN">>) \o Expr(s.expression))
      [] s.type = "CALL_TYPE"   -> Command(PrintText(s))
      [] s.type = "LOOP_TYPE"   -> Ks(<<"LOOP">>) \o Brackets(Expr(s.condition)) \o Block(s.body)
      [] s.type = "COND_TYPE"   ->
             Ks(<<"IF">>) \o Brackets(Expr(s.condition)) \o Block(s.then)
               \o IF s.else = <<>> THEN <<>> ELSE Ks(<<"ELSE">>) \o Block(s.else)
      [] OTHER -> Command(Expr(s))

Statements(block) == FlattenSeq([i \in DOMAIN block |-> StatementText(block[i])])

StringText(s) ==
    Ks(<<"SDECL">>) \o StringName(s[1]) \o StringQuoted(s[2]) \o Ks(<<"NEW_LINE">>)

FunctionText(f) ==
    Ks(<<"FDECL">>) \o <<Name(f.name)>>
      \o (IF f.params = <<>> THEN <<Numeral(0)>>
          ELSE Separated([i \in DOMAIN f.params |-> <<Name(f.params[i])>>]))
      \o Block(f.body)

Written(p) ==
    Ks(<<"PROG_START">>) \o <<Name("Hogwarts")>> \o Ks(<<"NEW_LINE">>)
      \o FlattenSeq([i \in DOMAIN p.strings |-> StringText(p.strings[i])])
      \o FlattenSeq([i \in DOMAIN p.functions |-> FunctionText(p.functions[i])])
      \o Ks(<<"PROG_END">>)
=============================================================================
