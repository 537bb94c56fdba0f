------------------------------- MODULE Parser -------------------------------
(***************************************************************************)
(* The recursive descent of src/parser/parser.cpp.  parseX(p) is the       *)
(* parser after parseX(parser): p has the offset of the current token, the *)
(* status, the first error (the one that is printed) and its offset, the   *)
(* symbol table, and the node that parseX returned: <<>> for nullptr, <<n>> *)
(* for n.                                                                  *)
(*                                                                         *)
(* The tokens are what the tokenizer has left in its array.  It is         *)
(* allocated with calloc: behind the last token lies one of type           *)
(* QUOTED_STRING_TOKEN_TYPE, the first of the enumeration, with null       *)
(* pointers for its string and its place.  An empty string is a null       *)
(* pointer, too.                                                           *)
(*                                                                         *)
(* The rules that call each other in a circle, and the loops, are the      *)
(* values of one recursive function, parse, at the end.  parse[n] is for   *)
(* parsers with less than n tokens left; a rule is given parse[n - 1] as   *)
(* `inner' and calls it behind a token that it has read.                   *)
(***************************************************************************)
EXTENDS SyntaxTree

VARIABLE tokens

Keyword(k)   == [type |-> "KEYWORD_TOKEN_TYPE", keyword |-> k]
Name(x)      == [type |-> "ID_TOKEN_TYPE", id |-> x]
Numeral(n)   == [type |-> "NUMBER_TOKEN_TYPE", number |-> n]
Quoted(s)    == [type |-> "QUOTED_STRING_TOKEN_TYPE", string |-> s]
NoString     == Quoted(Unnamed)
EndOfTokens  == NoString

(* A name is no null pointer; the new line is a literal of the parser's.   *)
Names    == STRING \ {Unnamed}
Contents == Names \union {Unnamed, "\n"}

TokenSet ==
    [type : {"KEYWORD_TOKEN_TYPE"}, keyword : STRING]
      \union [type : {"ID_TOKEN_TYPE"}, id : Names]
      \union [type : {"NUMBER_TOKEN_TYPE"}, number : Int]
      \union [type : {"QUOTED_STRING_TOKEN_TYPE"}, string : Contents]

ParseError ==
    {"NO_ERROR", "NO_PROG_START", "NO_PROG_END", "NEW_LINE_NEEDED",
     "FUNCTION_DECLARATION_NEEDED", "FUNCTION_SECOND_DECLARATION", "FUNCTION_PARAMS_NEEDED",
     "FUNCTION_BODY_NEEDED", "RETURN_EXPRESSION_NEEDED", "FUNCTION_CALL_PARAMS_NEEDED",
     "FUNCTION_CALL_EXTRA_PARAMS", "PRINT_EXPRESSION_NEEDED", "FLOOR_EXPRESSION_NEEDED",
     "PRINT_FLOAT_PRECISION_NEEDED", "PRINT_FLOAT_NO_COMMA", "PRINT_FLOAT_EXPRESSION_NEEDED",
     "PRINT_STRING_INVALID_ARGUMENT", "PRINT_STRING_UNDECLARED_STRING_ID",
     "IF_EXPRESSION_NEEDED", "IF_BLOCK_NEEDED", "ELSE_BLOCK_NEEDED", "LOOP_EXPRESSION_NEEDED",
     "LOOP_BLOCK_NEEDED", "VARIABLE_DECLARATION_NO_ASSIGNMENT", "VARIABLE_SECOND_DECLARATION",
     "VARIABLE_UNDECLARED_USAGE", "VARIABLE_ASSIGNMENT_NO_EXPRESSION",
     "DEREFERENCING_NO_VARIABLE", "ARRAY_DECLARATION_NO_COMMA", "ARRAY_DECLARATION_NO_NAME",
     "ARRAY_DECLARATION_NO_SIZE", "MEM_ACCESS_IVALID_EXPRESSION",
     "MEM_ACCESS_NO_SECOND_BRACKET", "OPEN_BRACE_NEEDED", "CLOSE_BRACE_NEEDED",
     "BRACKET_NEEDED", "ID_NEEDED", "INVALID_ID", "COMPARAND_NOT_FOUND", "TERM_NOT_FOUND",
     "FACTOR_NOT_FOUND", "INVALID_COMPARISON_OPERATION", "INVALID_TERM_OPERATION",
     "INVALID_FACTOR_OPERATION", "NO_EXPRESSION_INSIDE_BRACKETS", "NO_STRING_AFTER_QUOTE",
     "NO_SECOND_QUOTE_AFTER_STRING", "STRING_ID_SECOND_DECLARATION", "NO_CLOSE_STRING_ID",
     "NO_STRING_ID_IN_DECLARATION", "NO_QUOTED_STRING_IN_DECLARATION",
     "STRING_DECLARATION_AFTER_FIRST_FUNCTION_DECLARATION"}

(* The process may have ended instead.                                     *)
Statuses == ParseError \union {"KILLED"}

FunctionSet == [name : Names, vars : Seq(Names), paramsCount : Nat]
StringSet   == [name : Names \union {Unnamed}, content : Contents]
Tables      == [functions : Seq(FunctionSet), strings : Seq(StringSet)]

construct ==
    [offset |-> 0, status |-> "NO_ERROR", printed |-> "NO_ERROR", printedAt |-> 0,
     table |-> [functions |-> <<>>, strings |-> <<>>], node |-> <<>>]

Null == [type |-> "nullptr"]

Found(p)      == p.node # <<>>
Node(p)       == IF Found(p) THEN p.node[1] ELSE Null
Return_(p, n) == [p EXCEPT !.node = <<n>>]
Nothing(p)    == [p EXCEPT !.node = <<>>]

(* A require function has returned true.                                   *)
Passed(p)     == Return_(p, Null)

Else(p, next) == IF Found(p) THEN p ELSE next
Then(p, next) == IF Found(p) THEN next ELSE p
Giving(p, n)  == Then(p, Return_(p, n))

tokensLeft(p) == Len(tokens) - p.offset
TokenAt(i)    == IF i < Len(tokens) THEN tokens[i + 1] ELSE EndOfTokens
curToken(p)   == TokenAt(p.offset)

(* A mutant: the offset is not kept within the tokens.                     *)
PastTheEndBug(p) == [p EXCEPT !.offset = @ + 1]

proceed(p) == [p EXCEPT !.offset = IF tokensLeft(p) > 0 THEN @ + 1 ELSE @]

IsKeyword(token, k) == token.type = "KEYWORD_TOKEN_TYPE" /\ token.keyword = k
isKeyword(p, k)     == IsKeyword(curToken(p), k)
isIdType(p)         == curToken(p).type = "ID_TOKEN_TYPE"
isZero(p)           == curToken(p).type = "NUMBER_TOKEN_TYPE" /\ curToken(p).number = 0

(* A mutant: the error is shown at the token that was read last.           *)
LastReadBug(p, error) ==
    LET first == p.status = "NO_ERROR"
    IN [offset |-> p.offset, status |-> error, table |-> p.table, node |-> <<>>,
        printed   |-> IF first THEN error ELSE p.printed,
        printedAt |-> IF first THEN p.offset - 1 ELSE p.printedAt]

(* The first error is printed, the last one is returned.  Behind the last  *)
(* token there is no line to show: printTokenLinePos follows a null        *)
(* pointer, and the process ends (as a status it is an error for good).    *)
(* The message is in stdout's buffer then, and seen on a terminal only.    *)
syntaxError(p, error) ==
    LET first == p.status = "NO_ERROR"
        shown == IF tokensLeft(p) = 0 THEN "KILLED" ELSE error
    IN [offset |-> p.offset, status |-> error, table |-> p.table, node |-> <<>>,
        printed   |-> IF first THEN shown ELSE p.printed,
        printedAt |-> IF first THEN p.offset ELSE p.printedAt]

(* At the end of the tokens the require functions give up without an error. *)
requireKeyword(p, k, error) ==
    CASE tokensLeft(p) = 0 -> Nothing(p)
      [] tokensLeft(p) > 0 /\ isKeyword(p, k) -> Passed(proceed(p))
      [] OTHER -> syntaxError(p, error)

requireIdToken(p) ==
    CASE tokensLeft(p) = 0 -> Nothing(p)
      [] tokensLeft(p) > 0 /\ isIdType(p) -> Passed(proceed(p))
      [] OTHER -> syntaxError(p, "ID_NEEDED")

pastNewLines(p) ==
    LET rest == {i \in p.offset .. Len(tokens) : ~IsKeyword(TokenAt(i), "NEW_LINE")}
    IN [p EXCEPT !.offset = CHOOSE i \in rest : \A j \in rest : i <= j]

requireNewLines(p) ==
    LET first == requireKeyword(p, "NEW_LINE", "NEW_LINE_NEEDED")
    IN Then(first, pastNewLines(first))

requireBracket(p) == requireKeyword(p, "BRACKET", "BRACKET_NEEDED")

(* What has been found must be there, or must have that behind it.         *)
Required(p, error)        == Else(p, syntaxError(p, error))
WithKeyword(p, k, error)  == Then(p, requireKeyword(p, k, error))
WithBracket(p)            == Then(p, requireBracket(p))
WithNewLines(p)           == Then(p, requireNewLines(p))

(* ... and is what is returned.                                            *)
InBrackets(p) == Giving(WithBracket(p), Node(p))
OnItsLine(p)  == Giving(WithNewLines(p), Node(p))

-----------------------------------------------------------------------------
pushFunction(table, name) ==
    [table EXCEPT !.functions = Append(@, [name |-> name, vars |-> <<>>, paramsCount |-> 0])]

pushVariable(f, x) == [f EXCEPT !.vars = Append(@, x)]

pushParameter(f, x) ==
    [name |-> f.name, vars |-> Append(f.vars, x), paramsCount |-> f.paramsCount + 1]

pushString(table, name, content) ==
    [table EXCEPT !.strings = Append(@, [name |-> name, content |-> content])]

curFunction(p) == p.table.functions[Len(p.table.functions)]

WithTable(p, table) == [p EXCEPT !.table = table]

WithCurrent(p, f) ==
    WithTable(p, [p.table EXCEPT !.functions = [@ EXCEPT ![Len(@)] = f]])

IsDeclared(p, x) == getVarOffset(curFunction(p), x) # -1

(* A mutant: a second declaration is not found.                            *)
NeverFoundBug(p, name) == FALSE

functionNamed(p, name) ==
    \E i \in 1 .. Len(p.table.functions) : p.table.functions[i].name = name

stringNamed(p, name) ==
    \E i \in 1 .. Len(p.table.strings) : p.table.strings[i].name = name

-----------------------------------------------------------------------------
Recur(inner, rule, p) == inner[<<rule, Nothing(p)>>]

parseId(p) == IF isIdType(p) THEN Return_(proceed(p), Id(curToken(p).id)) ELSE Nothing(p)

parseNumber(p) ==
    IF curToken(p).type = "NUMBER_TOKEN_TYPE"
    THEN Return_(proceed(p), Num(curToken(p).number)) ELSE Nothing(p)

(* The next alternative, if the first has found nothing.                   *)
Or(inner, p, Rule(_, _)) == Else(p, Rule(inner, p))

(* The loop of a rule: whatever p has found, and the rest.                 *)
Repeated(inner, rule, p) ==
    LET rest == Recur(inner, rule, p)
    IN IF Found(p) THEN Giving(rest, <<Node(p)>> \o Node(rest)) ELSE Return_(p, <<>>)

(* An expression that must be there.                                       *)
requireExpression(inner, p, error) == Required(Recur(inner, "expression", p), error)

(* An expression behind a keyword that must be there.                      *)
requireAfter(inner, p, k, missing, error) ==
    LET q == requireKeyword(p, k, missing)
    IN Then(q, requireExpression(inner, q, error))

parseMemAccess(inner, p) ==
    LET index  == requireExpression(inner, proceed(proceed(p)), "MEM_ACCESS_IVALID_EXPRESSION")
        closed == WithKeyword(index, "MEM_ACCESS", "MEM_ACCESS_NO_SECOND_BRACKET")
    IN IF ~isIdType(p) \/ tokensLeft(p) <= 1
            \/ ~IsKeyword(TokenAt(p.offset + 1), "MEM_ACCESS")
       THEN Nothing(p)
       ELSE Giving(closed, MemAccess(curToken(p).id, Node(index)))

(* A mutant: the expressions are kept in the order of the text.            *)
KeptOrderBug(e, rest) == <<e>> \o rest

(* Each further expression goes to the front of the list.                  *)
Further(e, rest) == Append(rest, e)

parseExprs(inner, p) ==
    LET e    == requireExpression(inner, proceed(p), "FUNCTION_PARAMS_NEEDED")
        rest == Then(e, Recur(inner, "exprs", e))
    IN IF ~isKeyword(p, "COMMA") THEN Return_(p, <<>>)
       ELSE Giving(rest, Further(Node(e), Node(rest)))

parseExprList(inner, p) ==
    LET e    == Recur(inner, "expression", p)
        rest == Then(e, Recur(inner, "exprs", e))
    IN Giving(rest, Further(Node(e), Node(rest)))

CallOf(x, list) == [type |-> "CALL_TYPE", id |-> x, params |-> list]

(* A bracket behind the opening one closes it: brackets have one keyword.  *)
callParams(inner, open) ==
    LET none == isKeyword(open, "BRACKET")
        list == IF none THEN Return_(open, <<>>) ELSE parseExprList(inner, open)
    IN Then(open, Required(list, "FUNCTION_PARAMS_NEEDED"))

parseCall(inner, p) ==
    LET params == callParams(inner, WithBracket(requireIdToken(proceed(p))))
    IN Giving(WithBracket(params), CallOf(curToken(proceed(p)).id, Node(params)))

parseStandardFunc(inner, p, x) ==
    LET e == requireAfter(inner, proceed(p), "BRACKET", "BRACKET_NEEDED", "FLOOR_EXPRESSION_NEEDED")
    IN Giving(WithBracket(e), CallOf(x, <<Node(e)>>))

(* A mutant: *x is read without a look at the declarations.                *)
UncheckedReadBug(p) ==
    LET variable == parseId(proceed(p))
    IN Else(variable, syntaxError(variable, "DEREFERENCING_NO_VARIABLE"))

parseDereferenced(p) ==
    LET variable == parseId(proceed(p))
    IN CASE ~Found(variable) -> syntaxError(variable, "DEREFERENCING_NO_VARIABLE")
         [] Found(variable) /\ ~IsDeclared(variable, Node(variable).id) ->
                syntaxError(proceed(p), "VARIABLE_UNDECLARED_USAGE")
         [] OTHER -> variable

parseBrackets(inner, p) ==
    InBrackets(requireExpression(inner, proceed(p), "NO_EXPRESSION_INSIDE_BRACKETS"))

(* accio-bombarda takes a whole expression, with or without brackets, and  *)
(* even none.                                                              *)
parseScanFloat(inner, p) ==
    LET precision == Recur(inner, "expression", proceed(p))
    IN Return_(precision, CallOf("accio_bombarda", <<Node(precision)>>))

(* The factors that a keyword begins.                                      *)
factorOf(inner, q) ==
    CASE isKeyword(q, "BRACKET")    -> parseBrackets(inner, q)
      [] isKeyword(q, "DEREF")      -> parseDereferenced(q)
      [] isKeyword(q, "CALL")       -> parseCall(inner, q)
      [] isKeyword(q, "SQRT")       -> parseStandardFunc(inner, q, "crucio")
      [] isKeyword(q, "SCAN")       -> Return_(proceed(q), CallOf("accio", <<>>))
      [] isKeyword(q, "SCAN_FLOAT") -> parseScanFloat(inner, q)
      [] isKeyword(q, "RAND_JUMP")  -> Return_(proceed(q), CallOf("riddikulus", <<>>))
      [] OTHER -> q

parseFactor(inner, p) ==
    LET q == parseMemAccess(inner, p)
    IN CASE curToken(p).type = "NUMBER_TOKEN_TYPE" -> parseNumber(p)
         [] curToken(p).type # "NUMBER_TOKEN_TYPE" /\ Found(q) -> q
         [] OTHER -> factorOf(inner, q)

(* The levels of the grammar: parseExpression, parseComparand, parseTerm.  *)
Operations ==
    << [EQUAL |-> "EQUAL_OP", NOT_EQUAL |-> "NOT_EQUAL_OP", LESS |-> "LESS_OP",
        GREATER |-> "GREATER_OP", LESS_EQUAL |-> "LESS_EQUAL_OP",
        GREATER_EQUAL |-> "GREATER_EQUAL_OP"],
       [PLUS |-> "ADD_OP", MINUS |-> "SUB_OP"],
       [MUL |-> "MUL_OP", DIV |-> "DIV_OP"] >>

Operands       == <<"comparands", "terms", "factors">>
OperandMissing == <<"COMPARAND_NOT_FOUND", "TERM_NOT_FOUND", "FACTOR_NOT_FOUND">>

IsOperation(p, level) ==
    /\ curToken(p).type = "KEYWORD_TOKEN_TYPE"
    /\ curToken(p).keyword \in DOMAIN Operations[level]

(* The loop of a level: operations, each with the operand behind it.       *)
parseOperands(inner, p, second, level) ==
    LET rest  == Recur(inner, Operands[level], second)
        found == [operation |-> Operations[level][curToken(p).keyword], operand |-> Node(second)]
    IN CASE ~IsOperation(p, level) -> Return_(p, <<>>)
         [] IsOperation(p, level) /\ ~Found(second) ->
                syntaxError(second, OperandMissing[level])
         [] OTHER -> Giving(rest, <<found>> \o Node(rest))

(* The operations of a level associate to the left.                        *)
Leftwards(first, rest) ==
    LET tree[i \in 0 .. Len(rest)] ==
            IF i = 0 THEN first ELSE Math(tree[i - 1], rest[i].operation, rest[i].operand)
    IN tree[Len(rest)]

parseLevel(inner, first, level) ==
    LET rest == Recur(inner, Operands[level], first)
    IN Then(first, Giving(rest, Leftwards(Node(first), Node(rest))))

parseTerm(inner, p)       == parseLevel(inner, parseFactor(inner, p), 3)
parseComparand(inner, p)  == parseLevel(inner, parseTerm(inner, p), 2)
parseExpression(inner, p) == parseLevel(inner, parseComparand(inner, p), 1)

-----------------------------------------------------------------------------
parseStringId(p) ==
    LET x == parseId(proceed(p))
    IN CASE ~isKeyword(p, "STR_ID_OPEN") -> Nothing(p)
         [] isKeyword(p, "STR_ID_OPEN") /\ ~Found(x) -> syntaxError(x, "ID_NEEDED")
         [] OTHER -> IF isKeyword(x, "STR_ID_CLOSE") THEN proceed(x)
                     ELSE syntaxError(x, "NO_CLOSE_STRING_ID")

parseQuotedString(p) ==
    LET string == proceed(p)
        closed == requireKeyword(proceed(string), "STR_QUOTE", "NO_SECOND_QUOTE_AFTER_STRING")
    IN CASE ~isKeyword(p, "STR_QUOTE") -> Nothing(p)
         [] isKeyword(p, "STR_QUOTE") /\ curToken(string).type # "QUOTED_STRING_TOKEN_TYPE" ->
                syntaxError(string, "NO_STRING_AFTER_QUOTE")
         [] OTHER -> Giving(closed, String(curToken(string).string))

parseLValue(inner, p) ==
    LET element == parseMemAccess(inner, p)
    IN Else(element, parseId(element))

(* Without a carpe-retractum the parser goes back to where it was.         *)
assignmentTo(inner, p, lvalue) ==
    LET e == requireExpression(inner, proceed(lvalue), "VARIABLE_ASSIGNMENT_NO_EXPRESSION")
    IN CASE ~Found(lvalue) -> lvalue
         [] Found(lvalue) /\ ~isKeyword(lvalue, "ASSIGN") ->
                Nothing([lvalue EXCEPT !.offset = p.offset])
         [] OTHER -> Giving(e, Assign(Node(lvalue), Node(e)))

parseAssignment(inner, p) == assignmentTo(inner, p, parseLValue(inner, p))

(* What a declaration does with its name before it goes on.                *)
declare(p, error) ==
    CASE ~isIdType(p) -> syntaxError(p, error)
      [] isIdType(p) /\ IsDeclared(p, curToken(p).id) ->
             syntaxError(p, "VARIABLE_SECOND_DECLARATION")
      [] OTHER -> Passed(WithCurrent(p, pushVariable(curFunction(p), curToken(p).id)))

declaredBy(assignment) ==
    IF Found(assignment)
    THEN Return_(assignment, [Node(assignment) EXCEPT !.type = "VDECL_TYPE"])
    ELSE syntaxError(assignment, "VARIABLE_DECLARATION_NO_ASSIGNMENT")

parseVDeclaration(inner, p) ==
    LET declared == declare(proceed(p), "VARIABLE_DECLARATION_NO_ASSIGNMENT")
    IN CASE ~isKeyword(p, "VDECL") -> Nothing(p)
         [] isKeyword(p, "VDECL") /\ ~Found(declared) -> declared
         [] OTHER -> declaredBy(parseAssignment(inner, declared))

parseADeclaration(inner, p) ==
    LET declared == declare(proceed(p), "ID_NEEDED")
        size     == Then(declared, requireAfter(inner, proceed(declared), "COMMA",
                        "ARRAY_DECLARATION_NO_COMMA", "ARRAY_DECLARATION_NO_SIZE"))
    IN IF ~isKeyword(p, "ADECL") THEN Nothing(p)
       ELSE Giving(size, ADecl(curToken(declared).id, Node(size)))

parseJump(inner, p) ==
    LET e == requireExpression(inner, proceed(p), "RETURN_EXPRESSION_NEEDED")
    IN IF ~isKeyword(p, "RETURN") THEN Nothing(p) ELSE Giving(e, Return(Node(e)))

(* A mutant: the parameters in the order of the text.                      *)
PrecisionFirstBug(value, precision) == CallOf("flagrate_bombarda", <<precision, value>>)

PrintFloat(value, precision) == CallOf("flagrate_bombarda", <<value, precision>>)

parsePrintFloat(inner, p) ==
    LET precision == requireExpression(inner, proceed(p), "PRINT_FLOAT_PRECISION_NEEDED")
        e         == Then(precision, requireAfter(inner, precision, "COMMA",
                         "PRINT_FLOAT_NO_COMMA", "PRINT_FLOAT_EXPRESSION_NEEDED"))
    IN IF ~isKeyword(p, "PRINT_FLOAT") THEN Nothing(p)
       ELSE Giving(e, PrintFloat(Node(e), Node(precision)))

PrintString(p, node) == Return_(p, CallOf("flagrate_s", <<node>>))

(* A literal, and the new line, is added to the table unless it is there;  *)
(* getStringByContent asserts that it is no null pointer.                  *)
PrintLiteral(p, s) ==
    LET strings == pushLiteral(p.table.strings, s)
    IN IF s = Unnamed THEN syntaxError(p, "KILLED")
       ELSE PrintString(WithTable(p, [p.table EXCEPT !.strings = strings]), String(s))

printed(named) ==
    LET literal == parseQuotedString(named)
    IN CASE Found(named) -> IF stringNamed(named, Node(named).id)
                            THEN PrintString(named, Node(named))
                            ELSE syntaxError(named, "PRINT_STRING_UNDECLARED_STRING_ID")
         [] ~Found(named) /\ Found(literal) -> PrintLiteral(literal, Node(literal).string)
         [] OTHER -> syntaxError(literal, "PRINT_STRING_INVALID_ARGUMENT")

parsePrintString(inner, p) ==
    LET argument == proceed(p)
    IN CASE ~isKeyword(p, "PRINT_STRING") -> Nothing(p)
         [] isKeyword(p, "PRINT_STRING") /\ isKeyword(argument, "STR_NEW_LINE") ->
                PrintLiteral(proceed(argument), "\n")
         [] OTHER -> printed(parseStringId(argument))

parsePrint(inner, p) ==
    LET e == requireExpression(inner, proceed(p), "PRINT_EXPRESSION_NEEDED")
    IN IF ~isKeyword(p, "PRINT") THEN Nothing(p)
       ELSE Giving(e, CallOf("flagrate", <<Node(e)>>))

expressionOf(inner, p) == Recur(inner, "expression", p)

parsePrints(inner, p) ==
    Or(inner, Or(inner, Or(inner, p, parsePrintFloat), parsePrintString), parsePrint)

parseCommand(inner, p) ==
    LET declaration == Or(inner, parseVDeclaration(inner, p), parseADeclaration)
        statement   == Or(inner, Or(inner, declaration, parseAssignment), parseJump)
    IN Or(inner, parsePrints(inner, statement), expressionOf)

parseCmdLine(inner, p) ==
    IF ~isKeyword(p, "CMD_LINE") THEN Nothing(p) ELSE OnItsLine(parseCommand(inner, proceed(p)))

(* A mutant: whatever is no statement ends the block.                      *)
UnclosedBlockBug(inner, p) ==
    LET brace == WithKeyword(requireNewLines(p), "OPEN_BRACE", "OPEN_BRACE_NEEDED")
        open  == WithNewLines(brace)
        block == Then(open, Recur(inner, "statements", open))
    IN IF Found(open) /\ isKeyword(block, "CLOSE_BRACE") THEN pastNewLines(proceed(block)) ELSE block

(* The statements of the block are its node.                               *)
blockBehind(inner, open) ==
    LET block  == Then(open, Recur(inner, "statements", open))
        closed == Then(open, requireKeyword(block, "CLOSE_BRACE", "CLOSE_BRACE_NEEDED"))
    IN Giving(WithNewLines(closed), Node(block))

parseBlock(inner, p) ==
    LET brace == WithKeyword(requireNewLines(p), "OPEN_BRACE", "OPEN_BRACE_NEEDED")
    IN blockBehind(inner, WithNewLines(brace))

requireBlock(inner, p, error) == Required(parseBlock(inner, p), error)

(* An expression in brackets, after if and while.                          *)
requireCondition(inner, p, error) ==
    InBrackets(requireAfter(inner, p, "BRACKET", "BRACKET_NEEDED", error))

elseBlock(inner, p) ==
    IF isKeyword(p, "ELSE") THEN requireBlock(inner, proceed(p), "ELSE_BLOCK_NEEDED")
    ELSE Return_(p, <<>>)

conditionOf(inner, e, then) ==
    LET else == elseBlock(inner, then)
    IN Then(then, Giving(else, Cond(Node(e), Node(then), Node(else))))

parseCondition(inner, p) ==
    LET e == requireCondition(inner, proceed(p), "IF_EXPRESSION_NEEDED")
    IN IF ~isKeyword(p, "IF") THEN Nothing(p)
       ELSE conditionOf(inner, e, Then(e, requireBlock(inner, e, "IF_BLOCK_NEEDED")))

loopOf(e, body) == Giving(body, Loop(Node(e), Node(body)))

parseLoop(inner, p) ==
    LET e == requireCondition(inner, proceed(p), "LOOP_EXPRESSION_NEEDED")
    IN IF ~isKeyword(p, "LOOP") THEN Nothing(p)
       ELSE loopOf(e, Then(e, requireBlock(inner, e, "LOOP_BLOCK_NEEDED")))

parseStatement(inner, p) ==
    Or(inner, Or(inner, parseCmdLine(inner, p), parseCondition), parseLoop)

parseStatements(inner, p) == Repeated(inner, "statements", parseStatement(inner, p))

-----------------------------------------------------------------------------
WithParameter(p, x) == WithCurrent(p, pushParameter(curFunction(p), x))

parseParams(inner, p) ==
    LET x    == parseId(proceed(p))
        rest == Recur(inner, "params", WithParameter(x, Node(x).id))
    IN CASE ~isKeyword(p, "COMMA") -> Return_(p, <<>>)
         [] isKeyword(p, "COMMA") /\ ~Found(x) -> syntaxError(x, "FUNCTION_PARAMS_NEEDED")
         [] OTHER -> Giving(rest, <<Node(x).id>> \o Node(rest))

parseParamList(inner, p) ==
    LET x    == parseId(p)
        rest == parseParams(inner, WithParameter(x, Node(x).id))
    IN Then(x, Giving(rest, <<Node(x).id>> \o Node(rest)))

functionBody(inner, x, params) ==
    LET list  == IF Found(params) THEN Node(params) ELSE <<>>
        begin == IF isZero(params) THEN proceed(params) ELSE params
        block == requireBlock(inner, begin, "FUNCTION_BODY_NEEDED")
    IN IF ~Found(params) /\ ~isZero(params) THEN syntaxError(params, "FUNCTION_PARAMS_NEEDED")
       ELSE Giving(block, FDecl(x, list, Node(block)))

(* A zero before the name makes the function void, which nothing reads.    *)
parseFDeclaration(inner, p) ==
    LET name == parseId(IF isZero(proceed(p)) THEN proceed(proceed(p)) ELSE proceed(p))
        x    == Node(name).id
    IN CASE tokensLeft(p) = 0 \/ ~isKeyword(p, "FDECL") -> Nothing(p)
         [] OTHER ->
            CASE ~Found(name) -> syntaxError(name, "ID_NEEDED")
              [] Found(name) /\ functionNamed(name, x) ->
                     syntaxError(name, "FUNCTION_SECOND_DECLARATION")
              [] OTHER -> functionBody(inner, x,
                     parseParamList(inner, WithTable(name, pushFunction(name.table, x))))

stringDeclared(x, quoted) ==
    LET string == Node(quoted).string
        line   == requireNewLines(quoted)
    IN IF ~Found(quoted) THEN syntaxError(quoted, "NO_QUOTED_STRING_IN_DECLARATION")
       ELSE Then(line, Return_(WithTable(line, pushString(line.table, x, string)),
                               <<x, string>>))

parseSDeclaration(p) ==
    LET name == parseStringId(proceed(p))
        x    == Node(name).id
    IN CASE tokensLeft(p) = 0 \/ ~isKeyword(p, "SDECL") -> Nothing(p)
         [] OTHER ->
            CASE ~Found(name) -> syntaxError(name, "NO_STRING_ID_IN_DECLARATION")
              [] Found(name) /\ stringNamed(name, x) ->
                     syntaxError(name, "STRING_ID_SECOND_DECLARATION")
              [] OTHER -> stringDeclared(x, parseQuotedString(name))

parseSDeclarations(inner, p) == Repeated(inner, "strings", parseSDeclaration(p))

(* The functions behind the first one; no string may stand between them.   *)
functionsBehind(inner, s) ==
    IF Found(s) THEN syntaxError(s, "STRING_DECLARATION_AFTER_FIRST_FUNCTION_DECLARATION")
    ELSE Repeated(inner, "functions", parseFDeclaration(inner, s))

parseFDeclarations(inner, p) ==
    functionsBehind(inner, parseSDeclaration(p))

programOf(inner, p, strings, first) ==
    LET rest == Recur(inner, "functions", first)
    IN CASE tokensLeft(p) = 0 -> Nothing(p)
         [] tokensLeft(p) > 0 /\ ~Found(first) ->
                syntaxError(first, "FUNCTION_DECLARATION_NEEDED")
         [] OTHER -> Giving(rest, Program(Node(strings), <<Node(first)>> \o Node(rest)))

parseProgramBody(inner, p) ==
    LET strings == parseSDeclarations(inner, p)
    IN programOf(inner, p, strings, parseFDeclaration(inner, strings))

-----------------------------------------------------------------------------
Rules == {"expression", "comparands", "terms", "factors", "exprs", "statements",
          "params", "strings", "functions"}

Apply(inner, rule, p) ==
    CASE rule = "expression" -> parseExpression(inner, p)
      [] rule = "comparands" -> parseOperands(inner, p, parseComparand(inner, proceed(p)), 1)
      [] rule = "terms"      -> parseOperands(inner, p, parseTerm(inner, proceed(p)), 2)
      [] rule = "factors"    -> parseOperands(inner, p, parseFactor(inner, proceed(p)), 3)
      [] rule = "exprs"      -> parseExprs(inner, p)
      [] rule = "statements" -> parseStatements(inner, p)
      [] rule = "params"     -> parseParams(inner, p)
      [] rule = "strings"    -> parseSDeclarations(inner, p)
      [] rule = "functions"  -> parseFDeclarations(inner, p)

Parsers ==
    [offset : Nat, status : Statuses, printed : Statuses, printedAt : Int, table : Tables,
     node : {<<>>}]

parse[n \in 0 .. Len(tokens) + 1] ==
    [call \in Rules \X Parsers |->
        IF n = 0 THEN call[2] ELSE Apply(parse[n - 1], call[1], call[2])]

(* parseProgram: what is missing in the first line or in the last is an    *)
(* error that does not stop the parser.                                    *)
endOf(body) == [requireKeyword(body, "PROG_END", "NO_PROG_END") EXCEPT !.node = body.node]

parseProgram ==
    LET start == requireKeyword(construct, "PROG_START", "NO_PROG_START")
        title == requireIdToken(start)
    IN endOf(parseProgramBody(parse[Len(tokens) + 1], requireNewLines(title)))
=============================================================================
