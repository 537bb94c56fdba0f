----------------------------- MODULE TreeSymbols -----------------------------
(***************************************************************************)
(* The symbol table of a whole program (symbol_table.cpp,                  *)
(* function_data.cpp), read off its tree: what the code generator is given *)
(* with the tree.  The parser fills it declaration by declaration.         *)
(***************************************************************************)
EXTENDS SyntaxTree

(* The variables that the statements of a block declare, in their order.   *)
RECURSIVE Declared(_)
Declared(block) ==
    LET Of(s) == CASE s.type = "VDECL_TYPE" -> <<s.lvalue.id>>
                   [] s.type = "ADECL_TYPE" -> <<s.id>>
                   [] s.type = "COND_TYPE"  -> Declared(s.then) \o Declared(s.else)
                   [] s.type = "LOOP_TYPE"  -> Declared(s.body)
                   [] OTHER                 -> <<>>
    IN FoldLeft(LAMBDA vars, s : vars \o Of(s), <<>>, block)

(* flagrate-s is a statement: a literal is the parameter of one.           *)
RECURSIVE Literals(_)
Literals(block) ==
    LET Of(s) == CASE s.type = "CALL_TYPE" ->
                        IF s.id = "flagrate_s" /\ s.params[1].type = "STRING_TYPE"
                        THEN <<s.params[1].string>> ELSE <<>>
                   [] s.type = "COND_TYPE" -> Literals(s.then) \o Literals(s.else)
                   [] s.type = "LOOP_TYPE" -> Literals(s.body)
                   [] OTHER                -> <<>>
    IN FoldLeft(LAMBDA found, s : found \o Of(s), <<>>, block)

(* Function: its variables, the parameters first.                          *)
FunctionData(f) ==
    [name |-> f.name, vars |-> f.params \o Declared(f.body),
     paramsCount |-> Len(f.params)]

SymbolTable(p) ==
    [functions |-> [i \in DOMAIN p.functions |-> FunctionData(p.functions[i])],
     strings   |-> FoldLeft(pushLiteral,
                            [i \in DOMAIN p.strings |->
                                [name |-> p.strings[i][1], content |-> p.strings[i][2]]],
                            FlattenSeq([i \in DOMAIN p.functions |->
                                           Literals(p.functions[i].body)]))]
=============================================================================
