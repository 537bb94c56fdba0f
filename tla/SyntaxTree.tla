----------------------------- MODULE SyntaxTree -----------------------------
(***************************************************************************)
(* The tree that the parser hands to the compiler (expression_tree.h) and  *)
(* what it asks of the symbol table on the way (symbol_table.cpp,          *)
(* function_data.cpp).  A node is a record with its type and children; a   *)
(* list of nodes, linked through `right' in the code, is a sequence.       *)
(*                                                                         *)
(* Names and the contents of strings are only compared: TLA+ strings stand *)
(* for them.  The empty name is the nullptr of an unnamed string.          *)
(***************************************************************************)
EXTENDS Integers, Sequences, SequencesExt

Num(n)           == [type |-> "NUMBER_TYPE", number |-> n]
Id(x)            == [type |-> "ID_TYPE", id |-> x]
String(s)        == [type |-> "STRING_TYPE", string |-> s]
Math(l, op, r)   == [type |-> "MATH_TYPE", operation |-> op, left |-> l, right |-> r]
MemAccess(x, e)  == [type |-> "MEM_ACCESS_TYPE", id |-> x, index |-> e]

(* parseExprList puts each further expression in front of the list.        *)
Call(x, exprs)   == [type |-> "CALL_TYPE", id |-> x, params |-> Reverse(exprs)]

VDecl(x, e)      == [type |-> "VDECL_TYPE", lvalue |-> Id(x), expression |-> e]
Assign(lv, e)    == [type |-> "ASSIGN_TYPE", lvalue |-> lv, expression |-> e]
ADecl(x, e)      == [type |-> "ADECL_TYPE", id |-> x, size |-> e]
Return(e)        == [type |-> "JUMP_TYPE", expression |-> e]
Cond(e, b1, b2)  == [type |-> "COND_TYPE", condition |-> e, then |-> b1, else |-> b2]
Loop(e, b)       == [type |-> "LOOP_TYPE", condition |-> e, body |-> b]

FDecl(x, params, block) == [name |-> x, params |-> params, body |-> block]

(* strings: the declarations <<name, content>> before the functions. *)
Program(strings, functions) == [strings |-> strings, functions |-> functions]

Arithmetic  == {"ADD_OP", "SUB_OP", "MUL_OP", "DIV_OP"}
Comparisons == {"EQUAL_OP", "NOT_EQUAL_OP", "LESS_OP", "GREATER_OP",
                "LESS_EQUAL_OP", "GREATER_EQUAL_OP"}

-----------------------------------------------------------------------------
Unnamed == ""

(* The index of the first string with this content, 0 without one.         *)
getStringByContent(strings, content) ==
    SelectInSeq(strings, LAMBDA s : s.content = content)

(* parsePrintString adds a literal to the table if no string has its       *)
(* content, be that string named or not.                                   *)
pushLiteral(strings, content) ==
    IF getStringByContent(strings, content) # 0 THEN strings
    ELSE Append(strings, [name |-> Unnamed, content |-> content])

(* Parameters lie above the return address and the saved rbp, the others   *)
(* below; the first variable with the name is the one that is meant.       *)
getVarOffset(function, variable) ==
    LET i == SelectInSeq(function.vars, LAMBDA v : v = variable)
    IN CASE i = 0                     -> -1
         [] i \in 1 .. function.paramsCount -> 16 + 8 * (i - 1)
         [] i > function.paramsCount  -> -8 * (i - function.paramsCount)
=============================================================================
