------------------------------- MODULE Source -------------------------------
(***************************************************************************)
(* What a program means, whatever it is compiled to: the values of its     *)
(* expressions, the order of its effects and what it prints.  This is the  *)
(* abstract specification of the code generator, not a model of code.      *)
(*                                                                         *)
(* An interpreter in state-passing style.  s has the variables of the      *)
(* current call, the arrays (a variable holds an array's number), what is  *)
(* left of the input, the output, the value of the last expression and     *)
(* whether the current call has returned.  Parameters are evaluated from   *)
(* the last to the first.                                                  *)
(***************************************************************************)
EXTENDS SyntaxTree

Truncated(a, b) == IF (a < 0) = (b < 0) THEN a \div b ELSE -((-a) \div b)

Truth(b) == IF b THEN 1 ELSE 0

Operate(op, a, b) ==
    CASE op = "ADD_OP" -> a + b
      [] op = "SUB_OP" -> a - b
      [] op = "MUL_OP" -> a * b
      [] op = "DIV_OP" -> Truncated(a, b)
      [] op = "EQUAL_OP" -> Truth(a = b)
      [] op = "NOT_EQUAL_OP" -> Truth(a # b)
      [] op = "LESS_OP" -> Truth(a < b)
      [] op = "GREATER_OP" -> Truth(a > b)
      [] op = "LESS_EQUAL_OP" -> Truth(a <= b)
      [] op = "GREATER_EQUAL_OP" -> Truth(a >= b)

Line(kind, number, precision, string) ==
    [kind |-> kind, number |-> number, precision |-> precision, string |-> string]

Shown(s, line) == [s EXCEPT !.out = Append(@, line), !.value = 0]

Root(n) == CHOOSE r \in 0 .. n : r * r <= n /\ n < (r + 1) * (r + 1)

(* A call of a standard function with these arguments.                     *)
Library(name, args, s) ==
    CASE name = "flagrate"          -> Shown(s, Line("number", args[1], 0, ""))
      [] name = "flagrate_bombarda" -> Shown(s, Line("decimal", args[2], args[1], ""))
      [] name = "flagrate_s"        -> Shown(s, Line("string", 0, 0, args[1]))
      [] name = "accio"             -> [s EXCEPT !.value = Head(s.in), !.in = Tail(@)]
      [] name = "accio_bombarda"    ->
             [s EXCEPT !.value = Head(s.in) * 10 ^ args[1], !.in = Tail(@)]
      [] name = "crucio"            -> [s EXCEPT !.value = Root(args[1])]

FunctionOf(p, name) == SelectInSeq(p.functions, LAMBDA f : f.name = name)
StringOf(p, name)   == p.strings[SelectInSeq(p.strings, LAMBDA s : s[1] = name)][2]

RECURSIVE Eval(_, _, _), Run(_, _, _)

(* Evaluates the list and collects the values in the order of the          *)
(* parameters, which is the reverse of the list's.                         *)
Arguments(p, exprs, s) ==
    FoldLeft(LAMBDA acc, e :
                 LET t == Eval(p, e, acc.s)
                 IN [s |-> t, values |-> <<t.value>> \o acc.values],
             [s |-> s, values |-> <<>>], exprs)

Invoke(p, f, args, s) ==
    LET entered == [s EXCEPT !.vars = [i \in {f.params[k] : k \in DOMAIN f.params} |->
                                          args[SelectInSeq(f.params, LAMBDA x : x = i)]],
                             !.value = 0, !.returned = FALSE]
        left == Run(p, f.body, entered)
    IN [left EXCEPT !.vars = s.vars, !.returned = FALSE]

Eval(p, e, s) ==
    CASE e.type = "NUMBER_TYPE" -> [s EXCEPT !.value = e.number]
      [] e.type = "STRING_TYPE" -> [s EXCEPT !.value = e.string]
      [] e.type = "ID_TYPE" ->
             [s EXCEPT !.value = IF e.id \in DOMAIN s.vars THEN s.vars[e.id]
                                 ELSE StringOf(p, e.id)]
      [] e.type = "MATH_TYPE" ->
             LET l == Eval(p, e.left, s)
                 r == Eval(p, e.right, l)
             IN [r EXCEPT !.value = Operate(e.operation, l.value, r.value)]
      [] e.type = "MEM_ACCESS_TYPE" ->
             LET i == Eval(p, e.index, s)
             IN [i EXCEPT !.value = i.arrays[i.vars[e.id]][i.value]]
      [] e.type = "CALL_TYPE" ->
             LET a == Arguments(p, e.params, s)
                 f == FunctionOf(p, e.id)
             IN IF f = 0 THEN Library(e.id, a.values, a.s)
                ELSE Invoke(p, p.functions[f], a.values, a.s)

Set(s, x, v) ==
    [s EXCEPT !.vars = [y \in DOMAIN s.vars \union {x} |->
                           IF y = x THEN v ELSE s.vars[y]]]

(* For an element the index is evaluated before the value.                 *)
Store(p, lvalue, e, s) ==
    LET i == Eval(p, lvalue.index, s)
        v == Eval(p, e, i)
    IN [v EXCEPT !.arrays[v.vars[lvalue.id]] =
                    [k \in DOMAIN @ \union {i.value} |->
                        IF k = i.value THEN v.value ELSE @[k]]]

Statement(p, node, s) ==
    CASE node.type \in {"VDECL_TYPE", "ASSIGN_TYPE"} ->
             IF node.lvalue.type = "ID_TYPE"
             THEN LET v == Eval(p, node.expression, s) IN Set(v, node.lvalue.id, v.value)
             ELSE Store(p, node.lvalue, node.expression, s)
      [] node.type = "ADECL_TYPE" ->
             LET n == Eval(p, node.size, s)
             IN Set([n EXCEPT !.arrays = Append(@, <<>>)], node.id, Len(n.arrays) + 1)
      [] node.type = "JUMP_TYPE" ->
             [Eval(p, node.expression, s) EXCEPT !.returned = TRUE]
      [] node.type = "COND_TYPE" ->
             LET c == Eval(p, node.condition, s)
             IN Run(p, IF c.value # 0 THEN node.then ELSE node.else, c)
      [] node.type = "LOOP_TYPE" ->
             LET c == Eval(p, node.condition, s)
             IN IF c.value = 0 THEN c
                ELSE Run(p, <<node>>, Run(p, node.body, c))
      [] OTHER -> Eval(p, node, s)

Run(p, block, s) ==
    IF s.returned \/ block = <<>> THEN s
    ELSE Run(p, Tail(block), Statement(p, Head(block), s))

(* What the program prints on this input.                                  *)
Output(p, input) ==
    Invoke(p, p.functions[FunctionOf(p, "love")], <<>>,
           [vars |-> <<>>, arrays |-> <<>>, in |-> input, out |-> <<>>,
            value |-> 0, returned |-> FALSE]).out
=============================================================================
