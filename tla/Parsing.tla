------------------------------ MODULE Parsing -------------------------------
(***************************************************************************)
(* The parser on texts, and on the same texts after slips of the writer's: *)
(* a token lost, doubled, exchanged with the next, a name mistaken for     *)
(* another, or the rest of the file cut off.                               *)
(***************************************************************************)
EXTENDS Parser

CONSTANTS
    Texts,    \* sequence of texts, each a sequence of tokens
    MaxSlips  \* how many slips the writer makes

ASSUME TextsAssumption == Texts \in Seq(Seq(TokenSet))
ASSUME SlipsAssumption == MaxSlips \in Nat

VARIABLES
    chosen,  \* the text in Texts that tokens was at first
    slips,   \* the slips made so far
    stage,   \* "written" or "parsed"
    parser   \* what parseProgram has left

vars == <<chosen, tokens, slips, stage, parser>>

-----------------------------------------------------------------------------
Init ==
    /\ chosen \in DOMAIN Texts
    /\ tokens = Texts[chosen]
    /\ slips = <<>>
    /\ stage = "written"
    /\ parser = construct

Slip(kind, i, text) ==
    /\ stage = "written"
    /\ Len(slips) < MaxSlips
    /\ tokens' = text
    /\ slips' = Append(slips, <<kind, i>>)
    /\ UNCHANGED <<chosen, stage, parser>>

Cut == \E i \in DOMAIN tokens : Slip("cut", i, SubSeq(tokens, 1, i - 1))

Lose == \E i \in DOMAIN tokens : Slip("lose", i, RemoveAt(tokens, i))

Double == \E i \in DOMAIN tokens : Slip("double", i, InsertAt(tokens, i, tokens[i]))

Exchange ==
    \E i \in 1 .. Len(tokens) - 1 :
        Slip("exchange", i, [tokens EXCEPT ![i] = tokens[i + 1], ![i + 1] = tokens[i]])

NamePlaces == {i \in DOMAIN tokens : tokens[i].type = "ID_TOKEN_TYPE"}

Mistake ==
    \E i, j \in NamePlaces :
        tokens[i] # tokens[j] /\ Slip("mistake", i, [tokens EXCEPT ![i] = tokens[j]])

Parse ==
    /\ stage = "written"
    /\ parser' = parseProgram
    /\ stage' = "parsed"
    /\ UNCHANGED <<chosen, tokens, slips>>

Next == Cut \/ Lose \/ Double \/ Exchange \/ Mistake \/ Parse

Spec == Init /\ [][Next]_vars

-----------------------------------------------------------------------------
(* The parser keeps to its tokens, also where it takes the one behind them *)
(* (calloc has made it a quoted string) for a token of the program.        *)
TypeOK ==
    /\ chosen \in DOMAIN Texts
    /\ tokens \in Seq(TokenSet)
    /\ stage \in {"written", "parsed"}
    /\ Len(slips) <= MaxSlips
    /\ Nothing(parser) \in Parsers
    /\ parser.offset \in 0 .. Len(tokens) /\ parser.printedAt \in 0 .. Len(tokens)

Distinct(table) ==
    /\ \A i, j \in 1 .. Len(table.functions) :
          i # j => table.functions[i].name # table.functions[j].name
    /\ \A i, j \in 1 .. Len(table.strings) :
          i # j /\ table.strings[i].name = table.strings[j].name
             => table.strings[i].name = Unnamed
    /\ \A k \in 1 .. Len(table.functions) :
          LET f == table.functions[k]
          IN \A i, j \in 1 .. Len(f.vars) : i < j /\ f.vars[i] = f.vars[j] => j <= f.paramsCount

(* Functions, named strings and the local variables of a function have     *)
(* names of their own, so that each is found by its name: only parameters  *)
(* may share one.  (A literal is a string without a name.)                 *)
DistinctNames == Distinct(parser.table)

Children(n) ==
    CASE n.type = "MATH_TYPE"       -> {n.left, n.right}
      [] n.type = "MEM_ACCESS_TYPE" -> {n.index}
      [] n.type = "CALL_TYPE"       -> {n.params[i] : i \in 1 .. Len(n.params)}
      [] n.type \in {"VDECL_TYPE", "ASSIGN_TYPE"} ->
             {n.expression} \union (IF n.lvalue.type = "ID_TYPE" THEN {} ELSE {n.lvalue})
      [] n.type = "ADECL_TYPE"      -> {n.size}
      [] n.type = "JUMP_TYPE"       -> {n.expression}
      [] n.type = "COND_TYPE"       -> {n.condition} \union {n.then[i] : i \in 1 .. Len(n.then)}
                                         \union {n.else[i] : i \in 1 .. Len(n.else)}
      [] n.type = "LOOP_TYPE"       -> {n.condition} \union {n.body[i] : i \in 1 .. Len(n.body)}
      [] OTHER -> {}

Below(last) ==
    [above |-> last.above \union last.here,
     here  |-> UNION {Children(n) : n \in last.here}]

Deeper(last) ==
    IF last.here = {} THEN last ELSE Below(Below(Below(Below(last))))

(* The nodes under the statements of a block, four levels in a step; no    *)
(* way down the tree is longer than the text.                              *)
NodesOf(block) ==
    LET down[d \in 0 .. Len(tokens) \div 4 + 1] ==
            IF d = 0 THEN [above |-> {}, here |-> {block[i] : i \in 1 .. Len(block)}]
            ELSE Deeper(down[d - 1])
    IN down[Len(tokens) \div 4 + 1].above

(* What a function reads: its own variables, and the strings with a name.  *)
Readable(table, i) ==
    {table.functions[i].vars[k] : k \in 1 .. Len(table.functions[i].vars)}
      \union ({table.strings[k].name : k \in 1 .. Len(table.strings)} \ {Unnamed})

(* Every value that a program reads, if it is one, is that of a variable   *)
(* of its function in the symbol table, or of a named string (for          *)
(* getVarOffset would give -1, or the linker the label of nothing).        *)
ReadsDeclared ==
    Found(parser) =>
        LET functions == Node(parser).functions
        IN /\ Len(functions) <= Len(parser.table.functions)
           /\ \A i \in 1 .. Len(functions) :
                 /\ functions[i].name = parser.table.functions[i].name
                 /\ \A n \in NodesOf(functions[i].body) :
                       n.type = "ID_TYPE" => n.id \in Readable(parser.table, i)

LineOf(i) == Cardinality({j \in 1 .. i - 1 : tokens[j] = Keyword("NEW_LINE")})

(* After one slip, the error that is shown is on its line or below it:     *)
(* what was read before it could be the beginning of a program.  (On the   *)
(* line it may stand before it, parseAssignment goes back to its start.)   *)
ErrorNotAbove ==
    stage = "parsed" /\ Len(slips) = 1 /\ parser.printed # "NO_ERROR" =>
        LineOf(parser.printedAt + 1) >= LineOf(slips[1][2])
=============================================================================
