---------------------------- MODULE SymbolTables ----------------------------
(***************************************************************************)
(* The symbol table as it lies in memory (src/libs/dynamic_array and       *)
(* src/symbol_table), with the parser that fills it and the compiler that  *)
(* goes through it once per pass.                                          *)
(*                                                                         *)
(* Both keep a Function* while they call: an insertion may move the array  *)
(* to another block, and every pass inserts the standard functions anew,   *)
(* behind those of the program.  Blocks are numbers; what is written       *)
(* through a pointer into a block that was given back is lost.  Pointers   *)
(* into the arrays of strings and of variables are not kept by anybody, so *)
(* those are sequences.                                                    *)
(***************************************************************************)
EXTENDS Integers, SequencesExt

CONSTANTS
    Names,            \* identifiers of functions
    Main,             \* MAIN_FUNCTION_NAME
    Variables,        \* identifiers of parameters and variables
    StringNames,
    Literals,         \* contents of strings
    StdFunctions,     \* STANDARD_FUNCTIONS: a sequence of [name, parameters]
    DEFAULT_CAPACITY,
    Moves,            \* what realloc adds to the block's number: 0 to grow in place
    PASSES,
    MaxFunctions, MaxVariables, MaxStrings \* bounds on one program

NoName == "nullptr"

(* The names of the library begin with keywords and cannot be written in a *)
(* program (module Tokenizer).                                             *)
ASSUME TableAssumption ==
    /\ StdFunctions \in Seq([name : STRING, parameters : Seq(STRING)])
    /\ \A i \in 1 .. Len(StdFunctions) : StdFunctions[i].name \notin Names
    /\ DEFAULT_CAPACITY \in Nat /\ DEFAULT_CAPACITY >= 2
    /\ Moves \subseteq Nat
    /\ NoName \notin StringNames
    /\ PASSES \in Nat \ {0}

VARIABLES
    functionsData,  \* FunctionsData: block, capacity, functions
    strings,        \* StringsData, a sequence
    cmp,            \* stringsData.cmp, which every look-up sets
    curFunction,    \* Function*, of the parser and then of the compiler
    stage,          \* "strings", "parameters", "body", "std", "functions" or how it ended
    done,           \* standard functions, then declarations, of this pass
    pass,
    tree,           \* the functions' names as the declarations have them
    printed         \* the literals that the tree prints

vars == <<functionsData, strings, cmp, curFunction, stage, done, pass, tree, printed>>

Nowhere == [block |-> -1, index |-> 0]

functions == functionsData.functions

-----------------------------------------------------------------------------
(* realloc: the capacity times 1.8, truncated.                             *)
Grown(capacity) == (9 * capacity) \div 5

(* The array with one element more, in the same block or in a new one.     *)
(* count is at most capacity, so that growing once is enough.              *)
INSERT(data, element) ==
    LET longer == Append(data.functions, element)
    IN IF Len(data.functions) < data.capacity THEN {[data EXCEPT !.functions = longer]}
       ELSE {[block |-> b, capacity |-> Grown(data.capacity), functions |-> longer] :
                b \in {data.block + move : move \in Moves}}

(* Where the element stands first, 0 if it stands nowhere.                 *)
LastMatchBug(elements, x) ==
    LET Final(i) == elements[i] = x /\ \A j \in i + 1 .. Len(elements) : elements[j] # x
    IN IF \E i \in DOMAIN elements : Final(i)
       THEN CHOOSE i \in DOMAIN elements : Final(i) ELSE 0

FIND(elements, x) ==
    LET First(i) == elements[i] = x /\ \A j \in 1 .. i - 1 : elements[j] # x
    IN IF \E i \in DOMAIN elements : First(i)
       THEN CHOOSE i \in DOMAIN elements : First(i) ELSE 0

getFunction(name) == FIND([i \in DOMAIN functions |-> functions[i].name], name)

(* The look-ups of strings first set cmp, which finds null pointers equal. *)
findString(compare, string) ==
    FIND([i \in DOMAIN strings |-> strings[i][compare]], string[compare])

String(name, content) == [name |-> name, content |-> content]

-----------------------------------------------------------------------------
(* &functions[index - 1], and what a pointer points to.                    *)
PointerTo(data, index) == [block |-> data.block, index |-> index]

Points(pointer, index) == pointer.block = functionsData.block /\ pointer.index = index

(* insertVariable through a Function*; of parameters also paramsCount.     *)
pushVariable(data, pointer, x) ==
    IF pointer.block = data.block
    THEN [data EXCEPT !.functions[pointer.index].vars = Append(@, x)] ELSE data

pushParameters(data, pointer, xs) ==
    IF pointer.block = data.block
    THEN [data EXCEPT !.functions[pointer.index].vars = @ \o xs,
                      !.functions[pointer.index].paramsCount = @ + Len(xs)]
    ELSE data

newFunction(name) == [name |-> name, vars |-> <<>>, paramsCount |-> 0]

(* -1, or the place in the frame: parameters are above the return address. *)
getVarOffset(function, x) ==
    LET index == FIND(function.vars, x) - 1
    IN CASE index = -1                       -> -1
         [] index \in 0 .. function.paramsCount - 1 -> 16 + 8 * index
         [] OTHER                            -> -8 * (index - function.paramsCount + 1)

-----------------------------------------------------------------------------
Init ==
    /\ functionsData = [block |-> 0, capacity |-> DEFAULT_CAPACITY, functions |-> <<>>]
    /\ strings = <<>>
    /\ cmp = "name"
    /\ curFunction = Nowhere
    /\ stage = "strings"
    /\ done = 0
    /\ pass = 0
    /\ tree = <<>>
    /\ printed = {}

compiling == <<done, pass>>

Refuse == stage' = "refused" /\ UNCHANGED <<functionsData, strings, curFunction, tree, printed>>

parseSDeclaration(name, content) ==
    /\ stage = "strings"
    /\ Len(strings) < MaxStrings
    /\ cmp' = "name"
    /\ IF findString(cmp', String(name, NoName)) # 0 THEN Refuse
       ELSE /\ strings' = Append(strings, String(name, content))
            /\ UNCHANGED <<functionsData, curFunction, stage, tree, printed>>
    /\ UNCHANGED compiling

(* The pointer is made from the index after the insertion.                 *)
parseFDeclaration(name) ==
    /\ stage \in {"strings", "body"}
    /\ Len(functions) < MaxFunctions
    /\ IF getFunction(name) # 0 THEN Refuse
       ELSE /\ functionsData' \in INSERT(functionsData, newFunction(name))
            /\ curFunction' = PointerTo(functionsData', Len(functions) + 1)
            /\ stage' = "parameters"
            /\ tree' = Append(tree, name)
            /\ UNCHANGED <<strings, printed>>
    /\ UNCHANGED <<cmp, compiling>>

HasRoom == Len(FlattenSeq([i \in DOMAIN functions |-> functions[i].vars])) < MaxVariables

(* Nobody looks whether the function has a parameter of the name.          *)
parseParameter(x) ==
    /\ stage = "parameters"
    /\ HasRoom
    /\ functionsData' = pushParameters(functionsData, curFunction, <<x>>)
    /\ UNCHANGED <<strings, cmp, curFunction, stage, tree, printed, compiling>>

openBody ==
    /\ stage = "parameters"
    /\ stage' = "body"
    /\ UNCHANGED <<functionsData, strings, cmp, curFunction, tree, printed, compiling>>

parseVDeclaration(x) ==
    /\ stage = "body"
    /\ HasRoom
    /\ IF getVarOffset(functions[curFunction.index], x) # -1 THEN Refuse
       ELSE /\ functionsData' = pushVariable(functionsData, curFunction, x)
            /\ UNCHANGED <<strings, curFunction, stage, tree, printed>>
    /\ UNCHANGED <<cmp, compiling>>

AsItWasBug(literal) ==
    /\ stage = "body"
    /\ Len(strings) < MaxStrings
    /\ cmp' = cmp
    /\ strings' = IF findString(cmp', String(NoName, literal)) # 0 THEN strings
                  ELSE Append(strings, String(NoName, literal))
    /\ printed' = printed \union {literal}
    /\ UNCHANGED <<functionsData, curFunction, stage, tree, compiling>>

parsePrintString(literal) ==
    /\ stage = "body"
    /\ Len(strings) < MaxStrings
    /\ cmp' = "content"
    /\ strings' = IF findString(cmp', String(NoName, literal)) # 0 THEN strings
                  ELSE Append(strings, String(NoName, literal))
    /\ printed' = printed \union {literal}
    /\ UNCHANGED <<functionsData, curFunction, stage, tree, compiling>>

(* flagrate-s [name]                                                       *)
parsePrintStringId(name) ==
    /\ stage = "body"
    /\ cmp' = "name"
    /\ IF findString(cmp', String(name, NoName)) = 0 THEN Refuse
       ELSE UNCHANGED <<functionsData, strings, curFunction, stage, tree, printed>>
    /\ UNCHANGED compiling

-----------------------------------------------------------------------------
compile ==
    /\ stage = "body"
    /\ stage' = IF getFunction(Main) = 0 THEN "refused" ELSE "std"
    /\ UNCHANGED <<functionsData, strings, cmp, curFunction, tree, printed, compiling>>

(* The function is in the table before its code is loaded, and has its     *)
(* parameters after that: without the code it stays without.  The status   *)
(* ends the loop, which was set here, by an earlier pass or in a body.     *)
writeStdFunction ==
    /\ stage = "std"
    /\ done < Len(StdFunctions)
    /\ LET info == StdFunctions[done + 1]
       IN \E data \in INSERT(functionsData, newFunction(info.name)) :
             LET function == PointerTo(data, Len(data.functions))
             IN \/ /\ functionsData' = pushParameters(data, function, info.parameters)
                   /\ done' \in {done + 1, Len(StdFunctions)}
                \/ /\ functionsData' = data
                   /\ done' = Len(StdFunctions)
    /\ UNCHANGED <<strings, cmp, curFunction, stage, pass, tree, printed>>

FirstFunctionKeptBug ==
    /\ stage = "std"
    /\ done = Len(StdFunctions)
    /\ curFunction' = IF pass = 0 THEN PointerTo(functionsData, 1) ELSE [curFunction EXCEPT !.index = 1]
    /\ stage' = "functions"
    /\ done' = 0
    /\ UNCHANGED <<functionsData, strings, cmp, pass, tree, printed>>

(* CUR_FUNC is set in every pass, once the array has stopped moving.       *)
startFunctions ==
    /\ stage = "std"
    /\ done = Len(StdFunctions)
    /\ curFunction' = PointerTo(functionsData, 1)
    /\ stage' = "functions"
    /\ done' = 0
    /\ UNCHANGED <<functionsData, strings, cmp, pass, tree, printed>>

(* The body's strings are looked up by their contents.                     *)
compileFunction ==
    /\ stage = "functions"
    /\ done < Len(tree)
    /\ cmp' \in {cmp} \union (IF printed = {} THEN {} ELSE {"content"})
    /\ curFunction' = [curFunction EXCEPT !.index = @ + 1]
    /\ done' = done + 1
    /\ UNCHANGED <<functionsData, strings, stage, pass, tree, printed>>

endPass ==
    /\ stage = "functions"
    /\ done = Len(tree)
    /\ pass' = pass + 1
    /\ stage' = IF pass + 1 < PASSES THEN "std" ELSE "compiled"
    /\ done' = 0
    /\ UNCHANGED <<functionsData, strings, cmp, curFunction, tree, printed>>

Ended == stage \in {"refused", "compiled"} /\ UNCHANGED vars

Next ==
    \/ \E name \in StringNames, content \in Literals : parseSDeclaration(name, content)
    \/ \E name \in Names : parseFDeclaration(name)
    \/ \E x \in Variables : parseParameter(x) \/ parseVDeclaration(x)
    \/ openBody
    \/ \E literal \in Literals : parsePrintString(literal)
    \/ \E name \in StringNames : parsePrintStringId(name)
    \/ compile \/ writeStdFunction \/ startFunctions \/ compileFunction \/ endPass
    \/ Ended

Spec == Init /\ [][Next]_vars

-----------------------------------------------------------------------------
(* Where the compiler finds variable x of the function it calls name.      *)
Place(name, x) ==
    LET i == getFunction(name) IN IF i = 0 THEN -1 ELSE getVarOffset(functions[i], x)

(* The pointer that is kept is never one into memory given back: while a   *)
(* function is parsed it is that function's, and in every pass, after the  *)
(* standard functions have moved the array once more, that of the          *)
(* declaration being compiled.                                             *)
OwnFunction ==
    /\ stage \in {"parameters", "body"} => Points(curFunction, Len(tree))
    /\ stage = "functions" => Points(curFunction, done + 1)
    /\ \A i \in 1 .. Len(tree) : functions[i].name = tree[i] /\ getFunction(tree[i]) = i

(* A variable has one place in its frame for good: whatever is declared    *)
(* after it, under its own name too, and however often the table grows     *)
(* and gets the standard functions again.                                  *)
OffsetsStable ==
    [][\A i \in DOMAIN functions :
          \A name \in {functions[i].name}, x \in Range(functions[i].vars) :
              Place(name, x) # -1 => Place(name, x)' = Place(name, x)]_vars

(* Every literal that is printed has one entry that the compiler finds by  *)
(* its content, and a name stands for one string.                          *)
LiteralsFound ==
    /\ \A s \in printed :
          LET i == findString("content", String(NoName, s))
          IN i # 0 /\ \A j \in DOMAIN strings :
                         j # i /\ strings[j].content = s => strings[j].name # NoName
    /\ \A i, j \in DOMAIN strings :
          i # j /\ strings[i].name = strings[j].name => strings[i].name = NoName
=============================================================================
