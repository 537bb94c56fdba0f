------------------------------ MODULE CodeGen -------------------------------
(***************************************************************************)
(* The code generator: src/compiler/compiler.cpp from compileFunction on.  *)
(*                                                                         *)
(* compileX(c, node) is the compiler after compileX(compiler, node): c has *)
(* the symbol table, the current function, the next label numbers and the  *)
(* code, a sequence of items (module Instructions).                        *)
(***************************************************************************)
EXTENDS TreeSymbols, Instructions

-----------------------------------------------------------------------------
(* The files of potter_tongue_libs/io, in the order they are written.      *)
STANDARD_FUNCTIONS ==
    LET Info(name, count, additional, size) ==
            [name |-> name, paramsCount |-> count,
             additionalParamNeeded |-> additional, size |-> size]
    IN << Info("accio_bombarda", 1, TRUE, 155), Info("accio", 0, TRUE, 93),
          Info("flagrate_bombarda", 2, TRUE, 136), Info("flagrate_s", 1, FALSE, 46),
          Info("flagrate", 1, TRUE, 104), Info("crucio", 1, FALSE, 27) >>

isStdFunction(name) ==
    \E i \in DOMAIN STANDARD_FUNCTIONS : STANDARD_FUNCTIONS[i].name = name

(* The functions of the program stand before the standard ones.            *)
Functions(table) == table.functions \o STANDARD_FUNCTIONS

getFunction(table, name) ==
    SelectInSeq(Functions(table), LAMBDA f : f.name = name)

(* Compile(_, _) for each node, in the order of the list.  d is bound to   *)
(* the value of c so that TLC computes it before it goes on.               *)
InTurn(Compile(_, _), c, nodes) ==
    FoldLeft(LAMBDA before, node :
                 CHOOSE after \in {Compile(d, node) : d \in {before}} : TRUE,
             c, nodes)

Write(c, items) == [c EXCEPT !.code = @ \o items]

(* The operators named ...Bug are what the next definition would be with a *)
(* plausible mistake; no specification uses them.                          *)
SameLabelNumberBug(c, purpose) == c

(* curLabelNumbers[purpose]++                                              *)
nextLabelNumber(c, purpose) == [c EXCEPT !.next[purpose] = @ + 1]

Local(c, name, number) == Label(c.function.name, name, number)

varMemory(c, id) == getVarOffset(c.function, id)

-----------------------------------------------------------------------------
compileNumber(c, node, result) == Write(c, <<movImm(result, node.number)>>)

(* The label is numbered by the first string with the content.             *)
compileString(c, node, result) ==
    LET label == Label("", "STR",
                       getStringByContent(c.table.strings, node.string) - 1)
    IN Write(c, <<getExistingLabel(label), movLabel(result, label)>>)

compileVar(c, node, result) ==
    IF varMemory(c, node.id) # -1
    THEN Write(c, <<load(result, varMemory(c, node.id))>>)
    ELSE Write(c, <<getExistingLabel(Global(node.id)), movLabel(result, Global(node.id))>>)

isSimpleOperand(node) == node.type \in {"ID_TYPE", "NUMBER_TYPE", "STRING_TYPE"}

compileSimpleOperand(c, node, result) ==
    CASE node.type = "STRING_TYPE" -> compileString(c, node, result)
      [] node.type = "NUMBER_TYPE" -> compileNumber(c, node, result)
      [] node.type = "ID_TYPE"     -> compileVar(c, node, result)

tryTwoOperandSimple(node) ==
    /\ isSimpleOperand(node.left)
    /\ isSimpleOperand(node.right)
    /\ ~(node.left.type = "ID_TYPE" /\ node.right.type = "ID_TYPE")

(* The jump that compileCompare takes when the comparison is true, and the *)
(* one that compileExitCondition takes when it is false.                   *)
jumpIf == [EQUAL_OP |-> "je", NOT_EQUAL_OP |-> "jne", LESS_OP |-> "jl",
           GREATER_OP |-> "jg", LESS_EQUAL_OP |-> "jle", GREATER_EQUAL_OP |-> "jge"]

ExitOnBoundaryBug ==
    [EQUAL_OP |-> "jne", NOT_EQUAL_OP |-> "je", LESS_OP |-> "jg",
     GREATER_OP |-> "jle", LESS_EQUAL_OP |-> "jg", GREATER_EQUAL_OP |-> "jl"]

exitIf == [EQUAL_OP |-> "jne", NOT_EQUAL_OP |-> "je", LESS_OP |-> "jge",
           GREATER_OP |-> "jle", LESS_EQUAL_OP |-> "jg", GREATER_EQUAL_OP |-> "jl"]

compileCompare(c, node) ==
    LET labelTrue == Local(c, ".CMP_TRUE_", c.next["CMP"])
        labelEnd  == Local(c, ".CMP_END_", c.next["CMP"])
    IN Write(nextLabelNumber(c, "CMP"),
             << getExistingLabel(labelTrue), getExistingLabel(labelEnd),
                cmp("rax", "rbx"), jcc(jumpIf[node.operation], labelTrue),
                xor("rax", "rax"), jmp(labelEnd),
                writeLabel(labelTrue), movImm("rax", 1), writeLabel(labelEnd) >>)

mathInstructions ==
    [ADD_OP |-> <<add("rax", "rbx")>>, SUB_OP |-> <<sub("rax", "rbx")>>,
     MUL_OP |-> <<imul("rax", "rbx")>>, DIV_OP |-> <<cqo, idiv("rbx")>>]

RECURSIVE compileExpression(_, _)

compileTwoOperand(c, node) ==
    IF tryTwoOperandSimple(node)
    THEN compileSimpleOperand(compileSimpleOperand(c, node.left, "rax"),
                              node.right, "rbx")
    ELSE LET left  == Write(compileExpression(c, node.left), <<push("rax")>>)
             right == compileExpression(left, node.right)
         IN Write(right, <<mov("rbx", "rax"), pop("rax")>>)

compileMath(c, node) ==
    LET operands == compileTwoOperand(c, node)
    IN IF node.operation \in Comparisons
       THEN compileCompare(operands, node)
       ELSE Write(operands, mathInstructions[node.operation])

(* Elements lie towards lower addresses.                                   *)
compileMemAccess(c, node) ==
    LET saved == Write(c, <<load("rax", varMemory(c, node.id)), push("rax")>>)
        index == compileExpression(saved, node.index)
    IN Write(index, <<neg("rax"), pop("rbx"), loadAt("rax", "rbx", "rax")>>)

compileParamList(c, params) ==
    InTurn(LAMBDA d, e : Write(compileExpression(d, e), <<push("rax")>>), c, params)

additionalParam(f) == isStdFunction(f.name) /\ f.additionalParamNeeded

BufferLeftBug(f) == f.paramsCount

(* The caller removes as many parameters as the function declares, however *)
(* many were pushed.                                                       *)
paramsToRemove(f) == f.paramsCount + IF additionalParam(f) THEN 1 ELSE 0

compileCall(c, node) ==
    LET f        == Functions(c.table)[getFunction(c.table, node.id)]
        io       == Global("IO_BUFFER")
        pushed   == compileParamList(
                        IF additionalParam(f)
                        THEN Write(c, <<getExistingLabel(io), movLabel("rax", io),
                                        push("rax")>>)
                        ELSE c,
                        node.params)
        count    == paramsToRemove(f)
        toRemove == IF count > 0 THEN <<addImm("rsp", 8 * count)>> ELSE <<>>
    IN IF getFunction(c.table, node.id) = 0
       THEN Write(c, <<Item("undefinedCall", Nameless, 0, NoIns)>>)
       ELSE Write(pushed, <<getExistingLabel(Global(f.name)), call(Global(f.name))>>
                             \o toRemove)

compileExpression(c, node) ==
    CASE node.type = "MATH_TYPE"       -> compileMath(c, node)
      [] node.type = "MEM_ACCESS_TYPE" -> compileMemAccess(c, node)
      [] node.type = "CALL_TYPE"       -> compileCall(c, node)
      [] isSimpleOperand(node)         -> compileSimpleOperand(c, node, "rax")

-----------------------------------------------------------------------------
compileExitCondition(c, node, exitLabel) ==
    IF node.type = "MATH_TYPE" /\ node.operation \in Comparisons
    THEN Write(compileTwoOperand(c, node),
               <<cmp("rax", "rbx"), jcc(exitIf[node.operation], exitLabel)>>)
    ELSE Write(compileExpression(c, node),
               <<test("rax", "rax"), jcc("je", exitLabel)>>)

compileAssignmentVar(c, node) ==
    Write(compileExpression(c, node.expression),
          <<store("rax", varMemory(c, node.lvalue.id))>>)

compileAssignmentArray(c, node) ==
    LET saved == Write(c, <<load("rax", varMemory(c, node.lvalue.id)), push("rax")>>)
        index == Write(compileExpression(saved, node.lvalue.index),
                       <<neg("rax"), push("rax")>>)
    IN Write(compileExpression(index, node.expression),
             <<pop("rcx"), pop("rbx"), storeAt("rax", "rbx", "rcx")>>)

compileAssignment(c, node) ==
    IF node.lvalue.type = "ID_TYPE" THEN compileAssignmentVar(c, node)
                                    ELSE compileAssignmentArray(c, node)

(* The array takes size * 8 bytes of the stack; its variable points to the *)
(* first element, the highest.                                             *)
compileArrayDeclaration(c, node) ==
    Write(compileExpression(c, node.size),
          << sal("rax", 3), subImm("rax", 8), subImm("rsp", 8),
             store("rsp", varMemory(c, node.id)), sub("rsp", "rax") >>)

FallThroughBug(c, node) == compileExpression(c, node.expression)

compileReturn(c, node) ==
    LET label == Local(c, ".RETURN", -1)
    IN Write(compileExpression(c, node.expression),
             <<getExistingLabel(label), jmp(label)>>)

RECURSIVE compileBlock(_, _)

compileCondition(c, node) ==
    LET elseLabel == Local(c, ".ELSE_", c.next["COND"])
        endLabel  == Local(c, ".END_IF_ELSE", c.next["COND"])
        start     == Write(nextLabelNumber(c, "COND"),
                           <<getExistingLabel(elseLabel), getExistingLabel(endLabel)>>)
        then      == compileBlock(compileExitCondition(start, node.condition, elseLabel),
                                  node.then)
        else      == compileBlock(Write(then, <<jmp(endLabel), writeLabel(elseLabel)>>),
                                  node.else)
    IN Write(else, <<writeLabel(endLabel)>>)

compileLoop(c, node) ==
    LET whileLabel == Local(c, ".WHILE_", c.next["LOOP"])
        endLabel   == Local(c, ".END_WHILE_", c.next["LOOP"])
        start      == Write(nextLabelNumber(c, "LOOP"),
                            << getExistingLabel(whileLabel), getExistingLabel(endLabel),
                               writeLabel(whileLabel) >>)
        body       == compileBlock(compileExitCondition(start, node.condition, endLabel),
                                   node.body)
    IN Write(body, <<jmp(whileLabel), writeLabel(endLabel)>>)

compileStatement(c, node) ==
    CASE node.type = "COND_TYPE" -> compileCondition(c, node)
      [] node.type = "LOOP_TYPE" -> compileLoop(c, node)
      [] node.type \in {"VDECL_TYPE", "ASSIGN_TYPE"} -> compileAssignment(c, node)
      [] node.type = "ADECL_TYPE" -> compileArrayDeclaration(c, node)
      [] node.type = "JUMP_TYPE" -> compileReturn(c, node)
      [] OTHER -> compileExpression(c, node)

compileBlock(c, block) == InTurn(compileStatement, c, block)

StackKeptBug == <<pop("rbp"), ret>>

leave == <<mov("rsp", "rbp"), pop("rbp"), ret>>

compileFunction(c, function, block) ==
    LET entered == [c EXCEPT !.function = function]
        locals  == Len(function.vars) - function.paramsCount
        reserve == IF locals # 0 THEN <<subImm("rsp", 8 * locals)>> ELSE <<>>
        header  == <<writeLabel(Global(function.name)), push("rbp"), mov("rbp", "rsp")>>
        body    == compileBlock(Write(entered, header \o reserve), block)
    IN Write(body, <<writeLabel(Local(entered, ".RETURN", -1))>> \o leave)

(* The functions of makeCompilationPass; the labels are numbered from 0.   *)
compileFunctions(p) ==
    LET table == SymbolTable(p)
        fresh == [table |-> table, function |-> [name |-> "", vars |-> <<>>, paramsCount |-> 0],
                  next |-> [purpose \in {"COND", "LOOP", "CMP"} |-> 0], code |-> <<>>]
    IN InTurn(LAMBDA c, i : compileFunction(c, table.functions[i], p.functions[i].body),
              fresh, [i \in DOMAIN p.functions |-> i]).code

(* A named string is labelled with its name, another one with its number.  *)
writeStringsData(p) ==
    LET strings == SymbolTable(p).strings
        Label_(i) == IF strings[i].name # Unnamed THEN Global(strings[i].name)
                     ELSE Label("", "STR", i - 1)
        Bytes(i) == Item("emit", Nameless, Len(strings[i].content) + 1,
                         Ins("bytes", strings[i].content, "", 0))
    IN FlattenSeq([i \in DOMAIN strings |-> <<writeLabel(Label_(i)), Bytes(i)>>])
=============================================================================
