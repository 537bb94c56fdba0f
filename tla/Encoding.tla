------------------------------ MODULE Encoding ------------------------------
(***************************************************************************)
(* The bytes of an instruction: src/compiler/x86_64_specification.cpp and  *)
(* the write_... functions of instructions_compiling.cpp.                  *)
(*                                                                         *)
(* Module Instructions has an instruction for its meaning and its length.  *)
(* Here the items of the code generator become bytes, one behind the other *)
(* as writeInstruction leaves them, and a processor's decoder (external,   *)
(* after Intel's tables) reads the stream back.                            *)
(***************************************************************************)
EXTENDS Instructions, Sequences

CONSTANTS
    \* What the items are made of.
    Numbers,            \* immediates and displacements of 32 bits
    LongNumbers,        \* immediates of 64 bits
    Shifts,
    Offsets,            \* of labels
    Addresses,          \* for moves from and to any operand in memory
    MovedRegisters,     \* the registers that are moved there
    ArrayRegisters,     \* those that an element and its place are in
    Followers,          \* for each kind of items those that may stand behind others
    MaxInstructions

VARIABLES
    items,  \* what was asked for
    starts, \* where each item begins, as the linker counts
    bytes   \* of the buffer, from the start of the code

REGISTERS_64_STRINGS ==
    << "rax", "rcx", "rdx", "rbx", "rsp", "rbp", "rsi", "rdi",
       "r8", "r9", "r10", "r11", "r12", "r13", "r14", "r15" >>

Registers == {REGISTERS_64_STRINGS[n] : n \in 1..16}

INVALID_REG64 == "none"

Reg64(reg) ==
    IF reg \in Registers THEN CHOOSE n \in 0..15 : REGISTERS_64_STRINGS[n + 1] = reg ELSE -1

Mem64(base, displacement, index, scale) ==
    [base |-> base, displacement |-> displacement, index |-> index, scale |-> scale]

mem64BaseDisp(base, displacement) == Mem64(base, displacement, INVALID_REG64, 0)

(* A move with any operand in memory; the code generator uses only         *)
(* [rbp + displacement] and [base + index * 8].  Nobody counts on its size. *)
loadFrom(r, memory) ==
    Item("emit", Nameless, 0, [op |-> "loadFrom", dst |-> r, memory |-> memory])
storeTo(memory, r) ==
    Item("emit", Nameless, 0, [op |-> "storeTo", dst |-> r, memory |-> memory])

-----------------------------------------------------------------------------
(* Instruction_x86_64.  The parts that are not used are all zero; disp and *)
(* imm are the bytes that are written, least significant first.            *)
DEFAULT_REX == [w |-> 0, r |-> 0, x |-> 0, b |-> 0]

NewInstruction(opcode) ==
    [isRexUsed |-> FALSE, isModrmUsed |-> FALSE, isSibUsed |-> FALSE,
     rex |-> DEFAULT_REX, opcode |-> opcode, modrm |-> [mod |-> 0, reg |-> 0, rm |-> 0],
     sib |-> [scale |-> 0, index |-> 0, base |-> 0], disp |-> <<>>, imm |-> <<>>]

UInt32(number) ==
    LET second == number \div 256
        third  == second \div 256
        fourth == third \div 256
    IN <<number % 256, second % 256, third % 256, fourth % 256>>

(* What is left above four bytes.                                          *)
Upper(number) == (((number \div 256) \div 256) \div 256) \div 256

(* writeByte, writeUInt32, writeUInt64.                                    *)
LittleEndian(number, size) ==
    CASE size = 1 -> <<number % 256>>
      [] size = 4 -> UInt32(number)
      [] size = 8 -> UInt32(number) \o UInt32(Upper(number))

regSpecifier(reg) == Reg64(reg) % 8

addRex(i) == [i EXCEPT !.isRexUsed = TRUE]

(* UPDATE_REX_FIELD: a low register needs no prefix of its own.            *)
updateRex(i, field, reg) ==
    IF Reg64(reg) < 8 THEN [i EXCEPT !.rex[field] = 0]
    ELSE [addRex(i) EXCEPT !.rex[field] = 1]

addModrm(i, mod) ==
    IF i.isModrmUsed THEN i ELSE [i EXCEPT !.isModrmUsed = TRUE, !.modrm.mod = mod]

updateModrm(i, field, reg) == [addModrm(i, 0) EXCEPT !.modrm[field] = regSpecifier(reg)]

addSib(i) == [i EXCEPT !.isSibUsed = TRUE]

updateSib(i, field, reg) == [addSib(i) EXCEPT !.sib[field] = regSpecifier(reg)]

isValidScale(scale) == scale \in {2, 4, 8}

toSibScale(scale) == CASE scale = 2 -> 1 [] scale = 4 -> 2 [] scale = 8 -> 3 [] OTHER -> 0

RbpOnlyBug(memory) == memory.displacement # 0 \/ memory.base = "rbp"

(* rbp and r13 as base without displacement would mean another address.    *)
dispUsed(memory) == memory.displacement # 0 \/ memory.base \in {"rbp", "r13"}

baseOrBaseDisp(memory) ==
    memory.base # INVALID_REG64 /\ memory.index = INVALID_REG64 /\ ~isValidScale(memory.scale)

addressRex(i, memory) ==
    LET long  == [addRex(i) EXCEPT !.rex.w = 1, !.rex.r = 0]
        index == IF memory.index = INVALID_REG64 THEN long ELSE updateRex(long, "x", memory.index)
    IN IF memory.base = INVALID_REG64 THEN index ELSE updateRex(index, "b", memory.base)

addressModrm(i, memory) ==
    LET based == memory.base # INVALID_REG64 /\ dispUsed(memory)
        modrm == [addModrm(i, 0) EXCEPT !.modrm.mod = IF based THEN 2 ELSE @, !.modrm.reg = 0]
    IN IF baseOrBaseDisp(memory) THEN updateModrm(modrm, "rm", memory.base)
       ELSE [modrm EXCEPT !.modrm.rm = Reg64("rsp")]

addressSib(i, memory) ==
    LET Used(reg, other) == IF reg = INVALID_REG64 THEN other ELSE reg
        scaled == [addSib(i) EXCEPT !.sib.scale = toSibScale(memory.scale)]
    IN IF baseOrBaseDisp(memory)
       THEN IF memory.base \in {"rsp", "r12"}
            THEN [addSib(i) EXCEPT !.sib.index = Reg64("rsp"), !.sib.base = Reg64("rsp")]
            ELSE i
       ELSE updateSib(updateSib(scaled, "index", Used(memory.index, "rsp")),
                      "base", Used(memory.base, "rbp"))

(* Its result, that rsp cannot be an index, is not looked at.              *)
setMemoryAddressing(i, memory) ==
    IF memory.index = "rsp" THEN i
    ELSE [addressSib(addressModrm(addressRex(i, memory), memory), memory) EXCEPT
             !.disp = IF dispUsed(memory) THEN LittleEndian(memory.displacement, 4) ELSE <<>>]

-----------------------------------------------------------------------------
(* The write_... functions, up to writeInstruction.                        *)
write_instruction_r64_r64(opcode, reg1, reg2) ==
    LET rex == [addRex(NewInstruction(opcode)) EXCEPT !.rex.w = 1]
        i   == addModrm(updateRex(updateRex(rex, "r", reg2), "b", reg1), 3)
    IN updateModrm(updateModrm(i, "reg", reg2), "rm", reg1)

(* MODRM.reg extends the opcode.                                           *)
write_instruction_r64(opcode, extension, reg) ==
    LET rex == [addRex(NewInstruction(opcode)) EXCEPT !.rex.w = 1]
        i   == addModrm(updateRex(rex, "b", reg), 3)
    IN updateModrm([i EXCEPT !.modrm.reg = extension], "rm", reg)

(* The register is part of the opcode.                                     *)
write_push_pop_r64(base, reg) ==
    updateRex(NewInstruction(<<base + regSpecifier(reg)>>), "b", reg)

write_mov_r64_imm64(reg, number) ==
    [updateRex([addRex(NewInstruction(<<184 + regSpecifier(reg)>>)) EXCEPT !.rex.w = 1], "b", reg)
        EXCEPT !.disp = LittleEndian(number, 8)]

write_cqo == [addRex(NewInstruction(<<153>>)) EXCEPT !.rex.w = 1]

(* write_mov_m64_r64 and write_mov_r64_m64.                                *)
write_mov_memory(opcode, reg, memory) ==
    updateModrm(updateRex([setMemoryAddressing(NewInstruction(<<>>), memory) EXCEPT !.opcode = opcode],
                          "r", reg), "reg", reg)

write_jump_rel32(opcode, labelAddress, offset) ==
    [NewInstruction(opcode) EXCEPT
        !.imm = LittleEndian(labelAddress - offset - (Len(opcode) + 4), 4)]

OPCODE_R64_R64 ==
    [cmp0 |-> <<133>>, xor |-> <<49>>, cmp |-> <<57>>, add |-> <<1>>, sub |-> <<41>>,
     mov |-> <<137>>]

OPCODE_REL32 ==
    [call |-> <<232>>, jmp |-> <<233>>, jz |-> <<15, 132>>, je |-> <<15, 132>>, jne |-> <<15, 133>>,
     jl |-> <<15, 140>>, jg |-> <<15, 143>>, jle |-> <<15, 142>>, jge |-> <<15, 141>>]

WithDisp(i, number, size) == [i EXCEPT !.disp = LittleEndian(number, size)]

(* imul is the only one whose destination is MODRM.reg.                    *)
write_imul_r64_r64(ins) == write_instruction_r64_r64(<<15, 175>>, ins.src, ins.dst)

(* What is written for an item at an offset.  A label stands for its       *)
(* offset; VIRTUAL_ADDRESS_START is where the stream begins in memory.     *)
VIRTUAL_ADDRESS_START == 4194304

writeItem(item, offset) ==
    LET ins == item.ins
        Op(ops) == ins.op \in ops
    IN CASE Op(DOMAIN OPCODE_R64_R64) ->
                write_instruction_r64_r64(OPCODE_R64_R64[ins.op], ins.dst, ins.src)
         [] Op({"imul"})     -> write_imul_r64_r64(ins)
         [] Op({"push"})     -> write_push_pop_r64(80, ins.dst)
         [] Op({"pop"})      -> write_push_pop_r64(88, ins.dst)
         [] Op({"addImm"})   -> WithDisp(write_instruction_r64(<<129>>, 0, ins.dst), ins.imm, 4)
         [] Op({"subImm"})   -> WithDisp(write_instruction_r64(<<129>>, 5, ins.dst), ins.imm, 4)
         [] Op({"idiv"})     -> write_instruction_r64(<<247>>, 7, ins.dst)
         [] Op({"neg"})      -> write_instruction_r64(<<247>>, 3, ins.dst)
         [] Op({"sal"})      -> WithDisp(write_instruction_r64(<<193>>, 4, ins.dst), ins.imm, 1)
         [] Op({"cqo"})      -> write_cqo
         [] Op({"ret"})      -> NewInstruction(<<195>>)
         [] Op({"syscall"})  -> NewInstruction(<<15, 5>>)
         [] Op({"movImm"})   -> write_mov_r64_imm64(ins.dst, ins.imm)
         [] Op({"movLabel"}) -> write_mov_r64_imm64(ins.dst, item.label.number + VIRTUAL_ADDRESS_START)
         [] Op({"load"})     -> write_mov_memory(<<139>>, ins.dst, mem64BaseDisp(ins.src, ins.imm))
         [] Op({"store"})    -> write_mov_memory(<<137>>, ins.dst, mem64BaseDisp(ins.src, ins.imm))
         [] Op({"loadAt"})   -> write_mov_memory(<<139>>, ins.dst, Mem64(ins.src, 0, ins.imm, 8))
         [] Op({"storeAt"})  -> write_mov_memory(<<137>>, ins.dst, Mem64(ins.src, 0, ins.imm, 8))
         [] Op({"loadFrom"}) -> write_mov_memory(<<139>>, ins.dst, ins.memory)
         [] Op({"storeTo"})  -> write_mov_memory(<<137>>, ins.dst, ins.memory)
         [] Op(DOMAIN OPCODE_REL32) ->
                write_jump_rel32(OPCODE_REL32[ins.op], item.label.number, offset)

rexToByte(rex)     == 64 + 8 * rex.w + 4 * rex.r + 2 * rex.x + rex.b
modrmToByte(modrm) == 64 * modrm.mod + 8 * modrm.reg + modrm.rm
sibToByte(sib)     == 64 * sib.scale + 8 * sib.index + sib.base

writeInstruction(i) ==
    LET If(used, byte) == IF used THEN <<byte>> ELSE <<>>
    IN If(i.isRexUsed, rexToByte(i.rex)) \o i.opcode \o If(i.isModrmUsed, modrmToByte(i.modrm))
          \o If(i.isSibUsed, sibToByte(i.sib)) \o i.disp \o i.imm

-----------------------------------------------------------------------------
(* What may be written: every instruction with every register.  A prefix   *)
(* makes push and pop of a high register longer than the code generator,   *)
(* which does not use them, would count.                                   *)
OnStack(item, r) == IF Reg64(r) < 8 THEN item ELSE [item EXCEPT !.size = 0]

WithoutOperands == {cqo, ret, Plain(2, "syscall", "", "", 0)}

OnRegisters ==
    LET R64R64(op(_, _)) == {op(r1, r2) : r1, r2 \in Registers}
        R64(op(_))       == {op(r) : r \in Registers}
    IN R64R64(test) \union R64R64(xor) \union R64R64(cmp) \union R64R64(add) \union R64R64(sub)
          \union R64R64(imul) \union R64R64(mov) \union R64(idiv) \union R64(neg)
          \union {OnStack(push(r), r) : r \in Registers}
          \union {OnStack(pop(r), r) : r \in Registers}
          \union WithoutOperands

WithNumbers ==
    LET R64Imm(op(_, _)) == {op(r, number) : r \in Registers, number \in Numbers}
    IN R64Imm(addImm) \union R64Imm(subImm) \union R64Imm(load) \union R64Imm(store)
          \union {movImm(r, number) : r \in Registers, number \in LongNumbers}
          \union {sal(r, number) : r \in Registers, number \in Shifts}

Targets == {Label("", "label", offset) : offset \in Offsets}

Conditions == DOMAIN OPCODE_REL32 \ {"call", "jmp"}

Branches ==
    {call(l) : l \in Targets} \union {jmp(l) : l \in Targets}
       \union {jcc(cc, l) : cc \in Conditions, l \in Targets}
       \union {movLabel(r, l) : r \in Registers, l \in Targets}

Moves ==
    {loadFrom(r, m) : r \in MovedRegisters, m \in Addresses}
       \union {storeTo(m, r) : r \in MovedRegisters, m \in Addresses}

ArrayMoves ==
    {loadAt(r, base, index) : r, base, index \in ArrayRegisters}
       \union {storeAt(r, base, index) : r, base, index \in ArrayRegisters}

Items == <<OnRegisters, WithNumbers, Branches, Moves, ArrayMoves>>

(* As much code as the buffer of ElfBuilder takes.                         *)
MAX_TEXT == 729087

(* The numbers of 32 and 64 bits, by what is left above three bytes and    *)
(* above four.                                                             *)
INT32 == {n \in Int : ((n \div 256) \div 256) \div 256 \in -128..127}
INT64 == {n \in Int : Upper(n) \in INT32}

(* rsp cannot be an index; and [index * scale + 0] would lack the          *)
(* displacement that its form needs.                                       *)
Encodable ==
    {m \in [base : Registers \union {INVALID_REG64}, displacement : INT32,
            index : (Registers \ {"rsp"}) \union {INVALID_REG64}, scale : 0..255] :
        m.base # INVALID_REG64 \/ m.displacement # 0}

ASSUME OperandsAssumption ==
    /\ \A n \in Numbers : n \in INT32
    /\ \A n \in LongNumbers : n \in INT64
    /\ Shifts \subseteq 0..63
    /\ Offsets \subseteq 0..MAX_TEXT
    /\ \A m \in Addresses : m \in Encodable
    /\ MovedRegisters \subseteq Registers
    /\ ArrayRegisters \subseteq Registers \ {"rsp", "rbp", "r13"}
    /\ DOMAIN Followers = DOMAIN Items /\ \A kind \in DOMAIN Items : Followers[kind] \subseteq Items[kind]
    /\ MaxInstructions \in 0..MAX_TEXT

Init == items = <<>> /\ starts = <<>> /\ bytes = <<>>

Emit(item) ==
    /\ Len(items) < MaxInstructions
    /\ items' = Append(items, item)
    /\ starts' = Append(starts, Len(bytes) + 1)
    /\ bytes' = bytes \o writeInstruction(writeItem(item, Len(bytes)))

Next ==
    \E kind \in DOMAIN Items :
        \E item \in (IF items = <<>> THEN Items[kind] ELSE Followers[kind]) : Emit(item)

Spec == Init /\ [][Next]_<<items, starts, bytes>>

-----------------------------------------------------------------------------
(* The processor's decoder in 64-bit mode (external).  An operand is a     *)
(* register or an address; bytes behind the stream are those of nop.       *)
Byte(at) == IF at \in DOMAIN bytes THEN bytes[at] ELSE 144

(* The field of so many values above `unit'.                               *)
Bits(byte, unit, values) == (byte \div unit) % values

SignedByte(at) == IF Byte(at) < 128 THEN Byte(at) ELSE Byte(at) - 256

(* A number whose part above three bytes is known.                         *)
Above(top, at) == 256 * (256 * (256 * top + Byte(at + 2)) + Byte(at + 1)) + Byte(at)

Signed32(at) == Above(SignedByte(at + 3), at)
Signed64(at) == Above(256 * Signed32(at + 4) + Byte(at + 3), at)

Register(number) == [register |-> number]
NoOperand        == Register(-1)

Address(base, displacement, index, scale) ==
    [base |-> base, displacement |-> displacement, index |-> index, scale |-> scale]

Instruction(op, width, dst, src, imm) ==
    [op |-> op, width |-> width, dst |-> dst, src |-> src, imm |-> imm]

(* ModR/M with what follows it: SIB, unless mod is 3 and rm is not 4, and  *)
(* a displacement.  Base 5 is none if mod is 0, and rip without SIB.       *)
AddressForm(at, rex) ==
    LET mod      == Bits(Byte(at), 64, 4)
        rm       == Bits(Byte(at), 1, 8)
        hasSib   == mod # 3 /\ rm = 4
        sib      == Byte(at + 1)
        base     == IF hasSib THEN Bits(sib, 1, 8) ELSE rm
        index    == IF hasSib THEN Bits(sib, 8, 8) + 8 * rex.x ELSE 4
        baseless == mod = 0 /\ base = 5
        dispAt   == IF hasSib THEN at + 2 ELSE at + 1
        disp     == CASE mod = 1 -> SignedByte(dispAt)
                      [] mod = 2 \/ baseless -> Signed32(dispAt)
                      [] OTHER -> 0
        size     == CASE mod = 1 -> 1 [] mod = 2 \/ baseless -> 4 [] OTHER -> 0
    IN [operand |->
           IF mod = 3 THEN Register(rm + 8 * rex.b)
           ELSE Address(IF baseless THEN (IF hasSib THEN -1 ELSE -2) ELSE base + 8 * rex.b,
                        disp,
                        IF index = 4 THEN -1 ELSE index,
                        IF index = 4 THEN 1 ELSE <<1, 2, 4, 8>>[Bits(sib, 64, 4) + 1]),
        reg  |-> Bits(Byte(at), 8, 8),
        next |-> IF mod = 3 THEN at + 1 ELSE dispAt + size]

(* Opcodes, those behind 0F from 256 on.                                   *)
ToRm ==
    [code \in {1, 41, 49, 57, 133, 137} |->
        CASE code = 1 -> "add" [] code = 41 -> "sub" [] code = 49 -> "xor" [] code = 57 -> "cmp"
          [] code = 133 -> "test" [] code = 137 -> "mov"]

FromRm == [code \in {139, 431} |-> IF code = 139 THEN "mov" ELSE "imul"]

Immediate == << "add", "or", "adc", "sbb", "and", "sub", "xor", "cmp" >>

Unary ==
    [reg \in 2..7 |->
        CASE reg = 2 -> "not" [] reg = 3 -> "neg" [] reg = 4 -> "mul" [] reg = 5 -> "imul"
          [] reg = 6 -> "div" [] reg = 7 -> "idiv"]

Relative ==
    [code \in {232, 233, 388, 389, 396, 397, 398, 399} |->
        CASE code = 232 -> "call" [] code = 233 -> "jmp" [] code = 388 -> "je" [] code = 389 -> "jne"
          [] code = 396 -> "jl" [] code = 397 -> "jge" [] code = 398 -> "jle" [] code = 399 -> "jg"]

Alone ==
    [code \in {153, 195, 261} |->
        CASE code = 153 -> "cqo" [] code = 195 -> "ret" [] code = 261 -> "syscall"]

HasRex(at) == Byte(at) \in 64..79

RexAt(at) ==
    LET Field(unit) == IF HasRex(at) THEN Bits(Byte(at), unit, 2) ELSE 0
    IN [w |-> Field(8), r |-> Field(4), x |-> Field(2), b |-> Field(1)]

OpcodeAt(at) == IF HasRex(at) THEN at + 1 ELSE at

OpcodeOf(at) ==
    IF Byte(OpcodeAt(at)) = 15 THEN 256 + Byte(OpcodeAt(at) + 1) ELSE Byte(OpcodeAt(at))

Behind(at) == IF OpcodeOf(at) > 255 THEN OpcodeAt(at) + 2 ELSE OpcodeAt(at) + 1

Read(op, width, dst, src, imm, next) ==
    [instruction |-> Instruction(op, width, dst, src, imm), next |-> next]

(* The instruction with an opcode and a prefix, and what is behind them.   *)
Decoded(code, rex, after) ==
    LET form  == AddressForm(after, rex)
        reg   == Register(form.reg + 8 * rex.r)
        low   == Register((code % 8) + 8 * rex.b)
        width == IF rex.w = 1 THEN 64 ELSE 32
    IN CASE code \in 80..87 -> Read("push", 64, low, NoOperand, 0, after)
         [] code \in 88..95 -> Read("pop", 64, low, NoOperand, 0, after)
         [] code \in DOMAIN ToRm   -> Read(ToRm[code], width, form.operand, reg, 0, form.next)
         [] code \in DOMAIN FromRm -> Read(FromRm[code], width, reg, form.operand, 0, form.next)
         [] code = 129 -> Read(Immediate[form.reg + 1], width, form.operand, NoOperand,
                               Signed32(form.next), form.next + 4)
         [] code = 247 /\ form.reg \in DOMAIN Unary ->
                Read(Unary[form.reg], width, form.operand, NoOperand, 0, form.next)
         [] code = 193 /\ form.reg = 4 ->
                Read("sal", width, form.operand, NoOperand, Byte(form.next) % 64, form.next + 1)
         [] code \in 184..191 /\ rex.w = 1 ->
                Read("mov", 64, low, NoOperand, Signed64(after), after + 8)
         [] code \in DOMAIN Relative ->
                Read(Relative[code], 64, NoOperand, NoOperand, after + 3 + Signed32(after), after + 4)
         [] code \in DOMAIN Alone ->
                Read(Alone[code], IF code = 153 THEN width ELSE 64, NoOperand, NoOperand, 0, after)
         [] OTHER -> Read("undefined", 0, NoOperand, NoOperand, code, after)

Decode(at) == Decoded(OpcodeOf(at), RexAt(at), Behind(at))

-----------------------------------------------------------------------------
(* What the code generator means by an item, in the decoder's terms.       *)
Meaning(item) ==
    LET ins == item.ins
        Op(ops)   == ins.op \in ops
        Reg(r)    == Register(Reg64(r))
        Mem(m)    == Address(Reg64(m.base), m.displacement, Reg64(m.index),
                             IF m.index # INVALID_REG64 /\ isValidScale(m.scale) THEN m.scale ELSE 1)
        Long(op, dst, src, imm) == Instruction(op, 64, dst, src, imm)
    IN CASE Op({"cmp0"})  -> Long("test", Reg(ins.dst), Reg(ins.src), 0)
         [] Op({"xor", "cmp", "add", "sub", "mov", "imul"}) ->
                Long(ins.op, Reg(ins.dst), Reg(ins.src), 0)
         [] Op({"push", "pop", "idiv", "neg", "sal"}) ->
                Long(ins.op, Reg(ins.dst), NoOperand, ins.imm)
         [] Op({"addImm"}) -> Long("add", Reg(ins.dst), NoOperand, ins.imm)
         [] Op({"subImm"}) -> Long("sub", Reg(ins.dst), NoOperand, ins.imm)
         [] Op({"movImm"}) -> Long("mov", Reg(ins.dst), NoOperand, ins.imm)
         [] Op({"movLabel"}) ->
                Long("mov", Reg(ins.dst), NoOperand, item.label.number + VIRTUAL_ADDRESS_START)
         [] Op({"cqo", "ret", "syscall"}) -> Long(ins.op, NoOperand, NoOperand, 0)
         [] Op({"load"})  -> Long("mov", Reg(ins.dst), Mem(mem64BaseDisp(ins.src, ins.imm)), 0)
         [] Op({"store"}) -> Long("mov", Mem(mem64BaseDisp(ins.src, ins.imm)), Reg(ins.dst), 0)
         [] Op({"loadAt"})  -> Long("mov", Reg(ins.dst), Mem(Mem64(ins.src, 0, ins.imm, 8)), 0)
         [] Op({"storeAt"}) -> Long("mov", Mem(Mem64(ins.src, 0, ins.imm, 8)), Reg(ins.dst), 0)
         [] Op({"loadFrom"}) -> Long("mov", Reg(ins.dst), Mem(ins.memory), 0)
         [] Op({"storeTo"})  -> Long("mov", Mem(ins.memory), Reg(ins.dst), 0)
         [] OTHER -> Long(IF ins.op = "jz" THEN "je" ELSE ins.op, NoOperand, NoOperand,
                          item.label.number)

(* A processor that starts at the first byte reads what the code generator *)
(* meant, one instruction after the other, each beginning where the linker *)
(* counts that it does: no register, displacement or immediate spills into *)
(* another field, whatever stands before and behind it.                    *)
NextStart(n) == IF n = Len(items) THEN Len(bytes) + 1 ELSE starts[n + 1]

DecodesBack ==
    /\ items # <<>> => starts[1] = 1
    /\ \A n \in DOMAIN items :
          /\ Decode(starts[n]).instruction = Meaning(items[n])
          /\ Decode(starts[n]).next = NextStart(n)
          /\ items[n].size # 0 => NextStart(n) = starts[n] + items[n].size
=============================================================================
