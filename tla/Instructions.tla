---------------------------- MODULE Instructions ----------------------------
(***************************************************************************)
(* The instructions of src/compiler/instructions_compiling.cpp, as the     *)
(* items that the code generator writes.  An item is an event of TwoPass   *)
(* (op, label, size) with the instruction that its bytes encode.  It is    *)
(* not encoded further here: only its length matters to the linker and     *)
(* only its meaning to the machine.  Module Encoding has the bytes.        *)
(***************************************************************************)
EXTENDS Integers

Label(function, name, number) ==
    [function |-> function, name |-> name, number |-> number]

(* A label without functionName and number; no name at all.                *)
Global(name) == Label("", name, -1)
Nameless     == Global("")

(* op, destination, source or base, index or immediate.                    *)
Ins(op, dst, src, imm) == [op |-> op, dst |-> dst, src |-> src, imm |-> imm]
NoIns == Ins("none", "", "", 0)

Item(op, label, size, ins) == [op |-> op, label |-> label, size |-> size, ins |-> ins]

Plain(size, op, dst, src, imm) == Item("emit", Nameless, size, Ins(op, dst, src, imm))

push(r)          == Plain(1, "push", r, "", 0)
pop(r)           == Plain(1, "pop", r, "", 0)
test(r1, r2)     == Plain(3, "cmp0", r1, r2, 0)
xor(r1, r2)      == Plain(3, "xor", r1, r2, 0)
cmp(r1, r2)      == Plain(3, "cmp", r1, r2, 0)
add(r1, r2)      == Plain(3, "add", r1, r2, 0)
addImm(r, imm)   == Plain(7, "addImm", r, "", imm)
sub(r1, r2)      == Plain(3, "sub", r1, r2, 0)
subImm(r, imm)   == Plain(7, "subImm", r, "", imm)
imul(r1, r2)     == Plain(4, "imul", r1, r2, 0)
cqo              == Plain(2, "cqo", "", "", 0)
idiv(r)          == Plain(3, "idiv", r, "", 0)
neg(r)           == Plain(3, "neg", r, "", 0)
sal(r, imm)      == Plain(4, "sal", r, "", imm)
ret              == Plain(1, "ret", "", "", 0)
mov(r1, r2)      == Plain(3, "mov", r1, r2, 0)
movImm(r, imm)   == Plain(10, "movImm", r, "", imm)

(* [rbp + displacement] and [base + index * 8]; the register comes first.  *)
load(r, disp)    == Plain(7, "load", r, "rbp", disp)
store(r, disp)   == Plain(7, "store", r, "rbp", disp)
loadAt(r, base, index)  == Plain(4, "loadAt", r, base, index)
storeAt(r, base, index) == Plain(4, "storeAt", r, base, index)

call(label)      == Item("rel32", label, 5, Ins("call", "", "", 0))
jmp(label)       == Item("rel32", label, 5, Ins("jmp", "", "", 0))
jcc(cc, label)   == Item("rel32", label, 6, Ins(cc, "", "", 0))
movLabel(r, label) == Item("imm64", label, 10, Ins("movLabel", r, "", 0))

getExistingLabel(label) == Item("lookup", label, 0, NoIns)
writeLabel(label)       == Item("define", label, 0, NoIns)
=============================================================================
