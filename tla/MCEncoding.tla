----------------------------- MODULE MCEncoding -----------------------------
(***************************************************************************)
(* Numbers at the edges of their fields, the operands that change an       *)
(* instruction's form, and two in a row for TLC.                           *)
(***************************************************************************)
EXTENDS Encoding

MaxInt == 2147483647

MCNumbers        == {0, 1, -1, 8, -8, 127, 128, -129, 32768, MaxInt, -MaxInt - 1}
MCShifts         == {0, 3, 63}
MCOffsets        == {0, 5, 300, 70000}
MCMovedRegisters == {"rax", "rsp", "rbp", "r12"}
MCArrayRegisters == {"rax", "rbx", "rcx", "r9"}

MCAddresses ==
    {m \in [base : Registers \union {INVALID_REG64}, displacement : {0, -8, 300},
            index : {"rax", "rbp", "r8", "r12", "r13", INVALID_REG64}, scale : {0, 1, 2, 8}] :
        m.base # INVALID_REG64 \/ m.displacement # 0}

MCFollowers ==
    << {ret, push("rcx")}, {}, {call(Label("", "label", 300))}, {}, {} >>
=============================================================================
