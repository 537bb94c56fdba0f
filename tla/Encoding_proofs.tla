--------------------------- MODULE Encoding_proofs ---------------------------
(* What is written decodes to what was meant, whatever the operands.       *)
EXTENDS Encoding, SequenceTheorems, TLAPS

-----------------------------------------------------------------------------
(* Registers and their numbers.                                            *)
LEMMA NamesDiffer ==
    ASSUME NEW m \in 0..15, NEW n \in 0..15, REGISTERS_64_STRINGS[m + 1] = REGISTERS_64_STRINGS[n + 1]
    PROVE  m = n
  BY DEF REGISTERS_64_STRINGS

LEMMA RegisterNumber ==
    ASSUME NEW reg \in Registers
    PROVE  Reg64(reg) \in 0..15 /\ REGISTERS_64_STRINGS[Reg64(reg) + 1] = reg
  <1>1. PICK n \in 1..16 : REGISTERS_64_STRINGS[n] = reg
    BY DEF Registers
  <1>2. n - 1 \in 0..15 /\ REGISTERS_64_STRINGS[(n - 1) + 1] = reg
    BY <1>1
  <1>3. Reg64(reg) = CHOOSE k \in 0..15 : REGISTERS_64_STRINGS[k + 1] = reg
    BY DEF Reg64
  <1> QED BY <1>2, <1>3

LEMMA NumberOf ==
    ASSUME NEW n \in 0..15
    PROVE  Reg64(REGISTERS_64_STRINGS[n + 1]) = n
  <1>1. n + 1 \in 1..16
    OBVIOUS
  <1>2. REGISTERS_64_STRINGS[n + 1] \in Registers
    BY <1>1 DEF Registers
  <1> QED BY <1>2, RegisterNumber, NamesDiffer

(* The registers whose low bits have a meaning of their own.               *)
LEMMA SpecialRegisters ==
    ASSUME NEW reg \in Registers
    PROVE  /\ Reg64(reg) = 4 <=> reg = "rsp"
           /\ Reg64(reg) % 8 = 4 <=> reg \in {"rsp", "r12"}
           /\ Reg64(reg) % 8 = 5 <=> reg \in {"rbp", "r13"}
           /\ reg # INVALID_REG64
  <1>1. /\ Reg64("rsp") = 4 /\ Reg64("rbp") = 5 /\ Reg64("r12") = 12 /\ Reg64("r13") = 13
    <2>1. /\ REGISTERS_64_STRINGS[4 + 1] = "rsp" /\ REGISTERS_64_STRINGS[5 + 1] = "rbp"
          /\ REGISTERS_64_STRINGS[12 + 1] = "r12" /\ REGISTERS_64_STRINGS[13 + 1] = "r13"
      BY DEF REGISTERS_64_STRINGS
    <2> QED BY <2>1, NumberOf
  <1>2. reg # INVALID_REG64
    BY DEF Registers, INVALID_REG64, REGISTERS_64_STRINGS
  <1>3. Reg64(reg) \in 0..15 /\ REGISTERS_64_STRINGS[Reg64(reg) + 1] = reg
    BY RegisterNumber
  <1>4. /\ REGISTERS_64_STRINGS[4 + 1] = "rsp" /\ REGISTERS_64_STRINGS[5 + 1] = "rbp"
        /\ REGISTERS_64_STRINGS[12 + 1] = "r12" /\ REGISTERS_64_STRINGS[13 + 1] = "r13"
    BY DEF REGISTERS_64_STRINGS
  <1>5. Reg64(reg) % 8 = 4 => Reg64(reg) \in {4, 12}
    BY <1>3
  <1>6. Reg64(reg) % 8 = 5 => Reg64(reg) \in {5, 13}
    BY <1>3
  <1> QED BY <1>1, <1>2, <1>3, <1>4, <1>5, <1>6

LEMMA RspRbp ==
    /\ "rsp" \in Registers /\ "rbp" \in Registers
    /\ Reg64("rsp") = 4 /\ Reg64("rbp") = 5 /\ Reg64(INVALID_REG64) = -1
    /\ INVALID_REG64 \notin Registers
  <1>1. REGISTERS_64_STRINGS[4 + 1] = "rsp" /\ REGISTERS_64_STRINGS[5 + 1] = "rbp"
    BY DEF REGISTERS_64_STRINGS
  <1>2. "rsp" \in Registers /\ "rbp" \in Registers
    BY <1>1 DEF Registers
  <1>3. INVALID_REG64 \notin Registers
    BY DEF Registers, INVALID_REG64, REGISTERS_64_STRINGS
  <1> QED BY <1>1, <1>2, <1>3, NumberOf DEF Reg64

-----------------------------------------------------------------------------
(* Fields and numbers, in and out of their bytes.                          *)
LEMMA RegisterBits ==
    ASSUME NEW n \in 0..15
    PROVE  /\ n % 8 \in 0..7 /\ (n < 8 => n % 8 = n) /\ (~(n < 8) => (n % 8) + 8 = n)
  OBVIOUS

LEMMA ThreeFields ==
    ASSUME NEW a \in 0..3, NEW b \in 0..7, NEW c \in 0..7, NEW byte, byte = 64 * a + 8 * b + c
    PROVE  Bits(byte, 64, 4) = a /\ Bits(byte, 8, 8) = b /\ Bits(byte, 1, 8) = c
  BY DEF Bits

LEMMA RexFields ==
    ASSUME NEW w \in 0..1, NEW r \in 0..1, NEW x \in 0..1, NEW b \in 0..1,
           NEW byte, byte = 64 + 8 * w + 4 * r + 2 * x + b
    PROVE  /\ byte \in 64..79
           /\ Bits(byte, 8, 2) = w /\ Bits(byte, 4, 2) = r
           /\ Bits(byte, 2, 2) = x /\ Bits(byte, 1, 2) = b
  BY DEF Bits

(* The bytes of code lie in the stream from `at' on.                       *)
Placed(code, at) == \A k \in 1..Len(code) : Byte(at + k - 1) = code[k]

Bytes == 0..255

LEMMA UInt32Bytes ==
    ASSUME NEW n \in Int
    PROVE  UInt32(n) \in Seq(Bytes) /\ Len(UInt32(n)) = 4
  BY DEF UInt32, Bytes

LEMMA LowByte ==
    ASSUME NEW n \in Int
    PROVE  n \div 256 \in Int /\ n % 256 \in Bytes /\ n = 256 * (n \div 256) + (n % 256)
  BY DEF Bytes

LEMMA ReadUInt32 ==
    ASSUME NEW n \in Int, NEW at \in Nat, Placed(UInt32(n), at)
    PROVE  /\ Byte(at) = n % 256 /\ Byte(at + 1) = (n \div 256) % 256
           /\ Byte(at + 2) = ((n \div 256) \div 256) % 256
           /\ Byte(at + 3) = (((n \div 256) \div 256) \div 256) % 256
  BY DEF Placed, UInt32

LEMMA ReadAbove ==
    ASSUME NEW n \in Int, NEW at \in Nat, Placed(UInt32(n), at)
    PROVE  Above(((n \div 256) \div 256) \div 256, at) = n
  <1> DEFINE second == n \div 256  third == second \div 256  fourth == third \div 256
  <1>1. second \in Int /\ third \in Int /\ fourth \in Int
    OBVIOUS
  <1>2. n = 256 * second + (n % 256) /\ n % 256 \in Int
    BY LowByte DEF Bytes
  <1>3. second = 256 * third + (second % 256) /\ second % 256 \in Int
    BY <1>1, LowByte DEF Bytes
  <1>4. third = 256 * fourth + (third % 256) /\ third % 256 \in Int
    BY <1>1, LowByte DEF Bytes
  <1>5. Byte(at) = n % 256 /\ Byte(at + 1) = second % 256 /\ Byte(at + 2) = third % 256
    BY ReadUInt32
  <1> HIDE DEF second, third, fourth
  <1>6. /\ 256 * fourth + Byte(at + 2) = third /\ 256 * third + Byte(at + 1) = second
        /\ 256 * second + Byte(at) = n
    BY <1>2, <1>3, <1>4, <1>5
  <1>7. Above(fourth, at) = n
    BY <1>6 DEF Above
  <1> QED BY <1>7 DEF second, third, fourth

LEMMA ReadSigned32 ==
    ASSUME NEW n \in INT32, NEW at \in Nat, Placed(UInt32(n), at)
    PROVE  Signed32(at) = n
  <1> DEFINE fourth == ((n \div 256) \div 256) \div 256
  <1>1. n \in Int /\ fourth \in -128..127
    BY DEF INT32
  <1>2. Byte(at + 3) = fourth % 256
    BY <1>1, ReadUInt32
  <1> HIDE DEF fourth
  <1>3. SignedByte(at + 3) = fourth
    BY <1>1, <1>2 DEF SignedByte
  <1> QED BY <1>1, <1>3, ReadAbove DEF Signed32, fourth

LEMMA ReadSigned64 ==
    ASSUME NEW n \in INT64, NEW at \in Nat, Placed(UInt32(n), at), Placed(UInt32(Upper(n)), at + 4)
    PROVE  Signed64(at) = n
  <1> DEFINE fourth == ((n \div 256) \div 256) \div 256
  <1>1. n \in Int /\ Upper(n) \in INT32 /\ fourth \in Int
    BY DEF INT64
  <1>2. Signed32(at + 4) = Upper(n)
    BY <1>1, ReadSigned32
  <1>3. Byte(at + 3) = fourth % 256
    BY <1>1, ReadUInt32
  <1>4. fourth = 256 * Upper(n) + (fourth % 256)
    BY <1>1, LowByte DEF Upper
  <1>5. 256 * Signed32(at + 4) + Byte(at + 3) = fourth
    BY <1>2, <1>3, <1>4
  <1> QED BY <1>1, <1>5, ReadAbove DEF Signed64

-----------------------------------------------------------------------------
(* The parts of an instruction, and what the helpers make of them.         *)
Used   == TRUE
Unused == FALSE

Rex(w, r, x, b)          == [w |-> w, r |-> r, x |-> x, b |-> b]
Modrm(form, reg, rm)     == [mod |-> form, reg |-> reg, rm |-> rm]
Sib(scale, index, base)  == [scale |-> scale, index |-> index, base |-> base]
NoModrm                  == Modrm(0, 0, 0)
NoSib                    == Sib(0, 0, 0)

Parts(rexUsed, modrmUsed, sibUsed, rex, opcode, modrm, sib, disp, imm) ==
    [isRexUsed |-> rexUsed, isModrmUsed |-> modrmUsed, isSibUsed |-> sibUsed,
     rex |-> rex, opcode |-> opcode, modrm |-> modrm, sib |-> sib, disp |-> disp, imm |-> imm]

High(reg) == IF Reg64(reg) < 8 THEN 0 ELSE 1
Low(reg)  == Reg64(reg) % 8

LEMMA NewParts ==
    ASSUME NEW opcode
    PROVE  NewInstruction(opcode) =
             Parts(Unused, Unused, Unused, Rex(0, 0, 0, 0), opcode, NoModrm, NoSib, <<>>, <<>>)
  BY DEF NewInstruction, Parts, DEFAULT_REX, Rex, NoModrm, NoSib, Modrm, Sib, Unused

LEMMA AddRexParts ==
    ASSUME NEW ru, NEW mu, NEW su, NEW rex, NEW o, NEW m, NEW s, NEW d, NEW n
    PROVE  addRex(Parts(ru, mu, su, rex, o, m, s, d, n)) = Parts(Used, mu, su, rex, o, m, s, d, n)
  <1>1. [Parts(ru, mu, su, rex, o, m, s, d, n) EXCEPT !.isRexUsed = Used] =
          Parts(Used, mu, su, rex, o, m, s, d, n)
    BY SMT DEF Parts
  <1> QED BY <1>1, Zenon DEF addRex, Used

LEMMA AddModrmParts ==
    ASSUME NEW ru, NEW su, NEW rex, NEW o, NEW s, NEW d, NEW n, NEW form
    PROVE  addModrm(Parts(ru, Unused, su, rex, o, NoModrm, s, d, n), form) =
             Parts(ru, Used, su, rex, o, Modrm(form, 0, 0), s, d, n)
  BY DEF addModrm, Parts, Modrm, NoModrm, Used, Unused

LEMMA SameModrm ==
    ASSUME NEW ru, NEW su, NEW rex, NEW o, NEW m, NEW s, NEW d, NEW n, NEW form
    PROVE  addModrm(Parts(ru, Used, su, rex, o, m, s, d, n), form) = Parts(ru, Used, su, rex, o, m, s, d, n)
  BY DEF addModrm, Parts, Used

LEMMA AddSibParts ==
    ASSUME NEW ru, NEW mu, NEW su, NEW rex, NEW o, NEW m, NEW s, NEW d, NEW n
    PROVE  addSib(Parts(ru, mu, su, rex, o, m, s, d, n)) = Parts(ru, mu, Used, rex, o, m, s, d, n)
  <1>1. [Parts(ru, mu, su, rex, o, m, s, d, n) EXCEPT !.isSibUsed = Used] =
          Parts(ru, mu, Used, rex, o, m, s, d, n)
    BY SMT DEF Parts
  <1> QED BY <1>1, Zenon DEF addSib, Used

LEMMA UpdateRexParts ==
    ASSUME NEW mu, NEW su, NEW o, NEW m, NEW s, NEW d, NEW n,
           NEW w, NEW r, NEW x, NEW b, NEW reg
    PROVE  LET i == Parts(Used, mu, su, Rex(w, r, x, b), o, m, s, d, n)
           IN /\ updateRex(i, "r", reg) = Parts(Used, mu, su, Rex(w, High(reg), x, b), o, m, s, d, n)
              /\ updateRex(i, "x", reg) = Parts(Used, mu, su, Rex(w, r, High(reg), b), o, m, s, d, n)
              /\ updateRex(i, "b", reg) = Parts(Used, mu, su, Rex(w, r, x, High(reg)), o, m, s, d, n)
  <1> DEFINE i == Parts(Used, mu, su, Rex(w, r, x, b), o, m, s, d, n)
  <1>1. addRex(i) = i
    BY AddRexParts
  <1>2. /\ updateRex(i, "r", reg) = [i EXCEPT !.rex["r"] = High(reg)]
        /\ updateRex(i, "x", reg) = [i EXCEPT !.rex["x"] = High(reg)]
        /\ updateRex(i, "b", reg) = [i EXCEPT !.rex["b"] = High(reg)]
    <2> HIDE DEF i
    <2>1. CASE Reg64(reg) < 8
      BY <2>1, Zenon DEF updateRex, High
    <2>2. CASE ~(Reg64(reg) < 8)
      BY <2>2, <1>1, Zenon DEF updateRex, High
    <2> QED BY <2>1, <2>2
  <1>3. /\ [i EXCEPT !.rex["r"] = High(reg)] = Parts(Used, mu, su, Rex(w, High(reg), x, b), o, m, s, d, n)
        /\ [i EXCEPT !.rex["x"] = High(reg)] = Parts(Used, mu, su, Rex(w, r, High(reg), b), o, m, s, d, n)
        /\ [i EXCEPT !.rex["b"] = High(reg)] = Parts(Used, mu, su, Rex(w, r, x, High(reg)), o, m, s, d, n)
    BY SMT DEF Parts, Rex
  <1> QED BY <1>2, <1>3, Zenon

LEMMA UpdateModrmParts ==
    ASSUME NEW ru, NEW su, NEW rex, NEW o, NEW form, NEW r, NEW rm, NEW s, NEW d, NEW n, NEW reg
    PROVE  LET i == Parts(ru, Used, su, rex, o, Modrm(form, r, rm), s, d, n)
           IN /\ updateModrm(i, "reg", reg) = Parts(ru, Used, su, rex, o, Modrm(form, Low(reg), rm), s, d, n)
              /\ updateModrm(i, "rm", reg) = Parts(ru, Used, su, rex, o, Modrm(form, r, Low(reg)), s, d, n)
  <1> DEFINE i == Parts(ru, Used, su, rex, o, Modrm(form, r, rm), s, d, n)
  <1>1. addModrm(i, 0) = i
    BY SameModrm
  <1>2. /\ updateModrm(i, "reg", reg) = [i EXCEPT !.modrm["reg"] = Low(reg)]
        /\ updateModrm(i, "rm", reg) = [i EXCEPT !.modrm["rm"] = Low(reg)]
    <2> HIDE DEF i
    <2> QED BY <1>1, Zenon DEF updateModrm, regSpecifier, Low
  <1>3. /\ [i EXCEPT !.modrm["reg"] = Low(reg)] = Parts(ru, Used, su, rex, o, Modrm(form, Low(reg), rm), s, d, n)
        /\ [i EXCEPT !.modrm["rm"] = Low(reg)] = Parts(ru, Used, su, rex, o, Modrm(form, r, Low(reg)), s, d, n)
    BY SMT DEF Parts, Modrm
  <1> QED BY <1>2, <1>3, Zenon

LEMMA UpdateSibParts ==
    ASSUME NEW ru, NEW mu, NEW rex, NEW o, NEW m, NEW scale, NEW index, NEW base, NEW d, NEW n, NEW reg
    PROVE  LET i == Parts(ru, mu, Used, rex, o, m, Sib(scale, index, base), d, n)
           IN /\ updateSib(i, "index", reg) = Parts(ru, mu, Used, rex, o, m, Sib(scale, Low(reg), base), d, n)
              /\ updateSib(i, "base", reg) = Parts(ru, mu, Used, rex, o, m, Sib(scale, index, Low(reg)), d, n)
  <1> DEFINE i == Parts(ru, mu, Used, rex, o, m, Sib(scale, index, base), d, n)
  <1>1. addSib(i) = i
    BY AddSibParts
  <1>2. /\ updateSib(i, "index", reg) = [i EXCEPT !.sib["index"] = Low(reg)]
        /\ updateSib(i, "base", reg) = [i EXCEPT !.sib["base"] = Low(reg)]
    <2> HIDE DEF i
    <2> QED BY <1>1, Zenon DEF updateSib, regSpecifier, Low
  <1>3. /\ [i EXCEPT !.sib["index"] = Low(reg)] = Parts(ru, mu, Used, rex, o, m, Sib(scale, Low(reg), base), d, n)
        /\ [i EXCEPT !.sib["base"] = Low(reg)] = Parts(ru, mu, Used, rex, o, m, Sib(scale, index, Low(reg)), d, n)
    BY SMT DEF Parts, Sib
  <1> QED BY <1>2, <1>3, Zenon

-----------------------------------------------------------------------------
(* Where the parts lie in the stream.                                      *)
LEMMA Joined ==
    ASSUME NEW s \in Seq(Bytes), NEW t \in Seq(Bytes), NEW at \in Nat,
           NEW middle, at + Len(s) = middle
    PROVE  s \o t \in Seq(Bytes) /\ at + Len(s \o t) = middle + Len(t) /\ middle + Len(t) \in Nat
  <1>1. s \o t \in Seq(Bytes) /\ Len(s \o t) = Len(s) + Len(t)
    BY ConcatProperties
  <1>2. Len(s) \in Nat /\ Len(t) \in Nat
    OBVIOUS
  <1> QED BY <1>1, <1>2

LEMMA PlacedBoth ==
    ASSUME NEW s \in Seq(Bytes), NEW t \in Seq(Bytes), NEW at \in Nat, Placed(s \o t, at)
    PROVE  Placed(s, at) /\ Placed(t, at + Len(s))
  <1>1. Len(s \o t) = Len(s) + Len(t) /\ Len(s) \in Nat /\ Len(t) \in Nat
    BY ConcatProperties
  <1>2. ASSUME NEW k \in 1..Len(s)
        PROVE  Byte(at + k - 1) = s[k]
    <2>1. k \in 1..Len(s \o t) /\ (s \o t)[k] = s[k]
      BY <1>1, ConcatProperties
    <2> QED BY <2>1 DEF Placed
  <1>3. ASSUME NEW k \in 1..Len(t)
        PROVE  Byte((at + Len(s)) + k - 1) = t[k]
    <2>1. k + Len(s) \in 1..Len(s \o t) /\ (s \o t)[k + Len(s)] = t[k]
      BY <1>1
    <2>2. Byte(at + (k + Len(s)) - 1) = t[k]
      BY <2>1 DEF Placed
    <2>3. at + (k + Len(s)) - 1 = (at + Len(s)) + k - 1
      BY <1>1
    <2> QED BY <2>2, <2>3
  <1> QED BY <1>2, <1>3 DEF Placed

Part(used, byte) == IF used THEN <<byte>> ELSE <<>>
Count(used)      == IF used THEN 1 ELSE 0

LEMMA Counts == Count(Used) = 1 /\ Count(Unused) = 0 /\ Used \in BOOLEAN /\ Unused \in BOOLEAN /\ Used
  BY DEF Count, Used, Unused

LEMMA PartPlaced ==
    ASSUME NEW used \in BOOLEAN, NEW byte \in Bytes
    PROVE  /\ Part(used, byte) \in Seq(Bytes) /\ Len(Part(used, byte)) = Count(used)
           /\ Count(used) \in 0..1
           /\ \A at \in Nat : Placed(Part(used, byte), at) /\ used => Byte(at) = byte
  <1>1. <<byte>> \in Seq(Bytes) /\ <<>> \in Seq(Bytes) /\ Len(<<byte>>) = 1 /\ Len(<<>>) = 0
        /\ <<byte>>[1] = byte
    OBVIOUS
  <1>2. ASSUME NEW at \in Nat, Placed(<<byte>>, at)
        PROVE  Byte(at) = byte
    <2>1. at + 1 - 1 = at /\ 1 \in 1..Len(<<byte>>)
      OBVIOUS
    <2> QED BY <1>1, <1>2, <2>1 DEF Placed
  <1> QED BY <1>1, <1>2 DEF Part, Count

(* The parts of an instruction that is written at `at', each in its place. *)
IsFlag(used) == used \in BOOLEAN
IsCode(s)    == s \in Seq(Bytes)
IsRex(rex)   == rex \in [w : 0..1, r : 0..1, x : 0..1, b : 0..1]
IsModrm(m)   == m \in [mod : 0..3, reg : 0..7, rm : 0..7]
IsSib(s)     == s \in [scale : 0..3, index : 0..7, base : 0..7]

Laid(ru, mu, su, rex, o, m, s, d, n, at) ==
    LET code     == writeInstruction(Parts(ru, mu, su, rex, o, m, s, d, n))
        opcodeAt == at + Count(ru)
        modrmAt  == opcodeAt + Len(o)
        sibAt    == modrmAt + Count(mu)
        dispAt   == sibAt + Count(su)
        immAt    == dispAt + Len(d)
    IN /\ code \in Seq(Bytes)
       /\ at + Len(code) = immAt + Len(n)
       /\ Placed(code, at) =>
             /\ ru => Byte(at) = rexToByte(rex)
             /\ Placed(o, opcodeAt)
             /\ mu => Byte(modrmAt) = modrmToByte(m)
             /\ su => Byte(sibAt) = sibToByte(s)
             /\ Placed(d, dispAt)
             /\ Placed(n, immAt)

LEMMA PartBytes ==
    /\ \A rex : IsRex(rex) => rexToByte(rex) \in Bytes
    /\ \A m : IsModrm(m) => modrmToByte(m) \in Bytes
    /\ \A s : IsSib(s) => sibToByte(s) \in Bytes
  <1>1. ASSUME NEW rex, IsRex(rex)
        PROVE  rexToByte(rex) \in Bytes
    <2>1. rex.w \in 0..1 /\ rex.r \in 0..1 /\ rex.x \in 0..1 /\ rex.b \in 0..1
      BY <1>1 DEF IsRex
    <2> QED BY <2>1 DEF rexToByte, Bytes
  <1>2. ASSUME NEW m, IsModrm(m)
        PROVE  modrmToByte(m) \in Bytes
    <2>1. m.mod \in 0..3 /\ m.reg \in 0..7 /\ m.rm \in 0..7
      BY <1>2 DEF IsModrm
    <2> QED BY <2>1 DEF modrmToByte, Bytes
  <1>3. ASSUME NEW s, IsSib(s)
        PROVE  sibToByte(s) \in Bytes
    <2>1. s.scale \in 0..3 /\ s.index \in 0..7 /\ s.base \in 0..7
      BY <1>3 DEF IsSib
    <2> QED BY <2>1 DEF sibToByte, Bytes
  <1> QED BY <1>1, <1>2, <1>3

LEMMA Layout ==
    ASSUME NEW ru, NEW mu, NEW su, NEW rex, NEW o, NEW m, NEW s, NEW d, NEW n, NEW at \in Nat,
           IsFlag(ru), IsFlag(mu), IsFlag(su), IsRex(rex), IsCode(o), IsModrm(m), IsSib(s),
           IsCode(d), IsCode(n)
    PROVE  Laid(ru, mu, su, rex, o, m, s, d, n, at)
  <1> DEFINE i == Parts(ru, mu, su, rex, o, m, s, d, n)
             R == Part(ru, rexToByte(rex))  M == Part(mu, modrmToByte(m))  S == Part(su, sibToByte(s))
             opcodeAt == at + Count(ru)
             modrmAt  == opcodeAt + Len(o)
             sibAt    == modrmAt + Count(mu)
             dispAt   == sibAt + Count(su)
             immAt    == dispAt + Len(d)
  <1>1. writeInstruction(i) = R \o o \o M \o S \o d \o n
    <2>1. /\ (i.isRexUsed <=> ru) /\ (i.isModrmUsed <=> mu) /\ (i.isSibUsed <=> su)
      BY DEF Parts
    <2>2. /\ i.opcode = o /\ i.disp = d /\ i.imm = n /\ i.rex = rex /\ i.modrm = m /\ i.sib = s
      BY DEF Parts
    <2> HIDE DEF i
    <2> QED BY <2>1, <2>2 DEF writeInstruction, Part
  <1>2. /\ rexToByte(rex) \in Bytes /\ modrmToByte(m) \in Bytes /\ sibToByte(s) \in Bytes
        /\ ru \in BOOLEAN /\ mu \in BOOLEAN /\ su \in BOOLEAN
        /\ o \in Seq(Bytes) /\ d \in Seq(Bytes) /\ n \in Seq(Bytes)
    BY PartBytes DEF IsFlag, IsCode
  <1> HIDE DEF i
  <1>3. /\ R \in Seq(Bytes) /\ M \in Seq(Bytes) /\ S \in Seq(Bytes)
        /\ Len(R) = Count(ru) /\ Len(M) = Count(mu) /\ Len(S) = Count(su)
        /\ Count(ru) \in Nat /\ Count(mu) \in Nat /\ Count(su) \in Nat
        /\ Len(o) \in Nat /\ Len(d) \in Nat /\ Len(n) \in Nat
    BY <1>2, PartPlaced
  <1>4. \A k \in Nat : /\ Placed(R, k) /\ ru => Byte(k) = rexToByte(rex)
                       /\ Placed(M, k) /\ mu => Byte(k) = modrmToByte(m)
                       /\ Placed(S, k) /\ su => Byte(k) = sibToByte(s)
    BY <1>2, PartPlaced
  <1> HIDE DEF R, M, S
  <1> DEFINE c1 == R \o o  c2 == c1 \o M  c3 == c2 \o S  c4 == c3 \o d
  <1> HIDE DEF opcodeAt, modrmAt, sibAt, dispAt, immAt, c1, c2, c3, c4
  <1>5. at + Len(R) = opcodeAt
    BY <1>3 DEF opcodeAt
  <1>6. opcodeAt + Len(o) = modrmAt
    BY DEF modrmAt
  <1>7. modrmAt + Len(M) = sibAt
    BY <1>3 DEF sibAt
  <1>8. sibAt + Len(S) = dispAt
    BY <1>3 DEF dispAt
  <1>9. dispAt + Len(d) = immAt
    BY DEF immAt
  <1>10. c1 \in Seq(Bytes) /\ at + Len(c1) = modrmAt /\ modrmAt \in Nat /\ opcodeAt \in Nat
    <2>1. opcodeAt \in Nat
      BY <1>3 DEF opcodeAt
    <2>2. R \in Seq(Bytes) /\ o \in Seq(Bytes)
      BY <1>2, <1>3
    <2>3. R \o o \in Seq(Bytes) /\ at + Len(R \o o) = opcodeAt + Len(o) /\ opcodeAt + Len(o) \in Nat
      BY <2>2, <1>5, Joined
    <2> QED BY <2>1, <2>3, <1>6 DEF c1
  <1>11. c2 \in Seq(Bytes) /\ at + Len(c2) = sibAt /\ sibAt \in Nat
    BY <1>2, <1>3, <1>10, <1>7, Joined DEF c2
  <1>12. c3 \in Seq(Bytes) /\ at + Len(c3) = dispAt /\ dispAt \in Nat
    BY <1>2, <1>3, <1>11, <1>8, Joined DEF c3
  <1>13. c4 \in Seq(Bytes) /\ at + Len(c4) = immAt /\ immAt \in Nat
    BY <1>2, <1>3, <1>12, <1>9, Joined DEF c4
  <1>14. c4 \o n \in Seq(Bytes) /\ at + Len(c4 \o n) = immAt + Len(n)
    BY <1>2, <1>3, <1>13, Joined
  <1>15. ASSUME Placed(c4 \o n, at)
         PROVE  /\ ru => Byte(at) = rexToByte(rex)
                /\ Placed(o, opcodeAt)
                /\ mu => Byte(modrmAt) = modrmToByte(m)
                /\ su => Byte(sibAt) = sibToByte(s)
                /\ Placed(d, dispAt)
                /\ Placed(n, immAt)
    <2>1. Placed(c4, at) /\ Placed(n, immAt)
      BY <1>2, <1>13, <1>15, PlacedBoth
    <2>2. Placed(c3, at) /\ Placed(d, dispAt)
      BY <1>2, <1>12, <2>1, PlacedBoth DEF c4
    <2>3. Placed(c2, at) /\ Placed(S, sibAt)
      BY <1>2, <1>3, <1>11, <2>2, PlacedBoth DEF c3
    <2>4. Placed(c1, at) /\ Placed(M, modrmAt)
      BY <1>2, <1>3, <1>10, <2>3, PlacedBoth DEF c2
    <2>5. Placed(R, at) /\ Placed(o, opcodeAt)
      BY <1>2, <1>3, <1>5, <2>4, PlacedBoth DEF c1
    <2> QED BY <1>4, <1>10, <1>11, <2>1, <2>2, <2>3, <2>4, <2>5
  <1>16. writeInstruction(i) = c4 \o n
    BY <1>1 DEF c1, c2, c3, c4
  <1> QED BY <1>16, <1>14, <1>15, Zenon DEF Laid, i, opcodeAt, modrmAt, sibAt, dispAt, immAt

-----------------------------------------------------------------------------
(* What the decoder makes of a prefix and an opcode.                       *)
IsOpcode(opcode) ==
    \/ \E code \in Bytes \ ({15} \union 64..79) : opcode = <<code>>
    \/ \E code \in Bytes : opcode = <<15, code>>

CodeOf(opcode) == IF Len(opcode) = 1 THEN opcode[1] ELSE 256 + opcode[2]

LEMMA OpcodeSequence ==
    ASSUME NEW opcode, IsOpcode(opcode)
    PROVE  opcode \in Seq(Bytes) /\ Len(opcode) \in 1..2
  <1>1. 15 \in Bytes
    BY DEF Bytes
  <1>2. \A code \in Bytes : /\ <<code>> \in Seq(Bytes) /\ Len(<<code>>) = 1
                           /\ <<15, code>> \in Seq(Bytes) /\ Len(<<15, code>>) = 2
    BY <1>1
  <1>3. CASE \E code \in Bytes \ ({15} \union 64..79) : opcode = <<code>>
    <2>1. PICK code \in Bytes : opcode = <<code>>
      BY <1>3
    <2> QED BY <2>1, <1>2
  <1>4. CASE \E code \in Bytes : opcode = <<15, code>>
    <2>1. PICK code \in Bytes : opcode = <<15, code>>
      BY <1>4
    <2> QED BY <2>1, <1>2
  <1> QED BY <1>3, <1>4 DEF IsOpcode

LEMMA Opcodes ==
    ASSUME NEW opcode, IsOpcode(opcode), NEW start \in Nat, Placed(opcode, start)
    PROVE  /\ Byte(start) \notin 64..79
           /\ (IF Byte(start) = 15 THEN 256 + Byte(start + 1) ELSE Byte(start)) = CodeOf(opcode)
           /\ (IF CodeOf(opcode) > 255 THEN start + 2 ELSE start + 1) = start + Len(opcode)
  <1>1. CASE \E code \in Bytes \ ({15} \union 64..79) : opcode = <<code>>
    <2>1. PICK code \in Bytes \ ({15} \union 64..79) : opcode = <<code>>
      BY <1>1
    <2>2. Len(opcode) = 1 /\ opcode[1] = code /\ 1 \in 1..Len(opcode) /\ start + 1 - 1 = start
      BY <2>1
    <2>3. Byte(start) = code
      BY <2>2 DEF Placed
    <2> QED BY <2>1, <2>2, <2>3 DEF CodeOf, Bytes
  <1>2. CASE \E code \in Bytes : opcode = <<15, code>>
    <2>1. PICK code \in Bytes : opcode = <<15, code>>
      BY <1>2
    <2>2. /\ Len(opcode) = 2 /\ opcode[1] = 15 /\ opcode[2] = code /\ 1 \in 1..Len(opcode) /\ 2 \in 1..Len(opcode)
          /\ start + 1 - 1 = start /\ start + 2 - 1 = start + 1
      BY <2>1
    <2>3. Byte(start) = 15 /\ Byte(start + 1) = code
      BY <2>2 DEF Placed
    <2> QED BY <2>1, <2>2, <2>3 DEF CodeOf, Bytes
  <1> QED BY <1>1, <1>2 DEF IsOpcode

LEMMA WithPrefix ==
    ASSUME NEW w \in 0..1, NEW r \in 0..1, NEW x \in 0..1, NEW b \in 0..1,
           NEW opcode, IsOpcode(opcode), NEW at \in Nat,
           Byte(at) = 64 + 8 * w + 4 * r + 2 * x + b, Placed(opcode, at + 1)
    PROVE  Decode(at) = Decoded(CodeOf(opcode), Rex(w, r, x, b), (at + 1) + Len(opcode))
  <1> DEFINE byte == Byte(at)
  <1>1. byte = 64 + 8 * w + 4 * r + 2 * x + b
    OBVIOUS
  <1> HIDE DEF byte
  <1>2. /\ byte \in 64..79
        /\ Bits(byte, 8, 2) = w /\ Bits(byte, 4, 2) = r
        /\ Bits(byte, 2, 2) = x /\ Bits(byte, 1, 2) = b
    BY <1>1, RexFields
  <1>3. RexAt(at) = Rex(w, r, x, b) /\ OpcodeAt(at) = at + 1
    BY <1>2 DEF RexAt, Rex, OpcodeAt, HasRex, byte
  <1>4. OpcodeOf(at) = CodeOf(opcode) /\ Behind(at) = (at + 1) + Len(opcode)
    <2> DEFINE start == at + 1
    <2>1. start \in Nat /\ Placed(opcode, start) /\ OpcodeAt(at) = start
      BY <1>3
    <2> HIDE DEF start
    <2>2. /\ (IF Byte(start) = 15 THEN 256 + Byte(start + 1) ELSE Byte(start)) = CodeOf(opcode)
          /\ (IF CodeOf(opcode) > 255 THEN start + 2 ELSE start + 1) = start + Len(opcode)
      BY <2>1, Opcodes
    <2>3. OpcodeOf(at) = CodeOf(opcode)
      BY <2>1, <2>2, Zenon DEF OpcodeOf
    <2>4. Behind(at) = start + Len(opcode)
      BY <2>1, <2>2, <2>3, Zenon DEF Behind
    <2> QED BY <2>3, <2>4 DEF start
  <1> QED BY <1>3, <1>4 DEF Decode

LEMMA WithoutPrefix ==
    ASSUME NEW opcode, IsOpcode(opcode), NEW at \in Nat, Placed(opcode, at)
    PROVE  Decode(at) = Decoded(CodeOf(opcode), Rex(0, 0, 0, 0), at + Len(opcode))
  <1>1. ~HasRex(at)
    BY Opcodes DEF HasRex
  <1>2. RexAt(at) = Rex(0, 0, 0, 0) /\ OpcodeAt(at) = at
    BY <1>1 DEF RexAt, Rex, OpcodeAt
  <1>3. OpcodeOf(at) = CodeOf(opcode) /\ Behind(at) = at + Len(opcode)
    BY <1>2, Opcodes DEF OpcodeOf, Behind
  <1> QED BY <1>2, <1>3 DEF Decode

LEMMA RegisterForm ==
    ASSUME NEW reg \in 0..7, NEW rm \in 0..7, NEW rex, NEW at \in Nat,
           Byte(at) = 64 * 3 + 8 * reg + rm
    PROVE  AddressForm(at, rex) = [operand |-> Register(rm + 8 * rex.b), reg |-> reg, next |-> at + 1]
  <1>1. Bits(Byte(at), 64, 4) = 3 /\ Bits(Byte(at), 1, 8) = rm /\ Bits(Byte(at), 8, 8) = reg
    BY ThreeFields
  <1> QED BY <1>1 DEF AddressForm

-----------------------------------------------------------------------------
(* What the write_... functions hand to writeInstruction.                  *)
LEMMA NewLong ==
    ASSUME NEW opcode
    PROVE  [addRex(NewInstruction(opcode)) EXCEPT !.rex.w = 1] =
             Parts(Used, Unused, Unused, Rex(1, 0, 0, 0), opcode, NoModrm, NoSib, <<>>, <<>>)
  <1>1. addRex(NewInstruction(opcode)) =
          Parts(Used, Unused, Unused, Rex(0, 0, 0, 0), opcode, NoModrm, NoSib, <<>>, <<>>)
    BY NewParts, AddRexParts
  <1> DEFINE i == Parts(Used, Unused, Unused, Rex(0, 0, 0, 0), opcode, NoModrm, NoSib, <<>>, <<>>)
  <1>2. [i EXCEPT !.rex.w = 1] =
          Parts(Used, Unused, Unused, Rex(1, 0, 0, 0), opcode, NoModrm, NoSib, <<>>, <<>>)
    BY SMT DEF Parts, Rex
  <1> QED BY <1>1, <1>2, Zenon

LEMMA WrittenR64R64 ==
    ASSUME NEW opcode, NEW reg1, NEW reg2
    PROVE  write_instruction_r64_r64(opcode, reg1, reg2) =
             Parts(Used, Used, Unused, Rex(1, High(reg2), 0, High(reg1)), opcode,
                   Modrm(3, Low(reg2), Low(reg1)), NoSib, <<>>, <<>>)
  <1> DEFINE i1 == [addRex(NewInstruction(opcode)) EXCEPT !.rex.w = 1]
             i2 == updateRex(i1, "r", reg2)
             i3 == updateRex(i2, "b", reg1)
             i4 == addModrm(i3, 3)
             i5 == updateModrm(i4, "reg", reg2)
  <1>1. i1 = Parts(Used, Unused, Unused, Rex(1, 0, 0, 0), opcode, NoModrm, NoSib, <<>>, <<>>)
    BY NewLong, Zenon
  <1>2. i2 = Parts(Used, Unused, Unused, Rex(1, High(reg2), 0, 0), opcode, NoModrm, NoSib, <<>>, <<>>)
    <2> HIDE DEF i1
    <2> QED BY <1>1, UpdateRexParts
  <1>3. i3 = Parts(Used, Unused, Unused, Rex(1, High(reg2), 0, High(reg1)), opcode, NoModrm, NoSib, <<>>, <<>>)
    <2> HIDE DEF i2
    <2> QED BY <1>2, UpdateRexParts
  <1>4. i4 = Parts(Used, Used, Unused, Rex(1, High(reg2), 0, High(reg1)), opcode,
                   Modrm(3, 0, 0), NoSib, <<>>, <<>>)
    <2> HIDE DEF i3
    <2> QED BY <1>3, AddModrmParts
  <1>5. i5 = Parts(Used, Used, Unused, Rex(1, High(reg2), 0, High(reg1)), opcode,
                   Modrm(3, Low(reg2), 0), NoSib, <<>>, <<>>)
    <2> HIDE DEF i4
    <2> QED BY <1>4, UpdateModrmParts
  <1>6. updateModrm(i5, "rm", reg1) =
          Parts(Used, Used, Unused, Rex(1, High(reg2), 0, High(reg1)), opcode,
                Modrm(3, Low(reg2), Low(reg1)), NoSib, <<>>, <<>>)
    <2> HIDE DEF i5
    <2> QED BY <1>5, UpdateModrmParts
  <1> QED BY <1>6, Zenon DEF write_instruction_r64_r64

LEMMA WrittenR64 ==
    ASSUME NEW opcode, NEW extension, NEW reg
    PROVE  write_instruction_r64(opcode, extension, reg) =
             Parts(Used, Used, Unused, Rex(1, 0, 0, High(reg)), opcode,
                   Modrm(3, extension, Low(reg)), NoSib, <<>>, <<>>)
  <1> DEFINE i1 == [addRex(NewInstruction(opcode)) EXCEPT !.rex.w = 1]
             i2 == updateRex(i1, "b", reg)
             i3 == addModrm(i2, 3)
             i4 == [i3 EXCEPT !.modrm.reg = extension]
  <1>1. i1 = Parts(Used, Unused, Unused, Rex(1, 0, 0, 0), opcode, NoModrm, NoSib, <<>>, <<>>)
    BY NewLong, Zenon
  <1>2. i2 = Parts(Used, Unused, Unused, Rex(1, 0, 0, High(reg)), opcode, NoModrm, NoSib, <<>>, <<>>)
    <2> HIDE DEF i1
    <2> QED BY <1>1, UpdateRexParts
  <1>3. i3 = Parts(Used, Used, Unused, Rex(1, 0, 0, High(reg)), opcode, Modrm(3, 0, 0), NoSib, <<>>, <<>>)
    <2> HIDE DEF i2
    <2> QED BY <1>2, AddModrmParts
  <1>4. i4 = Parts(Used, Used, Unused, Rex(1, 0, 0, High(reg)), opcode, Modrm(3, extension, 0), NoSib, <<>>, <<>>)
    <2> HIDE DEF i3
    <2> QED BY <1>3, SMT DEF Parts, Modrm
  <1>5. updateModrm(i4, "rm", reg) =
          Parts(Used, Used, Unused, Rex(1, 0, 0, High(reg)), opcode,
                Modrm(3, extension, Low(reg)), NoSib, <<>>, <<>>)
    <2> HIDE DEF i4
    <2> QED BY <1>4, UpdateModrmParts
  <1> QED BY <1>5, Zenon DEF write_instruction_r64

LEMMA WrittenDisp ==
    ASSUME NEW ru, NEW mu, NEW su, NEW rex, NEW o, NEW m, NEW s, NEW d, NEW n, NEW number, NEW size
    PROVE  WithDisp(Parts(ru, mu, su, rex, o, m, s, d, n), number, size) =
             Parts(ru, mu, su, rex, o, m, s, LittleEndian(number, size), n)
  BY SMT DEF WithDisp, Parts

LEMMA WrittenMovImm ==
    ASSUME NEW reg, NEW number
    PROVE  write_mov_r64_imm64(reg, number) =
             Parts(Used, Unused, Unused, Rex(1, 0, 0, High(reg)), <<184 + Low(reg)>>, NoModrm, NoSib,
                   LittleEndian(number, 8), <<>>)
  <1> DEFINE i1 == [addRex(NewInstruction(<<184 + regSpecifier(reg)>>)) EXCEPT !.rex.w = 1]
             i2 == updateRex(i1, "b", reg)
  <1>1. i1 = Parts(Used, Unused, Unused, Rex(1, 0, 0, 0), <<184 + Low(reg)>>, NoModrm, NoSib, <<>>, <<>>)
    BY NewLong, Zenon DEF regSpecifier, Low
  <1>2. i2 = Parts(Used, Unused, Unused, Rex(1, 0, 0, High(reg)), <<184 + Low(reg)>>, NoModrm, NoSib, <<>>, <<>>)
    <2> HIDE DEF i1
    <2> QED BY <1>1, UpdateRexParts
  <1>3. WithDisp(i2, number, 8) =
          Parts(Used, Unused, Unused, Rex(1, 0, 0, High(reg)), <<184 + Low(reg)>>, NoModrm, NoSib,
                LittleEndian(number, 8), <<>>)
    <2> HIDE DEF i2
    <2> QED BY <1>2, WrittenDisp
  <1> QED BY <1>3, Zenon DEF write_mov_r64_imm64, WithDisp

LEMMA WrittenPushPop ==
    ASSUME NEW base, NEW reg
    PROVE  LET opcode == <<base + Low(reg)>>
           IN write_push_pop_r64(base, reg) =
                IF Reg64(reg) < 8
                THEN Parts(Unused, Unused, Unused, Rex(0, 0, 0, 0), opcode, NoModrm, NoSib, <<>>, <<>>)
                ELSE Parts(Used, Unused, Unused, Rex(0, 0, 0, 1), opcode, NoModrm, NoSib, <<>>, <<>>)
  <1> DEFINE opcode == <<base + Low(reg)>>
             i == Parts(Unused, Unused, Unused, Rex(0, 0, 0, 0), opcode, NoModrm, NoSib, <<>>, <<>>)
             j == Parts(Used, Unused, Unused, Rex(0, 0, 0, 0), opcode, NoModrm, NoSib, <<>>, <<>>)
  <1>1. NewInstruction(<<base + regSpecifier(reg)>>) = i
    BY NewParts, Zenon DEF regSpecifier, Low
  <1>2. addRex(i) = j
    BY AddRexParts, SMT
  <1>3. /\ [i EXCEPT !.rex["b"] = 0] = i
        /\ [j EXCEPT !.rex["b"] = 1] =
             Parts(Used, Unused, Unused, Rex(0, 0, 0, 1), opcode, NoModrm, NoSib, <<>>, <<>>)
    BY SMT DEF Parts, Rex
  <1> HIDE DEF i, j
  <1>4. CASE Reg64(reg) < 8
    <2>1. write_push_pop_r64(base, reg) = [i EXCEPT !.rex["b"] = 0]
      BY <1>1, <1>2, <1>4, Zenon DEF write_push_pop_r64, updateRex
    <2> QED BY <2>1, <1>3, <1>4, Zenon DEF i
  <1>5. CASE ~(Reg64(reg) < 8)
    <2>1. write_push_pop_r64(base, reg) = [j EXCEPT !.rex["b"] = 1]
      BY <1>1, <1>2, <1>5, Zenon DEF write_push_pop_r64, updateRex
    <2> QED BY <2>1, <1>3, <1>5, Zenon
  <1> QED BY <1>4, <1>5

LEMMA WrittenJump ==
    ASSUME NEW opcode, NEW labelAddress, NEW offset
    PROVE  write_jump_rel32(opcode, labelAddress, offset) =
             Parts(Unused, Unused, Unused, Rex(0, 0, 0, 0), opcode, NoModrm, NoSib, <<>>,
                   LittleEndian(labelAddress - offset - (Len(opcode) + 4), 4))
  <1> DEFINE imm == LittleEndian(labelAddress - offset - (Len(opcode) + 4), 4)
             i   == Parts(Unused, Unused, Unused, Rex(0, 0, 0, 0), opcode, NoModrm, NoSib, <<>>, <<>>)
  <1> HIDE DEF imm
  <1>1. [i EXCEPT !.imm = imm] =
          Parts(Unused, Unused, Unused, Rex(0, 0, 0, 0), opcode, NoModrm, NoSib, <<>>, imm)
    BY SMT DEF Parts
  <1>2. NewInstruction(opcode) = i
    BY NewParts
  <1> HIDE DEF i
  <1> QED BY <1>1, <1>2, Zenon DEF write_jump_rel32, imm

-----------------------------------------------------------------------------
(* What the decoder makes of the forms that are written.                   *)
LEMMA RegisterParts ==
    ASSUME NEW reg \in Registers
    PROVE  High(reg) \in 0..1 /\ Low(reg) \in 0..7 /\ Low(reg) + 8 * High(reg) = Reg64(reg)
  <1>1. Reg64(reg) \in 0..15
    BY RegisterNumber
  <1> QED BY <1>1, RegisterBits DEF High, Low

(* An instruction on a register alone, with another one or with a number.  *)
OnRegister(r, b, o, reg, rm, d, at) ==
    LET code  == writeInstruction(Parts(Used, Used, Unused, Rex(1, r, 0, b), o, Modrm(3, reg, rm),
                                        NoSib, d, <<>>))
        rex   == Rex(1, r, 0, b)
        after == (at + 1) + Len(o)
    IN /\ code \in Seq(Bytes) /\ Len(code) = 2 + Len(o) + Len(d)
       /\ Placed(code, at) =>
             /\ Decode(at) = Decoded(CodeOf(o), rex, after)
             /\ AddressForm(after, rex) =
                  [operand |-> Register(rm + 8 * b), reg |-> reg, next |-> after + 1]
             /\ Placed(d, after + 1)

LEMMA ReadOnRegister ==
    ASSUME NEW r \in 0..1, NEW b \in 0..1, NEW o, IsOpcode(o), NEW reg \in 0..7, NEW rm \in 0..7,
           NEW d \in Seq(Bytes), NEW at \in Nat
    PROVE  OnRegister(r, b, o, reg, rm, d, at)
  <1> DEFINE code  == writeInstruction(Parts(Used, Used, Unused, Rex(1, r, 0, b), o, Modrm(3, reg, rm),
                                             NoSib, d, <<>>))
             rex   == Rex(1, r, 0, b)
             after == (at + 1) + Len(o)
  <1>1. o \in Seq(Bytes) /\ Len(o) \in Nat /\ Len(d) \in Nat /\ <<>> \in Seq(Bytes) /\ Len(<<>>) = 0
    BY OpcodeSequence
  <1>2. /\ code \in Seq(Bytes)
        /\ at + Len(code) = ((((at + 1) + Len(o)) + 1) + 0) + Len(d) + 0
        /\ Placed(code, at) =>
              /\ Byte(at) = 64 + 8 * 1 + 4 * r + 2 * 0 + b
              /\ Placed(o, at + 1)
              /\ Byte(at + 1 + Len(o)) = 64 * 3 + 8 * reg + rm
              /\ Placed(d, at + 1 + Len(o) + 1 + 0)
    <2>1. /\ IsRex(Rex(1, r, 0, b)) /\ IsModrm(Modrm(3, reg, rm)) /\ IsSib(NoSib)
          /\ IsFlag(Used) /\ IsFlag(Unused) /\ IsCode(o) /\ IsCode(d) /\ IsCode(<<>>)
      BY <1>1, Counts DEF IsRex, Rex, IsModrm, Modrm, IsSib, NoSib, Sib, IsFlag, IsCode
    <2>2. Laid(Used, Used, Unused, Rex(1, r, 0, b), o, Modrm(3, reg, rm), NoSib, d, <<>>, at)
      BY <2>1, Layout
    <2>3. /\ rexToByte(Rex(1, r, 0, b)) = 64 + 8 * 1 + 4 * r + 2 * 0 + b
          /\ modrmToByte(Modrm(3, reg, rm)) = 64 * 3 + 8 * reg + rm
      BY DEF rexToByte, Rex, modrmToByte, Modrm
    <2> QED BY <1>1, <2>2, <2>3, Counts DEF Laid
  <1>3. Len(code) = 2 + Len(o) + Len(d)
    BY <1>1, <1>2
  <1>4. ASSUME Placed(code, at)
        PROVE  /\ Decode(at) = Decoded(CodeOf(o), rex, after)
               /\ AddressForm(after, rex) =
                    [operand |-> Register(rm + 8 * b), reg |-> reg, next |-> after + 1]
               /\ Placed(d, after + 1)
    <2>1. /\ Byte(at) = 64 + 8 * 1 + 4 * r + 2 * 0 + b /\ Placed(o, at + 1)
          /\ Byte(after) = 64 * 3 + 8 * reg + rm /\ Placed(d, after + 1)
      BY <1>1, <1>2, <1>4
    <2>2. Decode(at) = Decoded(CodeOf(o), rex, after)
      BY <2>1, WithPrefix
    <2>3. after \in Nat /\ rex.b = b
      BY <1>1 DEF Rex
    <2>4. AddressForm(after, rex) = [operand |-> Register(rm + 8 * b), reg |-> reg, next |-> after + 1]
      <3> HIDE DEF after, rex
      <3> QED BY <2>1, <2>3, RegisterForm
    <2> QED BY <2>1, <2>2, <2>4
  <1> QED BY <1>2, <1>3, <1>4, Zenon DEF OnRegister

(* One with a prefix and without ModR/M, and one without either.           *)
OnOpcode(w, b, o, d, at) ==
    LET code  == writeInstruction(Parts(Used, Unused, Unused, Rex(w, 0, 0, b), o, NoModrm, NoSib, d, <<>>))
        after == (at + 1) + Len(o)
    IN /\ code \in Seq(Bytes) /\ Len(code) = 1 + Len(o) + Len(d)
       /\ Placed(code, at) =>
             Decode(at) = Decoded(CodeOf(o), Rex(w, 0, 0, b), after) /\ Placed(d, after)

LEMMA ReadOnOpcode ==
    ASSUME NEW w \in 0..1, NEW b \in 0..1, NEW o, IsOpcode(o), NEW d \in Seq(Bytes), NEW at \in Nat
    PROVE  OnOpcode(w, b, o, d, at)
  <1>1. o \in Seq(Bytes) /\ Len(o) \in Nat /\ Len(d) \in Nat /\ <<>> \in Seq(Bytes) /\ Len(<<>>) = 0
    BY OpcodeSequence
  <1>2. /\ IsRex(Rex(w, 0, 0, b)) /\ IsModrm(NoModrm) /\ IsSib(NoSib)
        /\ IsFlag(Used) /\ IsFlag(Unused) /\ IsCode(o) /\ IsCode(d) /\ IsCode(<<>>)
    BY <1>1, Counts DEF IsRex, Rex, IsModrm, NoModrm, Modrm, IsSib, NoSib, Sib, IsFlag, IsCode
  <1>3. Laid(Used, Unused, Unused, Rex(w, 0, 0, b), o, NoModrm, NoSib, d, <<>>, at)
    BY <1>2, Layout
  <1>4. rexToByte(Rex(w, 0, 0, b)) = 64 + 8 * w + 4 * 0 + 2 * 0 + b
    BY DEF rexToByte, Rex
  <1> DEFINE code  == writeInstruction(Parts(Used, Unused, Unused, Rex(w, 0, 0, b), o, NoModrm, NoSib, d, <<>>))
             after == (at + 1) + Len(o)
  <1>5. /\ code \in Seq(Bytes) /\ Len(code) = 1 + Len(o) + Len(d)
        /\ Placed(code, at) =>
              /\ Byte(at) = 64 + 8 * w + 4 * 0 + 2 * 0 + b
              /\ Placed(o, at + 1) /\ Placed(d, after)
    <2>1. /\ code \in Seq(Bytes)
          /\ at + Len(code) = ((((at + 1) + Len(o)) + 0) + 0) + Len(d) + 0
          /\ Placed(code, at) =>
                /\ Byte(at) = rexToByte(Rex(w, 0, 0, b))
                /\ Placed(o, at + 1)
                /\ Placed(d, at + 1 + Len(o) + 0 + 0)
      BY <1>1, <1>3, Counts DEF Laid
    <2>2. Len(code) = 1 + Len(o) + Len(d)
      BY <1>1, <2>1
    <2>3. at + 1 + Len(o) + 0 + 0 = after
      BY <1>1
    <2> QED BY <1>4, <2>1, <2>2, <2>3
  <1> HIDE DEF code
  <1>6. ASSUME Placed(code, at)
        PROVE  Decode(at) = Decoded(CodeOf(o), Rex(w, 0, 0, b), after)
    BY <1>5, <1>6, WithPrefix
  <1> QED BY <1>5, <1>6 DEF code, OnOpcode

PlainOpcode(o, n, at) ==
    LET code  == writeInstruction(Parts(Unused, Unused, Unused, Rex(0, 0, 0, 0), o, NoModrm, NoSib, <<>>, n))
        after == at + Len(o)
    IN /\ code \in Seq(Bytes) /\ Len(code) = Len(o) + Len(n)
       /\ Placed(code, at) =>
             Decode(at) = Decoded(CodeOf(o), Rex(0, 0, 0, 0), after) /\ Placed(n, after)

LEMMA ReadPlain ==
    ASSUME NEW o, IsOpcode(o), NEW n \in Seq(Bytes), NEW at \in Nat
    PROVE  PlainOpcode(o, n, at)
  <1>1. o \in Seq(Bytes) /\ Len(o) \in Nat /\ Len(n) \in Nat /\ <<>> \in Seq(Bytes) /\ Len(<<>>) = 0
    BY OpcodeSequence
  <1>2. /\ IsRex(Rex(0, 0, 0, 0)) /\ IsModrm(NoModrm) /\ IsSib(NoSib)
        /\ IsFlag(Unused) /\ IsCode(o) /\ IsCode(n) /\ IsCode(<<>>)
    BY <1>1, Counts DEF IsRex, Rex, IsModrm, NoModrm, Modrm, IsSib, NoSib, Sib, IsFlag, IsCode
  <1>3. Laid(Unused, Unused, Unused, Rex(0, 0, 0, 0), o, NoModrm, NoSib, <<>>, n, at)
    BY <1>2, Layout
  <1> DEFINE code  == writeInstruction(Parts(Unused, Unused, Unused, Rex(0, 0, 0, 0), o, NoModrm, NoSib, <<>>, n))
             after == at + Len(o)
  <1>4. /\ code \in Seq(Bytes) /\ Len(code) = Len(o) + Len(n)
        /\ Placed(code, at) => Placed(o, at) /\ Placed(n, after)
    BY <1>1, <1>3, Counts DEF Laid
  <1> HIDE DEF code
  <1>5. ASSUME Placed(code, at)
        PROVE  Decode(at) = Decoded(CodeOf(o), Rex(0, 0, 0, 0), after)
    BY <1>4, <1>5, WithoutPrefix
  <1> QED BY <1>4, <1>5 DEF code, PlainOpcode

-----------------------------------------------------------------------------
(* One kind of items after the other.                                      *)
Code(item, at) == writeInstruction(writeItem(item, at - 1))

Sound(item, at) ==
    /\ Code(item, at) \in Seq(Bytes) /\ Len(Code(item, at)) \in 1..15
    /\ item.size # 0 => Len(Code(item, at)) = item.size
    /\ Placed(Code(item, at), at) =>
          Decode(at) = [instruction |-> Meaning(item), next |-> at + Len(Code(item, at))]

LEMMA OneByte ==
    ASSUME NEW code \in Bytes \ ({15} \union 64..79)
    PROVE  IsOpcode(<<code>>) /\ CodeOf(<<code>>) = code /\ Len(<<code>>) = 1
  BY DEF IsOpcode, CodeOf

LEMMA TwoBytes ==
    ASSUME NEW code \in Bytes
    PROVE  IsOpcode(<<15, code>>) /\ CodeOf(<<15, code>>) = 256 + code /\ Len(<<15, code>>) = 2
  BY DEF IsOpcode, CodeOf

(* The opcodes with ModR/M, those with a register and the others.          *)
LEMMA Domains ==
    /\ DOMAIN ToRm = {1, 41, 49, 57, 133, 137} /\ DOMAIN FromRm = {139, 431} /\ DOMAIN Unary = 2..7
    /\ DOMAIN Relative = {232, 233, 388, 389, 396, 397, 398, 399} /\ DOMAIN Alone = {153, 195, 261}
  BY DEF ToRm, FromRm, Unary, Relative, Alone

LEMMA DecodedToRm ==
    ASSUME NEW code \in DOMAIN ToRm, NEW rex, rex.w = 1, NEW after
    PROVE  LET form == AddressForm(after, rex)
           IN Decoded(code, rex, after) =
                Read(ToRm[code], 64, form.operand, Register(form.reg + 8 * rex.r), 0, form.next)
  <1>1. code \in {1, 41, 49, 57, 133, 137}
    BY Domains
  <1>2. /\ code \notin 80..87 /\ code \notin 88..95 /\ code \notin DOMAIN FromRm
        /\ code # 129 /\ code # 247 /\ code # 193 /\ code \notin 184..191
        /\ code \notin DOMAIN Relative /\ code \notin DOMAIN Alone
    BY <1>1, Domains
  <1> QED BY <1>2, SMT DEF Decoded

LEMMA DecodedFromRm ==
    ASSUME NEW code \in DOMAIN FromRm, NEW rex, rex.w = 1, NEW after
    PROVE  LET form == AddressForm(after, rex)
           IN Decoded(code, rex, after) =
                Read(FromRm[code], 64, Register(form.reg + 8 * rex.r), form.operand, 0, form.next)
  <1>1. code \in {139, 431}
    BY Domains
  <1>2. /\ code \notin 80..87 /\ code \notin 88..95 /\ code \notin DOMAIN ToRm
        /\ code # 129 /\ code # 247 /\ code # 193 /\ code \notin 184..191
        /\ code \notin DOMAIN Relative /\ code \notin DOMAIN Alone
    BY <1>1, Domains
  <1> QED BY <1>2, SMT DEF Decoded

LEMMA DecodedNumber ==
    ASSUME NEW rex, rex.w = 1, NEW after
    PROVE  LET form == AddressForm(after, rex)
           IN Decoded(129, rex, after) =
                Read(Immediate[form.reg + 1], 64, form.operand, NoOperand,
                     Signed32(form.next), form.next + 4)
  <1>1. /\ 129 \notin 80..87 /\ 129 \notin 88..95 /\ 129 \notin DOMAIN ToRm /\ 129 \notin DOMAIN FromRm
        /\ 129 \notin 184..191 /\ 129 \notin DOMAIN Relative /\ 129 \notin DOMAIN Alone
    BY Domains
  <1> QED BY <1>1, SMT DEF Decoded

LEMMA DecodedUnary ==
    ASSUME NEW rex, rex.w = 1, NEW after, AddressForm(after, rex).reg \in DOMAIN Unary
    PROVE  LET form == AddressForm(after, rex)
           IN Decoded(247, rex, after) =
                Read(Unary[form.reg], 64, form.operand, NoOperand, 0, form.next)
  <1>1. /\ 247 \notin 80..87 /\ 247 \notin 88..95 /\ 247 \notin DOMAIN ToRm /\ 247 \notin DOMAIN FromRm
        /\ 247 \notin 184..191 /\ 247 \notin DOMAIN Relative /\ 247 \notin DOMAIN Alone
    BY Domains
  <1> QED BY <1>1, SMT DEF Decoded

LEMMA DecodedShift ==
    ASSUME NEW rex, rex.w = 1, NEW after, AddressForm(after, rex).reg = 4
    PROVE  LET form == AddressForm(after, rex)
           IN Decoded(193, rex, after) =
                Read("sal", 64, form.operand, NoOperand, Byte(form.next) % 64, form.next + 1)
  <1>1. /\ 193 \notin 80..87 /\ 193 \notin 88..95 /\ 193 \notin DOMAIN ToRm /\ 193 \notin DOMAIN FromRm
        /\ 193 \notin 184..191 /\ 193 \notin DOMAIN Relative /\ 193 \notin DOMAIN Alone
    BY Domains
  <1> QED BY <1>1, SMT DEF Decoded

LEMMA DecodedRegister ==
    ASSUME NEW low \in 0..7, NEW rex, NEW after
    PROVE  LET reg == Register(low + 8 * rex.b)
           IN /\ Decoded(80 + low, rex, after) = Read("push", 64, reg, NoOperand, 0, after)
              /\ Decoded(88 + low, rex, after) = Read("pop", 64, reg, NoOperand, 0, after)
              /\ rex.w = 1 => Decoded(184 + low, rex, after) =
                                 Read("mov", 64, reg, NoOperand, Signed64(after), after + 8)
  <1>1. /\ (80 + low) % 8 = low /\ (88 + low) % 8 = low /\ (184 + low) % 8 = low
        /\ 80 + low \in 80..87 /\ 88 + low \in 88..95 /\ 184 + low \in 184..191
    OBVIOUS
  <1>2. ASSUME NEW code \in 80..95
        PROVE  /\ code \notin DOMAIN ToRm /\ code \notin DOMAIN FromRm
               /\ code # 129 /\ code # 247 /\ code # 193 /\ code \notin 184..191
               /\ code \notin DOMAIN Relative /\ code \notin DOMAIN Alone
    BY Domains
  <1>3. ASSUME NEW code \in 80..87, code % 8 = low
        PROVE  Decoded(code, rex, after) = Read("push", 64, Register(low + 8 * rex.b), NoOperand, 0, after)
    <2>1. code \in 80..95 /\ code \notin 88..95
      OBVIOUS
    <2> QED BY <1>2, <1>3, <2>1, SMT DEF Decoded
  <1>4. ASSUME NEW code \in 88..95, code % 8 = low
        PROVE  Decoded(code, rex, after) = Read("pop", 64, Register(low + 8 * rex.b), NoOperand, 0, after)
    <2>1. code \in 80..95 /\ code \notin 80..87
      OBVIOUS
    <2> QED BY <1>2, <1>4, <2>1, SMT DEF Decoded
  <1>5. ASSUME NEW code \in 184..191, code % 8 = low, rex.w = 1
        PROVE  Decoded(code, rex, after) =
                 Read("mov", 64, Register(low + 8 * rex.b), NoOperand, Signed64(after), after + 8)
    <2>1. /\ code \notin 80..87 /\ code \notin 88..95 /\ code \notin DOMAIN ToRm /\ code \notin DOMAIN FromRm
          /\ code # 129 /\ code # 247 /\ code # 193
          /\ code \notin DOMAIN Relative /\ code \notin DOMAIN Alone
      BY Domains
    <2> QED BY <1>5, <2>1, SMT DEF Decoded
  <1> QED BY <1>1, <1>3, <1>4, <1>5

LEMMA DecodedRelative ==
    ASSUME NEW code \in DOMAIN Relative, NEW rex, NEW after
    PROVE  Decoded(code, rex, after) =
             Read(Relative[code], 64, NoOperand, NoOperand, after + 3 + Signed32(after), after + 4)
  <1>1. code \in {232, 233, 388, 389, 396, 397, 398, 399}
    BY Domains
  <1>2. /\ code \notin 80..87 /\ code \notin 88..95 /\ code \notin DOMAIN ToRm /\ code \notin DOMAIN FromRm
        /\ code # 129 /\ code # 247 /\ code # 193 /\ code \notin 184..191 /\ code \notin DOMAIN Alone
    BY <1>1, Domains
  <1> QED BY <1>2, SMT DEF Decoded

LEMMA DecodedAlone ==
    ASSUME NEW code \in DOMAIN Alone, NEW rex, code = 153 => rex.w = 1, NEW after
    PROVE  Decoded(code, rex, after) = Read(Alone[code], 64, NoOperand, NoOperand, 0, after)
  <1>1. code \in {153, 195, 261}
    BY Domains
  <1>2. /\ code \notin 80..87 /\ code \notin 88..95 /\ code \notin DOMAIN ToRm /\ code \notin DOMAIN FromRm
        /\ code # 129 /\ code # 247 /\ code # 193 /\ code \notin 184..191 /\ code \notin DOMAIN Relative
    BY <1>1, Domains
  <1> QED BY <1>2, SMT DEF Decoded

LEMMA Operations ==
    /\ DOMAIN OPCODE_R64_R64 = {"cmp0", "xor", "cmp", "add", "sub", "mov"}
    /\ DOMAIN OPCODE_REL32 = {"call", "jmp", "jz", "je", "jne", "jl", "jg", "jle", "jge"}
  BY DEF OPCODE_R64_R64, OPCODE_REL32

LEMMA R64R64Opcodes ==
    ASSUME NEW op \in DOMAIN OPCODE_R64_R64
    PROVE  \E code \in DOMAIN ToRm :
              /\ OPCODE_R64_R64[op] = <<code>> /\ code \in Bytes \ ({15} \union 64..79)
              /\ ToRm[code] = IF op = "cmp0" THEN "test" ELSE op
  <1>1. op \in {"cmp0", "xor", "cmp", "add", "sub", "mov"}
    BY Operations
  <1>2. /\ OPCODE_R64_R64["cmp0"] = <<133>> /\ OPCODE_R64_R64["xor"] = <<49>>
        /\ OPCODE_R64_R64["cmp"] = <<57>> /\ OPCODE_R64_R64["add"] = <<1>>
        /\ OPCODE_R64_R64["sub"] = <<41>> /\ OPCODE_R64_R64["mov"] = <<137>>
    BY DEF OPCODE_R64_R64
  <1>3. /\ ToRm[133] = "test" /\ ToRm[49] = "xor" /\ ToRm[57] = "cmp" /\ ToRm[1] = "add"
        /\ ToRm[41] = "sub" /\ ToRm[137] = "mov"
    BY DEF ToRm
  <1>4. \A code \in {1, 41, 49, 57, 133, 137} : code \in Bytes \ ({15} \union 64..79) /\ code \in DOMAIN ToRm
    BY Domains DEF Bytes
  <1> QED BY <1>1, <1>2, <1>3, <1>4

LEMMA SoundR64R64 ==
    ASSUME NEW op \in DOMAIN OPCODE_R64_R64, NEW r1 \in Registers, NEW r2 \in Registers, NEW at \in Nat
    PROVE  Sound(Plain(3, op, r1, r2, 0), at)
  <1> DEFINE item == Plain(3, op, r1, r2, 0)
             opcode == OPCODE_R64_R64[op]
             i == Parts(Used, Used, Unused, Rex(1, High(r2), 0, High(r1)), opcode,
                        Modrm(3, Low(r2), Low(r1)), NoSib, <<>>, <<>>)
             rex == Rex(1, High(r2), 0, High(r1))
             after == (at + 1) + Len(opcode)
             name == IF op = "cmp0" THEN "test" ELSE op
             meant == Instruction(name, 64, Register(Reg64(r1)), Register(Reg64(r2)), 0)
  <1>1. op \in {"cmp0", "xor", "cmp", "add", "sub", "mov"}
    BY Operations
  <1>2. item.size = 3 /\ item.ins.op = op /\ item.ins.dst = r1 /\ item.ins.src = r2
    BY DEF Plain, Item, Ins
  <1> HIDE DEF item
  <1>3. writeItem(item, at - 1) = write_instruction_r64_r64(opcode, r1, r2)
    BY <1>1, <1>2, Operations, SMTT(30) DEF writeItem
  <1>4. Code(item, at) = writeInstruction(i)
    BY <1>3, WrittenR64R64, Zenon DEF Code
  <1>5. Meaning(item) = meant
    BY <1>1, <1>2, SMT DEF Meaning
  <1>6. PICK code \in DOMAIN ToRm :
              /\ opcode = <<code>> /\ code \in Bytes \ ({15} \union 64..79) /\ ToRm[code] = name
    BY R64R64Opcodes
  <1>7. IsOpcode(opcode) /\ CodeOf(opcode) = code /\ Len(opcode) = 1
    BY <1>6, OneByte
  <1> HIDE DEF opcode, name
  <1>8. /\ High(r1) \in 0..1 /\ High(r2) \in 0..1 /\ Low(r1) \in 0..7 /\ Low(r2) \in 0..7
        /\ Low(r1) + 8 * High(r1) = Reg64(r1) /\ Low(r2) + 8 * High(r2) = Reg64(r2)
    BY RegisterParts
  <1>9. <<>> \in Seq(Bytes) /\ Len(<<>>) = 0
    OBVIOUS
  <1>10. /\ Code(item, at) \in Seq(Bytes) /\ Len(Code(item, at)) = 2 + Len(opcode) + Len(<<>>)
         /\ Placed(Code(item, at), at) =>
              /\ Decode(at) = Decoded(CodeOf(opcode), rex, after)
              /\ AddressForm(after, rex) =
                   [operand |-> Register(Low(r1) + 8 * High(r1)), reg |-> Low(r2), next |-> after + 1]
    <2>1. OnRegister(High(r2), High(r1), opcode, Low(r2), Low(r1), <<>>, at)
      BY <1>7, <1>8, <1>9, ReadOnRegister
    <2> QED BY <1>4, <2>1 DEF OnRegister
  <1>11. ASSUME Placed(Code(item, at), at)
         PROVE  Decode(at) = [instruction |-> meant, next |-> at + 3]
    <2> DEFINE form == AddressForm(after, rex)
    <2>1. Decode(at) = Decoded(code, rex, after)
      BY <1>7, <1>10, <1>11
    <2>2. form.operand = Register(Reg64(r1)) /\ form.reg = Low(r2) /\ form.next = at + 3
      BY <1>7, <1>8, <1>10, <1>11
    <2>3. rex.w = 1 /\ rex.r = High(r2)
      BY DEF Rex
    <2>4. Decoded(code, rex, after) =
            Read(ToRm[code], 64, form.operand, Register(form.reg + 8 * rex.r), 0, form.next)
      <3> HIDE DEF rex, after
      <3> QED BY <2>3, DecodedToRm
    <2> HIDE DEF form, rex, after
    <2> QED BY <1>6, <1>8, <2>1, <2>2, <2>3, <2>4 DEF Read
  <1>12. Len(Code(item, at)) = 3
    BY <1>7, <1>9, <1>10
  <1>13. Sound(item, at)
    <2> HIDE DEF meant
    <2>1. 3 \in 1..15
      OBVIOUS
    <2> QED BY <1>2, <1>5, <1>10, <1>11, <1>12, <2>1, Zenon DEF Sound
  <1> QED BY <1>13 DEF item

LEMMA SoundImul ==
    ASSUME NEW r1 \in Registers, NEW r2 \in Registers, NEW at \in Nat
    PROVE  Sound(imul(r1, r2), at)
  <1> DEFINE item == imul(r1, r2)
             opcode == <<15, 175>>
             rex == Rex(1, High(r1), 0, High(r2))
             after == (at + 1) + Len(opcode)
             meant == Instruction("imul", 64, Register(Reg64(r1)), Register(Reg64(r2)), 0)
  <1>1. item.size = 4 /\ item.ins.op = "imul" /\ item.ins.dst = r1 /\ item.ins.src = r2
    BY DEF imul, Plain, Item, Ins
  <1> HIDE DEF item
  <1>2. writeItem(item, at - 1) = write_instruction_r64_r64(opcode, r2, r1)
    <2>1. writeItem(item, at - 1) = write_imul_r64_r64(item.ins)
      BY <1>1, Operations, SMTT(30) DEF writeItem
    <2> QED BY <1>1, <2>1, Zenon DEF write_imul_r64_r64
  <1>3. Code(item, at) =
          writeInstruction(Parts(Used, Used, Unused, rex, opcode, Modrm(3, Low(r1), Low(r2)), NoSib, <<>>, <<>>))
    BY <1>2, WrittenR64R64, Zenon DEF Code
  <1>4. Meaning(item) = meant
    BY <1>1, SMT DEF Meaning
  <1>5. IsOpcode(opcode) /\ CodeOf(opcode) = 431 /\ Len(opcode) = 2
    BY TwoBytes DEF Bytes
  <1> HIDE DEF opcode
  <1>6. /\ High(r1) \in 0..1 /\ High(r2) \in 0..1 /\ Low(r1) \in 0..7 /\ Low(r2) \in 0..7
        /\ Low(r1) + 8 * High(r1) = Reg64(r1) /\ Low(r2) + 8 * High(r2) = Reg64(r2)
    BY RegisterParts
  <1>7. <<>> \in Seq(Bytes) /\ Len(<<>>) = 0
    OBVIOUS
  <1>8. /\ Code(item, at) \in Seq(Bytes) /\ Len(Code(item, at)) = 4
        /\ Placed(Code(item, at), at) =>
             /\ Decode(at) = Decoded(431, rex, after)
             /\ AddressForm(after, rex) =
                  [operand |-> Register(Low(r2) + 8 * High(r2)), reg |-> Low(r1), next |-> after + 1]
    <2>1. OnRegister(High(r1), High(r2), opcode, Low(r1), Low(r2), <<>>, at)
      BY <1>5, <1>6, <1>7, ReadOnRegister
    <2> QED BY <1>3, <1>5, <1>7, <2>1 DEF OnRegister
  <1>9. ASSUME Placed(Code(item, at), at)
        PROVE  Decode(at) = [instruction |-> meant, next |-> at + 4]
    <2> DEFINE form == AddressForm(after, rex)
    <2>1. Decode(at) = Decoded(431, rex, after)
      BY <1>8, <1>9
    <2>2. form.operand = Register(Reg64(r2)) /\ form.reg = Low(r1) /\ form.next = at + 4
      BY <1>5, <1>6, <1>8, <1>9
    <2>3. rex.w = 1 /\ rex.r = High(r1) /\ 431 \in DOMAIN FromRm /\ FromRm[431] = "imul"
      BY Domains DEF Rex, FromRm
    <2>4. Decoded(431, rex, after) =
            Read(FromRm[431], 64, Register(form.reg + 8 * rex.r), form.operand, 0, form.next)
      <3> HIDE DEF rex, after
      <3> QED BY <2>3, DecodedFromRm
    <2> HIDE DEF form, rex, after
    <2> QED BY <1>6, <2>1, <2>2, <2>3, <2>4 DEF Read
  <1>10. Sound(item, at)
    <2> HIDE DEF meant
    <2>1. 4 \in 1..15
      OBVIOUS
    <2> QED BY <1>1, <1>4, <1>8, <1>9, <2>1, Zenon DEF Sound
  <1> QED BY <1>10 DEF item

(* idiv and neg, add and sub with a number, and shifts: what is common.    *)
OneRegister(item, r, code, extension, d, at) ==
    LET rex  == Rex(1, 0, 0, High(r))
        form == AddressForm(at + 2, rex)
    IN /\ Code(item, at) \in Seq(Bytes) /\ Len(Code(item, at)) = 3 + Len(d) /\ rex.w = 1
       /\ Placed(Code(item, at), at) =>
             /\ Decode(at) = Decoded(code, rex, at + 2)
             /\ form.operand = Register(Reg64(r)) /\ form.reg = extension /\ form.next = at + 3
             /\ Placed(d, at + 3)

LEMMA OnOneRegister ==
    ASSUME NEW item, NEW r \in Registers, NEW at \in Nat, NEW code \in Bytes \ ({15} \union 64..79),
           NEW extension \in 0..7, NEW d \in Seq(Bytes),
           writeItem(item, at - 1) =
             Parts(Used, Used, Unused, Rex(1, 0, 0, High(r)), <<code>>, Modrm(3, extension, Low(r)), NoSib, d, <<>>)
    PROVE  OneRegister(item, r, code, extension, d, at)
  <1> DEFINE rex == Rex(1, 0, 0, High(r))
             opcode == <<code>>
             form == AddressForm(at + 2, rex)
  <1>1. IsOpcode(opcode) /\ CodeOf(opcode) = code /\ Len(opcode) = 1
    BY OneByte
  <1>2. Code(item, at) =
          writeInstruction(Parts(Used, Used, Unused, rex, opcode, Modrm(3, extension, Low(r)), NoSib, d, <<>>))
    BY Zenon DEF Code
  <1> HIDE DEF opcode
  <1>3. High(r) \in 0..1 /\ Low(r) \in 0..7 /\ Low(r) + 8 * High(r) = Reg64(r) /\ 0 \in 0..1
    BY RegisterParts
  <1>4. OnRegister(0, High(r), opcode, extension, Low(r), d, at)
    BY <1>1, <1>3, ReadOnRegister
  <1>5. (at + 1) + Len(opcode) = at + 2 /\ (at + 2) + 1 = at + 3 /\ Len(d) \in Nat
    BY <1>1
  <1>6. /\ Code(item, at) \in Seq(Bytes) /\ Len(Code(item, at)) = 3 + Len(d)
        /\ Placed(Code(item, at), at) =>
              /\ Decode(at) = Decoded(code, rex, at + 2)
              /\ form = [operand |-> Register(Low(r) + 8 * High(r)), reg |-> extension, next |-> at + 3]
              /\ Placed(d, at + 3)
    BY <1>1, <1>2, <1>4, <1>5 DEF OnRegister
  <1>7. rex.w = 1
    BY DEF Rex
  <1> HIDE DEF form, rex
  <1>8. Placed(Code(item, at), at) =>
              /\ Decode(at) = Decoded(code, rex, at + 2)
              /\ form.operand = Register(Reg64(r)) /\ form.reg = extension /\ form.next = at + 3
              /\ Placed(d, at + 3)
    BY <1>3, <1>6
  <1> QED BY <1>6, <1>7, <1>8 DEF form, rex, OneRegister

LEMMA SoundUnary ==
    ASSUME NEW op \in {"idiv", "neg"}, NEW r \in Registers, NEW at \in Nat
    PROVE  Sound(Plain(3, op, r, "", 0), at)
  <1> DEFINE item == Plain(3, op, r, "", 0)
             extension == IF op = "idiv" THEN 7 ELSE 3
             rex == Rex(1, 0, 0, High(r))
             form == AddressForm(at + 2, rex)
             d == <<>>
             meant == Instruction(op, 64, Register(Reg64(r)), NoOperand, 0)
  <1>1. item.size = 3 /\ item.ins.op = op /\ item.ins.dst = r /\ item.ins.imm = 0
    BY DEF Plain, Item, Ins
  <1> HIDE DEF item
  <1>2. writeItem(item, at - 1) = write_instruction_r64(<<247>>, extension, r)
    BY <1>1, Operations, SMTT(30) DEF writeItem
  <1>3. Meaning(item) = meant
    BY <1>1, SMT DEF Meaning
  <1>4. extension \in DOMAIN Unary /\ extension \in 0..7 /\ Unary[extension] = op
    BY Domains DEF Unary
  <1> HIDE DEF extension
  <1>5. 247 \in Bytes \ ({15} \union 64..79) /\ d \in Seq(Bytes)
    BY DEF Bytes
  <1>6. Len(d) = 0
    OBVIOUS
  <1>7. writeItem(item, at - 1) =
          Parts(Used, Used, Unused, Rex(1, 0, 0, High(r)), <<247>>, Modrm(3, extension, Low(r)), NoSib, d, <<>>)
    BY <1>2, WrittenR64, Zenon
  <1> HIDE DEF d
  <1>8. /\ Code(item, at) \in Seq(Bytes) /\ Len(Code(item, at)) = 3 + Len(d) /\ rex.w = 1
        /\ Placed(Code(item, at), at) =>
              /\ Decode(at) = Decoded(247, rex, at + 2)
              /\ form.operand = Register(Reg64(r)) /\ form.reg = extension /\ form.next = at + 3
    <2>1. OneRegister(item, r, 247, extension, d, at)
      BY <1>4, <1>5, <1>7, OnOneRegister
    <2> QED BY <2>1 DEF OneRegister
  <1> HIDE DEF rex
  <1>9. ASSUME Placed(Code(item, at), at)
        PROVE  Decode(at) = [instruction |-> meant, next |-> at + 3]
    <2>1. Decoded(247, rex, at + 2) = Read(Unary[form.reg], 64, form.operand, NoOperand, 0, form.next)
      BY <1>4, <1>8, <1>9, DecodedUnary
    <2> HIDE DEF form
    <2> QED BY <1>4, <1>8, <1>9, <2>1 DEF Read
  <1>10. Len(Code(item, at)) = 3 /\ 3 \in 1..15
    BY <1>6, <1>8
  <1>11. Sound(item, at)
    <2> HIDE DEF meant
    <2> QED BY <1>1, <1>3, <1>8, <1>9, <1>10, Zenon DEF Sound
  <1> QED BY <1>11 DEF item

LEMMA SoundNumber ==
    ASSUME NEW op \in {"addImm", "subImm"}, NEW r \in Registers, NEW number \in INT32, NEW at \in Nat
    PROVE  Sound(Plain(7, op, r, "", number), at)
  <1> DEFINE item == Plain(7, op, r, "", number)
             extension == IF op = "addImm" THEN 0 ELSE 5
             name == IF op = "addImm" THEN "add" ELSE "sub"
             rex == Rex(1, 0, 0, High(r))
             form == AddressForm(at + 2, rex)
             d == UInt32(number)
             meant == Instruction(name, 64, Register(Reg64(r)), NoOperand, number)
  <1>1. item.size = 7 /\ item.ins.op = op /\ item.ins.dst = r /\ item.ins.imm = number
    BY DEF Plain, Item, Ins
  <1> HIDE DEF item
  <1>2. writeItem(item, at - 1) = WithDisp(write_instruction_r64(<<129>>, extension, r), number, 4)
    BY <1>1, Operations, SMTT(30) DEF writeItem
  <1>3. Meaning(item) = meant
    BY <1>1, SMT DEF Meaning
  <1>4. extension \in 0..7 /\ Immediate[extension + 1] = name
    BY DEF Immediate
  <1> HIDE DEF extension, name
  <1>5. 129 \in Bytes \ ({15} \union 64..79) /\ number \in Int /\ d \in Seq(Bytes) /\ Len(d) = 4
    BY UInt32Bytes DEF Bytes, INT32
  <1>6. writeItem(item, at - 1) =
          Parts(Used, Used, Unused, Rex(1, 0, 0, High(r)), <<129>>, Modrm(3, extension, Low(r)), NoSib, d, <<>>)
    <2>1. LittleEndian(number, 4) = d
      BY SMT DEF LittleEndian
    <2> HIDE DEF d
    <2> QED BY <1>2, <2>1, WrittenR64, WrittenDisp
  <1> HIDE DEF d
  <1>7. /\ Code(item, at) \in Seq(Bytes) /\ Len(Code(item, at)) = 3 + Len(d) /\ rex.w = 1
        /\ Placed(Code(item, at), at) =>
              /\ Decode(at) = Decoded(129, rex, at + 2)
              /\ form.operand = Register(Reg64(r)) /\ form.reg = extension /\ form.next = at + 3
              /\ Placed(d, at + 3)
    <2>1. OneRegister(item, r, 129, extension, d, at)
      BY <1>4, <1>5, <1>6, OnOneRegister
    <2> QED BY <2>1 DEF OneRegister
  <1> HIDE DEF rex
  <1>8. ASSUME Placed(Code(item, at), at)
        PROVE  Decode(at) = [instruction |-> meant, next |-> at + 7]
    <2>1. Decoded(129, rex, at + 2) =
            Read(Immediate[form.reg + 1], 64, form.operand, NoOperand, Signed32(form.next), form.next + 4)
      BY <1>7, DecodedNumber
    <2>2. Signed32(at + 3) = number
      BY <1>7, <1>8, ReadSigned32 DEF d
    <2>3. (at + 3) + 4 = at + 7
      OBVIOUS
    <2> HIDE DEF form
    <2> QED BY <1>4, <1>7, <1>8, <2>1, <2>2, <2>3 DEF Read
  <1>9. Len(Code(item, at)) = 7 /\ 7 \in 1..15
    BY <1>5, <1>7
  <1>10. Sound(item, at)
    <2> HIDE DEF meant
    <2> QED BY <1>1, <1>3, <1>7, <1>8, <1>9, Zenon DEF Sound
  <1> QED BY <1>10 DEF item

LEMMA SoundShift ==
    ASSUME NEW r \in Registers, NEW number \in 0..63, NEW at \in Nat
    PROVE  Sound(sal(r, number), at)
  <1> DEFINE item == sal(r, number)
             rex == Rex(1, 0, 0, High(r))
             form == AddressForm(at + 2, rex)
             d == <<number>>
             meant == Instruction("sal", 64, Register(Reg64(r)), NoOperand, number)
  <1>1. item.size = 4 /\ item.ins.op = "sal" /\ item.ins.dst = r /\ item.ins.imm = number
    BY DEF sal, Plain, Item, Ins
  <1> HIDE DEF item
  <1>2. writeItem(item, at - 1) = WithDisp(write_instruction_r64(<<193>>, 4, r), number, 1)
    BY <1>1, Operations, SMTT(30) DEF writeItem
  <1>3. Meaning(item) = meant
    BY <1>1, SMT DEF Meaning
  <1>4. /\ 193 \in Bytes \ ({15} \union 64..79) /\ 4 \in 0..7 /\ number \in Bytes /\ d \in Seq(Bytes) /\ Len(d) = 1
        /\ d[1] = number /\ number % 64 = number /\ number % 256 = number
    BY DEF Bytes
  <1>5. writeItem(item, at - 1) =
          Parts(Used, Used, Unused, Rex(1, 0, 0, High(r)), <<193>>, Modrm(3, 4, Low(r)), NoSib, d, <<>>)
    <2>1. LittleEndian(number, 1) = d
      BY <1>4, SMT DEF LittleEndian
    <2> HIDE DEF d
    <2> QED BY <1>2, <2>1, WrittenR64, WrittenDisp
  <1> HIDE DEF d
  <1>6. /\ Code(item, at) \in Seq(Bytes) /\ Len(Code(item, at)) = 3 + Len(d) /\ rex.w = 1
        /\ Placed(Code(item, at), at) =>
              /\ Decode(at) = Decoded(193, rex, at + 2)
              /\ form.operand = Register(Reg64(r)) /\ form.reg = 4 /\ form.next = at + 3
              /\ Placed(d, at + 3)
    <2>1. OneRegister(item, r, 193, 4, d, at)
      BY <1>4, <1>5, OnOneRegister
    <2> QED BY <2>1 DEF OneRegister
  <1> HIDE DEF rex
  <1>7. ASSUME Placed(Code(item, at), at)
        PROVE  Decode(at) = [instruction |-> meant, next |-> at + 4]
    <2>1. Decoded(193, rex, at + 2) =
            Read("sal", 64, form.operand, NoOperand, Byte(form.next) % 64, form.next + 1)
      BY <1>6, <1>7, DecodedShift
    <2>2. Byte(at + 3) = number
      <3>1. 1 \in 1..Len(d) /\ (at + 3) + 1 - 1 = at + 3
        BY <1>4
      <3> QED BY <1>4, <1>6, <1>7, <3>1 DEF Placed
    <2>3. (at + 3) + 1 = at + 4
      OBVIOUS
    <2> HIDE DEF form
    <2> QED BY <1>4, <1>6, <1>7, <2>1, <2>2, <2>3 DEF Read
  <1>8. Len(Code(item, at)) = 4 /\ 4 \in 1..15
    BY <1>4, <1>6
  <1>9. Sound(item, at)
    <2> HIDE DEF meant
    <2> QED BY <1>1, <1>3, <1>6, <1>7, <1>8, Zenon DEF Sound
  <1> QED BY <1>9 DEF item

(* A high register needs the prefix: one byte that the linker, who would   *)
(* count one for push and pop, is not told of.                             *)
LEMMA SoundPushPop ==
    ASSUME NEW op \in {"push", "pop"}, NEW r \in Registers, NEW at \in Nat
    PROVE  Sound(OnStack(Plain(1, op, r, "", 0), r), at)
  <1> DEFINE item == OnStack(Plain(1, op, r, "", 0), r)
             base == IF op = "push" THEN 80 ELSE 88
             code == base + Low(r)
             o == <<code>>
             d == <<>>
             meant == Instruction(op, 64, Register(Reg64(r)), NoOperand, 0)
  <1>1. /\ item.size = IF Reg64(r) < 8 THEN 1 ELSE 0
        /\ item.ins.op = op /\ item.ins.dst = r /\ item.ins.imm = 0
    BY DEF OnStack, Plain, Item, Ins
  <1> HIDE DEF item
  <1>2. writeItem(item, at - 1) = write_push_pop_r64(base, r)
    BY <1>1, Operations, SMTT(30) DEF writeItem
  <1>3. Meaning(item) = meant
    BY <1>1, SMT DEF Meaning
  <1>4. High(r) \in 0..1 /\ Low(r) \in 0..7 /\ Low(r) + 8 * High(r) = Reg64(r)
    BY RegisterParts
  <1>5. code \in Bytes \ ({15} \union 64..79)
    BY <1>4 DEF Bytes
  <1>6. IsOpcode(o) /\ CodeOf(o) = code /\ Len(o) = 1
    <2> HIDE DEF code
    <2> QED BY <1>5, OneByte
  <1>7. ASSUME NEW rex, rex.b = High(r), NEW after
        PROVE  Decoded(code, rex, after) = [instruction |-> meant, next |-> after]
    <2>1. Decoded(code, rex, after) = Read(op, 64, Register(Low(r) + 8 * rex.b), NoOperand, 0, after)
      BY <1>4, DecodedRegister
    <2> QED BY <1>4, <1>7, <2>1 DEF Read
  <1>8. d \in Seq(Bytes)
    OBVIOUS
  <1>9. Len(d) = 0
    OBVIOUS
  <1>10. write_push_pop_r64(base, r) =
           IF Reg64(r) < 8
           THEN Parts(Unused, Unused, Unused, Rex(0, 0, 0, 0), o, NoModrm, NoSib, <<>>, d)
           ELSE Parts(Used, Unused, Unused, Rex(0, 0, 0, 1), o, NoModrm, NoSib, d, <<>>)
    BY WrittenPushPop, Zenon
  <1> HIDE DEF d, o, code, base, meant
  <1>11. Reg64(r) < 8 => Sound(item, at)
    <2> HAVE Reg64(r) < 8
    <2>1. PlainOpcode(o, d, at)
      BY <1>6, <1>8, ReadPlain
    <2>2. Code(item, at) =
            writeInstruction(Parts(Unused, Unused, Unused, Rex(0, 0, 0, 0), o, NoModrm, NoSib, <<>>, d))
      BY <1>2, <1>10, Zenon DEF Code
    <2>3. /\ Code(item, at) \in Seq(Bytes) /\ Len(Code(item, at)) = 1
          /\ Placed(Code(item, at), at) => Decode(at) = Decoded(code, Rex(0, 0, 0, 0), at + 1)
      BY <1>6, <1>9, <2>1, <2>2 DEF PlainOpcode
    <2>4. Rex(0, 0, 0, 0).b = High(r)
      BY DEF Rex, High
    <2>5. Placed(Code(item, at), at) => Decode(at) = [instruction |-> meant, next |-> at + 1]
      BY <1>7, <2>3, <2>4
    <2>6. item.size = 1 /\ 1 \in 1..15
      BY <1>1
    <2> QED BY <1>3, <2>3, <2>5, <2>6, Zenon DEF Sound
  <1>12. ~(Reg64(r) < 8) => Sound(item, at)
    <2> HAVE ~(Reg64(r) < 8)
    <2>1. OnOpcode(0, 1, o, d, at)
      BY <1>6, <1>8, ReadOnOpcode
    <2>2. Code(item, at) =
            writeInstruction(Parts(Used, Unused, Unused, Rex(0, 0, 0, 1), o, NoModrm, NoSib, d, <<>>))
      BY <1>2, <1>10, Zenon DEF Code
    <2>3. /\ Code(item, at) \in Seq(Bytes) /\ Len(Code(item, at)) = 2
          /\ Placed(Code(item, at), at) => Decode(at) = Decoded(code, Rex(0, 0, 0, 1), at + 2)
      <3>1. (at + 1) + 1 = at + 2 /\ 1 + 1 + 0 = 2
        OBVIOUS
      <3> QED BY <1>6, <1>9, <2>1, <2>2, <3>1 DEF OnOpcode
    <2>4. Rex(0, 0, 0, 1).b = High(r)
      BY DEF Rex, High
    <2>5. Placed(Code(item, at), at) => Decode(at) = [instruction |-> meant, next |-> at + 2]
      BY <1>7, <2>3, <2>4
    <2>6. item.size = 0 /\ 2 \in 1..15
      BY <1>1
    <2> QED BY <1>3, <2>3, <2>5, <2>6, Zenon DEF Sound
  <1> QED BY <1>11, <1>12 DEF item

(* cqo, ret and syscall.                                                   *)
IsAlone(item) ==
    /\ item.ins.op \in {"cqo", "ret", "syscall"}
    /\ item.size = IF item.ins.op = "ret" THEN 1 ELSE 2

LEMMA SoundAlone ==
    ASSUME NEW item, IsAlone(item), NEW at \in Nat
    PROVE  Sound(item, at)
  <1> DEFINE d == <<>>
  <1>1. d \in Seq(Bytes)
    OBVIOUS
  <1>2. Len(d) = 0
    OBVIOUS
  <1>3. /\ 153 \in DOMAIN Alone /\ Alone[153] = "cqo" /\ 195 \in DOMAIN Alone /\ Alone[195] = "ret"
        /\ 261 \in DOMAIN Alone /\ Alone[261] = "syscall"
    BY Domains DEF Alone
  <1>4. 1 \in 1..15 /\ 2 \in 1..15
    OBVIOUS
  <1>5. /\ (item.ins.op = "cqo" /\ item.size = 2) \/ (item.ins.op = "ret" /\ item.size = 1)
             \/ (item.ins.op = "syscall" /\ item.size = 2)
    BY DEF IsAlone
  <1>6. Meaning(item) = Instruction(item.ins.op, 64, NoOperand, NoOperand, 0)
    BY <1>5, SMT DEF Meaning
  <1>7. CASE item.ins.op = "cqo" /\ item.size = 2
    <2> DEFINE o == <<153>>
    <2>1. writeItem(item, at - 1) = write_cqo
      BY <1>7, Operations, SMTT(30) DEF writeItem
    <2>2. Code(item, at) =
            writeInstruction(Parts(Used, Unused, Unused, Rex(1, 0, 0, 0), o, NoModrm, NoSib, d, <<>>))
      BY <2>1, NewLong, Zenon DEF Code, write_cqo
    <2>3. IsOpcode(o) /\ CodeOf(o) = 153 /\ Len(o) = 1
      BY OneByte DEF Bytes
    <2> HIDE DEF o, d
    <2>4. OnOpcode(1, 0, o, d, at)
      BY <1>1, <2>3, ReadOnOpcode
    <2>5. /\ Code(item, at) \in Seq(Bytes) /\ Len(Code(item, at)) = 2
          /\ Placed(Code(item, at), at) => Decode(at) = Decoded(153, Rex(1, 0, 0, 0), at + 2)
      <3>1. (at + 1) + 1 = at + 2 /\ 1 + 1 + 0 = 2
        OBVIOUS
      <3> QED BY <1>2, <2>2, <2>3, <2>4, <3>1 DEF OnOpcode
    <2>6. Decoded(153, Rex(1, 0, 0, 0), at + 2) = Read(item.ins.op, 64, NoOperand, NoOperand, 0, at + 2)
      <3>1. Rex(1, 0, 0, 0).w = 1
        BY DEF Rex
      <3> QED BY <1>3, <1>7, <3>1, DecodedAlone
    <2> QED BY <1>4, <1>6, <1>7, <2>5, <2>6, Zenon DEF Sound, Read
  <1>8. ASSUME NEW o, IsOpcode(o), CodeOf(o) \in DOMAIN Alone \ {153}, Alone[CodeOf(o)] = item.ins.op,
               Len(o) = item.size, Len(o) \in 1..2, writeItem(item, at - 1) = NewInstruction(o)
        PROVE  Sound(item, at)
    <2>1. Code(item, at) =
            writeInstruction(Parts(Unused, Unused, Unused, Rex(0, 0, 0, 0), o, NoModrm, NoSib, <<>>, d))
      BY <1>8, NewParts, Zenon DEF Code
    <2> HIDE DEF d
    <2>2. PlainOpcode(o, d, at)
      BY <1>1, <1>8, ReadPlain
    <2>3. /\ Code(item, at) \in Seq(Bytes) /\ Len(Code(item, at)) = Len(o)
          /\ Placed(Code(item, at), at) => Decode(at) = Decoded(CodeOf(o), Rex(0, 0, 0, 0), at + Len(o))
      BY <1>2, <1>8, <2>1, <2>2 DEF PlainOpcode
    <2>4. Decoded(CodeOf(o), Rex(0, 0, 0, 0), at + Len(o)) =
            Read(item.ins.op, 64, NoOperand, NoOperand, 0, at + Len(o))
      BY <1>8, DecodedAlone
    <2>5. Len(o) \in 1..15
      BY <1>8
    <2> QED BY <1>6, <1>8, <2>3, <2>4, <2>5, Zenon DEF Sound, Read
  <1>9. CASE item.ins.op = "ret" /\ item.size = 1
    <2>1. writeItem(item, at - 1) = NewInstruction(<<195>>)
      BY <1>9, Operations, SMTT(30) DEF writeItem
    <2>2. IsOpcode(<<195>>) /\ CodeOf(<<195>>) = 195 /\ Len(<<195>>) = 1
      BY OneByte DEF Bytes
    <2>3. 195 # 153 /\ 1 \in 1..2
      OBVIOUS
    <2> QED BY <1>3, <1>8, <1>9, <2>1, <2>2, <2>3
  <1>10. CASE item.ins.op = "syscall" /\ item.size = 2
    <2>1. writeItem(item, at - 1) = NewInstruction(<<15, 5>>)
      BY <1>10, Operations, SMTT(30) DEF writeItem
    <2>2. IsOpcode(<<15, 5>>) /\ CodeOf(<<15, 5>>) = 261 /\ Len(<<15, 5>>) = 2
      BY TwoBytes DEF Bytes
    <2>3. 261 # 153 /\ 2 \in 1..2
      OBVIOUS
    <2> QED BY <1>3, <1>8, <1>10, <2>1, <2>2, <2>3
  <1> QED BY <1>5, <1>7, <1>9, <1>10

(* A number of 64 bits in a register, which may be an address.             *)
IsLongMove(item, r, number, at) ==
    /\ writeItem(item, at - 1) = write_mov_r64_imm64(r, number)
    /\ Meaning(item) = Instruction("mov", 64, Register(Reg64(r)), NoOperand, number)
    /\ item.size = 10

LEMMA SoundLongMove ==
    ASSUME NEW item, NEW r \in Registers, NEW number \in INT64, NEW at \in Nat,
           IsLongMove(item, r, number, at)
    PROVE  Sound(item, at)
  <1> DEFINE low == UInt32(number)
             high == UInt32(Upper(number))
             code == 184 + Low(r)
             o == <<code>>
             d == low \o high
             rex == Rex(1, 0, 0, High(r))
  <1>1. number \in Int /\ Upper(number) \in Int
    BY DEF INT64, INT32
  <1>2. low \in Seq(Bytes) /\ Len(low) = 4 /\ high \in Seq(Bytes) /\ Len(high) = 4
    BY <1>1, UInt32Bytes
  <1>3. LittleEndian(number, 8) = d
    BY SMT DEF LittleEndian
  <1>4. High(r) \in 0..1 /\ Low(r) \in 0..7 /\ Low(r) + 8 * High(r) = Reg64(r)
    BY RegisterParts
  <1>5. code \in Bytes \ ({15} \union 64..79)
    BY <1>4 DEF Bytes
  <1>6. IsOpcode(o) /\ CodeOf(o) = code /\ Len(o) = 1
    <2> HIDE DEF code
    <2> QED BY <1>5, OneByte
  <1>7. Code(item, at) =
          writeInstruction(Parts(Used, Unused, Unused, rex, o, NoModrm, NoSib, d, <<>>))
    <2> HIDE DEF d
    <2> QED BY <1>3, WrittenMovImm, Zenon DEF Code, IsLongMove
  <1> HIDE DEF low, high
  <1>8. d \in Seq(Bytes) /\ Len(d) = 8
    <2>1. low \o high \in Seq(Bytes) /\ Len(low \o high) = Len(low) + Len(high)
      BY <1>2, ConcatProperties
    <2> QED BY <1>2, <2>1
  <1> HIDE DEF d, o, code
  <1>9. OnOpcode(1, High(r), o, d, at)
    BY <1>4, <1>6, <1>8, ReadOnOpcode
  <1>10. (at + 1) + 1 = at + 2 /\ 1 + 1 + 8 = 10 /\ (at + 2) + 8 = at + 10 /\ (at + 2) + 4 \in Nat /\ at + 2 \in Nat
    OBVIOUS
  <1>11. /\ Code(item, at) \in Seq(Bytes) /\ Len(Code(item, at)) = 10
         /\ Placed(Code(item, at), at) =>
               Decode(at) = Decoded(code, rex, at + 2) /\ Placed(d, at + 2)
    BY <1>6, <1>7, <1>8, <1>9, <1>10 DEF OnOpcode
  <1>12. ASSUME Placed(Code(item, at), at)
         PROVE  Decode(at) = [instruction |-> Meaning(item), next |-> at + 10]
    <2>1. Placed(low, at + 2) /\ Placed(high, (at + 2) + 4)
      BY <1>2, <1>10, <1>11, <1>12, PlacedBoth DEF d
    <2>2. Signed64(at + 2) = number
      BY <1>10, <2>1, ReadSigned64 DEF low, high
    <2>3. rex.w = 1 /\ rex.b = High(r)
      BY DEF Rex
    <2> HIDE DEF rex
    <2>4. Decoded(code, rex, at + 2) =
            Read("mov", 64, Register(Low(r) + 8 * rex.b), NoOperand, Signed64(at + 2), (at + 2) + 8)
      BY <1>4, <2>3, DecodedRegister DEF code
    <2> QED BY <1>4, <1>10, <1>11, <1>12, <2>2, <2>3, <2>4 DEF Read, IsLongMove
  <1>13. 10 \in 1..15
    OBVIOUS
  <1>14. item.size = 10
    BY DEF IsLongMove
  <1> QED BY <1>11, <1>12, <1>13, <1>14, Zenon DEF Sound

LEMMA SoundMovImm ==
    ASSUME NEW r \in Registers, NEW number \in INT64, NEW at \in Nat
    PROVE  Sound(movImm(r, number), at)
  <1> DEFINE item == movImm(r, number)
  <1>1. item.size = 10 /\ item.ins.op = "movImm" /\ item.ins.dst = r /\ item.ins.imm = number
    BY DEF movImm, Plain, Item, Ins
  <1> HIDE DEF item
  <1>2. writeItem(item, at - 1) = write_mov_r64_imm64(r, number)
    BY <1>1, Operations, SMTT(30) DEF writeItem
  <1>3. Meaning(item) = Instruction("mov", 64, Register(Reg64(r)), NoOperand, number)
    BY <1>1, SMT DEF Meaning
  <1>4. IsLongMove(item, r, number, at)
    BY <1>1, <1>2, <1>3, Zenon DEF IsLongMove
  <1>5. Sound(item, at)
    BY <1>4, SoundLongMove
  <1> QED BY <1>5 DEF item

(* Every address of the program has 32 bits and more than enough.          *)
LEMMA Limits ==
    /\ MAX_TEXT \in Nat /\ MAX_TEXT < 1000000
    /\ VIRTUAL_ADDRESS_START \in Nat /\ VIRTUAL_ADDRESS_START < 5000000
  BY SMT DEF MAX_TEXT, VIRTUAL_ADDRESS_START

LEMMA SoundMovLabel ==
    ASSUME NEW r \in Registers, NEW offset \in 0..MAX_TEXT, NEW at \in Nat
    PROVE  Sound(movLabel(r, Label("", "label", offset)), at)
  <1> DEFINE item == movLabel(r, Label("", "label", offset))
             number == offset + VIRTUAL_ADDRESS_START
  <1>1. item.size = 10 /\ item.ins.op = "movLabel" /\ item.ins.dst = r /\ item.label.number = offset
    BY DEF movLabel, Item, Ins, Label
  <1> HIDE DEF item
  <1>2. writeItem(item, at - 1) = write_mov_r64_imm64(r, number)
    BY <1>1, Operations, SMTT(30) DEF writeItem
  <1>3. Meaning(item) = Instruction("mov", 64, Register(Reg64(r)), NoOperand, number)
    BY <1>1, SMT DEF Meaning
  <1>4. number \in INT64
    <2>1. number \in Int /\ 0 =< number /\ number < 6000000
      BY Limits
    <2> HIDE DEF number
    <2>2. /\ number \in Int
          /\ (((number \div 256) \div 256) \div 256) \div 256 = 0
      BY <2>1, SMT
    <2>3. ((0 \div 256) \div 256) \div 256 \in -128..127 /\ 0 \in Int
      BY SMT
    <2> QED BY <2>2, <2>3 DEF INT64, INT32, Upper
  <1> HIDE DEF number
  <1>5. IsLongMove(item, r, number, at)
    BY <1>1, <1>2, <1>3, Zenon DEF IsLongMove
  <1>6. Sound(item, at)
    BY <1>4, <1>5, SoundLongMove
  <1> QED BY <1>6 DEF item

(* Jumps and calls: the distance is from the instruction's end.            *)
IsJump(item, opcode, name, target, at) ==
    /\ writeItem(item, at - 1) = write_jump_rel32(opcode, target, at - 1)
    /\ Meaning(item) = Instruction(name, 64, NoOperand, NoOperand, target)
    /\ item.size = Len(opcode) + 4
    /\ IsOpcode(opcode) /\ CodeOf(opcode) \in DOMAIN Relative /\ Relative[CodeOf(opcode)] = name

LEMMA Distance ==
    ASSUME NEW target \in 0..MAX_TEXT, NEW at \in 1..(15 * MAX_TEXT + 1), NEW size \in 5..6
    PROVE  target - (at - 1) - size \in INT32
  <1> DEFINE n == target - (at - 1) - size
  <1>1. n \in Int /\ -16000000 < n /\ n < 16000000
    BY Limits
  <1> HIDE DEF n
  <1>2. n \in Int /\ ((n \div 256) \div 256) \div 256 \in -128..127
    BY <1>1, SMT
  <1>3. n \in INT32
    BY <1>2 DEF INT32
  <1> QED BY <1>3 DEF n

LEMMA SoundJump ==
    ASSUME NEW item, NEW opcode, NEW name, NEW target \in 0..MAX_TEXT, NEW at \in 1..(15 * MAX_TEXT + 1),
           IsJump(item, opcode, name, target, at)
    PROVE  Sound(item, at)
  <1> DEFINE number == target - (at - 1) - (Len(opcode) + 4)
             imm == UInt32(number)
             after == at + Len(opcode)
  <1>1. IsOpcode(opcode) /\ opcode \in Seq(Bytes) /\ Len(opcode) \in 1..2
    BY OpcodeSequence DEF IsJump
  <1>2. target \in Int /\ at \in Nat
    BY Limits
  <1>3. \A k \in 1..2 : k + 4 \in 5..6 /\ k + 4 \in 1..15
    OBVIOUS
  <1>4. number \in INT32 /\ number \in Int
    <2>1. Len(opcode) + 4 \in 5..6
      BY <1>1, <1>3, Zenon
    <2>2. number \in INT32
      BY <2>1, Distance, Zenon
    <2> HIDE DEF number
    <2> QED BY <2>2 DEF INT32
  <1>5. Code(item, at) =
          writeInstruction(Parts(Unused, Unused, Unused, Rex(0, 0, 0, 0), opcode, NoModrm, NoSib, <<>>, imm))
    <2>1. LittleEndian(number, 4) = imm
      BY SMT DEF LittleEndian
    <2>2. write_jump_rel32(opcode, target, at - 1) =
            Parts(Unused, Unused, Unused, Rex(0, 0, 0, 0), opcode, NoModrm, NoSib, <<>>, LittleEndian(number, 4))
      BY WrittenJump, Zenon
    <2>3. Code(item, at) = writeInstruction(write_jump_rel32(opcode, target, at - 1))
      BY Zenon DEF Code, IsJump
    <2> HIDE DEF imm, number
    <2> QED BY <2>1, <2>2, <2>3, Zenon
  <1> HIDE DEF number
  <1>6. imm \in Seq(Bytes) /\ Len(imm) = 4
    BY <1>4, UInt32Bytes
  <1> HIDE DEF imm
  <1>7. PlainOpcode(opcode, imm, at)
    BY <1>1, <1>2, <1>6, ReadPlain
  <1>8. /\ Code(item, at) \in Seq(Bytes) /\ Len(Code(item, at)) = Len(opcode) + 4
        /\ Placed(Code(item, at), at) =>
              Decode(at) = Decoded(CodeOf(opcode), Rex(0, 0, 0, 0), after) /\ Placed(imm, after)
    BY <1>5, <1>6, <1>7 DEF PlainOpcode
  <1>9. after \in Nat
    BY <1>1, <1>2
  <1>10. ASSUME Placed(Code(item, at), at)
         PROVE  Decode(at) = [instruction |-> Meaning(item), next |-> at + (Len(opcode) + 4)]
    <2>1. Signed32(after) = number
      <3> HIDE DEF after
      <3> QED BY <1>4, <1>8, <1>9, <1>10, ReadSigned32 DEF imm
    <2>2. Decoded(CodeOf(opcode), Rex(0, 0, 0, 0), after) =
            Read(name, 64, NoOperand, NoOperand, after + 3 + Signed32(after), after + 4)
      BY DecodedRelative DEF IsJump
    <2>3. after + 3 + number = target /\ after + 4 = at + (Len(opcode) + 4)
      BY <1>1, <1>2, SMT DEF number
    <2> HIDE DEF after
    <2> QED BY <1>8, <1>10, <2>1, <2>2, <2>3 DEF Read, IsJump
  <1>11. Len(opcode) + 4 \in 1..15
    BY <1>1, <1>3, Zenon
  <1>12. item.size = Len(opcode) + 4
    BY DEF IsJump
  <1> QED BY <1>8, <1>10, <1>11, <1>12, Zenon DEF Sound

JumpName(op) == IF op = "jz" THEN "je" ELSE op

LEMMA RelativeOpcodes ==
    ASSUME NEW op \in DOMAIN OPCODE_REL32
    PROVE  LET opcode == OPCODE_REL32[op]
           IN /\ IsOpcode(opcode) /\ CodeOf(opcode) \in DOMAIN Relative
              /\ Relative[CodeOf(opcode)] = JumpName(op)
              /\ Len(opcode) = IF op \in {"call", "jmp"} THEN 1 ELSE 2
  <1> DEFINE opcode == OPCODE_REL32[op]
  <1>1. op \in {"call", "jmp", "jz", "je", "jne", "jl", "jg", "jle", "jge"}
    BY Operations
  <1>2. /\ OPCODE_REL32["call"] = <<232>> /\ OPCODE_REL32["jmp"] = <<233>>
        /\ OPCODE_REL32["jz"] = <<15, 132>> /\ OPCODE_REL32["je"] = <<15, 132>>
        /\ OPCODE_REL32["jne"] = <<15, 133>> /\ OPCODE_REL32["jl"] = <<15, 140>>
        /\ OPCODE_REL32["jg"] = <<15, 143>> /\ OPCODE_REL32["jle"] = <<15, 142>>
        /\ OPCODE_REL32["jge"] = <<15, 141>>
    BY DEF OPCODE_REL32
  <1>3. /\ Relative[232] = "call" /\ Relative[233] = "jmp" /\ Relative[388] = "je" /\ Relative[389] = "jne"
        /\ Relative[396] = "jl" /\ Relative[397] = "jge" /\ Relative[398] = "jle" /\ Relative[399] = "jg"
    BY DEF Relative
  <1>4. CASE op \in {"call", "jmp"}
    <2>1. PICK code \in {232, 233} : opcode = <<code>> /\ Relative[code] = JumpName(op)
      BY <1>2, <1>3, <1>4 DEF JumpName
    <2>2. code \in Bytes \ ({15} \union 64..79) /\ code \in DOMAIN Relative
      BY Domains DEF Bytes
    <2>3. IsOpcode(<<code>>) /\ CodeOf(<<code>>) = code /\ Len(<<code>>) = 1
      BY <2>2, OneByte
    <2> QED BY <1>4, <2>1, <2>2, <2>3
  <1>5. CASE op \notin {"call", "jmp"}
    <2>1. PICK code \in {132, 133, 140, 141, 142, 143} :
             opcode = <<15, code>> /\ Relative[256 + code] = JumpName(op)
      BY <1>1, <1>2, <1>3, <1>5 DEF JumpName
    <2>2. code \in Bytes /\ 256 + code \in DOMAIN Relative
      BY Domains DEF Bytes
    <2>3. IsOpcode(<<15, code>>) /\ CodeOf(<<15, code>>) = 256 + code /\ Len(<<15, code>>) = 2
      BY <2>2, TwoBytes
    <2> QED BY <1>5, <2>1, <2>2, <2>3
  <1> QED BY <1>4, <1>5

LEMMA SoundBranch ==
    ASSUME NEW op \in DOMAIN OPCODE_REL32, NEW target \in 0..MAX_TEXT, NEW at \in 1..(15 * MAX_TEXT + 1),
           NEW item, item.ins.op = op, item.label.number = target,
           item.size = IF op \in {"call", "jmp"} THEN 5 ELSE 6
    PROVE  Sound(item, at)
  <1> DEFINE opcode == OPCODE_REL32[op]
  <1>1. op \in {"call", "jmp", "jz", "je", "jne", "jl", "jg", "jle", "jge"}
    BY Operations
  <1>2. /\ IsOpcode(opcode) /\ CodeOf(opcode) \in DOMAIN Relative
        /\ Relative[CodeOf(opcode)] = JumpName(op)
        /\ Len(opcode) = IF op \in {"call", "jmp"} THEN 1 ELSE 2
    BY RelativeOpcodes
  <1>3. writeItem(item, at - 1) = write_jump_rel32(opcode, target, at - 1)
    BY <1>1, Operations, SMTT(30) DEF writeItem
  <1>4. Meaning(item) = Instruction(JumpName(op), 64, NoOperand, NoOperand, target)
    BY <1>1, SMT DEF Meaning, JumpName
  <1>5. item.size = Len(opcode) + 4
    <2>1. 1 + 4 = 5 /\ 2 + 4 = 6
      OBVIOUS
    <2> HIDE DEF opcode
    <2> QED BY <1>2, <2>1, Zenon
  <1>6. IsJump(item, opcode, JumpName(op), target, at)
    BY <1>2, <1>3, <1>4, <1>5, Zenon DEF IsJump
  <1> QED BY <1>6, SoundJump, Zenon

-----------------------------------------------------------------------------
(* An operand in memory, as the address... functions write it.             *)
Extended(m)  == IF m.index = INVALID_REG64 THEN 0 ELSE High(m.index)
Based(m)     == IF m.base = INVALID_REG64 THEN 0 ELSE High(m.base)
Form(m)      == IF m.base # INVALID_REG64 /\ dispUsed(m) THEN 2 ELSE 0
Rm(m)        == IF baseOrBaseDisp(m) THEN Low(m.base) ELSE 4
IndexOf(m)   == IF m.index = INVALID_REG64 THEN "rsp" ELSE m.index
BaseOf(m)    == IF m.base = INVALID_REG64 THEN "rbp" ELSE m.base
SibUsed(m)   == IF baseOrBaseDisp(m) /\ m.base \notin {"rsp", "r12"} THEN Unused ELSE Used
SibOf(m)     == IF ~baseOrBaseDisp(m) THEN Sib(toSibScale(m.scale), Low(IndexOf(m)), Low(BaseOf(m)))
                ELSE IF m.base \in {"rsp", "r12"} THEN Sib(0, 4, 4) ELSE NoSib
Disp(m)      == IF dispUsed(m) THEN UInt32(m.displacement) ELSE <<>>

LEMMA AddressRexParts ==
    ASSUME NEW m
    PROVE  addressRex(NewInstruction(<<>>), m) =
             Parts(Used, Unused, Unused, Rex(1, 0, Extended(m), Based(m)), <<>>, NoModrm, NoSib, <<>>, <<>>)
  <1> DEFINE P(x, b) == Parts(Used, Unused, Unused, Rex(1, 0, x, b), <<>>, NoModrm, NoSib, <<>>, <<>>)
             i == Parts(Used, Unused, Unused, Rex(0, 0, 0, 0), <<>>, NoModrm, NoSib, <<>>, <<>>)
             long == [addRex(NewInstruction(<<>>)) EXCEPT !.rex.w = 1, !.rex.r = 0]
             index == IF m.index = INVALID_REG64 THEN long ELSE updateRex(long, "x", m.index)
  <1>1. addRex(NewInstruction(<<>>)) = i
    BY NewParts, AddRexParts
  <1>2. [i EXCEPT !.rex.w = 1, !.rex.r = 0] = P(0, 0)
    <2>1. [i EXCEPT !.rex.w = 1] = P(0, 0)
      BY SMT DEF Parts, Rex
    <2>2. [P(0, 0) EXCEPT !.rex.r = 0] = P(0, 0)
      BY SMT DEF Parts, Rex
    <2> HIDE DEF i, P
    <2> QED BY <2>1, <2>2, Zenon
  <1>3. long = P(0, 0)
    BY <1>1, <1>2, Zenon
  <1>4. /\ \A reg : updateRex(P(0, 0), "x", reg) = P(High(reg), 0)
        /\ \A x, reg : updateRex(P(x, 0), "b", reg) = P(x, High(reg))
    BY UpdateRexParts
  <1> HIDE DEF P, long
  <1>5. index = P(Extended(m), 0)
    BY <1>3, <1>4, Zenon DEF Extended
  <1> HIDE DEF index
  <1>6. (IF m.base = INVALID_REG64 THEN index ELSE updateRex(index, "b", m.base)) =
          P(Extended(m), Based(m))
    BY <1>4, <1>5, Zenon DEF Based
  <1> QED BY <1>6, Zenon DEF addressRex, P, index, long

LEMMA AddressModrmParts ==
    ASSUME NEW m, NEW rex
    PROVE  addressModrm(Parts(Used, Unused, Unused, rex, <<>>, NoModrm, NoSib, <<>>, <<>>), m) =
             Parts(Used, Used, Unused, rex, <<>>, Modrm(Form(m), 0, Rm(m)), NoSib, <<>>, <<>>)
  <1> DEFINE P(form, rm) == Parts(Used, Used, Unused, rex, <<>>, Modrm(form, 0, rm), NoSib, <<>>, <<>>)
             i == Parts(Used, Unused, Unused, rex, <<>>, NoModrm, NoSib, <<>>, <<>>)
             based == m.base # INVALID_REG64 /\ dispUsed(m)
             modrm == [addModrm(i, 0) EXCEPT !.modrm.mod = IF based THEN 2 ELSE @, !.modrm.reg = 0]
  <1>1. addModrm(i, 0) = P(0, 0)
    BY AddModrmParts
  <1>2. /\ [P(0, 0) EXCEPT !.modrm.mod = 2] = P(2, 0)
        /\ [P(0, 0) EXCEPT !.modrm.mod = @] = P(0, 0)
        /\ [P(0, 0) EXCEPT !.modrm.reg = 0] = P(0, 0)
        /\ [P(2, 0) EXCEPT !.modrm.reg = 0] = P(2, 0)
        /\ [P(0, 0) EXCEPT !.modrm.rm = 4] = P(0, 4)
        /\ [P(2, 0) EXCEPT !.modrm.rm = 4] = P(2, 4)
    BY SMT DEF Parts, Modrm
  <1>3. Form(m) = 0 \/ Form(m) = 2
    BY Zenon DEF Form
  <1>4. \A form : updateModrm(P(form, 0), "rm", m.base) = P(form, Low(m.base))
    BY UpdateModrmParts
  <1> HIDE DEF P, i
  <1>5. modrm = P(Form(m), 0)
    <2>1. CASE based
      <3>1. modrm = [[P(0, 0) EXCEPT !.modrm.mod = 2] EXCEPT !.modrm.reg = 0]
        BY <1>1, <2>1, Zenon
      <3> QED BY <1>2, <2>1, <3>1, Zenon DEF Form
    <2>2. CASE ~based
      <3>1. modrm = [[P(0, 0) EXCEPT !.modrm.mod = @] EXCEPT !.modrm.reg = 0]
        BY <1>1, <2>2, Zenon
      <3> QED BY <1>2, <2>2, <3>1, Zenon DEF Form
    <2> QED BY <2>1, <2>2
  <1> HIDE DEF modrm
  <1>6. Reg64("rsp") = 4
    BY RspRbp
  <1>7. (IF baseOrBaseDisp(m) THEN updateModrm(modrm, "rm", m.base) ELSE [modrm EXCEPT !.modrm.rm = Reg64("rsp")])
          = P(Form(m), Rm(m))
    BY <1>2, <1>4, <1>5, <1>6, <1>3, Zenon DEF Rm
  <1> QED BY <1>7, Zenon DEF addressModrm, P, modrm, i

LEMMA AddressSibParts ==
    ASSUME NEW m, NEW rex, NEW modrm
    PROVE  addressSib(Parts(Used, Used, Unused, rex, <<>>, modrm, NoSib, <<>>, <<>>), m) =
             Parts(Used, Used, SibUsed(m), rex, <<>>, modrm, SibOf(m), <<>>, <<>>)
  <1> DEFINE P(scale, index, base) == Parts(Used, Used, Used, rex, <<>>, modrm, Sib(scale, index, base), <<>>, <<>>)
             i == Parts(Used, Used, Unused, rex, <<>>, modrm, NoSib, <<>>, <<>>)
             scale == toSibScale(m.scale)
  <1>1. addSib(i) = P(0, 0, 0)
    BY AddSibParts DEF NoSib
  <1>2. /\ [P(0, 0, 0) EXCEPT !.sib.scale = scale] = P(scale, 0, 0)
        /\ [P(0, 0, 0) EXCEPT !.sib.index = 4] = P(0, 4, 0)
        /\ [P(0, 4, 0) EXCEPT !.sib.base = 4] = P(0, 4, 4)
    <2> HIDE DEF scale
    <2> QED BY SMT DEF Parts, Sib
  <1>3. /\ \A s, reg : updateSib(P(s, 0, 0), "index", reg) = P(s, Low(reg), 0)
        /\ \A s, x, reg : updateSib(P(s, x, 0), "base", reg) = P(s, x, Low(reg))
    BY UpdateSibParts
  <1>4. Reg64("rsp") = 4
    BY RspRbp
  <1> HIDE DEF P, i, scale
  <1>5. CASE ~baseOrBaseDisp(m)
    <2>1. addressSib(i, m) =
            updateSib(updateSib([addSib(i) EXCEPT !.sib.scale = scale], "index", IndexOf(m)), "base", BaseOf(m))
      BY <1>5, Zenon DEF addressSib, IndexOf, BaseOf, scale
    <2>2. updateSib(P(scale, 0, 0), "index", IndexOf(m)) = P(scale, Low(IndexOf(m)), 0)
      BY <1>3, Zenon
    <2>3. updateSib(P(scale, Low(IndexOf(m)), 0), "base", BaseOf(m)) = P(scale, Low(IndexOf(m)), Low(BaseOf(m)))
      BY <1>3, Zenon
    <2>4. addressSib(i, m) = P(scale, Low(IndexOf(m)), Low(BaseOf(m)))
      BY <1>1, <1>2, <2>1, <2>2, <2>3, Zenon
    <2> QED BY <1>5, <2>4, Zenon DEF P, i, SibUsed, SibOf, scale
  <1>6. CASE baseOrBaseDisp(m) /\ m.base \in {"rsp", "r12"}
    <2>1. addressSib(i, m) = [[addSib(i) EXCEPT !.sib.index = Reg64("rsp")] EXCEPT !.sib.base = Reg64("rsp")]
      BY <1>6, Zenon DEF addressSib
    <2>2. addressSib(i, m) = P(0, 4, 4)
      BY <1>1, <1>2, <1>4, <2>1, Zenon
    <2> QED BY <1>6, <2>2, Zenon DEF P, i, SibUsed, SibOf
  <1>7. CASE baseOrBaseDisp(m) /\ m.base \notin {"rsp", "r12"}
    <2>1. addressSib(i, m) = i
      BY <1>7, Zenon DEF addressSib
    <2> QED BY <1>7, <2>1, Zenon DEF i, SibUsed, SibOf
  <1> QED BY <1>5, <1>6, <1>7

LEMMA WrittenMemory ==
    ASSUME NEW m, m.index # "rsp", NEW opcode, NEW reg
    PROVE  write_mov_memory(opcode, reg, m) =
             Parts(Used, Used, SibUsed(m), Rex(1, High(reg), Extended(m), Based(m)), opcode,
                   Modrm(Form(m), Low(reg), Rm(m)), SibOf(m), Disp(m), <<>>)
  <1> DEFINE x == Extended(m)  b == Based(m)  form == Form(m)  rm == Rm(m)  su == SibUsed(m)  s == SibOf(m)
             d == Disp(m)
             i1 == addressRex(NewInstruction(<<>>), m)
             i2 == addressModrm(i1, m)
             i3 == addressSib(i2, m)
             i4 == [i3 EXCEPT !.disp = IF dispUsed(m) THEN LittleEndian(m.displacement, 4) ELSE <<>>]
             i5 == [i4 EXCEPT !.opcode = opcode]
             i6 == updateRex(i5, "r", reg)
  <1> HIDE DEF x, b, form, rm, su, s, d
  <1>1. i1 = Parts(Used, Unused, Unused, Rex(1, 0, x, b), <<>>, NoModrm, NoSib, <<>>, <<>>)
    BY AddressRexParts, Zenon DEF x, b
  <1>2. i2 = Parts(Used, Used, Unused, Rex(1, 0, x, b), <<>>, Modrm(form, 0, rm), NoSib, <<>>, <<>>)
    <2> HIDE DEF i1
    <2> QED BY <1>1, AddressModrmParts, Zenon DEF form, rm
  <1>3. i3 = Parts(Used, Used, su, Rex(1, 0, x, b), <<>>, Modrm(form, 0, rm), s, <<>>, <<>>)
    <2> HIDE DEF i2
    <2> QED BY <1>2, AddressSibParts, Zenon DEF su, s
  <1>4. i4 = Parts(Used, Used, su, Rex(1, 0, x, b), <<>>, Modrm(form, 0, rm), s, d, <<>>)
    <2>1. LittleEndian(m.displacement, 4) = UInt32(m.displacement)
      BY SMT DEF LittleEndian
    <2>2. i4 = [i3 EXCEPT !.disp = d]
      BY <2>1, Zenon DEF d, Disp
    <2> HIDE DEF i3, i4
    <2>3. [Parts(Used, Used, su, Rex(1, 0, x, b), <<>>, Modrm(form, 0, rm), s, <<>>, <<>>) EXCEPT !.disp = d] =
            Parts(Used, Used, su, Rex(1, 0, x, b), <<>>, Modrm(form, 0, rm), s, d, <<>>)
      BY SMT DEF Parts
    <2> QED BY <1>3, <2>2, <2>3, Zenon
  <1>5. i5 = Parts(Used, Used, su, Rex(1, 0, x, b), opcode, Modrm(form, 0, rm), s, d, <<>>)
    <2> HIDE DEF i4
    <2>1. [Parts(Used, Used, su, Rex(1, 0, x, b), <<>>, Modrm(form, 0, rm), s, d, <<>>) EXCEPT !.opcode = opcode] =
            Parts(Used, Used, su, Rex(1, 0, x, b), opcode, Modrm(form, 0, rm), s, d, <<>>)
      BY SMT DEF Parts
    <2> QED BY <1>4, <2>1, Zenon
  <1>6. i6 = Parts(Used, Used, su, Rex(1, High(reg), x, b), opcode, Modrm(form, 0, rm), s, d, <<>>)
    <2> HIDE DEF i5
    <2> QED BY <1>5, UpdateRexParts
  <1>7. updateModrm(i6, "reg", reg) =
          Parts(Used, Used, su, Rex(1, High(reg), x, b), opcode, Modrm(form, Low(reg), rm), s, d, <<>>)
    <2> HIDE DEF i6
    <2> QED BY <1>6, UpdateModrmParts
  <1>8. setMemoryAddressing(NewInstruction(<<>>), m) = i4
    BY Zenon DEF setMemoryAddressing
  <1>9. write_mov_memory(opcode, reg, m) = updateModrm(i6, "reg", reg)
    <2> HIDE DEF i4
    <2> QED BY <1>8, Zenon DEF write_mov_memory
  <1> HIDE DEF i6
  <1> QED BY <1>7, <1>9, Zenon DEF x, b, form, rm, su, s, d

(* What the fields are, with a SIB byte and without one.                   *)
Plainly(m) == baseOrBaseDisp(m) /\ m.base \notin {"rsp", "r12"}

ScaleOf(m) == IF m.index # INVALID_REG64 /\ isValidScale(m.scale) THEN m.scale ELSE 1

MemOf(m) == Address(Reg64(m.base), m.displacement, Reg64(m.index), ScaleOf(m))

IsMemory(m) ==
    /\ m.base \in Registers \/ m.base = INVALID_REG64
    /\ m.index \in Registers \/ m.index = INVALID_REG64
    /\ m.index # "rsp"
    /\ m.displacement \in INT32
    /\ m.base = INVALID_REG64 => m.displacement # 0

LEMMA MemoryFields ==
    ASSUME NEW m, IsMemory(m)
    PROVE  /\ Extended(m) \in 0..1 /\ Based(m) \in 0..1 /\ Form(m) \in {0, 2}
           /\ dispUsed(m) <=> Form(m) = 2 \/ m.base = INVALID_REG64
           /\ m.base = INVALID_REG64 => Form(m) = 0
           /\ Disp(m) \in Seq(Bytes)
           /\ Len(Disp(m)) = IF dispUsed(m) THEN 4 ELSE 0
           /\ ~dispUsed(m) => m.displacement = 0
  <1>1. Extended(m) \in 0..1 /\ Based(m) \in 0..1
    BY RegisterParts DEF Extended, Based, IsMemory
  <1>2. /\ Form(m) \in {0, 2}
        /\ dispUsed(m) <=> Form(m) = 2 \/ m.base = INVALID_REG64
        /\ m.base = INVALID_REG64 => Form(m) = 0
        /\ ~dispUsed(m) => m.displacement = 0
    <2>1. m.base = INVALID_REG64 => dispUsed(m)
      BY DEF dispUsed, IsMemory
    <2>2. ~dispUsed(m) => m.displacement = 0
      BY DEF dispUsed
    <2> QED BY <2>1, <2>2 DEF Form
  <1>3. Disp(m) \in Seq(Bytes) /\ Len(Disp(m)) = IF dispUsed(m) THEN 4 ELSE 0
    <2> DEFINE none == <<>>
    <2>1. none \in Seq(Bytes) /\ Len(none) = 0
      OBVIOUS
    <2>2. ~dispUsed(m) => Disp(m) = none
      BY Zenon DEF Disp
    <2> HIDE DEF none
    <2>3. UInt32(m.displacement) \in Seq(Bytes) /\ Len(UInt32(m.displacement)) = 4
      BY UInt32Bytes DEF IsMemory, INT32
    <2>4. CASE dispUsed(m)
      BY <2>3, <2>4, Zenon DEF Disp
    <2>5. CASE ~dispUsed(m)
      BY <2>1, <2>5, <2>2, Zenon
    <2> QED BY <2>4, <2>5
  <1> QED BY <1>1, <1>2, <1>3

LEMMA MemoryPlainly ==
    ASSUME NEW m, IsMemory(m), Plainly(m)
    PROVE  /\ Rm(m) \in 0..7 /\ Rm(m) # 4 /\ Rm(m) + 8 * Based(m) = Reg64(m.base)
           /\ Form(m) = 0 => Rm(m) # 5
           /\ m.index = INVALID_REG64 /\ m.base \in Registers
           /\ SibUsed(m) = Unused /\ SibOf(m) = NoSib
  <1>1. m.index = INVALID_REG64 /\ m.base \in Registers /\ m.base # INVALID_REG64
    BY DEF Plainly, baseOrBaseDisp, IsMemory
  <1>2. Rm(m) = Low(m.base) /\ Based(m) = High(m.base)
    BY <1>1 DEF Rm, Based, Plainly
  <1>3. Rm(m) \in 0..7 /\ Rm(m) + 8 * Based(m) = Reg64(m.base)
    BY <1>1, <1>2, RegisterParts
  <1>4. Rm(m) # 4
    BY <1>1, <1>2, SpecialRegisters DEF Low, Plainly
  <1>5. Form(m) = 0 => Rm(m) # 5
    BY <1>1, <1>2, SpecialRegisters DEF Low, Form, dispUsed
  <1>6. SibUsed(m) = Unused /\ SibOf(m) = NoSib
    BY Zenon DEF SibUsed, SibOf, Plainly
  <1> QED BY <1>1, <1>3, <1>4, <1>5, <1>6

IsSibOf(m, scale, index, base) ==
    /\ Rm(m) = 4 /\ SibUsed(m) = Used /\ SibOf(m) = Sib(scale, index, base)
    /\ scale \in 0..3 /\ index \in 0..7 /\ base \in 0..7
    /\ m.index = INVALID_REG64 => index + 8 * Extended(m) = 4
    /\ m.index # INVALID_REG64 =>
          /\ index + 8 * Extended(m) = Reg64(m.index) /\ Reg64(m.index) # 4
          /\ <<1, 2, 4, 8>>[scale + 1] = ScaleOf(m)
    /\ m.base = INVALID_REG64 => base = 5
    /\ m.base # INVALID_REG64 => base + 8 * Based(m) = Reg64(m.base)
    /\ m.base # INVALID_REG64 /\ Form(m) = 0 => base # 5

LEMMA MemorySib ==
    ASSUME NEW m, IsMemory(m), ~Plainly(m)
    PROVE  \E scale \in 0..3, index \in 0..7, base \in 0..7 : IsSibOf(m, scale, index, base)
  <1>1. /\ "rsp" \in Registers /\ "rbp" \in Registers /\ INVALID_REG64 \notin Registers
        /\ Low("rsp") = 4 /\ High("rsp") = 0 /\ Low("rbp") = 5
    BY RspRbp DEF Low, High
  <1>2. Rm(m) = 4 /\ SibUsed(m) = Used
    <2>1. CASE baseOrBaseDisp(m)
      <3>1. m.base \in {"rsp", "r12"} /\ m.base \in Registers
        BY <2>1 DEF Plainly, IsMemory, baseOrBaseDisp
      <3>2. Low(m.base) = 4
        BY <3>1, SpecialRegisters DEF Low
      <3> QED BY <2>1, <3>1, <3>2, Zenon DEF Rm, SibUsed
    <2>2. CASE ~baseOrBaseDisp(m)
      BY <2>2, Zenon DEF Rm, SibUsed
    <2> QED BY <2>1, <2>2
  <1>3. /\ m.base # INVALID_REG64 =>
              /\ m.base \in Registers /\ Low(m.base) + 8 * Based(m) = Reg64(m.base)
              /\ Low(m.base) \in 0..7
              /\ Form(m) = 0 => Low(m.base) # 5
    <2>1. ASSUME m.base # INVALID_REG64
          PROVE  Form(m) = 0 => Low(m.base) # 5
      BY <2>1, SpecialRegisters DEF Low, Form, dispUsed, IsMemory
    <2> QED BY <2>1, RegisterParts DEF Based, IsMemory
  <1>4. CASE baseOrBaseDisp(m)
    <2>1. m.base \in {"rsp", "r12"} /\ m.base # INVALID_REG64 /\ m.index = INVALID_REG64
      BY <1>4 DEF Plainly, baseOrBaseDisp
    <2>2. Low(m.base) = 4
      BY <1>3, <2>1, SpecialRegisters DEF Low
    <2>3. SibOf(m) = Sib(0, 4, 4)
      BY <1>4, <2>1, Zenon DEF SibOf
    <2>4. 4 + 8 * Extended(m) = 4 /\ 4 + 8 * Based(m) = Reg64(m.base)
      BY <1>3, <2>1, <2>2 DEF Extended
    <2>5. 0 \in 0..3 /\ 4 \in 0..7 /\ 4 # 5
      OBVIOUS
    <2>6. IsSibOf(m, 0, 4, 4)
      BY <1>2, <2>1, <2>3, <2>4, <2>5, Zenon DEF IsSibOf
    <2> QED BY <2>5, <2>6, Zenon
  <1>5. CASE ~baseOrBaseDisp(m)
    <2> DEFINE scale == toSibScale(m.scale)
               index == Low(IndexOf(m))
               base  == Low(BaseOf(m))
    <2>1. SibOf(m) = Sib(scale, index, base)
      BY <1>5, Zenon DEF SibOf
    <2>2. scale \in 0..3
      BY DEF toSibScale
    <2>3. index \in 0..7
      BY <1>1, RegisterParts DEF IndexOf, IsMemory
    <2>4. base \in 0..7
      BY <1>1, RegisterParts DEF BaseOf, IsMemory
    <2>5. ASSUME m.index = INVALID_REG64
          PROVE  index + 8 * Extended(m) = 4
      BY <1>1, <2>5 DEF IndexOf, Extended
    <2>6. ASSUME m.index # INVALID_REG64
          PROVE  /\ index + 8 * Extended(m) = Reg64(m.index) /\ Reg64(m.index) # 4
                 /\ <<1, 2, 4, 8>>[scale + 1] = ScaleOf(m)
      <3>1. m.index \in Registers /\ m.index # "rsp"
        BY <2>6 DEF IsMemory
      <3>2. index + 8 * Extended(m) = Reg64(m.index)
        BY <2>6, <3>1, RegisterParts DEF IndexOf, Extended
      <3>3. Reg64(m.index) # 4
        BY <3>1, SpecialRegisters
      <3>4. <<1, 2, 4, 8>>[scale + 1] = ScaleOf(m)
        BY <2>6 DEF ScaleOf, toSibScale, isValidScale
      <3> QED BY <3>2, <3>3, <3>4
    <2>7. m.base = INVALID_REG64 => base = 5
      BY <1>1 DEF BaseOf
    <2>8. m.base # INVALID_REG64 => base = Low(m.base)
      BY Zenon DEF BaseOf
    <2>9. /\ m.base # INVALID_REG64 => base + 8 * Based(m) = Reg64(m.base)
          /\ m.base # INVALID_REG64 /\ Form(m) = 0 => base # 5
      BY <1>3, <2>8, Zenon
    <2> HIDE DEF scale, index, base
    <2>10. IsSibOf(m, scale, index, base)
      BY <1>2, <2>1, <2>2, <2>3, <2>4, <2>5, <2>6, <2>7, <2>9, Zenon DEF IsSibOf
    <2> QED BY <2>2, <2>3, <2>4, <2>10, Zenon
  <1> QED BY <1>4, <1>5

(* How the decoder reads ModR/M with mod 0 or 2.                           *)
WithSib(scale, index, base, form, reg, rex, at) ==
    LET baseless == form = 0 /\ base = 5
        long     == form = 2 \/ baseless
    IN AddressForm(at, rex) =
         [operand |-> Address(IF baseless THEN -1 ELSE base + 8 * rex.b,
                              IF long THEN Signed32(at + 2) ELSE 0,
                              IF index + 8 * rex.x = 4 THEN -1 ELSE index + 8 * rex.x,
                              IF index + 8 * rex.x = 4 THEN 1 ELSE <<1, 2, 4, 8>>[scale + 1]),
          reg |-> reg, next |-> (at + 2) + (IF long THEN 4 ELSE 0)]

LEMMA SibForm ==
    ASSUME NEW form \in {0, 2}, NEW reg \in 0..7, NEW rex, NEW at \in Nat,
           NEW scale \in 0..3, NEW index \in 0..7, NEW base \in 0..7,
           Byte(at) = 64 * form + 8 * reg + 4, Byte(at + 1) = 64 * scale + 8 * index + base
    PROVE  WithSib(scale, index, base, form, reg, rex, at)
  <1>1. Bits(Byte(at), 64, 4) = form /\ Bits(Byte(at), 8, 8) = reg /\ Bits(Byte(at), 1, 8) = 4
    BY ThreeFields
  <1>2. /\ Bits(Byte(at + 1), 64, 4) = scale /\ Bits(Byte(at + 1), 8, 8) = index
        /\ Bits(Byte(at + 1), 1, 8) = base
    BY ThreeFields
  <1>3. form # 1 /\ form # 3
    OBVIOUS
  <1>4. CASE form = 2
    BY <1>1, <1>2, <1>3, <1>4 DEF AddressForm, WithSib
  <1>5. CASE form = 0
    BY <1>1, <1>2, <1>3, <1>5 DEF AddressForm, WithSib
  <1> QED BY <1>4, <1>5

WithoutSib(form, reg, rm, rex, at) ==
    AddressForm(at, rex) =
      [operand |-> Address(rm + 8 * rex.b, IF form = 2 THEN Signed32(at + 1) ELSE 0, -1, 1),
       reg |-> reg, next |-> (at + 1) + (IF form = 2 THEN 4 ELSE 0)]

LEMMA RmForm ==
    ASSUME NEW form \in {0, 2}, NEW reg \in 0..7, NEW rm \in 0..7, NEW rex, NEW at \in Nat,
           rm # 4, form = 0 => rm # 5, Byte(at) = 64 * form + 8 * reg + rm
    PROVE  WithoutSib(form, reg, rm, rex, at)
  <1>1. Bits(Byte(at), 64, 4) = form /\ Bits(Byte(at), 8, 8) = reg /\ Bits(Byte(at), 1, 8) = rm
    BY ThreeFields
  <1>2. form # 1 /\ form # 3
    OBVIOUS
  <1>3. CASE form = 2
    BY <1>1, <1>2, <1>3 DEF AddressForm, WithoutSib
  <1>4. CASE form = 0
    BY <1>1, <1>2, <1>4 DEF AddressForm, WithoutSib
  <1> QED BY <1>3, <1>4

(* An operand in memory is read back.                                      *)
InMemory(m, reg, rex, at) ==
    AddressForm(at, rex) =
      [operand |-> MemOf(m), reg |-> reg, next |-> (at + 1) + Count(SibUsed(m)) + Len(Disp(m))]

LEMMA ReadInMemory ==
    ASSUME NEW m, IsMemory(m), NEW reg \in 0..7, NEW at \in Nat,
           NEW rex, rex.x = Extended(m), rex.b = Based(m),
           Byte(at) = 64 * Form(m) + 8 * reg + Rm(m),
           SibUsed(m) => Byte(at + 1) = sibToByte(SibOf(m)),
           Placed(Disp(m), (at + 1) + Count(SibUsed(m)))
    PROVE  InMemory(m, reg, rex, at)
  <1>1. /\ Form(m) \in {0, 2}
        /\ dispUsed(m) <=> Form(m) = 2 \/ m.base = INVALID_REG64
        /\ m.base = INVALID_REG64 => Form(m) = 0
        /\ Len(Disp(m)) = IF dispUsed(m) THEN 4 ELSE 0
        /\ ~dispUsed(m) => m.displacement = 0
    BY MemoryFields
  <1>2. ASSUME NEW start \in Nat, Placed(Disp(m), start)
        PROVE  dispUsed(m) => Signed32(start) = m.displacement
    <2> HAVE dispUsed(m)
    <2>1. Placed(UInt32(m.displacement), start)
      BY <1>2, Zenon DEF Disp
    <2>2. m.displacement \in INT32
      BY DEF IsMemory
    <2> QED BY <2>1, <2>2, ReadSigned32
  <1>3. CASE Plainly(m)
    <2>1. /\ Rm(m) \in 0..7 /\ Rm(m) # 4 /\ Rm(m) + 8 * Based(m) = Reg64(m.base)
          /\ Form(m) = 0 => Rm(m) # 5
          /\ m.index = INVALID_REG64 /\ m.base \in Registers /\ SibUsed(m) = Unused
      BY <1>3, MemoryPlainly
    <2>2. WithoutSib(Form(m), reg, Rm(m), rex, at)
      BY <1>1, <2>1, RmForm
    <2>3. (at + 1) + Count(SibUsed(m)) = at + 1 /\ at + 1 \in Nat
      BY <2>1, Counts
    <2>4. m.base # INVALID_REG64 /\ Reg64(m.index) = -1 /\ ScaleOf(m) = 1
      BY <2>1, RspRbp DEF ScaleOf
    <2>5. (dispUsed(m) <=> Form(m) = 2) /\ (Form(m) = 2 => Signed32(at + 1) = m.displacement)
      BY <1>1, <1>2, <2>3, <2>4
    <2>6. (IF Form(m) = 2 THEN Signed32(at + 1) ELSE 0) = m.displacement
      BY <1>1, <2>5
    <2>7. (IF Form(m) = 2 THEN 4 ELSE 0) = Len(Disp(m))
      BY <1>1, <2>5
    <2>8. MemOf(m) = Address(Rm(m) + 8 * rex.b, IF Form(m) = 2 THEN Signed32(at + 1) ELSE 0, -1, 1)
      BY <2>1, <2>4, <2>6, Zenon DEF MemOf
    <2> QED BY <2>2, <2>3, <2>7, <2>8, Zenon DEF WithoutSib, InMemory
  <1>4. CASE ~Plainly(m)
    <2>1. PICK scale \in 0..3, index \in 0..7, base \in 0..7 : IsSibOf(m, scale, index, base)
      BY <1>4, MemorySib
    <2>2. /\ Rm(m) = 4 /\ SibUsed(m) = Used /\ SibOf(m) = Sib(scale, index, base)
      BY <2>1 DEF IsSibOf
    <2>3. Byte(at + 1) = 64 * scale + 8 * index + base
      BY <2>2, Counts DEF sibToByte, Sib
    <2>4. Byte(at) = 64 * Form(m) + 8 * reg + 4
      BY <2>2
    <2>5. WithSib(scale, index, base, Form(m), reg, rex, at)
      BY <1>1, <2>3, <2>4, SibForm
    <2>6. Count(SibUsed(m)) = 1
      BY <2>2, Counts, Zenon
    <2>7. (at + 1) + Count(SibUsed(m)) = at + 2 /\ at + 2 \in Nat
      BY <2>6
    <2>8. dispUsed(m) <=> Form(m) = 2 \/ (Form(m) = 0 /\ base = 5)
      BY <1>1, <2>1 DEF IsSibOf
    <2>9. (IF Form(m) = 2 \/ (Form(m) = 0 /\ base = 5) THEN Signed32(at + 2) ELSE 0) = m.displacement
      BY <1>1, <1>2, <2>7, <2>8
    <2>10. (IF Form(m) = 2 \/ (Form(m) = 0 /\ base = 5) THEN 4 ELSE 0) = Len(Disp(m))
      BY <1>1, <2>8
    <2>11. (IF Form(m) = 0 /\ base = 5 THEN -1 ELSE base + 8 * rex.b) = Reg64(m.base)
      BY <1>1, <2>1, RspRbp DEF IsSibOf
    <2>12. /\ (IF index + 8 * rex.x = 4 THEN -1 ELSE index + 8 * rex.x) = Reg64(m.index)
           /\ (IF index + 8 * rex.x = 4 THEN 1 ELSE <<1, 2, 4, 8>>[scale + 1]) = ScaleOf(m)
      <3>1. CASE m.index = INVALID_REG64
        <4>1. Reg64(m.index) = -1 /\ ScaleOf(m) = 1 /\ index + 8 * rex.x = 4
          BY <2>1, <3>1, RspRbp DEF ScaleOf, IsSibOf
        <4> QED BY <4>1
      <3>2. CASE m.index # INVALID_REG64
        <4>1. /\ index + 8 * rex.x = Reg64(m.index) /\ Reg64(m.index) # 4
              /\ <<1, 2, 4, 8>>[scale + 1] = ScaleOf(m)
          BY <2>1, <3>2 DEF IsSibOf
        <4> QED BY <4>1, Zenon
      <3> QED BY <3>1, <3>2
    <2> QED BY <2>5, <2>7, <2>9, <2>10, <2>11, <2>12, Zenon DEF WithSib, InMemory, MemOf
  <1> QED BY <1>3, <1>4

(* A move from or to memory, with its length.                              *)
MoveSize(m) == 3 + Count(SibUsed(m)) + Len(Disp(m))

HasPrefix(w, r, x, b, opcode, at) ==
    /\ w \in 0..1 /\ r \in 0..1 /\ x \in 0..1 /\ b \in 0..1
    /\ IsOpcode(opcode) /\ at \in Nat
    /\ Byte(at) = 64 + 8 * w + 4 * r + 2 * x + b
    /\ Placed(opcode, at + 1)

LEMMA PrefixRead ==
    ASSUME NEW w, NEW r, NEW x, NEW b, NEW opcode, NEW at, HasPrefix(w, r, x, b, opcode, at)
    PROVE  Decode(at) = Decoded(CodeOf(opcode), Rex(w, r, x, b), (at + 1) + Len(opcode))
  BY WithPrefix DEF HasPrefix

OnMemory(item, code, reg, m, at) ==
    LET rex  == Rex(1, High(reg), Extended(m), Based(m))
        form == AddressForm(at + 2, rex)
    IN /\ Code(item, at) \in Seq(Bytes) /\ Len(Code(item, at)) = MoveSize(m)
       /\ rex.w = 1 /\ rex.r = High(reg)
       /\ Placed(Code(item, at), at) =>
             /\ Decode(at) = Decoded(code, rex, at + 2)
             /\ form.operand = MemOf(m) /\ form.reg = Low(reg) /\ form.next = at + MoveSize(m)

LEMMA ReadOnMemory ==
    ASSUME NEW item, NEW code \in Bytes \ ({15} \union 64..79), NEW reg \in Registers, NEW m, IsMemory(m),
           NEW at \in Nat, writeItem(item, at - 1) = write_mov_memory(<<code>>, reg, m)
    PROVE  OnMemory(item, code, reg, m, at) /\ MoveSize(m) \in 1..15
  <1> DEFINE o == <<code>>
             x == Extended(m)  b == Based(m)  su == SibUsed(m)  s == SibOf(m)  d == Disp(m)  n == <<>>
             rex == Rex(1, High(reg), x, b)
             modrm == Modrm(Form(m), Low(reg), Rm(m))
             form == AddressForm(at + 2, rex)
  <1>1. IsOpcode(o) /\ CodeOf(o) = code /\ Len(o) = 1
    BY OneByte
  <1>2. o \in Seq(Bytes) /\ n \in Seq(Bytes)
    BY <1>1, OpcodeSequence
  <1>3. Len(n) = 0
    OBVIOUS
  <1>4. Code(item, at) = writeInstruction(Parts(Used, Used, su, rex, o, modrm, s, d, n))
    <2>1. m.index # "rsp"
      BY DEF IsMemory
    <2> QED BY <2>1, WrittenMemory, Zenon DEF Code
  <1>5. High(reg) \in 0..1 /\ Low(reg) \in 0..7
    BY RegisterParts
  <1>6. /\ x \in 0..1 /\ b \in 0..1 /\ Form(m) \in {0, 2} /\ d \in Seq(Bytes) /\ Len(d) \in {0, 4}
    BY MemoryFields
  <1>7. Rm(m) \in 0..7 /\ IsSib(s) /\ IsFlag(su) /\ Count(su) \in {0, 1}
    <2>1. CASE Plainly(m)
      <3>1. Rm(m) \in 0..7 /\ su = Unused /\ s = NoSib
        BY <2>1, MemoryPlainly
      <3>2. IsSib(NoSib)
        BY DEF IsSib, NoSib, Sib
      <3> QED BY <3>1, <3>2, Counts DEF IsFlag
    <2>2. CASE ~Plainly(m)
      <3>1. PICK scale \in 0..3, index \in 0..7, base \in 0..7 : IsSibOf(m, scale, index, base)
        BY <2>2, MemorySib
      <3>2. Rm(m) = 4 /\ su = Used /\ s = Sib(scale, index, base)
        BY <3>1 DEF IsSibOf
      <3>3. IsSib(Sib(scale, index, base))
        BY DEF IsSib, Sib
      <3>4. Count(su) = 1 /\ IsFlag(su)
        BY <3>2, Counts, Zenon DEF IsFlag
      <3>5. IsSib(s) /\ Rm(m) \in 0..7
        BY <3>2, <3>3
      <3> HIDE DEF su, s
      <3> QED BY <3>4, <3>5
    <2> QED BY <2>1, <2>2
  <1> HIDE DEF o, n
  <1>8. IsRex(rex) /\ IsModrm(modrm) /\ IsCode(o) /\ IsCode(d) /\ IsCode(n) /\ IsFlag(Used)
    BY <1>2, <1>5, <1>6, <1>7, Counts DEF IsRex, Rex, IsModrm, Modrm, IsCode, IsFlag
  <1>9. Laid(Used, Used, su, rex, o, modrm, s, d, n, at)
    BY <1>7, <1>8, Layout
  <1> HIDE DEF su, s, d, x, b, modrm
  <1>10. /\ Code(item, at) \in Seq(Bytes)
         /\ at + Len(Code(item, at)) = (((at + 1 + 1) + 1) + Count(su) + Len(d)) + 0
         /\ Placed(Code(item, at), at) =>
              /\ Byte(at) = rexToByte(rex)
              /\ Placed(o, at + 1)
              /\ Byte(at + 1 + 1) = modrmToByte(modrm)
              /\ su => Byte(at + 1 + 1 + 1) = sibToByte(s)
              /\ Placed(d, ((at + 1 + 1) + 1) + Count(su))
    BY <1>1, <1>3, <1>4, <1>9, Counts DEF Laid
  <1>11. /\ Len(Code(item, at)) = 3 + Count(su) + Len(d) /\ at + (3 + Count(su) + Len(d)) = at + 2 + 1 + Count(su) + Len(d)
         /\ at + 1 + 1 = at + 2 /\ at + 2 \in Nat /\ 3 + Count(su) + Len(d) \in 1..15
    <2>1. \A c \in {0, 1}, l \in {0, 4} :
             /\ 3 + c + l \in 1..15 /\ at + (3 + c + l) = at + 2 + 1 + c + l
             /\ (((at + 1 + 1) + 1) + c + l) + 0 = at + (3 + c + l)
      OBVIOUS
    <2>2. /\ 3 + Count(su) + Len(d) \in 1..15
          /\ at + (3 + Count(su) + Len(d)) = at + 2 + 1 + Count(su) + Len(d)
          /\ (((at + 1 + 1) + 1) + Count(su) + Len(d)) + 0 = at + (3 + Count(su) + Len(d))
      BY <1>6, <1>7, <2>1, Zenon
    <2>3. \A k \in Nat, l \in 1..15 : at + k = at + l => k = l
      OBVIOUS
    <2>4. Len(Code(item, at)) \in Nat
      BY <1>10
    <2>5. Len(Code(item, at)) = 3 + Count(su) + Len(d)
      BY <1>10, <2>2, <2>3, <2>4, Zenon
    <2>6. at + 1 + 1 = at + 2 /\ at + 2 \in Nat
      OBVIOUS
    <2> QED BY <2>2, <2>5, <2>6, Zenon
  <1>12. ASSUME Placed(Code(item, at), at)
         PROVE  /\ Decode(at) = Decoded(code, rex, at + 2)
                /\ form = [operand |-> MemOf(m), reg |-> Low(reg), next |-> (at + 2 + 1) + Count(su) + Len(d)]
    <2>1. Byte(at) = 64 + 8 * 1 + 4 * High(reg) + 2 * x + b /\ Byte(at + 2) = 64 * Form(m) + 8 * Low(reg) + Rm(m)
      BY <1>10, <1>11, <1>12 DEF rexToByte, Rex, modrmToByte, Modrm, modrm
    <2>2. Decode(at) = Decoded(code, rex, at + 2)
      <3>1. 1 \in 0..1 /\ Placed(o, at + 1) /\ (at + 1) + 1 = at + 2
        BY <1>10, <1>12
      <3>2. Decode(at) = Decoded(CodeOf(o), rex, (at + 1) + Len(o))
        <4>1. HasPrefix(1, High(reg), x, b, o, at)
          BY <1>1, <1>5, <1>6, <2>1, <3>1 DEF HasPrefix
        <4>2. Decode(at) = Decoded(CodeOf(o), Rex(1, High(reg), x, b), (at + 1) + Len(o))
          BY <4>1, PrefixRead
        <4> QED BY <4>2
      <3> QED BY <1>1, <3>1, <3>2, Zenon
    <2>3. rex.x = x /\ rex.b = b
      BY DEF Rex
    <2>4. (su => Byte((at + 2) + 1) = sibToByte(s)) /\ Placed(d, ((at + 2) + 1) + Count(su))
      BY <1>10, <1>11, <1>12
    <2> HIDE DEF rex
    <2>5. InMemory(m, Low(reg), rex, at + 2)
      BY <1>5, <1>11, <2>1, <2>3, <2>4, ReadInMemory DEF x, b, su, s, d
    <2> QED BY <2>2, <2>5 DEF InMemory, su, d, rex
  <1>13. rex.w = 1 /\ rex.r = High(reg)
    BY DEF Rex
  <1> HIDE DEF form, rex
  <1>14. Placed(Code(item, at), at) =>
             /\ Decode(at) = Decoded(code, rex, at + 2)
             /\ form.operand = MemOf(m) /\ form.reg = Low(reg) /\ form.next = at + (3 + Count(su) + Len(d))
    BY <1>11, <1>12
  <1> QED BY <1>10, <1>11, <1>13, <1>14, Zenon DEF OnMemory, MoveSize, form, rex, x, b, su, d

IsMove(item, reg, m, at, loads) ==
    /\ writeItem(item, at - 1) = write_mov_memory(<<IF loads THEN 139 ELSE 137>>, reg, m)
    /\ Meaning(item) = IF loads THEN Instruction("mov", 64, Register(Reg64(reg)), MemOf(m), 0)
                       ELSE Instruction("mov", 64, MemOf(m), Register(Reg64(reg)), 0)
    /\ item.size # 0 => item.size = MoveSize(m)

LEMMA SoundMove ==
    ASSUME NEW item, NEW reg \in Registers, NEW m, IsMemory(m), NEW at \in Nat, NEW loads \in BOOLEAN,
           IsMove(item, reg, m, at, loads)
    PROVE  Sound(item, at)
  <1> DEFINE code == IF loads THEN 139 ELSE 137
             rex  == Rex(1, High(reg), Extended(m), Based(m))
             form == AddressForm(at + 2, rex)
  <1>1. code \in Bytes \ ({15} \union 64..79)
    BY DEF Bytes
  <1>2. writeItem(item, at - 1) = write_mov_memory(<<code>>, reg, m)
    BY Zenon DEF IsMove
  <1> HIDE DEF code
  <1>3. OnMemory(item, code, reg, m, at) /\ MoveSize(m) \in 1..15
    BY <1>1, <1>2, ReadOnMemory
  <1>4. /\ Code(item, at) \in Seq(Bytes) /\ Len(Code(item, at)) = MoveSize(m)
        /\ rex.w = 1 /\ rex.r = High(reg)
        /\ Placed(Code(item, at), at) =>
              /\ Decode(at) = Decoded(code, rex, at + 2)
              /\ form.operand = MemOf(m) /\ form.reg = Low(reg) /\ form.next = at + MoveSize(m)
    BY <1>3, Zenon DEF OnMemory
  <1>5. Register(Low(reg) + 8 * High(reg)) = Register(Reg64(reg))
    BY RegisterParts, Zenon
  <1>6. ASSUME Placed(Code(item, at), at)
        PROVE  Decode(at) = [instruction |-> Meaning(item), next |-> at + MoveSize(m)]
    <2>1. CASE loads
      <3>1. code = 139 /\ 139 \in DOMAIN FromRm /\ FromRm[139] = "mov"
        BY <2>1, Domains DEF code, FromRm
      <3>2. Decoded(139, rex, at + 2) =
              Read(FromRm[139], 64, Register(form.reg + 8 * rex.r), form.operand, 0, form.next)
        <4> HIDE DEF rex
        <4> QED BY <1>4, <3>1, DecodedFromRm
      <3>3. Meaning(item) = Instruction("mov", 64, Register(Reg64(reg)), MemOf(m), 0)
        BY <2>1, Zenon DEF IsMove
      <3> HIDE DEF form, rex
      <3> QED BY <1>4, <1>5, <1>6, <3>1, <3>2, <3>3, Zenon DEF Read
    <2>2. CASE ~loads
      <3>1. code = 137 /\ 137 \in DOMAIN ToRm /\ ToRm[137] = "mov"
        BY <2>2, Domains DEF code, ToRm
      <3>2. Decoded(137, rex, at + 2) =
              Read(ToRm[137], 64, form.operand, Register(form.reg + 8 * rex.r), 0, form.next)
        <4> HIDE DEF rex
        <4> QED BY <1>4, <3>1, DecodedToRm
      <3>3. Meaning(item) = Instruction("mov", 64, MemOf(m), Register(Reg64(reg)), 0)
        BY <2>2, Zenon DEF IsMove
      <3> HIDE DEF form, rex
      <3> QED BY <1>4, <1>5, <1>6, <3>1, <3>2, <3>3, Zenon DEF Read
    <2> QED BY <2>1, <2>2
  <1>7. item.size # 0 => item.size = MoveSize(m)
    BY DEF IsMove
  <1> QED BY <1>3, <1>4, <1>6, <1>7, Zenon DEF Sound

LEMMA MoveSizes ==
    /\ \A number \in INT32 : LET m == mem64BaseDisp("rbp", number) IN IsMemory(m) /\ MoveSize(m) = 7
    /\ \A base, index \in Registers \ {"rsp", "rbp", "r13"} :
          LET m == Mem64(base, 0, index, 8) IN IsMemory(m) /\ MoveSize(m) = 4
  <1>1. ASSUME NEW number \in INT32
        PROVE  LET m == mem64BaseDisp("rbp", number) IN IsMemory(m) /\ MoveSize(m) = 7
    <2> DEFINE m == mem64BaseDisp("rbp", number)
    <2>1. m.base = "rbp" /\ m.displacement = number /\ m.index = INVALID_REG64 /\ m.scale = 0
      BY DEF mem64BaseDisp, Mem64
    <2> HIDE DEF m
    <2>2. IsMemory(m)
      BY <2>1, RspRbp DEF IsMemory, INVALID_REG64
    <2>3. Plainly(m) /\ dispUsed(m)
      BY <2>1, RspRbp DEF Plainly, baseOrBaseDisp, isValidScale, dispUsed
    <2>4. Count(SibUsed(m)) = 0
      BY <2>2, <2>3, MemoryPlainly, Counts, Zenon
    <2>5. Len(Disp(m)) = 4
      BY <2>2, <2>3, MemoryFields
    <2>6. 3 + 0 + 4 = 7
      OBVIOUS
    <2>7. MoveSize(m) = 7
      BY <2>4, <2>5, <2>6, Zenon DEF MoveSize
    <2> QED BY <2>2, <2>7 DEF m
  <1>2. ASSUME NEW base \in Registers \ {"rsp", "rbp", "r13"}, NEW index \in Registers \ {"rsp", "rbp", "r13"}
        PROVE  LET m == Mem64(base, 0, index, 8) IN IsMemory(m) /\ MoveSize(m) = 4
    <2> DEFINE m == Mem64(base, 0, index, 8)
    <2>1. m.base = base /\ m.displacement = 0 /\ m.index = index
      BY DEF Mem64
    <2> HIDE DEF m
    <2>2. base # INVALID_REG64 /\ index # INVALID_REG64
      BY RspRbp
    <2>3. 0 \in INT32
      BY SMT DEF INT32
    <2>4. IsMemory(m)
      BY <2>1, <2>2, <2>3 DEF IsMemory
    <2>5. ~Plainly(m) /\ ~dispUsed(m)
      BY <2>1, <2>2 DEF Plainly, baseOrBaseDisp, dispUsed
    <2>6. Count(SibUsed(m)) = 1
      <3>1. PICK scale \in 0..3, i \in 0..7, b \in 0..7 : IsSibOf(m, scale, i, b)
        BY <2>4, <2>5, MemorySib
      <3> QED BY <3>1, Counts, Zenon DEF IsSibOf
    <2>7. Len(Disp(m)) = 0
      BY <2>4, <2>5, MemoryFields
    <2>8. 3 + 1 + 0 = 4
      OBVIOUS
    <2>9. MoveSize(m) = 4
      BY <2>6, <2>7, <2>8, Zenon DEF MoveSize
    <2> QED BY <2>4, <2>9 DEF m
  <1> QED BY <1>1, <1>2

(* The six moves, by what they say of themselves.                          *)
LEMMA SoundMoves ==
    ASSUME NEW item, NEW reg \in Registers, NEW m, IsMemory(m), NEW at \in Nat,
           item.ins.dst = reg,
           \/ item.ins.op \in {"load", "store"} /\ m = mem64BaseDisp(item.ins.src, item.ins.imm)
           \/ item.ins.op \in {"loadAt", "storeAt"} /\ m = Mem64(item.ins.src, 0, item.ins.imm, 8)
           \/ item.ins.op \in {"loadFrom", "storeTo"} /\ m = item.ins.memory,
           item.size # 0 => item.size = MoveSize(m)
    PROVE  Sound(item, at)
  <1> DEFINE op == item.ins.op
             Op(ops) == op \in ops
  <1>1. op \in {"load", "store", "loadAt", "storeAt", "loadFrom", "storeTo"}
    OBVIOUS
  <1>2. /\ op \in {"load", "loadAt", "loadFrom"} =>
              /\ writeItem(item, at - 1) = write_mov_memory(<<139>>, reg, m)
              /\ Meaning(item) = Instruction("mov", 64, Register(Reg64(reg)), MemOf(m), 0)
        /\ op \in {"store", "storeAt", "storeTo"} =>
              /\ writeItem(item, at - 1) = write_mov_memory(<<137>>, reg, m)
              /\ Meaning(item) = Instruction("mov", 64, MemOf(m), Register(Reg64(reg)), 0)
    <2>1. /\ op \in {"load", "loadAt", "loadFrom"} => writeItem(item, at - 1) = write_mov_memory(<<139>>, reg, m)
          /\ op \in {"store", "storeAt", "storeTo"} => writeItem(item, at - 1) = write_mov_memory(<<137>>, reg, m)
      <3>1. ASSUME op \in {"load", "loadAt", "loadFrom"}
            PROVE  writeItem(item, at - 1) = write_mov_memory(<<139>>, reg, m)
        BY <3>1, Operations, SMTT(30) DEF writeItem
      <3>2. ASSUME op \in {"store", "storeAt", "storeTo"}
            PROVE  writeItem(item, at - 1) = write_mov_memory(<<137>>, reg, m)
        BY <3>2, Operations, SMTT(30) DEF writeItem
      <3> QED BY <3>1, <3>2
    <2>2. /\ op \in {"load", "loadAt", "loadFrom"} =>
                Meaning(item) = Instruction("mov", 64, Register(Reg64(reg)), MemOf(m), 0)
          /\ op \in {"store", "storeAt", "storeTo"} =>
                Meaning(item) = Instruction("mov", 64, MemOf(m), Register(Reg64(reg)), 0)
      BY <1>1, SMT DEF Meaning, MemOf, ScaleOf
    <2> QED BY <2>1, <2>2
  <1>3. CASE op \in {"load", "loadAt", "loadFrom"}
    <2>1. IsMove(item, reg, m, at, TRUE)
      BY <1>2, <1>3, Zenon DEF IsMove
    <2> QED BY <2>1, SoundMove
  <1>4. CASE op \in {"store", "storeAt", "storeTo"}
    <2>1. IsMove(item, reg, m, at, FALSE)
      BY <1>2, <1>4, Zenon DEF IsMove
    <2> QED BY <2>1, SoundMove
  <1> QED BY <1>1, <1>3, <1>4

LEMMA SoundLoadStore ==
    ASSUME NEW r \in Registers, NEW number \in INT32, NEW at \in Nat
    PROVE  Sound(load(r, number), at) /\ Sound(store(r, number), at)
  <1> DEFINE m == mem64BaseDisp("rbp", number)
  <1>1. IsMemory(m) /\ MoveSize(m) = 7
    BY MoveSizes
  <1>2. ASSUME NEW item, item.ins.op \in {"load", "store"}, item.ins.dst = r, item.ins.src = "rbp",
               item.ins.imm = number, item.size = 7
        PROVE  Sound(item, at)
    <2>1. m = mem64BaseDisp(item.ins.src, item.ins.imm)
      BY <1>2
    <2> HIDE DEF m
    <2> QED BY <1>1, <1>2, <2>1, SoundMoves
  <1>3. load(r, number).ins.op = "load" /\ load(r, number).ins.dst = r /\ load(r, number).ins.src = "rbp"
        /\ load(r, number).ins.imm = number /\ load(r, number).size = 7
    BY DEF load, Plain, Item, Ins
  <1>4. store(r, number).ins.op = "store" /\ store(r, number).ins.dst = r /\ store(r, number).ins.src = "rbp"
        /\ store(r, number).ins.imm = number /\ store(r, number).size = 7
    BY DEF store, Plain, Item, Ins
  <1> QED BY <1>2, <1>3, <1>4

LEMMA SoundArrays ==
    ASSUME NEW r \in Registers, NEW base \in Registers \ {"rsp", "rbp", "r13"},
           NEW index \in Registers \ {"rsp", "rbp", "r13"}, NEW at \in Nat
    PROVE  Sound(loadAt(r, base, index), at) /\ Sound(storeAt(r, base, index), at)
  <1> DEFINE m == Mem64(base, 0, index, 8)
  <1>1. IsMemory(m) /\ MoveSize(m) = 4
    BY MoveSizes
  <1>2. ASSUME NEW item, item.ins.op \in {"loadAt", "storeAt"}, item.ins.dst = r, item.ins.src = base,
               item.ins.imm = index, item.size = 4
        PROVE  Sound(item, at)
    <2>1. m = Mem64(item.ins.src, 0, item.ins.imm, 8)
      BY <1>2
    <2> HIDE DEF m
    <2> QED BY <1>1, <1>2, <2>1, SoundMoves
  <1>3. LET item == loadAt(r, base, index)
        IN /\ item.ins.op = "loadAt" /\ item.ins.dst = r /\ item.ins.src = base
           /\ item.ins.imm = index /\ item.size = 4
    BY DEF loadAt, Plain, Item, Ins
  <1>4. LET item == storeAt(r, base, index)
        IN /\ item.ins.op = "storeAt" /\ item.ins.dst = r /\ item.ins.src = base
           /\ item.ins.imm = index /\ item.size = 4
    BY DEF storeAt, Plain, Item, Ins
  <1> QED BY <1>2, <1>3, <1>4

LEMMA SoundAnywhere ==
    ASSUME NEW r \in Registers, NEW m \in Encodable, NEW at \in Nat
    PROVE  Sound(loadFrom(r, m), at) /\ Sound(storeTo(m, r), at)
  <1>1. IsMemory(m)
    BY DEF IsMemory, Encodable, INVALID_REG64
  <1>2. /\ loadFrom(r, m).ins.op = "loadFrom" /\ loadFrom(r, m).ins.dst = r
        /\ loadFrom(r, m).ins.memory = m /\ loadFrom(r, m).size = 0
    BY DEF loadFrom, Item
  <1>3. /\ storeTo(m, r).ins.op = "storeTo" /\ storeTo(m, r).ins.dst = r
        /\ storeTo(m, r).ins.memory = m /\ storeTo(m, r).size = 0
    BY DEF storeTo, Item
  <1>4. Sound(loadFrom(r, m), at)
    BY <1>1, <1>2, SoundMoves
  <1>5. Sound(storeTo(m, r), at)
    BY <1>1, <1>3, SoundMoves
  <1> QED BY <1>4, <1>5

-----------------------------------------------------------------------------
(* Every item that may be written is sound.                                *)
LEMMA SoundOnRegisters ==
    ASSUME NEW item \in OnRegisters, NEW at \in Nat
    PROVE  Sound(item, at)
  <1>1. \/ \E r1, r2 \in Registers :
              \/ item = test(r1, r2) \/ item = xor(r1, r2) \/ item = cmp(r1, r2) \/ item = add(r1, r2)
              \/ item = sub(r1, r2) \/ item = imul(r1, r2) \/ item = mov(r1, r2)
        \/ \E r \in Registers : \/ item = idiv(r) \/ item = neg(r)
                                \/ item = OnStack(push(r), r) \/ item = OnStack(pop(r), r)
        \/ item \in WithoutOperands
    BY SMT DEF OnRegisters
  <1>2. ASSUME NEW r1 \in Registers, NEW r2 \in Registers
        PROVE  /\ Sound(test(r1, r2), at) /\ Sound(xor(r1, r2), at) /\ Sound(cmp(r1, r2), at)
               /\ Sound(add(r1, r2), at) /\ Sound(sub(r1, r2), at) /\ Sound(mov(r1, r2), at)
               /\ Sound(imul(r1, r2), at)
    <2>1. \A op \in {"cmp0", "xor", "cmp", "add", "sub", "mov"} : Sound(Plain(3, op, r1, r2, 0), at)
      BY SoundR64R64, Operations
    <2>2. Sound(imul(r1, r2), at)
      BY SoundImul
    <2> QED BY <2>1, <2>2, Zenon DEF test, xor, cmp, add, sub, mov
  <1>3. ASSUME NEW r \in Registers
        PROVE  /\ Sound(idiv(r), at) /\ Sound(neg(r), at)
               /\ Sound(OnStack(push(r), r), at) /\ Sound(OnStack(pop(r), r), at)
    BY SoundUnary, SoundPushPop, Zenon DEF idiv, neg, push, pop
  <1>4. CASE item \in WithoutOperands
    <2>1. IsAlone(cqo) /\ IsAlone(ret) /\ IsAlone(Plain(2, "syscall", "", "", 0))
      BY DEF IsAlone, cqo, ret, Plain, Item, Ins
    <2>2. item = cqo \/ item = ret \/ item = Plain(2, "syscall", "", "", 0)
      BY <1>4, Zenon DEF WithoutOperands
    <2> QED BY <2>1, <2>2, SoundAlone, Zenon
  <1> QED BY <1>1, <1>2, <1>3, <1>4, Zenon

LEMMA SoundWithNumbers ==
    ASSUME NEW item \in WithNumbers, NEW at \in Nat
    PROVE  Sound(item, at)
  <1>1. \/ \E r \in Registers, number \in Numbers :
              \/ item = addImm(r, number) \/ item = subImm(r, number)
              \/ item = load(r, number) \/ item = store(r, number)
        \/ \E r \in Registers, number \in LongNumbers : item = movImm(r, number)
        \/ \E r \in Registers, number \in Shifts : item = sal(r, number)
    BY DEF WithNumbers
  <1>2. ASSUME NEW r \in Registers, NEW number \in Numbers
        PROVE  Sound(addImm(r, number), at) /\ Sound(subImm(r, number), at)
    BY SoundNumber, OperandsAssumption, Zenon DEF addImm, subImm
  <1>3. ASSUME NEW r \in Registers, NEW number \in Numbers
        PROVE  Sound(load(r, number), at) /\ Sound(store(r, number), at)
    BY SoundLoadStore, OperandsAssumption, Zenon
  <1>4. CASE \E r \in Registers, number \in LongNumbers : item = movImm(r, number)
    BY <1>4, SoundMovImm, OperandsAssumption, Zenon
  <1>5. CASE \E r \in Registers, number \in Shifts : item = sal(r, number)
    BY <1>5, SoundShift, OperandsAssumption, Zenon
  <1> QED BY <1>1, <1>2, <1>3, <1>4, <1>5, Zenon

LEMMA SoundBranches ==
    ASSUME NEW item \in Branches, NEW at \in 1..(15 * MAX_TEXT + 1)
    PROVE  Sound(item, at)
  <1>1. \/ \E label \in Targets : item = call(label) \/ item = jmp(label)
        \/ \E label \in Targets, cc \in Conditions : item = jcc(cc, label)
        \/ \E label \in Targets, r \in Registers : item = movLabel(r, label)
    BY SMT DEF Branches
  <1>2. at \in Nat
    BY Limits, SMT
  <1>3. ASSUME NEW label \in Targets
        PROVE  \E offset \in 0..MAX_TEXT : label = Label("", "label", offset) /\ label.number = offset
    <2>1. PICK offset \in Offsets : label = Label("", "label", offset)
      BY Zenon DEF Targets
    <2>2. offset \in 0..MAX_TEXT
      BY OperandsAssumption, Zenon
    <2>3. label.number = offset
      <3>1. Label("", "label", offset).number = offset
        BY Zenon DEF Label
      <3> QED BY <2>1, <3>1, Zenon
    <2> QED BY <2>1, <2>2, <2>3, Zenon
  <1>4. ASSUME NEW label \in Targets, item = call(label) \/ item = jmp(label)
        PROVE  Sound(item, at)
    <2>1. item.ins.op \in {"call", "jmp"} /\ item.label = label /\ item.size = 5
      <3>1. call(label).ins.op = "call" /\ call(label).label = label /\ call(label).size = 5
        BY Zenon DEF call, Item, Ins
      <3>2. jmp(label).ins.op = "jmp" /\ jmp(label).label = label /\ jmp(label).size = 5
        BY Zenon DEF jmp, Item, Ins
      <3> QED BY <1>4, <3>1, <3>2, Zenon
    <2>2. item.ins.op \in DOMAIN OPCODE_REL32
      BY <2>1, Operations, Zenon
    <2> QED BY <1>2, <1>3, <2>1, <2>2, SoundBranch, Zenon
  <1>5. ASSUME NEW label \in Targets, NEW cc \in Conditions, item = jcc(cc, label)
        PROVE  Sound(item, at)
    <2>1. item.ins.op = cc /\ item.label = label /\ item.size = 6
      <3>1. jcc(cc, label).ins.op = cc /\ jcc(cc, label).label = label /\ jcc(cc, label).size = 6
        BY Zenon DEF jcc, Item, Ins
      <3> QED BY <1>5, <3>1, Zenon
    <2>2. cc \notin {"call", "jmp"} /\ cc \in DOMAIN OPCODE_REL32
      BY Zenon DEF Conditions
    <2> QED BY <1>2, <1>3, <2>1, <2>2, SoundBranch, Zenon
  <1>6. ASSUME NEW label \in Targets, NEW r \in Registers, item = movLabel(r, label)
        PROVE  Sound(item, at)
    BY <1>2, <1>3, <1>6, SoundMovLabel, Zenon
  <1> QED BY <1>1, <1>4, <1>5, <1>6, Zenon

LEMMA SoundMemoryMoves ==
    ASSUME NEW item \in Moves \union ArrayMoves, NEW at \in Nat
    PROVE  Sound(item, at)
  <1>1. CASE item \in Moves
    <2>1. \E r \in MovedRegisters, m \in Addresses : item = loadFrom(r, m) \/ item = storeTo(m, r)
      BY <1>1 DEF Moves
    <2>2. \A r \in MovedRegisters : r \in Registers
      BY OperandsAssumption
    <2> QED BY <2>1, <2>2, SoundAnywhere, OperandsAssumption, Zenon
  <1>2. CASE item \in ArrayMoves
    <2>1. \E r, base, index \in ArrayRegisters : item = loadAt(r, base, index) \/ item = storeAt(r, base, index)
      BY <1>2 DEF ArrayMoves
    <2>2. \A r \in ArrayRegisters : r \in Registers \ {"rsp", "rbp", "r13"} /\ r \in Registers
      BY OperandsAssumption
    <2> QED BY <2>1, <2>2, SoundArrays, Zenon
  <1> QED BY <1>1, <1>2

Written == UNION {Items[kind] : kind \in DOMAIN Items}

LEMMA SoundWritten ==
    ASSUME NEW item \in Written, NEW at \in 1..(15 * MAX_TEXT + 1)
    PROVE  Sound(item, at)
  <1>1. \/ item \in OnRegisters \/ item \in WithNumbers \/ item \in Branches
        \/ item \in Moves \/ item \in ArrayMoves
    BY DEF Written, Items
  <1>2. at \in Nat
    BY Limits, SMT
  <1> QED BY <1>1, <1>2, SoundOnRegisters, SoundWithNumbers, SoundBranches, SoundMemoryMoves

-----------------------------------------------------------------------------
(* The stream: each item's code lies where its start is, and the next      *)
(* start is behind it.                                                     *)
InText(code, at) ==
    /\ (at - 1) + Len(code) =< Len(bytes)
    /\ \A k \in 1..Len(code) : bytes[at + k - 1] = code[k]

Row(n) ==
    /\ items[n] \in Written
    /\ starts[n] \in 1..(15 * MAX_TEXT + 1)
    /\ InText(Code(items[n], starts[n]), starts[n])
    /\ starts[n] + Len(Code(items[n], starts[n])) = NextStart(n)

IInv ==
    /\ items \in Seq(Written) /\ starts \in Seq(Nat) /\ bytes \in Seq(Bytes)
    /\ Len(starts) = Len(items) /\ Len(items) =< MaxInstructions
    /\ Len(bytes) =< 15 * Len(items)
    /\ Len(items) > 0 => starts[1] = 1
    /\ \A n \in 1..Len(items) : Row(n)

LEMMA EmptyStream == Init => IInv
  <1> SUFFICES ASSUME Init PROVE IInv
    OBVIOUS
  <1>1. items = <<>> /\ starts = <<>> /\ bytes = <<>>
    BY DEF Init
  <1>2. /\ items \in Seq(Written) /\ starts \in Seq(Nat) /\ bytes \in Seq(Bytes)
        /\ Len(items) = 0 /\ Len(starts) = 0 /\ Len(bytes) = 0
    BY <1>1
  <1>3. MaxInstructions \in Nat
    BY OperandsAssumption, Limits, SMT
  <1> QED BY <1>2, <1>3, SMT DEF IInv

(* What lies in the stream is what the decoder finds there.                *)
LEMMA TextPlaced ==
    ASSUME bytes \in Seq(Bytes), NEW code \in Seq(Bytes), NEW at \in Nat \ {0}, InText(code, at)
    PROVE  Placed(code, at)
  <1> SUFFICES ASSUME NEW k \in 1..Len(code) PROVE Byte(at + k - 1) = code[k]
    BY Zenon DEF Placed
  <1>1. bytes[at + k - 1] = code[k] /\ (at - 1) + Len(code) =< Len(bytes)
    BY DEF InText
  <1>2. at + k - 1 \in DOMAIN bytes
    BY <1>1
  <1> QED BY <1>1, <1>2, Zenon DEF Byte

(* More code behind the stream moves nothing.                              *)
LEMMA TextStays ==
    ASSUME bytes \in Seq(Bytes), NEW more \in Seq(Bytes), bytes' = bytes \o more,
           NEW code \in Seq(Bytes), NEW at \in Nat \ {0}, InText(code, at)
    PROVE  InText(code, at)'
  <1>1. bytes' \in Seq(Bytes) /\ Len(bytes') = Len(bytes) + Len(more)
    OBVIOUS
  <1>2. (at - 1) + Len(code) =< Len(bytes')
    BY <1>1 DEF InText
  <1>3. ASSUME NEW k \in 1..Len(code) PROVE bytes'[at + k - 1] = code[k]
    <2>1. bytes[at + k - 1] = code[k] /\ at + k - 1 \in 1..Len(bytes)
      BY DEF InText
    <2> QED BY <2>1
  <1> QED BY <1>2, <1>3 DEF InText

LEMMA TextAdded ==
    ASSUME bytes \in Seq(Bytes), NEW code \in Seq(Bytes), bytes' = bytes \o code,
           NEW at \in Nat \ {0}, at = Len(bytes) + 1
    PROVE  InText(code, at)'
  <1>1. bytes' \in Seq(Bytes) /\ Len(bytes') = Len(bytes) + Len(code)
    OBVIOUS
  <1>2. (at - 1) + Len(code) =< Len(bytes')
    BY <1>1
  <1>3. ASSUME NEW k \in 1..Len(code) PROVE bytes'[at + k - 1] = code[k]
    <2>1. at + k - 1 = Len(bytes) + k
      OBVIOUS
    <2>2. (bytes \o code)[Len(bytes) + k] = code[k]
      OBVIOUS
    <2> QED BY <2>1, <2>2, Zenon
  <1> QED BY <1>2, <1>3, Zenon DEF InText

LEMMA Emitted ==
    ASSUME IInv, NEW item \in Written, Emit(item)
    PROVE  IInv'
  <1>1. /\ items \in Seq(Written) /\ starts \in Seq(Nat) /\ bytes \in Seq(Bytes)
        /\ Len(starts) = Len(items) /\ Len(items) =< MaxInstructions
        /\ Len(bytes) =< 15 * Len(items)
        /\ Len(items) > 0 => starts[1] = 1
    BY SMT DEF IInv
  <1>2. \A n \in 1..Len(items) : Row(n)
    BY Zenon DEF IInv
  <1>3. Len(items) \in Nat /\ Len(bytes) \in Nat
    BY <1>1, SMT
  <1>4. PICK last \in Nat \ {0} : last = Len(items) + 1
    BY <1>3, SMT
  <1>5. PICK at \in Nat \ {0} : at = Len(bytes) + 1
    BY <1>1, SMT
  <1> DEFINE code == Code(item, at)
  <1>6. /\ Len(items) < MaxInstructions
        /\ items' = Append(items, item) /\ starts' = Append(starts, at)
    BY <1>5, Zenon DEF Emit
  <1>7. at \in 1..(15 * MAX_TEXT + 1)
    <2>1. MaxInstructions \in Nat /\ MAX_TEXT \in Nat /\ MaxInstructions =< MAX_TEXT
      BY OperandsAssumption, Limits, SMT
    <2> QED BY <1>1, <1>6, <1>5, <2>1, SMT
  <1>8. bytes' = bytes \o code
    <2>1. at - 1 = Len(bytes)
      BY <1>1, <1>5, SMT
    <2> QED BY <2>1, Zenon DEF Emit, Code
  <1>9. code \in Seq(Bytes) /\ Len(code) \in 1..15
    BY <1>7, SoundWritten, Zenon DEF Sound
  <1>10. \A n \in 1..Len(items) :
            /\ Code(items[n], starts[n]) \in Seq(Bytes) /\ starts[n] \in Nat \ {0}
    <2> SUFFICES ASSUME NEW n \in 1..Len(items)
                 PROVE  Code(items[n], starts[n]) \in Seq(Bytes) /\ starts[n] \in Nat \ {0}
      OBVIOUS
    <2>1. items[n] \in Written /\ starts[n] \in 1..(15 * MAX_TEXT + 1)
      BY <1>2, Zenon DEF Row
    <2>2. Code(items[n], starts[n]) \in Seq(Bytes)
      BY <2>1, SoundWritten, Zenon DEF Sound
    <2>3. starts[n] \in Nat \ {0}
      BY <2>1, Limits, SMT
    <2> QED BY <2>2, <2>3
  <1> HIDE DEF code
  <1>11. /\ items' \in Seq(Written) /\ starts' \in Seq(Nat) /\ bytes' \in Seq(Bytes)
         /\ Len(items') = Len(items) + 1 /\ Len(starts') = Len(items) + 1
         /\ Len(bytes') = Len(bytes) + Len(code)
         /\ items'[last] = item /\ starts'[last] = at
         /\ \A n \in 1..Len(items) : items'[n] = items[n] /\ starts'[n] = starts[n]
    BY <1>1, <1>6, <1>8, <1>9, <1>5, <1>4, SMT
  <1>12. ASSUME NEW n \in 1..Len(items)
         PROVE  Row(n)'
    <2>1. items'[n] = items[n] /\ starts'[n] = starts[n] /\ Row(n)
      BY <1>2, <1>11
    <2>2. PICK s \in Nat \ {0}, c \in Seq(Bytes) : s = starts[n] /\ c = Code(items[n], starts[n])
      BY <1>10, Zenon
    <2>3. InText(c, s)'
      <3>1. InText(c, s)
        BY <2>1, <2>2, Zenon DEF Row
      <3> QED BY <1>1, <1>8, <1>9, <3>1, TextStays, Zenon
    <2>4. NextStart(n)' = NextStart(n)
      <3>1. CASE n = Len(items)
        <4>1. n + 1 = last /\ n # Len(items')
          <5>1. n + 1 = last /\ n # n + 1
            BY <1>3, <1>4, <3>1, SMT
          <5> QED BY <1>11, <3>1, <5>1, Zenon
        <4> QED BY <1>11, <1>5, <3>1, <4>1, Zenon DEF NextStart
      <3>2. CASE n # Len(items)
        <4>1. n + 1 \in 1..Len(items) /\ n # Len(items')
          BY <1>11, <1>3, <3>2, SMT
        <4> QED BY <1>11, <3>2, <4>1, Zenon DEF NextStart
      <3> QED BY <3>1, <3>2
    <2> QED BY <2>1, <2>3, <2>4, <2>2, Zenon DEF Row
  <1>13. Row(last)'
    <2>1. InText(code, at)'
      BY <1>1, <1>8, <1>9, <1>5, TextAdded, Zenon
    <2>2. at + Len(code) = Len(bytes') + 1
      BY <1>1, <1>9, <1>11, <1>5, SMT
    <2>3. NextStart(last)' = Len(bytes') + 1
      BY <1>11, <1>4, Zenon DEF NextStart
    <2> QED BY <1>7, <1>11, <2>1, <2>2, <2>3, Zenon DEF Row, code
  <1>14. \A n \in 1..Len(items') : Row(n)'
    <2> SUFFICES ASSUME NEW n \in 1..Len(items') PROVE Row(n)'
      OBVIOUS
    <2>1. n \in 1..Len(items) \/ n = last
      <3>1. n \in 1..(Len(items) + 1)
        BY <1>11, Zenon
      <3> QED BY <1>3, <1>4, <3>1, SMT
    <2> QED BY <1>12, <1>13, <2>1, Zenon
  <1>15. Len(items') > 0 => starts'[1] = 1
    <2>1. CASE Len(items) > 0
      <3>1. starts[1] = 1 /\ 1 \in 1..Len(items)
        BY <1>1, <1>3, <2>1, SMT
      <3> QED BY <1>11, <3>1, Zenon
    <2>2. CASE ~(Len(items) > 0)
      <3>1. last = 1 /\ at = 1
        BY <1>1, <1>5, <1>3, <1>4, <2>2, SMT
      <3> QED BY <1>11, <3>1, Zenon
    <2> QED BY <2>1, <2>2
  <1>16. Len(items') =< MaxInstructions /\ Len(bytes') =< 15 * Len(items')
    <2>1. MaxInstructions \in Nat
      BY OperandsAssumption, Limits, SMT
    <2>2. \A a, b, c, d \in Nat : a < d /\ b =< 15 * a /\ c =< 15 => a + 1 =< d /\ b + c =< 15 * (a + 1)
      OBVIOUS
    <2>3. Len(items) < MaxInstructions /\ Len(bytes) =< 15 * Len(items)
      BY <1>1, <1>6, Zenon
    <2>4. Len(code) \in Nat /\ Len(code) =< 15
      <3>1. \A k \in 1..15 : k \in Nat /\ k =< 15
        OBVIOUS
      <3> QED BY <1>9, <3>1, Zenon
    <2>5. Len(items') = Len(items) + 1 /\ Len(bytes') = Len(bytes) + Len(code)
      BY <1>11, Zenon
    <2>6. Len(items) + 1 =< MaxInstructions /\ Len(bytes) + Len(code) =< 15 * (Len(items) + 1)
      BY <1>3, <2>1, <2>2, <2>3, <2>4, Zenon
    <2> QED BY <2>5, <2>6, Zenon
  <1> QED BY <1>11, <1>14, <1>15, <1>16, SMT DEF IInv

LEMMA IInvStep ==
    ASSUME IInv, [Next]_<<items, starts, bytes>>
    PROVE  IInv'
  <1>1. CASE Next
    <2>1. PICK kind \in DOMAIN Items :
             \E item \in (IF items = <<>> THEN Items[kind] ELSE Followers[kind]) : Emit(item)
      BY <1>1, Zenon DEF Next
    <2>2. PICK item \in (IF items = <<>> THEN Items[kind] ELSE Followers[kind]) : Emit(item)
      BY <2>1, Zenon
    <2>3. item \in Items[kind]
      BY <2>2, OperandsAssumption, Zenon
    <2>4. item \in Written
      BY <2>3, Zenon DEF Written
    <2> QED BY <2>2, <2>4, Emitted, Zenon
  <1>2. CASE UNCHANGED <<items, starts, bytes>>
    <2>1. items' = items /\ starts' = starts /\ bytes' = bytes
      BY <1>2
    <2> QED BY <2>1, Zenon DEF IInv, Row, InText, NextStart
  <1> QED BY <1>1, <1>2, Zenon

LEMMA IInvDecodes == IInv => DecodesBack
  <1> SUFFICES ASSUME IInv PROVE DecodesBack
    OBVIOUS
  <1>1. /\ items \in Seq(Written) /\ bytes \in Seq(Bytes)
        /\ Len(items) > 0 => starts[1] = 1
        /\ \A n \in 1..Len(items) : Row(n)
    BY Zenon DEF IInv
  <1>2. items # <<>> => starts[1] = 1
    <2>1. items # <<>> => Len(items) > 0
      BY <1>1, EmptySeq, SMT
    <2> QED BY <1>1, <2>1, Zenon
  <1>3. ASSUME NEW n \in DOMAIN items
        PROVE  /\ Decode(starts[n]).instruction = Meaning(items[n])
               /\ Decode(starts[n]).next = NextStart(n)
               /\ items[n].size # 0 => NextStart(n) = starts[n] + items[n].size
    <2> DEFINE item == items[n]  at == starts[n]  code == Code(item, at)
    <2>1. Row(n)
      BY <1>1, LenProperties, Zenon
    <2>2. /\ item \in Written /\ at \in 1..(15 * MAX_TEXT + 1)
          /\ InText(code, at) /\ at + Len(code) = NextStart(n)
      BY <2>1, Zenon DEF Row
    <2>3. Sound(item, at)
      BY <2>2, SoundWritten, Zenon
    <2>4. at \in Nat \ {0}
      BY <2>2, Limits, SMT
    <2>5. code \in Seq(Bytes) /\ (item.size # 0 => Len(code) = item.size)
      BY <2>3, Zenon DEF Sound
    <2>6. Placed(code, at)
      BY <1>1, <2>2, <2>4, <2>5, TextPlaced, Zenon
    <2>7. Decode(at) = [instruction |-> Meaning(item), next |-> at + Len(code)]
      BY <2>3, <2>6, Zenon DEF Sound
    <2>8. Decode(at).instruction = Meaning(item) /\ Decode(at).next = at + Len(code)
      <3> DEFINE read == Decode(at)  meant == Meaning(item)  next == at + Len(code)
      <3>1. read = [instruction |-> meant, next |-> next]
        BY <2>7, Zenon
      <3> HIDE DEF read, meant, next
      <3>2. read.instruction = meant /\ read.next = next
        BY <3>1
      <3> QED BY <3>2, Zenon DEF read, meant, next
    <2> QED BY <2>2, <2>5, <2>8, Zenon
  <1> QED BY <1>2, <1>3, Zenon DEF DecodesBack

(* Whatever the operands, and however many instructions stand before and   *)
(* behind it, each item's bytes are read back as the instruction that was  *)
(* meant and end where the next item starts, at the distance that the      *)
(* linker counts: the write_... functions of instructions_compiling.cpp.   *)
THEOREM ReadBack == Spec => []DecodesBack
  <1>1. Init => IInv
    BY EmptyStream
  <1>2. IInv /\ [Next]_<<items, starts, bytes>> => IInv'
    BY IInvStep
  <1>3. IInv => DecodesBack
    BY IInvDecodes
  <1> QED BY <1>1, <1>2, <1>3, PTL DEF Spec
=============================================================================
