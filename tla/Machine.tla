------------------------------ MODULE Machine -------------------------------
(***************************************************************************)
(* The processor that executes a written file: the instructions that       *)
(* instructions_compiling.cpp writes, one action for each group of them.   *)
(* `image' maps the address of every instruction to the instruction, its   *)
(* size and its operand; the address of a string to its content.  A        *)
(* standard function (potter_tongue_libs/io) is one step, from its entry   *)
(* to its return: what it reads, prints and returns, with the registers    *)
(* that it and its system calls overwrite set to Junk.                     *)
(*                                                                         *)
(* Words are integers: overflow is left out.  Memory is the stack, StackSize *)
(* words below StackTop; code and strings are not written to.              *)
(***************************************************************************)
EXTENDS Integers, Sequences

CONSTANTS
    StackSize,  \* words of stack: a bound, the kernel gives 8 MB
    Inputs      \* what the user may type: a set of sequences of numbers

VARIABLES
    image,   \* what the loader has put at each address
    rip,
    regs,
    mem,     \* the words of the stack
    flags,   \* the two values compared last
    in,      \* the numbers still to be typed
    out,     \* what was printed
    run,     \* "off", "on", "exit", or "fault"
    frames   \* history: return address, rsp and rbp of every open call

machineVars == <<image, rip, regs, mem, flags, in, out, run, frames>>

Registers == {"rax", "rbx", "rcx", "rdx", "rdi", "rsi", "rsp", "rbp"}
StackTop  == 8 * StackSize
Words     == {8 * i : i \in 0 .. StackSize - 1}
Junk      == -777

MachineInit ==
    /\ image = <<>>
    /\ rip = 0
    /\ regs = [r \in Registers |-> 0]
    /\ mem = [w \in Words |-> 0]
    /\ flags = <<0, 0>>
    /\ in \in Inputs
    /\ out = <<>>
    /\ run = "off"
    /\ frames = <<>>

(* The kernel maps the file's segments and jumps to its entry point.       *)
Boot(loaded, entry) ==
    /\ run = "off"
    /\ image' = loaded
    /\ rip' = entry
    /\ regs' = [regs EXCEPT !["rsp"] = StackTop]
    /\ run' = "on"
    /\ UNCHANGED <<mem, flags, in, out, frames>>

-----------------------------------------------------------------------------
(* C++ and idiv truncate towards zero.                                     *)
Sign(n)       == IF n < 0 THEN -1 ELSE 1
Magnitude(n)  == Sign(n) * n
Quotient(a, b)  == Sign(a) * Sign(b) * (Magnitude(a) \div Magnitude(b))
Remainder(a, b) == a - b * Quotient(a, b)

(* The largest r with r * r <= n: what sqrtss and cvttss2si leave of n.    *)
SquareRoot(n) == CHOOSE r \in 0 .. n : r * r <= n /\ (r + 1) * (r + 1) > n

Current == image[rip]
ins     == Current.ins
NextRip   == rip + Current.size

(* The instruction at rip is one of ops. *)
At(ops) == run = "on" /\ rip \in DOMAIN image /\ ins.op \in ops

Keep == UNCHANGED <<image, in, out>>

(* An instruction that only gives a register a value.                      *)
Result ==
    CASE ins.op = "mov"      -> regs[ins.src]
      [] ins.op = "movImm"   -> ins.imm
      [] ins.op = "movLabel" -> Current.operand
      [] ins.op = "add"      -> regs[ins.dst] + regs[ins.src]
      [] ins.op = "addImm"   -> regs[ins.dst] + ins.imm
      [] ins.op = "sub"      -> regs[ins.dst] - regs[ins.src]
      [] ins.op = "subImm"   -> regs[ins.dst] - ins.imm
      [] ins.op = "imul"     -> regs[ins.dst] * regs[ins.src]
      [] ins.op = "neg"      -> -regs[ins.dst]
      [] ins.op = "sal"      -> regs[ins.dst] * 2 ^ ins.imm
      [] ins.op = "xor"      -> IF ins.dst = ins.src THEN 0 ELSE Junk

Compute ==
    /\ At({"mov", "movImm", "movLabel", "add", "addImm", "sub", "subImm",
           "imul", "neg", "sal", "xor"})
    /\ regs' = [regs EXCEPT ![ins.dst] = Result]
    /\ rip' = NextRip
    /\ Keep /\ UNCHANGED <<mem, flags, run, frames>>

Cqo ==
    /\ At({"cqo"})
    /\ regs' = [regs EXCEPT !["rdx"] = IF regs["rax"] < 0 THEN -1 ELSE 0]
    /\ rip' = NextRip
    /\ Keep /\ UNCHANGED <<mem, flags, run, frames>>

(* rdx:rax / src; rdx has been prepared by cqo.                            *)
Divide ==
    /\ At({"idiv"})
    /\ regs[ins.dst] # 0
    /\ regs["rdx"] = IF regs["rax"] < 0 THEN -1 ELSE 0
    /\ regs' = [regs EXCEPT !["rax"] = Quotient(regs["rax"], regs[ins.dst]),
                            !["rdx"] = Remainder(regs["rax"], regs[ins.dst])]
    /\ rip' = NextRip
    /\ Keep /\ UNCHANGED <<mem, flags, run, frames>>

Compare ==
    /\ At({"cmp", "cmp0"})
    /\ flags' = IF ins.op = "cmp" THEN <<regs[ins.dst], regs[ins.src]>>
                                  ELSE <<regs[ins.dst], 0>>
    /\ rip' = NextRip
    /\ Keep /\ UNCHANGED <<regs, mem, run, frames>>

Taken ==
    LET a == flags[1]
        b == flags[2]
    IN CASE ins.op = "jmp" -> TRUE
         [] ins.op = "je"  -> a = b
         [] ins.op = "jne" -> a # b
         [] ins.op = "jl"  -> a < b
         [] ins.op = "jg"  -> a > b
         [] ins.op = "jle" -> a <= b
         [] ins.op = "jge" -> a >= b

Jump ==
    /\ At({"jmp", "je", "jne", "jl", "jg", "jle", "jge"})
    /\ rip' = IF Taken THEN NextRip + Current.operand ELSE NextRip
    /\ Keep /\ UNCHANGED <<regs, mem, flags, run, frames>>

-----------------------------------------------------------------------------
(* The address of the memory operand.                                      *)
Address ==
    CASE ins.op \in {"load", "store"}     -> regs["rbp"] + ins.imm
      [] ins.op \in {"loadAt", "storeAt"} -> regs[ins.src] + 8 * regs[ins.imm]

Load ==
    /\ At({"load", "loadAt"})
    /\ Address \in Words
    /\ regs' = [regs EXCEPT ![ins.dst] = mem[Address]]
    /\ rip' = NextRip
    /\ Keep /\ UNCHANGED <<mem, flags, run, frames>>

Store ==
    /\ At({"store", "storeAt"})
    /\ Address \in Words
    /\ mem' = [mem EXCEPT ![Address] = regs[ins.dst]]
    /\ rip' = NextRip
    /\ Keep /\ UNCHANGED <<regs, flags, run, frames>>

Push ==
    /\ At({"push"})
    /\ regs["rsp"] - 8 \in Words
    /\ mem' = [mem EXCEPT ![regs["rsp"] - 8] = regs[ins.dst]]
    /\ regs' = [regs EXCEPT !["rsp"] = @ - 8]
    /\ rip' = NextRip
    /\ Keep /\ UNCHANGED <<flags, run, frames>>

Pop ==
    /\ At({"pop"})
    /\ regs["rsp"] \in Words
    /\ regs' = [regs EXCEPT !["rsp"] = @ + 8, ![ins.dst] = mem[regs["rsp"]]]
    /\ rip' = NextRip
    /\ Keep /\ UNCHANGED <<mem, flags, run, frames>>

CallFunction ==
    /\ At({"call"})
    /\ regs["rsp"] - 8 \in Words
    /\ mem' = [mem EXCEPT ![regs["rsp"] - 8] = NextRip]
    /\ regs' = [regs EXCEPT !["rsp"] = @ - 8]
    /\ rip' = NextRip + Current.operand
    /\ frames' = Append(frames, [ret |-> NextRip, rsp |-> regs["rsp"], rbp |-> regs["rbp"]])
    /\ Keep /\ UNCHANGED <<flags, run>>

Closed == SubSeq(frames, 1, Len(frames) - 1)

ReturnFromFunction ==
    /\ At({"ret"})
    /\ regs["rsp"] \in Words
    /\ frames # <<>>
    /\ rip' = mem[regs["rsp"]]
    /\ regs' = [regs EXCEPT !["rsp"] = @ + 8]
    /\ frames' = Closed
    /\ Keep /\ UNCHANGED <<mem, flags, run>>

-----------------------------------------------------------------------------
(* A standard function, entered with the return address on the stack: its  *)
(* i-th parameter lies i words above (at [rbp + 8 + 8 * i] once it has     *)
(* saved rbp).                                                             *)
Param(i) == mem[regs["rsp"] + 8 * i]

ClobberedBy ==
    [accio             |-> {"rbx", "rcx", "rdx", "rdi", "rsi"},
     accio_bombarda    |-> {"rbx", "rcx", "rdx", "rdi", "rsi"},
     flagrate          |-> {"rax", "rbx", "rcx", "rdx", "rdi", "rsi"},
     flagrate_bombarda |-> {"rax", "rbx", "rcx", "rdx", "rdi", "rsi"},
     flagrate_s        |-> {"rax", "rcx", "rdx", "rdi", "rsi"},
     crucio            |-> {}]

StdReturn(name, rax, printed, typed) ==
    /\ At({"std"})
    /\ ins.dst = name
    /\ regs["rsp"] + 8 * 3 <= StackTop
    /\ regs' = [r \in Registers |->
                   CASE r = "rsp" -> regs["rsp"] + 8
                     [] r \in ClobberedBy[name] -> Junk
                     [] r = "rax" -> rax
                     [] OTHER -> regs[r]]
    /\ rip' = mem[regs["rsp"]]
    /\ frames' = Closed
    /\ out' = out \o printed
    /\ in' = typed
    /\ UNCHANGED <<image, mem, flags, run>>

Printed(kind, a, b) == <<[kind |-> kind, number |-> a, precision |-> b, string |-> ""]>>

(* write(2) up to the terminating zero: a string only where one begins.    *)
PrintedString(address) ==
    <<[kind |-> "string", number |-> 0, precision |-> 0,
       string |-> IF address \in DOMAIN image /\ image[address].ins.op = "bytes"
                  THEN image[address].ins.dst ELSE "?"]>>

Flagrate == StdReturn("flagrate", 0, Printed("number", Param(1), 0), in)

FlagrateBombarda ==
    StdReturn("flagrate_bombarda", 0, Printed("decimal", Param(2), Param(1)), in)

FlagrateS == StdReturn("flagrate_s", 0, PrintedString(Param(1)), in)

Accio == in # <<>> /\ StdReturn("accio", Head(in), <<>>, Tail(in))

(* The user types a number without a fraction.                             *)
AccioBombarda ==
    in # <<>> /\ StdReturn("accio_bombarda", Head(in) * 10 ^ Param(1), <<>>, Tail(in))

Crucio == StdReturn("crucio", SquareRoot(Param(1)), <<>>, in)

(* The entry point ends with exit(rdi).                                    *)
Syscall ==
    /\ At({"syscall"})
    /\ run' = IF regs["rax"] = 60 /\ regs["rdi"] = 0 THEN "exit" ELSE "fault"
    /\ UNCHANGED <<image, rip, regs, mem, flags, in, out, frames>>

MachineNext ==
    \/ Compute
    \/ Cqo
    \/ Divide
    \/ Compare
    \/ Jump
    \/ Load
    \/ Store
    \/ Push
    \/ Pop
    \/ CallFunction
    \/ ReturnFromFunction
    \/ Flagrate
    \/ FlagrateBombarda
    \/ FlagrateS
    \/ Accio
    \/ AccioBombarda
    \/ Crucio
    \/ Syscall
=============================================================================
