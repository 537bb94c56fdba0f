----------------------------- MODULE Execution ------------------------------
(***************************************************************************)
(* A program from its tree to its output: the code generator (CodeGen)     *)
(* gives the events that the two passes (TwoPass) turn into a file, the    *)
(* kernel loads the file, the processor (Machine) executes what lies at    *)
(* each address, and Source says what should have been printed.            *)
(*                                                                         *)
(* The files of the standard library are taken to be there: a compilation  *)
(* that fails is TwoPass's subject.                                        *)
(***************************************************************************)
EXTENDS Integers, Sequences

CONSTANTS
    Sources,    \* what is compiled and run: Compiled(...)
    StackSize

ASSUME StackAssumption == StackSize \in Nat \ {0}

VARIABLES
    offset, capacity, start, filesz, phase, pass, fileSize,
    trace, pc, labels, held, at, operand, status,
    image, rip, regs, mem, flags, in, out, run, frames,
    chosen      \* the program that is compiled and run

compilerVars == <<offset, capacity, start, filesz, phase, pass, fileSize,
                  trace, pc, labels, held, at, operand, status>>
machineVars  == <<image, rip, regs, mem, flags, in, out, run, frames>>
vars         == <<compilerVars, machineVars, chosen>>

G == INSTANCE CodeGen
S == INSTANCE Source

(* Programs with their inputs, the code and the strings that the generator *)
(* makes of them, and what they mean.                                      *)
Compiled(sources) ==
    [i \in DOMAIN sources |->
        LET p == sources[i].program
        IN [program |-> p, input |-> sources[i].input,
            code |-> G!compileFunctions(p), strings |-> G!writeStringsData(p),
            output |-> S!Output(p, sources[i].input)]]

(* Concatenated with nothing, for TLC to compute them once.                *)
Runs == Sources \o <<>>

EventsOf(items) ==
    [i \in DOMAIN items |-> [op |-> items[i].op, label |-> items[i].label,
                             size |-> items[i].size]]

InsOf(items) == [i \in DOMAIN items |-> items[i].ins]

LabelsOf(items) == {items[i].label : i \in DOMAIN items} \ {G!Nameless}

StdFiles ==
    [i \in DOMAIN G!STANDARD_FUNCTIONS |->
        [label |-> G!Global(G!STANDARD_FUNCTIONS[i].name),
         size |-> G!STANDARD_FUNCTIONS[i].size]]

AllLabels ==
    {G!Global("love"), G!Global("IO_BUFFER")}
      \union {StdFiles[i].label : i \in DOMAIN StdFiles}
      \union UNION {LabelsOf(Runs[i].code) \union LabelsOf(Runs[i].strings) :
                      i \in DOMAIN Runs}

Traced(i) == [code |-> EventsOf(Runs[i].code), strings |-> EventsOf(Runs[i].strings)]

C == INSTANCE TwoPass WITH
        Labels <- AllLabels, Love <- G!Global("love"),
        IoBuffer <- G!Global("IO_BUFFER"), NoLabel <- G!Nameless,
        StdFunctions <- StdFiles, NasmDump <- FALSE,
        Programs <- {Traced(i) : i \in DOMAIN Runs},
        MaxText <- 8192, MaxData <- 4096

M == INSTANCE Machine WITH Inputs <- {Runs[i].input : i \in DOMAIN Runs}

-----------------------------------------------------------------------------
(* writeEntryPoint: the instructions of TwoPass's EntryPoint.              *)
EntryIns ==
    <<G!NoIns, G!Ins("call", "", "", 0), G!Ins("movImm", "rax", "", 60),
      G!Ins("xor", "rdi", "rdi", 0), G!Ins("syscall", "", "", 0)>>

StdIns == [i \in DOMAIN G!STANDARD_FUNCTIONS |->
              G!Ins("std", G!STANDARD_FUNCTIONS[i].name, "", 0)]

(* The instruction or the string that each event of the trace writes.      *)
Listing == EntryIns \o StdIns \o InsOf(Runs[chosen].code) \o <<G!NoIns, G!NoIns, G!NoIns>>
             \o InsOf(Runs[chosen].strings) \o <<G!NoIns>>

Address(i) == C!B!VIRTUAL_ADDRESS_START + at[i]

(* What an execution finds in memory.                                      *)
Image ==
    LET written == {i \in DOMAIN trace : C!Writes(trace[i])}
        listing == Listing
        Content(i) == [ins |-> listing[i], size |-> trace[i].size, operand |-> operand[i]]
    IN [a \in {Address(i) : i \in written} |->
           Content(CHOOSE i \in written : Address(i) = a)]

Init ==
    /\ chosen \in DOMAIN Runs
    /\ trace = C!Trace(Traced(chosen))
    /\ C!Init
    /\ in = Runs[chosen].input
    /\ M!MachineInit

Compile ==
    /\ C!Next
    /\ status' = "NO_ERROR"
    /\ UNCHANGED <<machineVars, chosen>>

Execve ==
    /\ phase = "written"
    /\ M!Boot(Image, C!B!VIRTUAL_ADDRESS_START + C!B!FIRST_SEGMENT_OFFSET)
    /\ UNCHANGED <<compilerVars, chosen>>

Execute == M!MachineNext /\ UNCHANGED <<compilerVars, chosen>>

Next == Compile \/ Execve \/ Execute

(* Nothing but the program runs, and the kernel lets it run.               *)
Spec == Init /\ [][Next]_vars /\ WF_vars(Next)

-----------------------------------------------------------------------------
(* The code generator keeps its promise to the linker: labels are fresh,   *)
(* every label looked up is defined somewhere, and nothing is referenced   *)
(* that was not looked up before.  (The trace stays what it is.)           *)
GeneratedWellFormed == phase = "construct" => C!WellFormed

(* A program that ends has printed exactly what its source means.          *)
PrintsItsMeaning ==
    run = "exit" => out = Runs[chosen].output

(* The processor is always at the beginning of an instruction: no jump     *)
(* and no return leads into an instruction, the bss or a string.           *)
RipOnInstruction ==
    run = "on" => rip \in DOMAIN image /\ image[rip].ins.op # "bytes"

(* A function returns to the instruction behind its call with the caller's *)
(* stack and frame pointer as they were.                                   *)
CallsReturn ==
    [][Len(frames') < Len(frames) =>
          LET frame == frames[Len(frames)]
          IN /\ rip' = frame.ret
             /\ regs'["rsp"] = frame.rsp
             /\ regs'["rbp"] = frame.rbp]_vars

(* Between two statements of a function without arrays the stack holds its *)
(* local variables and nothing else, so that no loop eats up the stack     *)
(* (mov rsp, rbp hides at the end what statements leave behind).           *)
FunctionTable == G!SymbolTable(Runs[chosen].program).functions

HasArray(name) ==
    LET i == S!FunctionOf(Runs[chosen].program, name)
    IN \E k \in DOMAIN Runs[chosen].program.functions[i].body :
          Runs[chosen].program.functions[i].body[k].type = "ADECL_TYPE"

Locals(name) ==
    LET i == S!FunctionOf(Runs[chosen].program, name)
    IN Len(FunctionTable[i].vars) - FunctionTable[i].paramsCount

StatementStarts ==
    {l \in AllLabels : l.name \in {".WHILE_", ".END_WHILE_", ".ELSE_", ".END_IF_ELSE"}}

StatementsKeepStack ==
    run = "on" =>
        \A l \in StatementStarts :
            labels[l] # 0 /\ rip = C!B!VIRTUAL_ADDRESS_START + labels[l]
                /\ ~HasArray(l.function)
                => regs["rsp"] = regs["rbp"] - 8 * Locals(l.function)

(* Every program of Sources ends, and without a fault.                     *)
Exits == <>[](run = "exit")
=============================================================================
