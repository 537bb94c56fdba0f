------------------------------ MODULE TwoPass -------------------------------
(***************************************************************************)
(* compile() of src/compiler/compiler.cpp: two passes of the same code     *)
(* generator over one ELF buffer.  The first pass learns the offset of     *)
(* every label, the second overwrites the buffer with the references       *)
(* resolved from the label table that the first pass left.                 *)
(*                                                                         *)
(* What the generator does in a pass depends only on the program (CodeGen) *)
(* and is here a sequence of events, one per call of the compiler's        *)
(* primitives:                                                             *)
(*   lookup         getExistingLabel: the offset is read now, used later   *)
(*   define         writeLabel                                             *)
(*   emit           an instruction without a label, or a string's bytes    *)
(*   rel32, imm64   an instruction whose operand is a looked up label      *)
(*   std            writeStdFunction: label, then a file's bytes           *)
(*   undefinedCall  compileCall of a name that no function has             *)
(*   endText, bss, startData, endData                                      *)
(* The buffer is ElfBuilder's; this module makes its calls.                *)
(***************************************************************************)
EXTENDS Integers, Sequences

CONSTANTS
    Labels,        \* everything a label can be called
    Love,          \* the label of the main function
    IoBuffer,      \* the label of the buffer in bss
    NoLabel,       \* in events without one
    StdFunctions,  \* sequence of [label, size]: the standard library's files
    NasmDump,      \* Compiler.isNasmNeeded
    Programs,      \* set of [code, strings], both sequences of events
    MaxText,
    MaxData

Event(op, label, size) == [op |-> op, label |-> label, size |-> size]

Ops == {"lookup", "define", "emit", "rel32", "imm64", "std", "undefinedCall",
        "endText", "bss", "startData", "endData"}

Events == [op : Ops, label : Labels \union {NoLabel}, size : Nat]

(* Only the code generator's own events occur between the standard library *)
(* and the end of the text, and only labels and bytes among the strings.   *)
LabelOps == {"lookup", "define", "rel32", "imm64"}

CodeEvents ==
    {e \in Events : /\ e.op \in LabelOps \union {"emit", "undefinedCall"}
                    /\ e.op \in LabelOps => e.label \in Labels}

StringEvents ==
    {e \in Events : /\ e.op \in {"define", "emit"}
                    /\ e.op = "define" => e.label \in Labels}

ASSUME ProgramAssumption ==
    /\ Love \in Labels
    /\ IoBuffer \in Labels
    /\ NoLabel \notin Labels
    /\ StdFunctions \in Seq([label : Labels, size : Nat])
    /\ NasmDump \in BOOLEAN
    /\ \A p \in Programs : /\ p.code \in Seq(CodeEvents)
                           /\ p.strings \in Seq(StringEvents)

(* The bound under which ElfBuilder's buffer suffices. *)
ASSUME BoundAssumption ==
    /\ MaxText \in Nat
    /\ MaxText < 729088
    /\ MaxData \in Nat

VARIABLES
    offset, capacity, start, filesz, phase, pass, fileSize,  \* ElfBuilder
    trace,    \* the events of one pass
    pc,       \* the next event
    labels,   \* LabelArray: the offset of each label, 0 when it is not there
    held,     \* the offsets in Labels that were looked up and not yet used
    at,       \* where the buffer's offset was at each event, last time
    operand,  \* the address operand each event has left in the buffer
    status    \* Compiler.status

builderVars == <<offset, capacity, start, filesz, phase, pass, fileSize>>
linkVars    == <<labels, held, at, operand>>
vars        == <<builderVars, trace, pc, linkVars, status>>

B == INSTANCE ElfBuilder WITH TextSizes <- Nat, DataSizes <- Nat

Statuses == {"NO_ERROR", "NO_MAIN_FUNCTION", "CALL_UNDEFINED_FUNCTION",
             "NO_STDIO_BYTECODE", "NO_STDIO_NASM_CODE"}

-----------------------------------------------------------------------------
(* writeEntryPoint: call love; mov rax, 60; xor rdi, rdi; syscall. *)
EntryPoint ==
    <<Event("lookup", Love, 0), Event("rel32", Love, 5),
      Event("emit", NoLabel, 10), Event("emit", NoLabel, 3),
      Event("emit", NoLabel, 2)>>

StdEvents ==
    [i \in DOMAIN StdFunctions |->
        Event("std", StdFunctions[i].label, StdFunctions[i].size)]

FirstCode == Len(EntryPoint) + Len(StdFunctions) + 1

Trace(p) ==
    EntryPoint \o StdEvents \o p.code
      \o <<Event("endText", NoLabel, 0), Event("bss", IoBuffer, 0),
           Event("startData", NoLabel, 0)>>
      \o p.strings
      \o <<Event("endData", NoLabel, 0)>>

Defines(e)    == e.op \in {"define", "std", "bss"}
References(e) == e.op \in {"rel32", "imm64"}
Writes(e)     == e.op \in {"emit", "rel32", "imm64", "std"}

(* getFunction(table, "love"): the function's label is among the events. *)
HasMain == \E i \in DOMAIN trace : Defines(trace[i]) /\ trace[i].label = Love

Init ==
    /\ B!Init
    /\ trace \in {Trace(p) : p \in Programs}
    /\ pc = 1
    /\ labels = [l \in Labels |-> 0]
    /\ held = [l \in Labels |-> 0]
    /\ at = [i \in DOMAIN trace |-> 0]
    /\ operand = [i \in DOMAIN trace |-> 0]
    /\ status = "NO_ERROR"

Construct ==
    /\ B!Construct
    /\ UNCHANGED <<trace, pc, linkVars, status>>

NoMainFunction ==
    /\ phase = "ready"
    /\ pass = 0
    /\ status = "NO_ERROR"
    /\ ~HasMain
    /\ status' = "NO_MAIN_FUNCTION"
    /\ UNCHANGED <<builderVars, trace, pc, linkVars>>

(* The operators named ...Bug are what the next definition would be with a *)
(* plausible mistake; no specification uses them.                          *)
AppendPassBug ==
    /\ HasMain
    /\ phase = "ready"
    /\ pass < B!TOTAL_PASSES
    /\ phase' = "text"
    /\ UNCHANGED <<offset, capacity, start, filesz, pass, fileSize>>
    /\ UNCHANGED <<trace, pc, linkVars, status>>

StartPass ==
    /\ HasMain
    /\ B!StartText
    /\ UNCHANGED <<trace, pc, linkVars, status>>

InPass == phase \in {"text", "bss", "dataStart", "data"} /\ pc \in DOMAIN trace

(* The current event is of kind op; the place of the event is recorded. *)
At(op) ==
    /\ InPass
    /\ trace[pc].op = op
    /\ at' = [at EXCEPT ![pc] = offset]
    /\ UNCHANGED trace

Lookup ==
    /\ At("lookup")
    /\ held' = [held EXCEPT ![trace[pc].label] = labels[trace[pc].label]]
    /\ pc' = pc + 1
    /\ UNCHANGED <<builderVars, labels, operand, status>>

Define ==
    /\ At("define")
    /\ labels' = [labels EXCEPT ![trace[pc].label] = offset]
    /\ pc' = pc + 1
    /\ UNCHANGED <<builderVars, held, operand, status>>

WithinBounds(size) ==
    IF phase = "text" THEN offset + size <= B!FIRST_SEGMENT_OFFSET + MaxText
                      ELSE offset + size <= start["data"] + MaxData

Write(size) ==
    /\ WithinBounds(size)
    /\ phase \in {"text", "data"}
    /\ B!WriteBytes(phase, size)

Emit ==
    /\ At("emit")
    /\ Write(trace[pc].size)
    /\ pc' = pc + 1
    /\ UNCHANGED <<labels, held, operand, status>>

RelativeToStartBug ==
    /\ At("rel32")
    /\ Write(trace[pc].size)
    /\ operand' = [operand EXCEPT ![pc] = held[trace[pc].label] - offset]
    /\ pc' = pc + 1
    /\ UNCHANGED <<labels, held, status>>

(* write_jump_rel32: relative to the end of the instruction. *)
EmitRel32 ==
    /\ At("rel32")
    /\ Write(trace[pc].size)
    /\ operand' = [operand EXCEPT ![pc] =
                     held[trace[pc].label] - offset - trace[pc].size]
    /\ pc' = pc + 1
    /\ UNCHANGED <<labels, held, status>>

(* write_mov_r64_imm64 of a label: its virtual address. *)
EmitImm64 ==
    /\ At("imm64")
    /\ Write(trace[pc].size)
    /\ operand' = [operand EXCEPT ![pc] =
                     held[trace[pc].label] + B!VIRTUAL_ADDRESS_START]
    /\ pc' = pc + 1
    /\ UNCHANGED <<labels, held, status>>

SilentUndefinedCallBug ==
    /\ At("undefinedCall")
    /\ pc' = pc + 1
    /\ UNCHANGED <<builderVars, labels, held, operand, status>>

(* compileError leaves the rest of the statement out and goes on. *)
UndefinedCall ==
    /\ At("undefinedCall")
    /\ status' = "CALL_UNDEFINED_FUNCTION"
    /\ pc' = pc + 1
    /\ UNCHANGED <<builderVars, labels, held, operand>>

(* writeStdFunctions stops after the function that finds an error in       *)
(* status, be it its own, an earlier one's or the previous pass's.         *)
StdFunctionWritten ==
    /\ At("std")
    /\ labels' = [labels EXCEPT ![trace[pc].label] = offset]
    /\ Write(trace[pc].size)
    /\ \/ status' = status
       \/ NasmDump /\ pass = 0 /\ status' = "NO_STDIO_NASM_CODE"
    /\ pc' = IF status' = "NO_ERROR" THEN pc + 1 ELSE FirstCode
    /\ UNCHANGED <<held, operand>>

SilentMissingFileBug ==
    /\ At("std")
    /\ labels' = [labels EXCEPT ![trace[pc].label] = offset]
    /\ pc' = pc + 1
    /\ UNCHANGED <<builderVars, held, operand, status>>

RetriedFileBug ==
    /\ At("std")
    /\ labels' = [labels EXCEPT ![trace[pc].label] = offset]
    /\ status' = "NO_STDIO_BYTECODE"
    /\ pc' = pc
    /\ UNCHANGED <<builderVars, held, operand>>

(* loadFile fails: nothing is written (room may have been made before).    *)
(* The functions behind it are then unknown to compileCall as well, which  *)
(* drops the calls of them; here the trace keeps their events.  Such a     *)
(* file is said to be written and its error reported, nothing more.        *)
StdFunctionMissing ==
    /\ At("std")
    /\ labels' = [labels EXCEPT ![trace[pc].label] = offset]
    /\ status' = "NO_STDIO_BYTECODE"
    /\ pc' = FirstCode
    /\ UNCHANGED <<builderVars, held, operand>>

UnendedTextBug ==
    /\ At("endText")
    /\ phase' = "bss"
    /\ pc' = pc + 1
    /\ UNCHANGED <<offset, capacity, start, filesz, pass, fileSize>>
    /\ UNCHANGED <<labels, held, operand, status>>

EndText ==
    /\ At("endText")
    /\ B!EndText
    /\ pc' = pc + 1
    /\ UNCHANGED <<labels, held, operand, status>>

WriteBss ==
    /\ At("bss")
    /\ B!WriteBss
    /\ labels' = [labels EXCEPT ![trace[pc].label] = start'["bss"]]
    /\ pc' = pc + 1
    /\ UNCHANGED <<held, operand, status>>

StartData ==
    /\ At("startData")
    /\ B!StartData
    /\ pc' = pc + 1
    /\ UNCHANGED <<labels, held, operand, status>>

EndData ==
    /\ At("endData")
    /\ B!EndData
    /\ pc' = 1
    /\ UNCHANGED <<labels, held, operand, status>>

WriteElfFile ==
    /\ B!WriteElfFile
    /\ UNCHANGED <<trace, pc, linkVars, status>>

(* One reallocation in makeNeededSpace, on behalf of the current event. *)
MakeNeededSpace ==
    /\ \/ phase = "construct" /\ B!Realloc(B!FIRST_SEGMENT_OFFSET + 1)
       \/ /\ InPass
          /\ phase \in {"text", "data"}
          /\ Writes(trace[pc])
          /\ WithinBounds(trace[pc].size)
          /\ B!Realloc(trace[pc].size)
       \/ /\ InPass
          /\ phase \in {"bss", "dataStart"}
          /\ trace[pc].op \in {"bss", "startData"}
          /\ B!Realloc(B!NeededForNewSegment)
    /\ UNCHANGED <<trace, pc, linkVars, status>>

Next ==
    \/ Construct
    \/ NoMainFunction
    \/ StartPass
    \/ Lookup
    \/ Define
    \/ Emit
    \/ EmitRel32
    \/ EmitImm64
    \/ UndefinedCall
    \/ StdFunctionWritten
    \/ StdFunctionMissing
    \/ EndText
    \/ WriteBss
    \/ StartData
    \/ EndData
    \/ WriteElfFile
    \/ MakeNeededSpace

Spec == Init /\ [][Next]_vars

(* compile() is a sequential program: it does not stop while it has a step. *)
FairSpec == Spec /\ WF_vars(Next)

-----------------------------------------------------------------------------
(* What the code generator owes the linker: a label is defined once, and a *)
(* reference uses an offset that was looked up earlier in the same pass.   *)
DefinedOnce ==
    \A i, j \in DOMAIN trace :
        Defines(trace[i]) /\ Defines(trace[j]) /\ trace[i].label = trace[j].label
            => i = j

LookupsDefined ==
    \A i \in DOMAIN trace : trace[i].op = "lookup" =>
        \E j \in DOMAIN trace : Defines(trace[j]) /\ trace[j].label = trace[i].label

ReferencesLookedUp ==
    \A i \in DOMAIN trace : References(trace[i]) =>
        \E j \in 1 .. i - 1 : /\ trace[j].op = "lookup"
                               /\ trace[j].label = trace[i].label

WellFormed == DefinedOnce /\ LookupsDefined /\ ReferencesLookedUp

-----------------------------------------------------------------------------
(* Every variable keeps its type. *)
TypeOK ==
    /\ B!TypeOK
    /\ trace \in Seq(Events)
    /\ pc \in 1 .. Len(trace)
    /\ labels \in [Labels -> Nat]
    /\ held \in [Labels -> Nat]
    /\ at \in [DOMAIN trace -> Nat]
    /\ operand \in [DOMAIN trace -> Int]
    /\ status \in Statuses

(* The offset of the label that event i defines, and the one that the      *)
(* processor computes from the operand of event i, executed at its place.  *)
Place(i) == IF trace[i].op = "bss" THEN B!SegmentStart(at[i]) ELSE at[i]

Target(i) ==
    IF trace[i].op = "rel32" THEN at[i] + trace[i].size + operand[i]
                             ELSE operand[i] - B!VIRTUAL_ADDRESS_START

Refers(i, j) ==
    References(trace[i]) /\ Defines(trace[j]) /\ trace[j].label = trace[i].label

(* A file that compile() writes without an error is linked: every call,    *)
(* jump and address in it reaches the definition of its label, although    *)
(* each operand comes from a table filled in the pass before, some of them *)
(* read long before they are used.                                         *)
Linked ==
    phase = "written" /\ status = "NO_ERROR" /\ WellFormed =>
        \A i, j \in DOMAIN trace : Refers(i, j) => Target(i) = Place(j)

(* While no error is met, the second pass puts every event exactly where   *)
(* the first pass put it, so overwriting leaves nothing of the first pass  *)
(* and the offsets that the first pass recorded stay true.                 *)
SecondPassInPlace ==
    pass = 1 /\ InPass /\ status = "NO_ERROR" => offset = at[pc]

(* The bytes of the text lie side by side, the entry point first.          *)
Contiguous ==
    phase = "written" /\ status = "NO_ERROR" =>
        /\ at[1] = B!FIRST_SEGMENT_OFFSET
        /\ \A i \in 1 .. Len(trace) - 1 :
              trace[i].op \notin {"bss", "startData"} =>
                  at[i + 1] = at[i] + IF Writes(trace[i]) THEN trace[i].size ELSE 0

(* The buffer that the first pass has grown is never reallocated, and so   *)
(* never moved, in an error free second pass.                              *)
NoReallocInSecondPass ==
    [][pass = 1 /\ status = "NO_ERROR" => capacity' = capacity]_vars

(* compile() reports a call of an undefined function, wherever it is, even *)
(* though code generation goes on and the file is written all the same.    *)
UndefinedCallReported ==
    phase = "written" /\ (\E i \in DOMAIN trace : trace[i].op = "undefinedCall")
        => status # "NO_ERROR"

(* Where compile() is at its end.                                          *)
Finished == phase = "written" \/ status = "NO_MAIN_FUNCTION"

(* What is still to be done: an upper bound of the events before the end.  *)
EventsLeft ==
    IF Finished THEN 0
    ELSE (B!TOTAL_PASSES - pass) * (Len(trace) + 2) + 1
           + (IF phase = "construct" THEN 1 ELSE 0)
           - (IF phase \in {"text", "bss", "dataStart", "data"} THEN pc ELSE 0)

(* The room that the current event asks for, and what is missing of it.    *)
Needed ==
    IF phase = "construct" THEN B!FIRST_SEGMENT_OFFSET + 1
    ELSE IF Writes(trace[pc]) THEN trace[pc].size
    ELSE B!NeededForNewSegment

Shortage == IF B!Room(Needed) THEN 0 ELSE offset + Needed - capacity + 1

(* Each step brings the end nearer, or the room that the next event needs: *)
(* no error makes a pass go back, and the buffer grows by something.       *)
GetsAhead ==
    [][/\ EventsLeft' \in Nat /\ Shortage' \in Nat
       /\ \/ EventsLeft' < EventsLeft
          \/ EventsLeft' = EventsLeft /\ Shortage' < Shortage]_vars

(* compile() ends: with a written file or with the refusal of a program    *)
(* without a main function.                                                *)
Terminates == <>[]Finished
=============================================================================
