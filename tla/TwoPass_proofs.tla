-------------------------- MODULE TwoPass_proofs ----------------------------
(* Proofs about TwoPass, for every program whose events are of the right   *)
(* kinds and sizes.  First the events of a pass are shown to be shaped as  *)
(* Trace builds them; then TwoPass is shown to implement ElfBuilder, which *)
(* brings ElfBuilder's invariant; then the linker's own invariant relates  *)
(* the label table of each pass to the places of the events.               *)
EXTENDS TwoPass, TLAPS

BP == INSTANCE ElfBuilder_proofs WITH TextSizes <- Nat, DataSizes <- Nat

(* Events before the last, with a label where one is needed. *)
InnerEvents ==
    {e \in Events : /\ e.op # "endData"
                    /\ e.op \in {"lookup", "define", "rel32", "imm64", "std", "bss"}
                          => e.label \in Labels}

TraceOK ==
    /\ trace \in Seq(Events)
    /\ Len(trace) \in Nat
    /\ FirstCode \in 1 .. Len(trace)
    /\ trace[Len(trace)].op = "endData"
    /\ \A i \in 1 .. Len(trace) - 1 : trace[i] \in InnerEvents

-----------------------------------------------------------------------------
LEMMA EventIn ==
    ASSUME NEW op \in Ops, NEW l \in Labels \union {NoLabel}, NEW n \in Nat
    PROVE  Event(op, l, n) \in Events
  BY DEF Event, Events

LEMMA ConcatInner ==
    ASSUME NEW s \in Seq(InnerEvents), NEW t \in Seq(InnerEvents)
    PROVE  s \o t \in Seq(InnerEvents) /\ Len(s \o t) = Len(s) + Len(t)
  OBVIOUS

LEMMA EntryInner == EntryPoint \in Seq(InnerEvents) /\ Len(EntryPoint) = 5
  <1>1. /\ Event("lookup", Love, 0) \in InnerEvents
        /\ Event("rel32", Love, 5) \in InnerEvents
        /\ Event("emit", NoLabel, 10) \in InnerEvents
        /\ Event("emit", NoLabel, 3) \in InnerEvents
        /\ Event("emit", NoLabel, 2) \in InnerEvents
    BY ProgramAssumption DEF Event, Events, Ops, InnerEvents
  <1> QED  BY <1>1 DEF EntryPoint

LEMMA StdInner == StdEvents \in Seq(InnerEvents) /\ Len(StdEvents) = Len(StdFunctions)
  <1>1. \A i \in 1 .. Len(StdFunctions) :
           Event("std", StdFunctions[i].label, StdFunctions[i].size) \in InnerEvents
    <2> TAKE i \in 1 .. Len(StdFunctions)
    <2> DEFINE files == [label : Labels, size : Nat]
    <2>1. StdFunctions \in Seq(files)
      BY ProgramAssumption
    <2>2. StdFunctions[i] \in files
      <3> HIDE DEF files
      <3> QED  BY <2>1
    <2>3. StdFunctions[i].label \in Labels /\ StdFunctions[i].size \in Nat
      BY <2>2
    <2> HIDE <2>2
    <2> QED  BY <2>3 DEF Event, Events, Ops, InnerEvents
  <1> QED  BY <1>1, ProgramAssumption DEF StdEvents

LEMMA CodeInner == Seq(CodeEvents) \subseteq Seq(InnerEvents)
                   /\ Seq(StringEvents) \subseteq Seq(InnerEvents)
  <1>1. CodeEvents \subseteq InnerEvents /\ StringEvents \subseteq InnerEvents
    BY DEF CodeEvents, StringEvents, InnerEvents, LabelOps
  <1> QED  BY <1>1

LEMMA MiddleInner ==
    <<Event("endText", NoLabel, 0), Event("bss", IoBuffer, 0),
      Event("startData", NoLabel, 0)>> \in Seq(InnerEvents)
  <1>1. /\ Event("endText", NoLabel, 0) \in InnerEvents
        /\ Event("bss", IoBuffer, 0) \in InnerEvents
        /\ Event("startData", NoLabel, 0) \in InnerEvents
    BY ProgramAssumption DEF Event, Events, Ops, InnerEvents
  <1> QED  BY <1>1

(* The events of a pass end with endData, and the user's code comes before. *)
LEMMA TraceShape == \A p \in Programs : trace = Trace(p) => TraceOK
  <1> SUFFICES ASSUME NEW p \in Programs, trace = Trace(p) PROVE TraceOK
    OBVIOUS
  <1> DEFINE middle == <<Event("endText", NoLabel, 0), Event("bss", IoBuffer, 0),
                         Event("startData", NoLabel, 0)>>
             last   == Event("endData", NoLabel, 0)
             a      == EntryPoint \o StdEvents
             b      == a \o p.code
             c      == b \o middle
             d      == c \o p.strings
  <1>1. p.code \in Seq(InnerEvents) /\ p.strings \in Seq(InnerEvents)
    BY CodeInner, ProgramAssumption
  <1>2. middle \in Seq(InnerEvents)
    BY MiddleInner
  <1>3. last \in Events /\ last.op = "endData"
    BY DEF Event, Events, Ops
  <1>4. a \in Seq(InnerEvents) /\ Len(a) = 5 + Len(StdFunctions)
    BY EntryInner, StdInner, ConcatInner
  <1>5. Len(StdFunctions) \in Nat
    BY ProgramAssumption
  <1> HIDE DEF middle, last, a
  <1>6. b \in Seq(InnerEvents) /\ Len(b) >= Len(a)
    BY <1>1, <1>4, ConcatInner
  <1> HIDE DEF b
  <1>7. c \in Seq(InnerEvents) /\ Len(c) >= Len(b)
    BY <1>2, <1>6, ConcatInner
  <1> HIDE DEF c
  <1>8. d \in Seq(InnerEvents) /\ Len(d) >= Len(c)
    BY <1>1, <1>7, ConcatInner
  <1> HIDE DEF d
  <1>9. trace = d \o <<last>>
    BY DEF Trace, a, b, c, d, middle, last
  <1>10. InnerEvents \subseteq Events
    BY DEF InnerEvents
  <1>11. /\ trace \in Seq(Events)
         /\ Len(trace) = Len(d) + 1
         /\ trace[Len(trace)] = last
         /\ \A i \in 1 .. Len(trace) - 1 : trace[i] \in InnerEvents
    BY <1>3, <1>8, <1>9, <1>10
  <1>12. FirstCode = 5 + Len(StdFunctions) + 1
    BY EntryInner DEF FirstCode
  <1>13. Len(d) >= 5 + Len(StdFunctions) /\ Len(a) \in Nat /\ Len(b) \in Nat
         /\ Len(c) \in Nat /\ Len(d) \in Nat
    BY <1>4, <1>6, <1>7, <1>8
  <1> QED  BY <1>3, <1>5, <1>11, <1>12, <1>13 DEF TraceOK

-----------------------------------------------------------------------------
(* TwoPass makes only calls that ElfBuilder allows. *)

LEMMA EventTypes ==
    ASSUME TraceOK, NEW i \in DOMAIN trace
    PROVE  /\ trace[i] \in Events
           /\ trace[i].size \in Nat
           /\ trace[i].op \in Ops
           /\ trace[i].op # "endData" => trace[i].label \in Labels
                                         \/ trace[i].op \in {"emit", "undefinedCall",
                                                             "endText", "startData"}
           /\ trace[i].op # "endData" <=> i # Len(trace)
           /\ i \in 1 .. Len(trace)
  <1>1. trace[i] \in Events /\ i \in 1 .. Len(trace) /\ Len(trace) \in Nat
    BY DEF TraceOK
  <1>2. trace[i].size \in Nat /\ trace[i].op \in Ops
    BY <1>1 DEF Events
  <1>3. CASE i = Len(trace)
    BY <1>1, <1>2, <1>3 DEF TraceOK
  <1>4. CASE i # Len(trace)
    <2>1. trace[i] \in InnerEvents
      BY <1>1, <1>4 DEF TraceOK
    <2>2. trace[i].op # "endData"
      BY <2>1 DEF InnerEvents
    <2>3. trace[i].label \in Labels
             \/ trace[i].op \in {"emit", "undefinedCall", "endText", "startData"}
      BY <1>2, <2>1, <2>2 DEF InnerEvents, Ops
    <2> QED  BY <1>1, <1>2, <1>4, <2>2, <2>3
  <1> QED  BY <1>3, <1>4

LEMMA TraceInit == Init => TraceOK
  BY TraceShape DEF Init

LEMMA TraceNext == TraceOK /\ [Next]_vars => TraceOK'
  <1> SUFFICES ASSUME TraceOK, [Next]_vars PROVE UNCHANGED trace
    BY DEF TraceOK, FirstCode
  <1> QED
    BY DEF Next, vars, Construct, NoMainFunction, StartPass, Lookup, Define, Emit,
           EmitRel32, EmitImm64, UndefinedCall, StdFunctionWritten,
           StdFunctionMissing, EndText, WriteBss, StartData, EndData,
           WriteElfFile, MakeNeededSpace, At

LEMMA WriteIsCall ==
    ASSUME TraceOK, NEW n \in Nat, Write(n)
    PROVE  B!Next
  <1>1. CASE phase = "text"
    BY <1>1 DEF Write, WithinBounds, B!Next, B!WriteText
  <1>2. CASE phase = "data"
    BY <1>2 DEF Write, WithinBounds, B!Next, B!WriteData
  <1> QED  BY <1>1, <1>2 DEF Write

LEMMA StepIsCall == TraceOK /\ [Next]_vars => [B!Next]_builderVars
  <1> SUFFICES ASSUME TraceOK, [Next]_vars PROVE [B!Next]_builderVars
    OBVIOUS
  <1>1. CASE Construct
    BY <1>1 DEF Construct, B!Next
  <1>2. CASE StartPass
    BY <1>2 DEF StartPass, B!Next
  <1>3. CASE Emit \/ EmitRel32 \/ EmitImm64 \/ StdFunctionWritten
    <2>1. pc \in DOMAIN trace /\ Write(trace[pc].size)
      BY <1>3 DEF Emit, EmitRel32, EmitImm64, StdFunctionWritten, At, InPass
    <2>2. trace[pc].size \in Nat
      BY <2>1, EventTypes
    <2> QED  BY <2>1, <2>2, WriteIsCall
  <1>4. CASE EndText
    BY <1>4 DEF EndText, B!Next
  <1>5. CASE WriteBss
    BY <1>5 DEF WriteBss, B!Next
  <1>6. CASE StartData
    BY <1>6 DEF StartData, B!Next
  <1>7. CASE EndData
    BY <1>7 DEF EndData, B!Next
  <1>8. CASE WriteElfFile
    BY <1>8 DEF WriteElfFile, B!Next
  <1>9. CASE MakeNeededSpace
    <2>1. CASE phase = "construct" /\ B!Realloc(B!FIRST_SEGMENT_OFFSET + 1)
      BY <2>1 DEF B!Next, B!MakeNeededSpace
    <2>2. CASE /\ InPass /\ phase \in {"text", "data"}
               /\ WithinBounds(trace[pc].size)
               /\ B!Realloc(trace[pc].size)
      <3>1. trace[pc].size \in Nat
        BY <2>2, EventTypes DEF InPass
      <3> QED  BY <2>2, <3>1 DEF B!Next, B!MakeNeededSpace, WithinBounds
    <2>3. CASE phase \in {"bss", "dataStart"} /\ B!Realloc(B!NeededForNewSegment)
      BY <2>3 DEF B!Next, B!MakeNeededSpace
    <2> QED  BY <1>9, <2>1, <2>2, <2>3 DEF MakeNeededSpace
  <1>10. CASE \/ NoMainFunction \/ Lookup \/ Define \/ UndefinedCall
              \/ StdFunctionMissing \/ UNCHANGED vars
    BY <1>10 DEF NoMainFunction, Lookup, Define, UndefinedCall,
                 StdFunctionMissing, vars, builderVars
  <1> QED
    BY <1>1, <1>2, <1>3, <1>4, <1>5, <1>6, <1>7, <1>8, <1>9, <1>10 DEF Next

(* compile() uses the ELF builder as ElfBuilder describes. *)
THEOREM ImplementsElfBuilder == Spec => B!Spec
  <1>1. Init => B!Init
    BY DEF Init
  <1>2. TraceOK /\ [Next]_vars => [B!Next]_B!builderVars
    BY StepIsCall DEF builderVars, B!builderVars
  <1> QED  BY <1>1, <1>2, TraceInit, TraceNext, PTL DEF Spec, B!Spec

(* The builder's invariant holds of the buffer that compile() fills. *)
THEOREM BuilderInvariant == Spec => []BP!IInv
  <1>1. BP!SizesAssumption
    BY BoundAssumption, SMT DEF BP!SizesAssumption
  <1>2. BP!Spec => []BP!IInv
    BY <1>1, BP!Inductive
  <1>3. B!Init => BP!Init
    BY DEF B!Init, BP!Init, B!Segments, BP!Segments, B!ELF_INITIAL_SIZE,
           BP!ELF_INITIAL_SIZE, B!FIRST_SEGMENT_OFFSET, BP!FIRST_SEGMENT_OFFSET,
           B!PAGE_SIZE, BP!PAGE_SIZE
  <1>4. [B!Next]_B!builderVars => [BP!Next]_BP!builderVars
    BY DEF B!Construct, BP!Construct, B!StartText, BP!StartText,
           B!WriteText, BP!WriteText, B!WriteBytes, BP!WriteBytes, B!Room,
           BP!Room, B!EndText, BP!EndText, B!EndCurSegment,
           BP!EndCurSegment, B!WriteBss, BP!WriteBss, B!SegmentStart,
           BP!SegmentStart, B!StartData, BP!StartData, B!WriteData,
           BP!WriteData, B!EndData, BP!EndData, B!WriteElfFile,
           BP!WriteElfFile, B!MakeNeededSpace, BP!MakeNeededSpace,
           B!Realloc, BP!Realloc, B!Grow, BP!Grow, B!NeededForNewSegment,
           BP!NeededForNewSegment, B!FIRST_SEGMENT_OFFSET,
           BP!FIRST_SEGMENT_OFFSET, B!PAGE_SIZE, BP!PAGE_SIZE,
           B!IO_BUFFER_SIZE, BP!IO_BUFFER_SIZE, B!TOTAL_PASSES,
           BP!TOTAL_PASSES, B!builderVars, BP!builderVars, B!Next, BP!Next
  <1> QED  BY <1>2, <1>3, <1>4, ImplementsElfBuilder, PTL DEF B!Spec, BP!Spec

-----------------------------------------------------------------------------
(* The types of TwoPass's own variables. *)
LocalTypeOK ==
    /\ pc \in 1 .. Len(trace)
    /\ labels \in [Labels -> Nat]
    /\ held \in [Labels -> Nat]
    /\ at \in [DOMAIN trace -> Nat]
    /\ operand \in [DOMAIN trace -> Int]
    /\ status \in Statuses

LEMMA BuilderTypes ==
    BP!IInv => /\ offset \in Nat
               /\ capacity \in Nat
               /\ start \in [{"text", "bss", "data"} -> Nat]
               /\ pass \in 0 .. 2
               /\ phase \in {"construct", "ready", "text", "bss", "dataStart",
                             "data", "written"}
               /\ B!TypeOK
               /\ phase = "construct" => pass = 0
               /\ phase \in {"text", "bss", "dataStart", "data"} => pass < 2
  BY DEF BP!IInv, BP!TypeOK, BP!Segments, BP!Phases, BP!TOTAL_PASSES, BP!PlaceOK,
         B!TypeOK, B!Segments, B!Phases, B!TOTAL_PASSES

LEMMA LocalTypeInit == Init => LocalTypeOK
  <1> SUFFICES ASSUME Init PROVE LocalTypeOK
    OBVIOUS
  <1>1. TraceOK
    BY TraceInit
  <1>2. 1 \in 1 .. Len(trace)
    BY <1>1 DEF TraceOK
  <1> QED  BY <1>2 DEF Init, LocalTypeOK, Statuses

LEMMA LocalTypeNext ==
    TraceOK /\ BP!IInv /\ BP!IInv' /\ LocalTypeOK /\ [Next]_vars => LocalTypeOK'
  <1> SUFFICES ASSUME TraceOK, BP!IInv, BP!IInv', LocalTypeOK, [Next]_vars
               PROVE  LocalTypeOK'
    OBVIOUS
  <1> USE DEF LocalTypeOK
  <1>1. start' \in [{"text", "bss", "data"} -> Nat]
    BY DEF BP!IInv, BP!TypeOK, BP!Segments
  <1>2. /\ offset \in Nat
        /\ start' \in [{"text", "bss", "data"} -> Nat]
        /\ FirstCode \in 1 .. Len(trace) /\ Len(trace) \in Nat
        /\ DOMAIN trace = 1 .. Len(trace)
    BY <1>1, BuilderTypes DEF TraceOK
  <1>3. InPass =>
          /\ pc \in DOMAIN trace
          /\ [at EXCEPT ![pc] = offset] \in [DOMAIN trace -> Nat]
          /\ trace[pc].size \in Nat
          /\ trace[pc].op \in {"lookup", "define", "rel32", "imm64", "std", "bss"}
                => trace[pc].label \in Labels
          /\ trace[pc].op # "endData" => pc + 1 \in 1 .. Len(trace)
    <2> SUFFICES ASSUME InPass
                 PROVE  /\ [at EXCEPT ![pc] = offset] \in [DOMAIN trace -> Nat]
                        /\ trace[pc].size \in Nat
                        /\ trace[pc].op \in {"lookup", "define", "rel32", "imm64",
                                             "std", "bss"}
                              => trace[pc].label \in Labels
                        /\ trace[pc].op # "endData" => pc + 1 \in 1 .. Len(trace)
      BY DEF InPass
    <2>1. pc \in DOMAIN trace
      BY DEF InPass
    <2>2. /\ trace[pc].size \in Nat
          /\ trace[pc].op # "endData" => trace[pc].label \in Labels
                                         \/ trace[pc].op \in {"emit", "undefinedCall",
                                                             "endText", "startData"}
          /\ trace[pc].op # "endData" <=> pc # Len(trace)
      BY <2>1, EventTypes
    <2>3. [at EXCEPT ![pc] = offset] \in [DOMAIN trace -> Nat]
      BY <1>2, <2>1
    <2>4. trace[pc].op \in {"lookup", "define", "rel32", "imm64", "std", "bss"}
             => trace[pc].label \in Labels
      BY <2>2
    <2>5. trace[pc].op # "endData" => pc + 1 \in 1 .. Len(trace)
      <3> SUFFICES ASSUME pc # Len(trace) PROVE pc + 1 \in 1 .. Len(trace)
        BY <2>2
      <3> QED  BY <1>2, <2>1
    <2> QED  BY <2>2, <2>3, <2>4, <2>5
  <1>4. CASE Construct \/ StartPass \/ WriteElfFile \/ MakeNeededSpace
    BY <1>4 DEF Construct, StartPass, WriteElfFile, MakeNeededSpace, linkVars
  <1>5. CASE NoMainFunction
    BY <1>5 DEF NoMainFunction, linkVars, Statuses
  <1>6. CASE Lookup
    BY <1>3, <1>6 DEF Lookup, At
  <1>7. CASE Define
    BY <1>2, <1>3, <1>7 DEF Define, At
  <1>8. CASE Emit
    BY <1>3, <1>8 DEF Emit, At
  <1>9. CASE EmitRel32
    <2>1. trace[pc].label \in Labels /\ trace[pc].size \in Nat
      BY <1>3, <1>9 DEF EmitRel32, At
    <2>2. held[trace[pc].label] - offset - trace[pc].size \in Int
      <3>1. held[trace[pc].label] \in Nat
        BY <2>1
      <3> QED  BY <1>2, <2>1, <3>1
    <2> QED  BY <1>3, <1>9, <2>2 DEF EmitRel32, At
  <1>10. CASE EmitImm64
    <2>1. held[trace[pc].label] + B!VIRTUAL_ADDRESS_START \in Int
      BY <1>3, <1>10, SMT DEF EmitImm64, At, B!VIRTUAL_ADDRESS_START
    <2> QED  BY <1>3, <1>10, <2>1 DEF EmitImm64, At
  <1>11. CASE UndefinedCall
    BY <1>3, <1>11 DEF UndefinedCall, Statuses, At
  <1>12. CASE StdFunctionWritten
    BY <1>2, <1>3, <1>12 DEF StdFunctionWritten, Statuses, At
  <1>13. CASE StdFunctionMissing
    BY <1>2, <1>3, <1>13 DEF StdFunctionMissing, Statuses, At
  <1>14. CASE EndText \/ StartData
    BY <1>3, <1>14 DEF EndText, StartData, At
  <1>15. CASE WriteBss
    BY <1>2, <1>3, <1>15 DEF WriteBss, At
  <1>16. CASE EndData
    BY <1>2, <1>3, <1>16 DEF EndData, At
  <1>17. CASE UNCHANGED vars
    BY <1>17 DEF vars, linkVars
  <1> QED
    BY <1>4, <1>5, <1>6, <1>7, <1>8, <1>9, <1>10, <1>11, <1>12, <1>13, <1>14,
       <1>15, <1>16, <1>17 DEF Next

THEOREM LocalTypes == Spec => [](TraceOK /\ BP!IInv /\ LocalTypeOK)
  BY TraceInit, TraceNext, BuilderInvariant, LocalTypeInit, LocalTypeNext, PTL
     DEF Spec

(* Every variable of the compilation keeps its type. *)
THEOREM TypeCorrect == Spec => []TypeOK
  <1>1. TraceOK /\ BP!IInv /\ LocalTypeOK => TypeOK
    BY BuilderTypes DEF TypeOK, LocalTypeOK, TraceOK
  <1> QED  BY <1>1, LocalTypes, PTL

-----------------------------------------------------------------------------
(* The linker is correct for every program.  The argument is one inductive *)
(* invariant, LinkOK.  It says where every event already placed lies       *)
(* relative to the one before (ChainOK), that the label table holds these  *)
(* places (LabelsOK) and that there was room for them (RoomOK).  In the    *)
(* second pass ChainOK still describes the whole first pass, hence the     *)
(* offset meets the old place of every event, the label table does not     *)
(* change, and every offset looked up is final (HeldOK, OperandOK).        *)
InPassPhases == {"text", "bss", "dataStart", "data"}

(* Events whose place is known, and those whose operand is final. *)
Settled(i) == pass > 0 \/ i < pc
Patched(i) == pass > 1 \/ (pass = 1 /\ i < pc)

(* The offset behind event i. *)
After(i) ==
    IF Writes(trace[i]) THEN at[i] + trace[i].size
    ELSE IF trace[i].op = "bss" THEN B!SegmentStart(at[i]) + B!IO_BUFFER_SIZE
    ELSE IF trace[i].op = "startData" THEN B!SegmentStart(at[i])
    ELSE at[i]

(* There is room in the buffer for what event i asks for. *)
HasRoom(i) ==
    /\ Writes(trace[i]) => at[i] + trace[i].size < capacity
    /\ trace[i].op \in {"bss", "startData"} => B!SegmentStart(at[i]) + 1 < capacity

ControlOK ==
    /\ phase \notin InPassPhases => pc = 1
    /\ phase = "construct" => pass = 0
    /\ phase \in InPassPhases => pass \in {0, 1}
    /\ phase = "written" => pass = 2

ChainOK ==
    /\ Settled(1) => at[1] = B!FIRST_SEGMENT_OFFSET
    /\ \A i \in 1 .. Len(trace) - 1 : Settled(i + 1) => at[i + 1] = After(i)

OffsetOK ==
    phase \in InPassPhases =>
        offset = IF pc = 1 THEN B!FIRST_SEGMENT_OFFSET ELSE After(pc - 1)

RoomOK == \A i \in DOMAIN trace : Settled(i) => HasRoom(i)

LabelsOK ==
    DefinedOnce => \A j \in DOMAIN trace :
        Settled(j) /\ Defines(trace[j]) => labels[trace[j].label] = Place(j)

HeldOK ==
    pass = 1 /\ DefinedOnce => \A i \in 1 .. pc - 1, j \in DOMAIN trace :
        trace[i].op = "lookup" /\ Defines(trace[j]) /\ trace[j].label = trace[i].label
            => held[trace[i].label] = Place(j)

OperandOK ==
    WellFormed => \A i, j \in DOMAIN trace :
        Patched(i) /\ Refers(i, j) => Target(i) = Place(j)

LinkOK ==
    status = "NO_ERROR" =>
        ChainOK /\ OffsetOK /\ RoomOK /\ LabelsOK /\ HeldOK /\ OperandOK

Typed == TraceOK /\ BP!IInv /\ LocalTypeOK

IInvL == Typed /\ ControlOK /\ LinkOK

-----------------------------------------------------------------------------
(* What every action of a pass but the last does when it meets no error:   *)
(* the event is placed at the offset, its label and operand are recorded,  *)
(* and the offset moves behind it.                                         *)
Advance(n) ==
    /\ n = pc
    /\ status = "NO_ERROR"
    /\ InPass
    /\ UNCHANGED <<trace, pass, capacity>>
    /\ phase' \in InPassPhases
    /\ pc # Len(trace)
    /\ pc' = pc + 1
    /\ at' = [at EXCEPT ![pc] = offset]
    /\ offset' = After(n)'
    /\ HasRoom(n)'
    /\ labels' = IF Defines(trace[pc])
                 THEN [labels EXCEPT ![trace[pc].label] = Place(n)']
                 ELSE labels
    /\ held' = IF trace[pc].op = "lookup"
               THEN [held EXCEPT ![trace[pc].label] = labels[trace[pc].label]]
               ELSE held
    /\ operand' = IF References(trace[pc])
                  THEN [operand EXCEPT ![pc] =
                          IF trace[pc].op = "rel32"
                          THEN held[trace[pc].label] - offset - trace[pc].size
                          ELSE held[trace[pc].label] + B!VIRTUAL_ADDRESS_START]
                  ELSE operand

(* The facts about types that the steps below use. *)
LEMMA TypedFacts ==
    ASSUME Typed
    PROVE  /\ Len(trace) \in Nat /\ Len(trace) > 0
           /\ DOMAIN trace = 1 .. Len(trace)
           /\ pc \in 1 .. Len(trace) /\ pc \in Nat
           /\ offset \in Nat /\ capacity \in Nat /\ pass \in 0 .. 2
           /\ at \in [DOMAIN trace -> Nat]
           /\ operand \in [DOMAIN trace -> Int]
           /\ labels \in [Labels -> Nat]
           /\ held \in [Labels -> Nat]
           /\ \A i \in DOMAIN trace : at[i] \in Nat /\ trace[i].size \in Nat
           /\ \A i \in DOMAIN trace :
                 Defines(trace[i]) \/ References(trace[i]) \/ trace[i].op = "lookup"
                    => trace[i].label \in Labels
  <1>1. /\ Len(trace) \in Nat /\ Len(trace) > 0 /\ DOMAIN trace = 1 .. Len(trace)
    BY DEF Typed, TraceOK
  <1>2. \A i \in DOMAIN trace : trace[i].size \in Nat
    BY EventTypes DEF Typed
  <1>3. \A i \in DOMAIN trace :
           Defines(trace[i]) \/ References(trace[i]) \/ trace[i].op = "lookup"
              => trace[i].label \in Labels
    <2> TAKE i \in DOMAIN trace
    <2>1. trace[i].op # "endData" => trace[i].label \in Labels
             \/ trace[i].op \in {"emit", "undefinedCall", "endText", "startData"}
      BY EventTypes DEF Typed
    <2> QED  BY <2>1 DEF Defines, References
  <1>4. /\ pc \in 1 .. Len(trace) /\ pc \in Nat
        /\ at \in [DOMAIN trace -> Nat]
        /\ operand \in [DOMAIN trace -> Int]
        /\ labels \in [Labels -> Nat]
        /\ held \in [Labels -> Nat]
    BY <1>1 DEF Typed, LocalTypeOK
  <1> QED  BY <1>1, <1>2, <1>3, <1>4, BuilderTypes DEF Typed

(* In the second pass the offset is where the first pass had it. *)
LEMMA InPlace ==
    ASSUME Typed, ControlOK, LinkOK, status = "NO_ERROR", InPass, pass = 1
    PROVE  offset = at[pc]
  <1>1. ChainOK /\ OffsetOK /\ phase \in InPassPhases
    BY DEF LinkOK, InPass, InPassPhases
  <1>2. CASE pc = 1
    BY <1>1, <1>2 DEF ChainOK, OffsetOK, Settled
  <1>3. CASE pc # 1
    <2>1. pc - 1 \in 1 .. Len(trace) - 1 /\ (pc - 1) + 1 = pc
      BY <1>3, TypedFacts
    <2>2. Settled(pc)
      BY DEF Settled
    <2> QED  BY <1>1, <1>3, <2>1, <2>2 DEF ChainOK, OffsetOK
  <1> QED  BY <1>2, <1>3

(* Placing the current event disturbs nothing that is already placed. *)
LEMMA PlacesKept ==
    ASSUME Typed, ControlOK, LinkOK, status = "NO_ERROR", InPass,
           UNCHANGED <<trace, capacity>>, at' = [at EXCEPT ![pc] = offset],
           \A k \in DOMAIN trace : k # pc => operand'[k] = operand[k],
           NEW i \in DOMAIN trace, Settled(i)
    PROVE  /\ at'[i] = at[i]
           /\ Place(i)' = Place(i)
           /\ After(i)' = After(i)
           /\ HasRoom(i)' <=> HasRoom(i)
           /\ i # pc => Target(i)' = Target(i)
  <1>1. at' = [at EXCEPT ![pc] = offset] /\ trace' = trace /\ capacity' = capacity
    OBVIOUS
  <1>2. pc \in DOMAIN trace /\ pc \in Nat /\ i \in Nat /\ at \in [DOMAIN trace -> Nat]
    BY TypedFacts
  <1>3. at'[i] = at[i]
    <2>1. CASE i # pc
      BY <1>1, <1>2, <2>1
    <2>2. CASE i = pc
      <3>1. pass = 1
        BY <1>2, <2>2 DEF Settled, ControlOK, InPass, InPassPhases
      <3>2. offset = at[pc]
        BY <3>1, InPlace
      <3> QED  BY <1>1, <1>2, <2>2, <3>2
    <2> QED  BY <2>1, <2>2
  <1>4. Place(i)' = Place(i) /\ After(i)' = After(i) /\ (HasRoom(i)' <=> HasRoom(i))
    BY <1>1, <1>3 DEF Place, After, HasRoom
  <1>5. ASSUME i # pc PROVE Target(i)' = Target(i)
    <2>1. operand'[i] = operand[i]
      BY <1>5
    <2> QED  BY <1>1, <1>3, <2>1 DEF Target
  <1> QED  BY <1>3, <1>4, <1>5

LEMMA AdvancePlaces ==
    ASSUME Typed, ControlOK, LinkOK, NEW n, Advance(n), NEW i \in DOMAIN trace, Settled(i)
    PROVE  /\ at'[i] = at[i]
           /\ Place(i)' = Place(i)
           /\ After(i)' = After(i)
           /\ HasRoom(i)' <=> HasRoom(i)
           /\ i # pc => Target(i)' = Target(i)
  <1>1. \A k \in DOMAIN trace : k # pc => operand'[k] = operand[k]
    BY TypedFacts DEF Advance
  <1> QED  BY <1>1, PlacesKept DEF Advance

LEMMA AdvanceSettled ==
    ASSUME Typed, NEW n, Advance(n), NEW i \in DOMAIN trace
    PROVE  Settled(i)' <=> Settled(i) \/ i = pc
  <1>1. pc \in Nat /\ i \in Nat /\ pc' = pc + 1 /\ pass' = pass /\ pass \in 0 .. 2
    BY TypedFacts DEF Advance
  <1> QED  BY <1>1 DEF Settled

LEMMA AdvanceLink ==
    ASSUME Typed, ControlOK, LinkOK, NEW n, Advance(n)
    PROVE  LinkOK'
  <1>1. /\ ChainOK /\ OffsetOK /\ RoomOK /\ LabelsOK /\ HeldOK /\ OperandOK
        /\ phase \in InPassPhases
    BY DEF Advance, LinkOK, InPass, InPassPhases
  <1>2. /\ Len(trace) \in Nat /\ Len(trace) > 0 /\ DOMAIN trace = 1 .. Len(trace)
        /\ pc \in 1 .. Len(trace) /\ pc \in Nat
        /\ at \in [DOMAIN trace -> Nat]
        /\ pass \in {0, 1}
    BY <1>1, TypedFacts DEF ControlOK
  <1>3. /\ trace' = trace /\ pass' = pass /\ pc' = pc + 1 /\ n = pc
        /\ at'[pc] = offset
        /\ phase' \in InPassPhases
    BY <1>2 DEF Advance
  <1>4. ChainOK'
    <2>1. ASSUME Settled(1)' PROVE at'[1] = B!FIRST_SEGMENT_OFFSET
      <3>1. CASE Settled(1)
        BY <1>1, <1>2, <3>1, AdvancePlaces DEF ChainOK
      <3>2. CASE pc = 1
        BY <1>1, <1>3, <3>2 DEF OffsetOK
      <3> QED  BY <1>2, <2>1, <3>1, <3>2, AdvanceSettled
    <2>2. ASSUME NEW i \in 1 .. Len(trace) - 1, Settled(i + 1)'
          PROVE  at'[i + 1] = After(i)'
      <3>1. i \in DOMAIN trace /\ i + 1 \in DOMAIN trace
        BY <1>2
      <3>2. Settled(i + 1) \/ i + 1 = pc
        BY <2>2, <3>1, AdvanceSettled
      <3>3. Settled(i)
        BY <1>2, <3>2 DEF Settled
      <3>4. After(i)' = After(i)
        BY <3>1, <3>3, AdvancePlaces
      <3>5. CASE Settled(i + 1)
        <4>1. at'[i + 1] = at[i + 1]
          BY <3>1, <3>5, AdvancePlaces
        <4> QED  BY <1>1, <3>4, <3>5, <4>1 DEF ChainOK
      <3>6. CASE i + 1 = pc
        <4>1. pc # 1 /\ pc - 1 = i
          BY <1>2, <3>6
        <4> QED  BY <1>1, <1>3, <3>4, <3>6, <4>1 DEF OffsetOK
      <3> QED  BY <3>2, <3>5, <3>6
    <2> QED  BY <1>3, <2>1, <2>2 DEF ChainOK
  <1>5. OffsetOK'
    <2>1. pc' # 1 /\ pc' - 1 = n
      BY <1>2, <1>3
    <2>2. offset' = After(n)'
      BY DEF Advance
    <2> QED  BY <2>1, <2>2 DEF OffsetOK
  <1>6. RoomOK'
    <2> SUFFICES ASSUME NEW i \in DOMAIN trace, Settled(i)' PROVE HasRoom(i)'
      BY <1>3 DEF RoomOK
    <2>1. CASE Settled(i)
      BY <1>1, <2>1, AdvancePlaces DEF RoomOK
    <2>2. CASE i = n
      BY <2>2 DEF Advance
    <2> QED  BY <1>3, <2>1, <2>2, AdvanceSettled
  <1>7. LabelsOK'
    <2> SUFFICES ASSUME DefinedOnce, NEW j \in DOMAIN trace, Settled(j)',
                        Defines(trace[j])
                 PROVE  labels'[trace[j].label] = Place(j)'
      BY <1>3 DEF LabelsOK, DefinedOnce
    <2>1. trace[j].label \in Labels /\ labels \in [Labels -> Nat]
      BY TypedFacts
    <2>2. CASE j = n
      <3>1. labels' = [labels EXCEPT ![trace[n].label] = Place(n)']
        BY <2>2 DEF Advance
      <3>2. labels'[trace[n].label] = Place(n)'
        BY <2>1, <2>2, <3>1
      <3> QED  BY <2>2, <3>2
    <2>3. CASE j # n
      <3>1. Settled(j)
        BY <1>3, <2>3, AdvanceSettled
      <3>2. labels[trace[j].label] = Place(j) /\ Place(j)' = Place(j)
        BY <1>1, <3>1, AdvancePlaces DEF LabelsOK
      <3>3. Defines(trace[pc]) => trace[pc].label # trace[j].label
        BY <1>2, <1>3, <2>3 DEF DefinedOnce
      <3>4. labels'[trace[j].label] = labels[trace[j].label]
        BY <2>1, <3>3 DEF Advance
      <3> QED  BY <3>2, <3>4
    <2> QED  BY <2>2, <2>3
  <1>8. HeldOK'
    <2> SUFFICES ASSUME pass = 1, DefinedOnce,
                        NEW i \in 1 .. pc, NEW j \in DOMAIN trace,
                        trace[i].op = "lookup", Defines(trace[j]),
                        trace[j].label = trace[i].label
                 PROVE  held'[trace[i].label] = Place(j)'
      <3>1. 1 .. pc' - 1 = 1 .. pc
        BY <1>2, <1>3
      <3> QED  BY <1>3, <3>1 DEF HeldOK, DefinedOnce
    <2>1. Settled(j)
      BY DEF Settled
    <2>2. Place(j)' = Place(j) /\ labels[trace[i].label] = Place(j)
      BY <1>1, <2>1, AdvancePlaces DEF LabelsOK
    <2>3. i \in DOMAIN trace /\ trace[i].label \in Labels /\ held \in [Labels -> Nat]
      BY <1>2, TypedFacts
    <2>4. CASE trace[pc].op = "lookup" /\ trace[pc].label = trace[i].label
      BY <2>2, <2>3, <2>4 DEF Advance
    <2>5. CASE ~(trace[pc].op = "lookup" /\ trace[pc].label = trace[i].label)
      <3>1. i \in 1 .. pc - 1
        BY <1>2, <2>5
      <3>2. held[trace[i].label] = Place(j)
        BY <1>1, <3>1 DEF HeldOK
      <3>3. held'[trace[i].label] = held[trace[i].label]
        BY <2>3, <2>5 DEF Advance
      <3> QED  BY <2>2, <3>2, <3>3
    <2> QED  BY <2>4, <2>5
  <1>9. OperandOK'
    <2> SUFFICES ASSUME WellFormed, NEW i \in DOMAIN trace, NEW j \in DOMAIN trace,
                        pass = 1, i \in 1 .. pc, Refers(i, j)
                 PROVE  Target(i)' = Place(j)'
      <3>1. WellFormed' <=> WellFormed
        BY <1>3 DEF WellFormed, DefinedOnce, LookupsDefined, ReferencesLookedUp
      <3>2. \A i, j : Refers(i, j)' <=> Refers(i, j)
        BY <1>3 DEF Refers
      <3>3. \A i \in DOMAIN trace : Patched(i)' => pass = 1 /\ i \in 1 .. pc
        BY <1>2, <1>3 DEF Patched
      <3> QED  BY <1>3, <3>1, <3>2, <3>3 DEF OperandOK
    <2>1. Settled(i) /\ Settled(j)
      BY DEF Settled
    <2>2. Place(j)' = Place(j)
      BY <2>1, AdvancePlaces
    <2>3. CASE i # n
      <3>1. Target(i)' = Target(i)
        BY <1>3, <2>1, <2>3, AdvancePlaces
      <3>2. Patched(i)
        BY <1>2, <1>3, <2>3 DEF Patched
      <3> QED  BY <1>1, <2>2, <3>1, <3>2 DEF OperandOK
    <2>4. CASE i = n
      <3>1. PICK k \in 1 .. pc - 1 : trace[k].op = "lookup"
                                      /\ trace[k].label = trace[pc].label
        BY <1>2, <1>3, <2>4 DEF WellFormed, ReferencesLookedUp, Refers
      <3>2. held[trace[pc].label] = Place(j)
        BY <1>1, <1>3, <2>4, <3>1 DEF HeldOK, WellFormed, Refers
      <3>3. References(trace[pc]) /\ trace[pc].label \in Labels
            /\ trace[pc].size \in Nat /\ held \in [Labels -> Nat]
            /\ operand \in [DOMAIN trace -> Int] /\ offset \in Nat
        BY <1>2, <1>3, <2>4, TypedFacts DEF Refers
      <3>4. held[trace[pc].label] \in Nat
        BY <3>3
      <3>5. CASE trace[pc].op = "rel32"
        <4>1. operand'[pc] = held[trace[pc].label] - offset - trace[pc].size
          BY <1>2, <3>3, <3>5 DEF Advance
        <4>2. Target(n)' = offset + trace[pc].size + operand'[pc]
          BY <1>3, <3>5 DEF Target
        <4>3. Target(n)' = held[trace[pc].label]
          BY <3>3, <3>4, <4>1, <4>2
        <4> QED  BY <1>3, <2>2, <2>4, <3>2, <4>3
      <3>6. CASE trace[pc].op # "rel32"
        <4>1. operand'[pc] = held[trace[pc].label] + B!VIRTUAL_ADDRESS_START
          BY <1>2, <3>3, <3>6 DEF Advance
        <4>2. Target(n)' = operand'[pc] - B!VIRTUAL_ADDRESS_START
          BY <1>3, <3>6 DEF Target
        <4>3. Target(n)' = held[trace[pc].label]
          BY <3>4, <4>1, <4>2, SMT DEF B!VIRTUAL_ADDRESS_START
        <4> QED  BY <1>3, <2>2, <2>4, <3>2, <4>3
      <3> QED  BY <3>5, <3>6
    <2> QED  BY <2>3, <2>4
  <1> QED  BY <1>4, <1>5, <1>6, <1>7, <1>8, <1>9 DEF LinkOK

-----------------------------------------------------------------------------
(* The last event of a pass: everything is settled, and after the second   *)
(* pass everything is patched.                                             *)
LEMMA EndDataLink ==
    ASSUME Typed, ControlOK, LinkOK, EndData
    PROVE  LinkOK'
  <1> SUFFICES ASSUME status = "NO_ERROR" PROVE LinkOK'
    BY DEF EndData, LinkOK
  <1> USE DEF LinkOK
  <1>1. /\ InPass /\ trace[pc].op = "endData"
        /\ at' = [at EXCEPT ![pc] = offset]
        /\ trace' = trace /\ pc' = 1 /\ pass' = pass + 1 /\ phase' = "ready"
        /\ UNCHANGED <<capacity, labels, operand, status>>
    BY DEF EndData, At, B!EndData
  <1>2. /\ Len(trace) \in Nat /\ Len(trace) > 0 /\ DOMAIN trace = 1 .. Len(trace)
        /\ pc \in 1 .. Len(trace) /\ pc \in Nat
        /\ at \in [DOMAIN trace -> Nat]
        /\ pass \in {0, 1}
    BY <1>1, TypedFacts DEF ControlOK, InPass, InPassPhases
  <1>3. pc = Len(trace)
    BY <1>1, <1>2, EventTypes DEF Typed
  <1>4. \A i \in DOMAIN trace : i # pc => Settled(i)
    BY <1>2, <1>3 DEF Settled
  <1>5. \A i \in DOMAIN trace : Settled(i) =>
           /\ at'[i] = at[i]
           /\ Place(i)' = Place(i)
           /\ After(i)' = After(i)
           /\ HasRoom(i)' <=> HasRoom(i)
           /\ i # pc => Target(i)' = Target(i)
    BY <1>1, PlacesKept
  <1>6. /\ ~Defines(trace[pc]) /\ ~References(trace[pc]) /\ ~Writes(trace[pc])
        /\ at'[pc] = offset
    BY <1>1, <1>2 DEF Defines, References, Writes
  <1>7. ChainOK'
    <2>1. at'[1] = B!FIRST_SEGMENT_OFFSET
      <3>1. CASE Settled(1)
        BY <1>2, <1>5, <3>1 DEF ChainOK
      <3>2. CASE pc = 1
        <4>1. offset = B!FIRST_SEGMENT_OFFSET
          BY <1>1, <3>2 DEF OffsetOK, InPass, InPassPhases
        <4> QED  BY <1>6, <3>2, <4>1
      <3> QED  BY <1>2, <1>4, <3>1, <3>2
    <2>2. ASSUME NEW i \in 1 .. Len(trace) - 1
          PROVE  at'[i + 1] = After(i)'
      <3>1. i \in 1 .. Len(trace) /\ i + 1 \in 1 .. Len(trace) /\ i # Len(trace)
        <4>1. ASSUME NEW m \in Nat, i \in 1 .. m - 1
              PROVE  i \in 1 .. m /\ i + 1 \in 1 .. m /\ i # m
          BY <4>1
        <4> QED  BY <1>2, <4>1
      <3>2. i \in DOMAIN trace /\ i + 1 \in DOMAIN trace /\ i # pc
        BY <1>2, <1>3, <3>1
      <3>3. After(i)' = After(i)
        BY <1>4, <1>5, <3>2
      <3>4. CASE Settled(i + 1)
        <4>1. at'[i + 1] = at[i + 1]
          BY <1>5, <3>2, <3>4
        <4> QED  BY <3>3, <3>4, <4>1 DEF ChainOK
      <3>5. CASE i + 1 = pc
        <4>1. pc # 1 /\ pc - 1 = i
          BY <1>2, <3>5
        <4> QED  BY <1>1, <1>6, <3>3, <3>5, <4>1 DEF OffsetOK, InPass, InPassPhases
      <3> QED  BY <1>4, <3>2, <3>4, <3>5
    <2> QED  BY <1>1, <2>1, <2>2 DEF ChainOK
  <1>8. OffsetOK'
    BY <1>1 DEF OffsetOK, InPassPhases
  <1>9. RoomOK'
    <2> SUFFICES ASSUME NEW i \in DOMAIN trace PROVE HasRoom(i)'
      BY <1>1 DEF RoomOK
    <2>1. CASE i = pc
      BY <1>1, <1>6, <2>1 DEF HasRoom
    <2>2. CASE i # pc
      BY <1>4, <1>5, <2>2 DEF RoomOK
    <2> QED  BY <2>1, <2>2
  <1>10. LabelsOK'
    <2> SUFFICES ASSUME DefinedOnce, NEW j \in DOMAIN trace, Defines(trace[j])
                 PROVE  labels'[trace[j].label] = Place(j)'
      BY <1>1 DEF LabelsOK, DefinedOnce
    <2>1. Settled(j)
      BY <1>4, <1>6
    <2> QED  BY <1>1, <1>5, <2>1 DEF LabelsOK
  <1>11. HeldOK'
    <2>1. 1 .. pc' - 1 = {}
      BY <1>1
    <2> QED  BY <2>1 DEF HeldOK
  <1>12. OperandOK'
    <2> SUFFICES ASSUME WellFormed, NEW i \in DOMAIN trace, NEW j \in DOMAIN trace,
                        Patched(i)', Refers(i, j)
                 PROVE  Target(i)' = Place(j)'
      BY <1>1 DEF OperandOK, WellFormed, DefinedOnce, LookupsDefined,
                  ReferencesLookedUp, Refers
    <2>1. pass = 1
      BY <1>1, <1>2 DEF Patched
    <2>2. i # pc /\ j # pc
      BY <1>6 DEF Refers
    <2>3. Patched(i)
      BY <1>2, <1>3, <2>1, <2>2 DEF Patched
    <2>4. Target(i) = Place(j)
      BY <2>3 DEF OperandOK
    <2> QED  BY <1>4, <1>5, <2>2, <2>4
  <1> QED  BY <1>7, <1>8, <1>9, <1>10, <1>11, <1>12

-----------------------------------------------------------------------------
LEMMA ControlInit == Init => ControlOK /\ LinkOK
  <1> SUFFICES ASSUME Init PROVE ControlOK /\ LinkOK
    OBVIOUS
  <1>1. phase = "construct" /\ pass = 0 /\ pc = 1 /\ TraceOK
    BY TraceInit DEF Init, B!Init
  <1>2. ControlOK
    BY <1>1 DEF ControlOK, InPassPhases
  <1>3. \A i \in DOMAIN trace : ~Settled(i) /\ ~Patched(i)
    BY <1>1 DEF Settled, Patched, TraceOK
  <1>4. ~Settled(1) /\ \A i \in 1 .. Len(trace) - 1 : ~Settled(i + 1)
    BY <1>1 DEF Settled, TraceOK
  <1> QED
    BY <1>1, <1>2, <1>3, <1>4
       DEF LinkOK, ChainOK, OffsetOK, RoomOK, LabelsOK, HeldOK, OperandOK, InPassPhases

(* An error stays in status until the end. *)
LEMMA ErrorsStay ==
    [Next]_vars => (status # "NO_ERROR" => status' # "NO_ERROR")
  BY DEF Next, vars, Construct, NoMainFunction, StartPass, Lookup, Define, Emit,
         EmitRel32, EmitImm64, UndefinedCall, StdFunctionWritten,
         StdFunctionMissing, EndText, WriteBss, StartData, EndData,
         WriteElfFile, MakeNeededSpace

LEMMA ControlNext == Typed /\ ControlOK /\ [Next]_vars => ControlOK'
  <1> SUFFICES ASSUME Typed, ControlOK, [Next]_vars PROVE ControlOK'
    OBVIOUS
  <1> USE DEF ControlOK, InPassPhases
  <1>1. pass \in 0 .. 2
    BY TypedFacts
  <1>2. CASE Construct
    BY <1>2 DEF Construct, B!Construct
  <1>3. CASE NoMainFunction \/ MakeNeededSpace \/ UNCHANGED vars
    BY <1>3 DEF NoMainFunction, MakeNeededSpace, vars, builderVars, B!Realloc
  <1>4. CASE StartPass
    BY <1>1, <1>4 DEF StartPass, B!StartText, B!TOTAL_PASSES
  <1>5. CASE Lookup \/ Define \/ UndefinedCall \/ StdFunctionMissing
    BY <1>5 DEF Lookup, Define, UndefinedCall, StdFunctionMissing, At, InPass,
                builderVars
  <1>6. CASE Emit \/ EmitRel32 \/ EmitImm64 \/ StdFunctionWritten
    BY <1>6 DEF Emit, EmitRel32, EmitImm64, StdFunctionWritten, At, InPass, Write,
                B!WriteBytes
  <1>7. CASE EndText
    BY <1>7 DEF EndText, B!EndText
  <1>8. CASE WriteBss
    BY <1>8 DEF WriteBss, B!WriteBss
  <1>9. CASE StartData
    BY <1>9 DEF StartData, B!StartData
  <1>10. CASE EndData
    BY <1>10 DEF EndData, B!EndData
  <1>11. CASE WriteElfFile
    BY <1>1, <1>11 DEF WriteElfFile, B!WriteElfFile, B!TOTAL_PASSES
  <1> QED
    BY <1>2, <1>3, <1>4, <1>5, <1>6, <1>7, <1>8, <1>9, <1>10, <1>11 DEF Next

(* Every other action of a pass that meets no error is an Advance. *)
LEMMA PassStep ==
    ASSUME Typed, ControlOK, status = "NO_ERROR", status' = "NO_ERROR",
           \/ Lookup \/ Define \/ Emit \/ EmitRel32 \/ EmitImm64
           \/ StdFunctionWritten \/ EndText \/ WriteBss \/ StartData
    PROVE  \E n : Advance(n)
  <1>1. PICK n : n = pc
    OBVIOUS
  <1>2. /\ InPass /\ n \in DOMAIN trace
        /\ at' = [at EXCEPT ![pc] = offset] /\ trace' = trace /\ at'[n] = offset
        /\ trace[pc].op # "endData"
        /\ pc # Len(trace)
    <2>1. /\ InPass /\ at' = [at EXCEPT ![pc] = offset] /\ trace' = trace
          /\ trace[pc].op # "endData"
      BY DEF Lookup, Define, Emit, EmitRel32, EmitImm64, StdFunctionWritten,
             EndText, WriteBss, StartData, At
    <2>2. n \in DOMAIN trace /\ pc # Len(trace)
      BY <1>1, <2>1, EventTypes DEF InPass, Typed
    <2> QED  BY <1>1, <2>1, <2>2, TypedFacts
  <1>3. offset \in Nat /\ capacity \in Nat /\ trace[n].size \in Nat
    BY <1>2, TypedFacts
  <1> USE DEF Advance, After, HasRoom, Place, InPassPhases, Defines, References,
              Writes, At, InPass
  <1>4. CASE Lookup
    BY <1>1, <1>2, <1>4 DEF Lookup, builderVars
  <1>5. CASE Define
    BY <1>1, <1>2, <1>5 DEF Define, builderVars
  <1>6. CASE Emit
    BY <1>1, <1>2, <1>3, <1>6 DEF Emit, Write, B!WriteBytes, B!Room
  <1>7. CASE EmitRel32
    BY <1>1, <1>2, <1>3, <1>7 DEF EmitRel32, Write, B!WriteBytes, B!Room
  <1>8. CASE EmitImm64
    BY <1>1, <1>2, <1>3, <1>8 DEF EmitImm64, Write, B!WriteBytes, B!Room
  <1>9. CASE StdFunctionWritten
    BY <1>1, <1>2, <1>3, <1>9 DEF StdFunctionWritten, Write, B!WriteBytes, B!Room
  <1>10. CASE EndText
    BY <1>1, <1>2, <1>10 DEF EndText, B!EndText
  <1>11. ASSUME B!Room(B!NeededForNewSegment)
         PROVE  B!SegmentStart(offset) + 1 < capacity
    <2>1. B!SegmentStart(offset) \in Nat
      BY <1>3 DEF B!SegmentStart, B!PAGE_SIZE
    <2> QED  BY <1>3, <1>11, <2>1 DEF B!Room, B!NeededForNewSegment
  <1>12. CASE WriteBss
    <2>1. start'["bss"] = B!SegmentStart(offset)
      <3>1. start \in [{"text", "bss", "data"} -> Nat]
        BY BuilderTypes DEF Typed
      <3> QED  BY <1>12, <3>1 DEF WriteBss, B!WriteBss
    <2> QED  BY <1>1, <1>2, <1>11, <1>12, <2>1 DEF WriteBss, B!WriteBss
  <1>13. CASE StartData
    BY <1>1, <1>2, <1>11, <1>13 DEF StartData, B!StartData
  <1> QED
    BY <1>4, <1>5, <1>6, <1>7, <1>8, <1>9, <1>10, <1>12, <1>13

(* The steps outside the passes, where nothing or everything is settled. *)
LEMMA OutsideStep ==
    ASSUME Typed, ControlOK, LinkOK, status' = status,
           \/ Construct \/ StartPass \/ WriteElfFile \/ MakeNeededSpace
           \/ UNCHANGED vars
    PROVE  LinkOK'
  <1> SUFFICES ASSUME status = "NO_ERROR" PROVE LinkOK'
    BY DEF LinkOK
  <1>1. /\ UNCHANGED <<trace, pc, labels, held, at, operand, pass>>
        /\ capacity \in Nat /\ capacity' \in Nat /\ capacity <= capacity'
    <2>1. CASE Construct \/ StartPass \/ WriteElfFile \/ UNCHANGED vars
      <3>1. UNCHANGED <<trace, pc, labels, held, at, operand, pass, capacity>>
        BY <2>1 DEF Construct, StartPass, WriteElfFile, linkVars, vars, builderVars,
                    B!Construct, B!StartText, B!WriteElfFile
      <3> QED  BY <3>1, TypedFacts
    <2>2. CASE MakeNeededSpace
      <3>1. /\ UNCHANGED <<trace, pc, labels, held, at, operand, pass>>
            /\ capacity' = B!Grow(capacity)
        BY <2>2 DEF MakeNeededSpace, linkVars, B!Realloc
      <3>2. capacity \in Nat /\ capacity > 1
        BY BuilderTypes, SMT DEF Typed, BP!IInv, BP!CapacityOK,
           BP!SmallCapacities, BP!LargestCheckedCapacity
      <3>3. B!Grow(capacity) \in Nat /\ capacity <= B!Grow(capacity)
        BY <3>2 DEF B!Grow
      <3> QED  BY <3>1, <3>2, <3>3
    <2> QED  BY <2>1, <2>2
  <1>2. ChainOK /\ OffsetOK /\ RoomOK /\ LabelsOK /\ HeldOK /\ OperandOK
    BY DEF LinkOK
  <1>3. ChainOK'
    BY <1>1, <1>2 DEF ChainOK, Settled, After
  <1>4. OffsetOK'
    <2>1. CASE Construct
      BY <2>1 DEF Construct, B!Construct, OffsetOK, InPassPhases
    <2>2. CASE StartPass
      <3>1. pc' = 1 /\ offset' = B!FIRST_SEGMENT_OFFSET
        BY <1>1, <2>2 DEF StartPass, B!StartText, ControlOK, InPassPhases
      <3> QED  BY <3>1 DEF OffsetOK
    <2>3. CASE WriteElfFile
      BY <2>3 DEF WriteElfFile, B!WriteElfFile, OffsetOK, InPassPhases
    <2>4. CASE MakeNeededSpace \/ UNCHANGED vars
      <3>1. phase' = phase /\ offset' = offset
        BY <2>4 DEF MakeNeededSpace, B!Realloc, vars, builderVars
      <3> QED  BY <1>1, <1>2, <3>1 DEF OffsetOK, InPassPhases, After
    <2> QED  BY <2>1, <2>2, <2>3, <2>4
  <1>5. RoomOK'
    <2> SUFFICES ASSUME NEW i \in DOMAIN trace, Settled(i) PROVE HasRoom(i)'
      BY <1>1 DEF RoomOK, Settled
    <2>1. at[i] \in Nat /\ trace[i].size \in Nat
      BY TypedFacts
    <2>2. B!SegmentStart(at[i]) \in Nat
      BY <2>1 DEF B!SegmentStart, B!PAGE_SIZE
    <2> QED  BY <1>1, <1>2, <2>1, <2>2 DEF RoomOK, HasRoom
  <1>6. LabelsOK'
    BY <1>1, <1>2 DEF LabelsOK, DefinedOnce, Settled, Place
  <1>7. HeldOK'
    BY <1>1, <1>2 DEF HeldOK, DefinedOnce, Place
  <1>8. OperandOK'
    BY <1>1, <1>2 DEF OperandOK, WellFormed, DefinedOnce, LookupsDefined,
                      ReferencesLookedUp, Refers, Patched, Target, Place
  <1> QED  BY <1>3, <1>4, <1>5, <1>6, <1>7, <1>8 DEF LinkOK

LEMMA LinkNext == Typed /\ ControlOK /\ LinkOK /\ [Next]_vars => LinkOK'
  <1> SUFFICES ASSUME Typed, ControlOK, LinkOK, [Next]_vars, status' = "NO_ERROR"
               PROVE  LinkOK'
    BY DEF LinkOK
  <1>1. status = "NO_ERROR"
    BY ErrorsStay
  <1>2. CASE \/ Lookup \/ Define \/ Emit \/ EmitRel32 \/ EmitImm64
             \/ StdFunctionWritten \/ EndText \/ WriteBss \/ StartData
    BY <1>1, <1>2, PassStep, AdvanceLink
  <1>3. CASE EndData
    BY <1>3, EndDataLink
  <1>4. CASE \/ Construct \/ StartPass \/ WriteElfFile \/ MakeNeededSpace
             \/ UNCHANGED vars
    BY <1>1, <1>4, OutsideStep
  <1>5. CASE NoMainFunction \/ UndefinedCall \/ StdFunctionMissing
    BY <1>5 DEF NoMainFunction, UndefinedCall, StdFunctionMissing
  <1> QED  BY <1>2, <1>3, <1>4, <1>5 DEF Next

-----------------------------------------------------------------------------
THEOREM LinkInvariant == Spec => []IInvL
  <1>1. Spec => []Typed
    BY LocalTypes, PTL DEF Typed
  <1>2. Typed /\ ControlOK /\ LinkOK /\ [Next]_vars => (ControlOK /\ LinkOK)'
    BY ControlNext, LinkNext
  <1>3. Init => ControlOK /\ LinkOK
    BY ControlInit
  <1> QED  BY <1>1, <1>2, <1>3, PTL DEF Spec, IInvL

(* Whatever program compile() accepts without an error, every label        *)
(* operand in the written file reaches the label's definition.             *)
THEOREM LinkedCorrect == Spec => []Linked
  <1>1. IInvL => Linked
    <2> SUFFICES ASSUME IInvL, phase = "written", status = "NO_ERROR", WellFormed,
                        NEW i \in DOMAIN trace, NEW j \in DOMAIN trace, Refers(i, j)
                 PROVE  Target(i) = Place(j)
      BY DEF Linked
    <2>1. pass = 2 /\ OperandOK
      BY DEF IInvL, ControlOK, LinkOK
    <2>2. Patched(i)
      BY <2>1 DEF Patched
    <2> QED  BY <2>1, <2>2 DEF OperandOK
  <1> QED  BY <1>1, LinkInvariant, PTL

(* The second pass overwrites every event at the place of the first. *)
THEOREM SecondPassIsInPlace == Spec => []SecondPassInPlace
  <1>1. IInvL => SecondPassInPlace
    BY InPlace DEF IInvL, SecondPassInPlace
  <1> QED  BY <1>1, LinkInvariant, PTL

(* The text of the file has no gaps and begins with the entry point. *)
THEOREM TextIsContiguous == Spec => []Contiguous
  <1>1. IInvL => Contiguous
    <2> SUFFICES ASSUME IInvL, phase = "written", status = "NO_ERROR" PROVE Contiguous
      BY DEF Contiguous
    <2>1. pass = 2 /\ ChainOK
      BY DEF IInvL, ControlOK, LinkOK
    <2>2. \A i : Settled(i)
      BY <2>1 DEF Settled
    <2>3. \A i \in DOMAIN trace : at[i] \in Nat
      BY TypedFacts DEF IInvL
    <2>4. Len(trace) \in Nat /\ DOMAIN trace = 1 .. Len(trace)
      BY TypedFacts DEF IInvL
    <2>5. ASSUME NEW i \in 1 .. Len(trace) - 1,
                 trace[i].op \notin {"bss", "startData"}
          PROVE  at[i + 1] = at[i] + IF Writes(trace[i]) THEN trace[i].size ELSE 0
      <3>1. at[i + 1] = After(i) /\ at[i] \in Nat
        <4>1. i \in DOMAIN trace
          BY <2>4
        <4> QED  BY <2>1, <2>2, <2>3, <4>1 DEF ChainOK
      <3> QED  BY <2>5, <3>1 DEF After
    <2> QED  BY <2>1, <2>2, <2>5 DEF ChainOK, Contiguous
  <1> QED  BY <1>1, LinkInvariant, PTL

(* An error free second pass asks for no room that is not there. *)
THEOREM SecondPassFits == Spec => NoReallocInSecondPass
  <1>1. IInvL /\ [Next]_vars =>
           [pass = 1 /\ status = "NO_ERROR" => capacity' = capacity]_vars
    <2> SUFFICES ASSUME IInvL, [Next]_vars, pass = 1, status = "NO_ERROR"
                 PROVE  capacity' = capacity
      OBVIOUS
    <2>1. CASE MakeNeededSpace
      <3> SUFFICES FALSE
        OBVIOUS
      <3>1. CASE phase = "construct"
        BY <3>1 DEF IInvL, ControlOK
      <3>2. CASE phase # "construct"
        <4>1. InPass
          BY <2>1, <3>2 DEF MakeNeededSpace
        <4>2. offset = at[pc] /\ pc \in DOMAIN trace
          BY <4>1, InPlace DEF IInvL, InPass
        <4>3. HasRoom(pc)
          BY <4>2 DEF IInvL, LinkOK, RoomOK, Settled
        <4>4. offset \in Nat /\ capacity \in Nat
          BY TypedFacts DEF IInvL
        <4>5. CASE Writes(trace[pc]) /\ B!Realloc(trace[pc].size)
          BY <4>2, <4>3, <4>5 DEF HasRoom, B!Realloc, B!Room
        <4>6. CASE trace[pc].op \in {"bss", "startData"}
                   /\ B!Realloc(B!NeededForNewSegment)
          <5>1. B!SegmentStart(offset) + 1 < capacity
            BY <4>2, <4>3, <4>6 DEF HasRoom
          <5>2. B!SegmentStart(offset) \in Nat
            BY <4>4 DEF B!SegmentStart, B!PAGE_SIZE
          <5>3. B!Room(B!NeededForNewSegment)
            BY <4>4, <5>1, <5>2 DEF B!Room, B!NeededForNewSegment
          <5> QED  BY <4>6, <5>3 DEF B!Realloc
        <4> QED  BY <2>1, <3>2, <4>5, <4>6 DEF MakeNeededSpace
      <3> QED  BY <3>1, <3>2
    <2>2. CASE ~MakeNeededSpace
      BY <2>2 DEF Next, vars, builderVars, Construct, NoMainFunction, StartPass, Lookup,
             Define, Emit, EmitRel32, EmitImm64, UndefinedCall,
             StdFunctionWritten, StdFunctionMissing, EndText, WriteBss,
             StartData, EndData, WriteElfFile, Write, B!Construct, B!StartText,
             B!WriteBytes, B!EndText, B!WriteBss, B!StartData, B!EndData,
             B!WriteElfFile
    <2> QED  BY <2>1, <2>2
  <1> QED  BY <1>1, LinkInvariant, PTL DEF Spec, NoReallocInSecondPass
-----------------------------------------------------------------------------
(* No call of an undefined function that a pass has met is forgotten.      *)
Remembered ==
    status = "NO_ERROR" =>
        \A i \in DOMAIN trace : Settled(i) => trace[i].op # "undefinedCall"

LEMMA TraceStays == [Next]_vars => trace' = trace
  BY DEF Next, vars, Construct, NoMainFunction, StartPass, Lookup, Define, Emit,
         EmitRel32, EmitImm64, UndefinedCall, StdFunctionWritten,
         StdFunctionMissing, EndText, WriteBss, StartData, EndData,
         WriteElfFile, MakeNeededSpace, At

LEMMA RememberedNext == Typed /\ ControlOK /\ Remembered /\ [Next]_vars => Remembered'
  <1> SUFFICES ASSUME Typed, ControlOK, Remembered, [Next]_vars, status' = "NO_ERROR",
                      NEW i \in DOMAIN trace, Settled(i)'
               PROVE  trace[i].op # "undefinedCall"
    BY TraceStays DEF Remembered
  <1>1. status = "NO_ERROR"
    BY ErrorsStay
  <1>2. Settled(i) => trace[i].op # "undefinedCall"
    BY <1>1 DEF Remembered
  <1>3. i \in 1 .. Len(trace) /\ Len(trace) \in Nat /\ pc \in 1 .. Len(trace) /\ pass \in 0 .. 2
    BY TypedFacts
  <1>4. CASE \/ Lookup \/ Define \/ Emit \/ EmitRel32 \/ EmitImm64
             \/ StdFunctionWritten \/ EndText \/ WriteBss \/ StartData
    <2>1. trace[pc].op # "undefinedCall"
      BY <1>4 DEF Lookup, Define, Emit, EmitRel32, EmitImm64, StdFunctionWritten,
                  EndText, WriteBss, StartData, At
    <2>2. Settled(i) \/ i = pc
      <3>1. PICK n : Advance(n)
        BY <1>1, <1>4, PassStep
      <3> QED
        BY <3>1, AdvanceSettled
    <2> QED
      BY <1>2, <2>1, <2>2
  <1>5. CASE EndData
    <2>1. trace[pc].op = "endData"
      BY <1>5 DEF EndData, At
    <2>2. pc = Len(trace)
      <3>1. TraceOK /\ pc \in DOMAIN trace
        BY <1>3, TypedFacts DEF Typed
      <3> QED
        BY <2>1, <3>1, EventTypes
    <2>3. Settled(i) \/ i = pc
      BY <1>3, <2>2 DEF Settled
    <2> QED
      BY <1>2, <2>1, <2>3
  <1>6. CASE UndefinedCall \/ StdFunctionMissing \/ NoMainFunction
    BY <1>6 DEF UndefinedCall, StdFunctionMissing, NoMainFunction
  <1>7. CASE \/ Construct \/ StartPass \/ WriteElfFile \/ MakeNeededSpace
             \/ UNCHANGED vars
    <2>1. pc' = pc /\ pass' = pass
      BY <1>7 DEF Construct, StartPass, WriteElfFile, MakeNeededSpace, vars, builderVars,
                  B!Construct, B!StartText, B!WriteElfFile, B!Realloc
    <2> QED
      BY <1>2, <2>1 DEF Settled
  <1> QED
    BY <1>4, <1>5, <1>6, <1>7 DEF Next

(* Whatever the program and the library, a file with a call of an          *)
(* undefined function is never written as if nothing had been wrong.       *)
THEOREM UndefinedCallsReported == Spec => []UndefinedCallReported
  <1>1. Init => Remembered
    <2> SUFFICES ASSUME Init, NEW i \in DOMAIN trace PROVE ~Settled(i)
      BY DEF Remembered
    <2>1. i \in 1 .. Len(trace) /\ Len(trace) \in Nat
      BY TraceInit DEF TraceOK
    <2> QED
      BY <2>1 DEF Init, B!Init, Settled
  <1>2. IInvL /\ Remembered /\ [Next]_vars => Remembered'
    BY RememberedNext DEF IInvL
  <1>3. IInvL /\ Remembered => UndefinedCallReported
    BY DEF IInvL, ControlOK, Remembered, Settled, UndefinedCallReported
  <1> QED
    BY <1>1, <1>2, <1>3, LinkInvariant, PTL DEF Spec
-----------------------------------------------------------------------------
(* The library's functions come before the program's own code, so that the *)
(* jump over the rest of them leads forward.                               *)
StdsFirst == \A i \in DOMAIN trace : trace[i].op = "std" => i < FirstCode

OtherEvents == {e \in Events : e.op # "std"}

LEMMA OthersBehind ==
    ASSUME NEW s \in Seq(Events), NEW t \in Seq(OtherEvents), NEW n \in Nat,
           \A i \in 1 .. Len(s) : i > n => s[i] \in OtherEvents
    PROVE  /\ s \o t \in Seq(Events)
           /\ \A i \in 1 .. Len(s \o t) : i > n => (s \o t)[i] \in OtherEvents
  <1>1. OtherEvents \subseteq Events
    BY DEF OtherEvents
  <1>2. t \in Seq(Events)
    BY <1>1
  <1>3. \A i \in 1 .. Len(t) : t[i] \in OtherEvents
    OBVIOUS
  <1> HIDE DEF OtherEvents
  <1>4. /\ s \o t \in Seq(Events) /\ Len(s \o t) = Len(s) + Len(t)
        /\ \A i \in 1 .. Len(s \o t) :
              (s \o t)[i] = IF i <= Len(s) THEN s[i] ELSE t[i - Len(s)]
    BY <1>2
  <1>5. Len(s) \in Nat /\ Len(t) \in Nat
    OBVIOUS
  <1> QED  BY <1>3, <1>4, <1>5

LEMMA StdsInit == Init => StdsFirst
  <1> SUFFICES ASSUME NEW p \in Programs, trace = Trace(p) PROVE StdsFirst
    BY DEF Init
  <1> DEFINE middle == <<Event("endText", NoLabel, 0), Event("bss", IoBuffer, 0),
                         Event("startData", NoLabel, 0)>>
             last   == <<Event("endData", NoLabel, 0)>>
             a      == EntryPoint \o StdEvents
             n      == Len(a)
  <1>1. p.code \in Seq(OtherEvents) /\ p.strings \in Seq(OtherEvents)
    <2>1. CodeEvents \subseteq OtherEvents /\ StringEvents \subseteq OtherEvents
      BY DEF CodeEvents, StringEvents, OtherEvents, LabelOps
    <2> QED  BY <2>1, ProgramAssumption
  <1>2. middle \in Seq(OtherEvents)
    <2>1. /\ Event("endText", NoLabel, 0) \in OtherEvents
          /\ Event("bss", IoBuffer, 0) \in OtherEvents
          /\ Event("startData", NoLabel, 0) \in OtherEvents
      BY ProgramAssumption DEF Event, Events, Ops, OtherEvents
    <2> QED  BY <2>1
  <1>3. last \in Seq(OtherEvents)
    <2>1. Event("endData", NoLabel, 0) \in OtherEvents
      BY DEF Event, Events, Ops, OtherEvents
    <2> QED  BY <2>1
  <1>4. a \in Seq(Events) /\ n \in Nat /\ n = 5 + Len(StdFunctions)
    <2>1. a \in Seq(InnerEvents) /\ Len(a) = 5 + Len(StdFunctions)
      BY EntryInner, StdInner, ConcatInner
    <2>2. InnerEvents \subseteq Events
      BY DEF InnerEvents
    <2> HIDE DEF a
    <2> QED  BY <2>1, <2>2
  <1>5. FirstCode = n + 1
    BY <1>4, EntryInner DEF FirstCode
  <1>6. trace = (((a \o p.code) \o middle) \o p.strings) \o last
    BY DEF Trace
  <1> HIDE DEF middle, last, a
  <1>7. \A i \in 1 .. Len(a) : i > n => a[i] \in OtherEvents
    BY <1>4
  <1> HIDE DEF n
  <1> DEFINE b == a \o p.code
             c == b \o middle
             d == c \o p.strings
  <1>8. b \in Seq(Events) /\ \A i \in 1 .. Len(b) : i > n => b[i] \in OtherEvents
    BY <1>1, <1>4, <1>7, OthersBehind
  <1> HIDE DEF b
  <1>9. c \in Seq(Events) /\ \A i \in 1 .. Len(c) : i > n => c[i] \in OtherEvents
    BY <1>2, <1>4, <1>8, OthersBehind
  <1> HIDE DEF c
  <1>10. d \in Seq(Events) /\ \A i \in 1 .. Len(d) : i > n => d[i] \in OtherEvents
    BY <1>1, <1>4, <1>9, OthersBehind
  <1> HIDE DEF d
  <1>11. /\ trace \in Seq(Events)
         /\ \A i \in 1 .. Len(trace) : i > n => trace[i] \in OtherEvents
    <2>1. trace = d \o last
      BY <1>6 DEF b, c, d
    <2> QED  BY <2>1, <1>3, <1>4, <1>10, OthersBehind
  <1>12. \A i \in 1 .. Len(trace) : i > n => trace[i].op # "std"
    BY <1>11 DEF OtherEvents
  <1>13. DOMAIN trace = 1 .. Len(trace) /\ Len(trace) \in Nat
    BY <1>11
  <1> QED  BY <1>4, <1>5, <1>12, <1>13 DEF StdsFirst

(* A program without a main function is refused before the first pass, and *)
(* stays without one.                                                      *)
RefusedOK == status = "NO_MAIN_FUNCTION" => phase = "ready" /\ pass = 0 /\ ~HasMain

LEMMA RefusedNext == Typed /\ RefusedOK /\ [Next]_vars => RefusedOK'
  <1> SUFFICES ASSUME Typed, RefusedOK, [Next]_vars, status' = "NO_MAIN_FUNCTION"
               PROVE  (phase = "ready" /\ pass = 0 /\ ~HasMain)'
    BY DEF RefusedOK
  <1>1. HasMain' = HasMain
    BY TraceStays DEF HasMain, Defines
  <1>2. CASE NoMainFunction
    BY <1>1, <1>2 DEF NoMainFunction, builderVars
  <1>3. CASE UNCHANGED vars
    BY <1>1, <1>3 DEF vars, builderVars, RefusedOK
  <1>4. CASE Next /\ ~NoMainFunction
    <2>1. status = "NO_MAIN_FUNCTION"
      BY <1>4 DEF Next, Construct, StartPass, Lookup, Define, Emit, EmitRel32, EmitImm64,
             UndefinedCall, StdFunctionWritten, StdFunctionMissing, EndText, WriteBss,
             StartData, EndData, WriteElfFile, MakeNeededSpace
    <2>2. phase = "ready" /\ pass = 0 /\ ~HasMain
      BY <2>1 DEF RefusedOK
    <2> QED
      BY <1>4, <2>2 DEF Next, Construct, StartPass, Lookup, Define, Emit, EmitRel32, EmitImm64,
             UndefinedCall, StdFunctionWritten, StdFunctionMissing, EndText, WriteBss,
             StartData, EndData, WriteElfFile, MakeNeededSpace, At, InPass, B!Construct,
             B!WriteElfFile, B!TOTAL_PASSES
  <1> QED  BY <1>2, <1>3, <1>4

AheadOK == Typed /\ ControlOK /\ StdsFirst /\ RefusedOK

LEMMA AheadHolds == Spec => []AheadOK
  <1>1. Init => StdsFirst /\ RefusedOK
    BY StdsInit DEF Init, RefusedOK
  <1>2. Typed /\ ControlOK /\ StdsFirst /\ RefusedOK /\ [Next]_vars => StdsFirst' /\ RefusedOK'
    BY RefusedNext, TraceStays DEF StdsFirst, FirstCode
  <1>3. IInvL => Typed /\ ControlOK
    BY DEF IInvL
  <1> QED  BY <1>1, <1>2, <1>3, LinkInvariant, PTL DEF Spec, AheadOK

-----------------------------------------------------------------------------
(* What is left in the passes that are not at their end.                   *)
Rest == IF pass = 0 THEN 2 * Len(trace) + 4 ELSE IF pass = 1 THEN Len(trace) + 2 ELSE 0

LeftOK ==
    /\ Rest \in Nat /\ EventsLeft \in Nat
    /\ Finished => EventsLeft = 0
    /\ ~Finished /\ phase = "construct" => EventsLeft = Rest + 2
    /\ ~Finished /\ phase = "ready" => EventsLeft = Rest + 1
    /\ ~Finished /\ phase \in InPassPhases =>
         EventsLeft = Rest + 1 - pc /\ pc \in 1 .. Len(trace) /\ Rest >= Len(trace) + 2

ShortageOK ==
    /\ Needed \in Nat
    /\ Shortage = IF offset + Needed < capacity THEN 0 ELSE offset + Needed - capacity + 1
    /\ Shortage \in Nat

LEMMA LeftIs == ASSUME AheadOK PROVE LeftOK
  <1>1. pass \in 0 .. 2 /\ Len(trace) \in Nat /\ pc \in 1 .. Len(trace)
    BY TypedFacts DEF AheadOK
  <1>2. (B!TOTAL_PASSES - pass) * (Len(trace) + 2) = Rest
    <2>1. \A n \in Nat : 2 * (n + 2) = 2 * n + 4 /\ 1 * (n + 2) = n + 2 /\ 0 * (n + 2) = 0
      OBVIOUS
    <2>2. CASE pass = 0
      BY <1>1, <2>1, <2>2 DEF Rest, B!TOTAL_PASSES
    <2>3. CASE pass = 1
      BY <1>1, <2>1, <2>3 DEF Rest, B!TOTAL_PASSES
    <2>4. CASE pass = 2
      BY <1>1, <2>1, <2>4 DEF Rest, B!TOTAL_PASSES
    <2> QED  BY <1>1, <2>2, <2>3, <2>4
  <1>3. Rest \in Nat /\ (pass \in {0, 1} => Rest >= Len(trace) + 2)
    BY <1>1 DEF Rest
  <1>4. EventsLeft = IF Finished THEN 0
                     ELSE Rest + 1 + (IF phase = "construct" THEN 1 ELSE 0)
                            - (IF phase \in InPassPhases THEN pc ELSE 0)
    BY <1>2 DEF EventsLeft, InPassPhases
  <1>5. phase \in InPassPhases => pass \in {0, 1}
    BY DEF AheadOK, ControlOK
  <1>6. EventsLeft \in Nat
    <2>1. CASE Finished
      BY <1>4, <2>1
    <2>2. CASE phase \in InPassPhases
      BY <1>1, <1>3, <1>4, <1>5, <2>2 DEF InPassPhases
    <2>3. CASE ~Finished /\ phase \notin InPassPhases
      BY <1>3, <1>4, <2>3
    <2> QED  BY <2>1, <2>2, <2>3
  <1> QED  BY <1>1, <1>3, <1>4, <1>5, <1>6 DEF LeftOK, InPassPhases

LEMMA ShortageIs == ASSUME AheadOK PROVE ShortageOK
  <1>1. offset \in Nat /\ capacity \in Nat /\ pc \in DOMAIN trace
    BY TypedFacts DEF AheadOK
  <1>2. trace[pc].size \in Nat
    BY <1>1, TypedFacts DEF AheadOK
  <1>3. B!NeededForNewSegment \in Nat
    BY <1>1 DEF B!NeededForNewSegment, B!SegmentStart, B!PAGE_SIZE
  <1>4. Needed \in Nat
    BY <1>2, <1>3 DEF Needed, B!FIRST_SEGMENT_OFFSET, B!PAGE_SIZE
  <1> QED  BY <1>1, <1>4 DEF ShortageOK, Shortage, B!Room

GoesOn == EventsLeft' \in Nat /\ EventsLeft' < EventsLeft

LEMMA GrowthAhead ==
    ASSUME AheadOK, ShortageOK, ShortageOK', MakeNeededSpace
    PROVE  EventsLeft' = EventsLeft /\ Shortage' < Shortage
  <1>1. /\ UNCHANGED <<trace, pc, status, offset, phase, pass>>
        /\ capacity' = B!Grow(capacity)
    BY DEF MakeNeededSpace, linkVars, B!Realloc
  <1>2. EventsLeft' = EventsLeft /\ Needed' = Needed
    BY <1>1 DEF EventsLeft, Finished, Needed, B!NeededForNewSegment
  <1>3. ~B!Room(Needed)
    BY DEF MakeNeededSpace, InPass, Needed, B!Realloc, Writes
  <1>4. capacity \in Nat /\ capacity > 1
    BY BuilderTypes, SMT DEF AheadOK, Typed, BP!IInv, BP!CapacityOK,
       BP!SmallCapacities, BP!LargestCheckedCapacity
  <1>5. B!Grow(capacity) \in Nat /\ B!Grow(capacity) > capacity
    BY <1>4 DEF B!Grow
  <1>6. offset \in Nat
    BY TypedFacts DEF AheadOK
  <1>7. /\ Needed \in Nat /\ offset + Needed >= capacity
        /\ Shortage = offset + Needed - capacity + 1
        /\ \/ Shortage' = 0
           \/ Shortage' = offset + Needed - capacity' + 1
    BY <1>1, <1>2, <1>3, <1>4, <1>6 DEF ShortageOK, B!Room
  <1> QED  BY <1>1, <1>2, <1>4, <1>5, <1>6, <1>7

LEMMA EventAhead ==
    ASSUME AheadOK, LeftOK, AheadOK', LeftOK',
           \/ Lookup \/ Define \/ Emit \/ EmitRel32 \/ EmitImm64 \/ UndefinedCall
           \/ StdFunctionWritten \/ StdFunctionMissing
           \/ EndText \/ WriteBss \/ StartData
    PROVE  GoesOn
  <1> USE DEF InPassPhases
  <1>1. /\ phase \in InPassPhases /\ phase' \in InPassPhases /\ pass' = pass /\ trace' = trace
        /\ pc \in DOMAIN trace
        /\ \/ pc' = pc + 1
           \/ pc' = FirstCode /\ trace[pc].op = "std"
    BY DEF Lookup, Define, Emit, EmitRel32, EmitImm64, UndefinedCall, StdFunctionWritten,
           StdFunctionMissing, EndText, WriteBss, StartData, At, InPass, Write, builderVars,
           B!WriteBytes, B!EndText, B!WriteBss, B!StartData
  <1>2. ~Finished /\ ~Finished'
    BY <1>1 DEF AheadOK, RefusedOK, Finished
  <1>3. pc' > pc
    <2>1. Len(trace) \in Nat /\ pc \in Nat /\ FirstCode \in Nat
      BY TypedFacts DEF AheadOK, Typed, TraceOK
    <2> QED  BY <1>1, <2>1 DEF AheadOK, StdsFirst
  <1>4. Rest' = Rest
    BY <1>1 DEF Rest
  <1>5. Len(trace) \in Nat /\ Rest \in Nat /\ Rest >= Len(trace) + 2
    BY <1>1, <1>2, TypedFacts DEF AheadOK, LeftOK
  <1>6. EventsLeft = Rest + 1 - pc /\ pc \in 1 .. Len(trace)
    BY <1>1, <1>2 DEF LeftOK
  <1>7. EventsLeft' = Rest + 1 - pc' /\ pc' \in 1 .. Len(trace)
    BY <1>1, <1>2, <1>4 DEF LeftOK
  <1>8. \A r, n \in Nat : \A p, q \in 1 .. n :
           r >= n + 2 /\ q > p => r + 1 - q \in Nat /\ r + 1 - q < r + 1 - p
    OBVIOUS
  <1> QED  BY <1>3, <1>5, <1>6, <1>7, <1>8 DEF GoesOn

LEMMA FrameAhead ==
    ASSUME AheadOK, LeftOK, AheadOK', LeftOK',
           Construct \/ NoMainFunction \/ StartPass \/ EndData \/ WriteElfFile
    PROVE  GoesOn
  <1> USE DEF InPassPhases
  <1>1. /\ Rest \in Nat /\ Rest' \in Nat /\ Len(trace) \in Nat
        /\ pass \in 0 .. 2 /\ trace' = trace
    BY TypedFacts DEF AheadOK, LeftOK, Construct, NoMainFunction, StartPass, EndData,
                      WriteElfFile, At
  <1>2. CASE Construct
    <2>1. phase = "construct" /\ phase' = "ready" /\ pass' = pass /\ status' = status
      BY <1>2 DEF Construct, B!Construct
    <2>2. ~Finished /\ ~Finished'
      BY <2>1 DEF AheadOK, RefusedOK, Finished
    <2>3. EventsLeft = Rest + 2 /\ EventsLeft' = Rest' + 1 /\ Rest' = Rest
      BY <1>1, <2>1, <2>2 DEF LeftOK, Rest
    <2> QED  BY <1>1, <2>3 DEF GoesOn
  <1>3. CASE NoMainFunction
    <2>1. phase = "ready" /\ ~Finished /\ Finished'
      BY <1>3 DEF NoMainFunction, Finished
    <2>2. EventsLeft = Rest + 1 /\ EventsLeft' = 0
      BY <2>1 DEF LeftOK
    <2> QED  BY <1>1, <2>2 DEF GoesOn
  <1>4. CASE StartPass
    <2>1. phase = "ready" /\ phase' = "text" /\ pass' = pass /\ pc' = pc /\ HasMain
      BY <1>4 DEF StartPass, B!StartText
    <2>2. ~Finished /\ ~Finished' /\ pc = 1
      BY <2>1 DEF AheadOK, RefusedOK, Finished, ControlOK
    <2>3. EventsLeft = Rest + 1 /\ EventsLeft' = Rest' + 1 - pc'
      BY <2>1, <2>2 DEF LeftOK
    <2>4. Rest' = Rest /\ pc' = 1
      BY <1>1, <2>1, <2>2 DEF Rest
    <2>5. \A r \in Nat : r + 1 - 1 \in Nat /\ r + 1 - 1 < r + 1
      OBVIOUS
    <2> QED  BY <1>1, <2>3, <2>4, <2>5 DEF GoesOn
  <1>5. CASE EndData
    <2>1. phase = "data" /\ phase' = "ready" /\ pass' = pass + 1 /\ status' = status
      BY <1>5 DEF EndData, B!EndData
    <2>2. ~Finished /\ ~Finished'
      BY <2>1 DEF AheadOK, RefusedOK, Finished
    <2>3. EventsLeft = Rest + 1 - pc /\ pc \in 1 .. Len(trace) /\ EventsLeft' = Rest' + 1
      BY <2>1, <2>2 DEF LeftOK
    <2>4. pass \in {0, 1}
      BY <2>1 DEF AheadOK, ControlOK
    <2>5. Rest = Rest' + Len(trace) + 2
      BY <1>1, <2>1, <2>4 DEF Rest
    <2>6. \A r, n \in Nat : \A p \in 1 .. n : r + 1 < r + n + 2 + 1 - p
      OBVIOUS
    <2>7. EventsLeft' < EventsLeft
      BY <1>1, <2>3, <2>5, <2>6
    <2> QED  BY <2>7 DEF GoesOn, LeftOK
  <1>6. CASE WriteElfFile
    <2>1. phase = "ready" /\ pass = 2 /\ phase' = "written"
      BY <1>6 DEF WriteElfFile, B!WriteElfFile, B!TOTAL_PASSES
    <2>2. ~Finished /\ Finished'
      BY <2>1 DEF AheadOK, RefusedOK, Finished
    <2>3. EventsLeft = Rest + 1 /\ EventsLeft' = 0
      BY <2>1, <2>2 DEF LeftOK
    <2> QED  BY <1>1, <2>3 DEF GoesOn
  <1> QED  BY <1>2, <1>3, <1>4, <1>5, <1>6

(* compile() gets ahead with each step, for every program and whichever    *)
(* library files are missing: it can take only so many of them.            *)
THEOREM CompilationEnds == Spec => GetsAhead
  <1> DEFINE Inv == AheadOK /\ LeftOK /\ ShortageOK
  <1>1. AheadOK => Inv
    BY LeftIs, ShortageIs
  <1>2. Inv /\ Inv' /\ [Next]_vars =>
          [/\ EventsLeft' \in Nat /\ Shortage' \in Nat
           /\ \/ EventsLeft' < EventsLeft
              \/ EventsLeft' = EventsLeft /\ Shortage' < Shortage]_vars
    <2> SUFFICES ASSUME Inv, Inv', Next
                 PROVE  /\ EventsLeft' \in Nat /\ Shortage' \in Nat
                        /\ \/ EventsLeft' < EventsLeft
                           \/ EventsLeft' = EventsLeft /\ Shortage' < Shortage
      BY Zenon
    <2>1. Shortage' \in Nat
      BY DEF ShortageOK
    <2>2. CASE MakeNeededSpace
      <3>1. EventsLeft' = EventsLeft /\ Shortage' < Shortage
        BY <2>2, GrowthAhead
      <3>2. EventsLeft' \in Nat
        BY DEF LeftOK
      <3> QED  BY <2>1, <3>1, <3>2
    <2>3. CASE ~MakeNeededSpace
      <3>1. GoesOn
        BY <2>3, EventAhead, FrameAhead DEF Next
      <3> QED  BY <2>1, <3>1 DEF GoesOn
    <2> QED  BY <2>2, <2>3
  <1> QED  BY <1>1, <1>2, AheadHolds, PTL DEF Spec, GetsAhead
=============================================================================
