------------------------- MODULE ElfBuilder_proofs --------------------------
(* Proofs about ElfBuilder, for all sizes of writes.  The buffer grows by  *)
(* truncated factors of 1.6 from 1024, so below 737382 the capacity is one *)
(* of fourteen numbers; none but the first exceeds a page boundary by less *)
(* than the 512 bytes that writeBSS takes without asking.                  *)
EXTENDS ElfBuilder, TLAPS

SmallCapacities ==
    {1024, 1638, 2620, 4192, 6707, 10731, 17169, 27470, 43952, 70323,
     112516, 180025, 288040, 460864}

LargestCheckedCapacity == 737382
LastPage               == 733184

CapacityOK == capacity \in SmallCapacities \/ capacity >= LargestCheckedCapacity

(* Where the offset and the finished headers are in each phase. *)
PlaceOK ==
    /\ phase = "construct" => offset = 0 /\ pass = 0
    /\ phase \in {"text", "bss", "dataStart", "data"} => pass < TOTAL_PASSES
    /\ phase \in {"text", "bss"} =>
          /\ FIRST_SEGMENT_OFFSET <= offset
          /\ offset <= FIRST_SEGMENT_OFFSET + MaxText
    /\ phase = "bss" => End("text") = offset
    /\ phase \in {"dataStart", "data", "written"}
            \/ (phase = "ready" /\ pass > 0) =>
          /\ End("text") < start["bss"]
          /\ start["bss"] % PAGE_SIZE = 0
          /\ filesz["bss"] = IO_BUFFER_SIZE
    /\ phase = "dataStart" => offset = End("bss")
    /\ phase \in {"data", "written"} \/ (phase = "ready" /\ pass > 0) =>
          /\ start["data"] % PAGE_SIZE = 0
          /\ End("bss") < start["data"]
          /\ start["data"] <= offset
    /\ phase = "written" \/ (phase = "ready" /\ pass > 0) => offset = End("data")
    /\ phase = "written" => fileSize = offset
    /\ start["text"] = FIRST_SEGMENT_OFFSET
    /\ pass = 0 => phase # "written"
    /\ phase # "construct" => capacity > FIRST_SEGMENT_OFFSET + 1
    /\ (phase = "ready" /\ pass = 0) => offset = FIRST_SEGMENT_OFFSET

IInv == TypeOK /\ AssertElfBuilder /\ CapacityOK /\ PlaceOK

-----------------------------------------------------------------------------
(* A fresh segment starts on the first page boundary after the offset. *)
LEMMA SegmentStartBounds ==
    ASSUME NEW o \in Nat
    PROVE  /\ SegmentStart(o) \in Nat
           /\ o < SegmentStart(o)
           /\ SegmentStart(o) <= o + PAGE_SIZE
           /\ SegmentStart(o) % PAGE_SIZE = 0
  BY DEF SegmentStart, PAGE_SIZE

(* The growth sequence of the capacity, as long as 512 bytes matter. *)
LEMMA GrowCapacity ==
    ASSUME NEW c \in Nat,
           c \in SmallCapacities \/ c >= LargestCheckedCapacity
    PROVE  /\ Grow(c) \in Nat
           /\ Grow(c) > c
           /\ Grow(c) \in SmallCapacities \/ Grow(c) >= LargestCheckedCapacity
  BY SMT DEF Grow, SmallCapacities, LargestCheckedCapacity

(* The last page that a text within its bound can push the bss segment to. *)
LEMMA LastBssPage ==
    ASSUME NEW o \in Nat, o <= FIRST_SEGMENT_OFFSET + MaxText
    PROVE  SegmentStart(o) <= LastPage
  BY SizesAssumption, SMT
     DEF SegmentStart, PAGE_SIZE, FIRST_SEGMENT_OFFSET, LastPage

(* Behind any page of a text within its bound, a capacity of the sequence  *)
(* that holds one byte holds the whole buffer.                             *)
LEMMA BufferFits ==
    ASSUME NEW c \in Nat,
           c \in SmallCapacities \/ c >= LargestCheckedCapacity,
           NEW s \in Nat,
           s % PAGE_SIZE = 0,
           s > FIRST_SEGMENT_OFFSET,
           s <= LastPage,
           s + 1 < c
    PROVE  s + IO_BUFFER_SIZE < c
  BY SMT DEF SmallCapacities, LargestCheckedCapacity, PAGE_SIZE, LastPage,
             FIRST_SEGMENT_OFFSET, IO_BUFFER_SIZE

-----------------------------------------------------------------------------
LEMMA InitIInv == Init => IInv
  BY DEF Init, IInv, TypeOK, AssertElfBuilder, CapacityOK, PlaceOK, Segments,
         Phases, SmallCapacities, ELF_INITIAL_SIZE, FIRST_SEGMENT_OFFSET,
         PAGE_SIZE, TOTAL_PASSES

(* The loop of makeNeededSpace only ever enlarges the buffer. *)
LEMMA ReallocIInv ==
    ASSUME IInv, NEW n \in Nat, Realloc(n)
    PROVE  IInv'
  <1>1. /\ capacity' = Grow(capacity)
        /\ UNCHANGED <<offset, start, filesz, phase, pass, fileSize>>
    BY DEF Realloc
  <1>2. capacity \in Nat /\ capacity' \in Nat /\ capacity' > capacity /\ CapacityOK'
    BY <1>1, GrowCapacity DEF IInv, TypeOK, CapacityOK
  <1>3. TypeOK' /\ AssertElfBuilder'
    BY <1>1, <1>2 DEF IInv, TypeOK, AssertElfBuilder
  <1>4. PlaceOK'
    BY <1>1, <1>2 DEF IInv, PlaceOK, End, FIRST_SEGMENT_OFFSET, PAGE_SIZE
  <1> QED  BY <1>2, <1>3, <1>4 DEF IInv

LEMMA MakeNeededSpaceIInv == IInv /\ MakeNeededSpace => IInv'
  <1> SUFFICES ASSUME IInv, MakeNeededSpace PROVE IInv'
    OBVIOUS
  <1>1. CASE phase = "construct" /\ Realloc(FIRST_SEGMENT_OFFSET + 1)
    <2>1. FIRST_SEGMENT_OFFSET + 1 \in Nat
      BY DEF FIRST_SEGMENT_OFFSET, PAGE_SIZE
    <2> QED  BY <1>1, <2>1, ReallocIInv
  <1>2. CASE \E n \in TextSizes \union DataSizes : Realloc(n)
    BY <1>2, SizesAssumption, ReallocIInv
  <1>3. CASE Realloc(NeededForNewSegment)
    <2>1. NeededForNewSegment \in Nat
      BY SegmentStartBounds DEF NeededForNewSegment, IInv, TypeOK
    <2> QED  BY <1>3, <2>1, ReallocIInv
  <1> QED  BY <1>1, <1>2, <1>3 DEF MakeNeededSpace

LEMMA NextIInv == IInv /\ [Next]_builderVars => IInv'
  <1> SUFFICES ASSUME IInv, [Next]_builderVars PROVE IInv'
    OBVIOUS
  <1> USE DEF IInv, TypeOK, AssertElfBuilder, CapacityOK, PlaceOK, Segments,
              Phases, TOTAL_PASSES, End
  <1>1. CASE Construct
    BY <1>1 DEF Construct, Room, FIRST_SEGMENT_OFFSET, PAGE_SIZE
  <1>2. CASE StartText
    BY <1>2, SizesAssumption, SMT DEF StartText, FIRST_SEGMENT_OFFSET, PAGE_SIZE
  <1>3. CASE WriteText
    <2>1. PICK n \in TextSizes : /\ offset + n <= FIRST_SEGMENT_OFFSET + MaxText
                                 /\ WriteBytes("text", n)
      BY <1>3 DEF WriteText
    <2> QED  BY <2>1, SizesAssumption, SMT DEF WriteBytes, Room
  <1>4. CASE EndText
    BY <1>4 DEF EndText, EndCurSegment, FIRST_SEGMENT_OFFSET, PAGE_SIZE
  <1>5. CASE WriteBss
    <2> DEFINE s == SegmentStart(offset)
    <2>1. /\ s \in Nat /\ offset < s /\ s % PAGE_SIZE = 0
          /\ s <= LastPage /\ s > FIRST_SEGMENT_OFFSET
      BY <1>5, SegmentStartBounds, LastBssPage, SizesAssumption, SMT
         DEF WriteBss, FIRST_SEGMENT_OFFSET, PAGE_SIZE
    <2>2. s + 1 < capacity
      BY <1>5, <2>1, SMT DEF WriteBss, Room, NeededForNewSegment
    <2>3. s + IO_BUFFER_SIZE < capacity
      BY <2>1, <2>2, BufferFits
    <2>4. /\ offset' = s + IO_BUFFER_SIZE
          /\ start' = [start EXCEPT !["bss"] = s]
          /\ filesz' = [filesz EXCEPT !["bss"] = offset' - start'["bss"]]
          /\ phase = "bss" /\ phase' = "dataStart"
          /\ UNCHANGED <<capacity, pass, fileSize>>
      BY <1>5 DEF WriteBss
    <2> HIDE DEF s
    <2>5. offset' - start'["bss"] = IO_BUFFER_SIZE
      BY <2>1, <2>4 DEF IO_BUFFER_SIZE
    <2>6. filesz' = [filesz EXCEPT !["bss"] = IO_BUFFER_SIZE]
      BY <2>4, <2>5
    <2> QED  BY <2>1, <2>3, <2>4, <2>6 DEF IO_BUFFER_SIZE
  <1>6. CASE StartData
    <2> DEFINE s == SegmentStart(offset)
    <2>1. s \in Nat /\ offset < s /\ s % PAGE_SIZE = 0
      BY SegmentStartBounds
    <2>2. s < capacity
      BY <1>6, <2>1 DEF StartData, Room, NeededForNewSegment
    <2>3. /\ offset' = s
          /\ start' = [start EXCEPT !["data"] = s]
          /\ phase = "dataStart" /\ phase' = "data"
          /\ UNCHANGED <<capacity, filesz, pass, fileSize>>
      BY <1>6 DEF StartData
    <2> HIDE DEF s
    <2> QED  BY <2>1, <2>2, <2>3
  <1>7. CASE WriteData
    <2>1. PICK n \in DataSizes : WriteBytes("data", n)
      BY <1>7 DEF WriteData
    <2> QED  BY <2>1, SizesAssumption, SMT DEF WriteBytes, Room
  <1>8. CASE EndData
    BY <1>8 DEF EndData, EndCurSegment
  <1>9. CASE WriteElfFile
    BY <1>9 DEF WriteElfFile
  <1>10. CASE MakeNeededSpace
    BY <1>10, MakeNeededSpaceIInv
  <1>11. CASE UNCHANGED builderVars
    BY <1>11 DEF builderVars
  <1> QED
    BY <1>1, <1>2, <1>3, <1>4, <1>5, <1>6, <1>7, <1>8, <1>9, <1>10, <1>11
       DEF Next

-----------------------------------------------------------------------------
THEOREM Inductive == Spec => []IInv
  BY InitIInv, NextIInv, PTL DEF Spec

(* The fields of the builder keep their types (elf_builder.h). *)
THEOREM TypeCorrect == Spec => []TypeOK
  <1>1. IInv => TypeOK
    BY DEF IInv
  <1> QED  BY <1>1, Inductive, PTL

(* No ASSERT_ELF_BUILDER ever fails, whatever is written, as long as the   *)
(* text keeps within its bound.                                            *)
THEOREM AssertionsHold == Spec => []AssertElfBuilder
  <1>1. IInv => AssertElfBuilder
    BY DEF IInv
  <1> QED  BY <1>1, Inductive, PTL

(* The written file has page aligned segments on pages of their own. *)
THEOREM SegmentsAreApart == Spec => []SegmentsApart
  <1>1. IInv => SegmentsApart
    BY DEF IInv, TypeOK, AssertElfBuilder, PlaceOK, SegmentsApart, Segments,
           End, HEADERS_SIZE, FIRST_SEGMENT_OFFSET, PAGE_SIZE
  <1> QED  BY <1>1, Inductive, PTL
=============================================================================
