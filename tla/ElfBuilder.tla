----------------------------- MODULE ElfBuilder -----------------------------
(***************************************************************************)
(* The ELF image under construction (src/compiler/elf_builder.cpp): a heap *)
(* buffer of `capacity' bytes that is filled at `offset', and the program  *)
(* headers of the three segments text, bss and data, which start on fresh  *)
(* pages.  The caller is compile() / makeCompilationPass(), whose order of *)
(* calls is the variable `phase': two passes over the same buffer, each    *)
(* text, bss, data, then the file is written.                              *)
(*                                                                         *)
(* makeNeededSpace loops: it reallocates until the request fits.  One      *)
(* iteration is the action Realloc(needed); the call that asked for the    *)
(* room is enabled when the loop has ended (Room).                         *)
(*                                                                         *)
(* The bytes themselves are left out.  Addresses are file offsets; the     *)
(* virtual address of an offset is the offset plus VIRTUAL_ADDRESS_START.  *)
(***************************************************************************)
EXTENDS Integers

CONSTANTS
    TextSizes,   \* sizes of the writes the compiler may make into text
    DataSizes,   \* sizes of the writes it may make into data
    MaxText,     \* bound on the bytes of the text segment
    MaxData      \* bound on the bytes of the data segment

PAGE_SIZE             == 4096
FIRST_SEGMENT_OFFSET  == PAGE_SIZE
VIRTUAL_ADDRESS_START == 4194304
ELF_INITIAL_SIZE      == 1024
IO_BUFFER_SIZE        == 512
HEADERS_SIZE          == 64 + 3 * 56
TOTAL_PASSES          == 2

(* writeBSS advances the offset by IO_BUFFER_SIZE without asking for room, *)
(* so the capacity suffices only while the bss page lies below the first   *)
(* capacity of the growth sequence that is at most 512 bytes past a page.  *)
ASSUME SizesAssumption ==
    /\ TextSizes \subseteq Nat
    /\ DataSizes \subseteq Nat
    /\ MaxText \in Nat
    /\ MaxText < 729088
    /\ MaxData \in Nat

VARIABLES
    offset,    \* ElfBuilder.offset, the next byte to write
    capacity,  \* ElfFile.bytecodeCapacity
    start,     \* p_offset of textHeader, bssHeader and dataHeader
    filesz,    \* their p_filesz, equal to p_memsz
    phase,     \* what the compiler does with the builder
    pass,      \* Compiler.passNumber, TOTAL_PASSES once both are made
    fileSize   \* bytes handed to fwrite, 0 before

builderVars == <<offset, capacity, start, filesz, phase, pass, fileSize>>

Segments == {"text", "bss", "data"}
Phases   == {"construct", "ready", "text", "bss", "dataStart", "data", "written"}

-----------------------------------------------------------------------------
(* The operators named ...Bug are what the next definition would be with a *)
(* plausible mistake; no specification uses them.                          *)
IntegerGrowBug(c) == c * (8 \div 5)

Grow(c) == (c * 8) \div 5

RoundDownBug(o) == o - (o % PAGE_SIZE)

SegmentStart(o) == o - (o % PAGE_SIZE) + PAGE_SIZE

InclusiveRoomBug(needed) == offset + needed <= capacity

Room(needed) == offset + needed < capacity

Realloc(needed) ==
    /\ ~Room(needed)
    /\ capacity' = Grow(capacity)
    /\ UNCHANGED <<offset, start, filesz, phase, pass, fileSize>>

EndCurSegment(seg) ==
    filesz' = [filesz EXCEPT ![seg] = offset - start[seg]]

Init ==
    /\ offset = 0
    /\ capacity = ELF_INITIAL_SIZE
    /\ start = [s \in Segments |-> IF s = "text" THEN FIRST_SEGMENT_OFFSET ELSE 0]
    /\ filesz = [s \in Segments |-> 0]
    /\ phase = "construct"
    /\ pass = 0
    /\ fileSize = 0

Construct ==
    /\ phase = "construct"
    /\ Room(FIRST_SEGMENT_OFFSET + 1)
    /\ offset' = FIRST_SEGMENT_OFFSET
    /\ phase' = "ready"
    /\ UNCHANGED <<capacity, start, filesz, pass, fileSize>>

(* setBuilderToStart followed by startTextSegment, whose request for room  *)
(* construct has already met.                                              *)
StartText ==
    /\ phase = "ready"
    /\ pass < TOTAL_PASSES
    /\ offset' = FIRST_SEGMENT_OFFSET
    /\ start' = [start EXCEPT !["text"] = FIRST_SEGMENT_OFFSET]
    /\ phase' = "text"
    /\ UNCHANGED <<capacity, filesz, pass, fileSize>>

WriteBytes(seg, size) ==
    /\ phase = seg
    /\ Room(size)
    /\ offset' = offset + size
    /\ UNCHANGED <<capacity, start, filesz, phase, pass, fileSize>>

EndText ==
    /\ phase = "text"
    /\ EndCurSegment("text")
    /\ phase' = "bss"
    /\ UNCHANGED <<offset, capacity, start, pass, fileSize>>

NeededForNewSegment == SegmentStart(offset) - offset + 1

(* writeBSS: the room is asked for before the segment, not for the buffer. *)
WriteBss ==
    /\ phase = "bss"
    /\ Room(NeededForNewSegment)
    /\ offset' = SegmentStart(offset) + IO_BUFFER_SIZE
    /\ start' = [start EXCEPT !["bss"] = SegmentStart(offset)]
    /\ filesz' = [filesz EXCEPT !["bss"] = offset' - start'["bss"]]
    /\ phase' = "dataStart"
    /\ UNCHANGED <<capacity, pass, fileSize>>

StartData ==
    /\ phase = "dataStart"
    /\ Room(NeededForNewSegment)
    /\ offset' = SegmentStart(offset)
    /\ start' = [start EXCEPT !["data"] = SegmentStart(offset)]
    /\ phase' = "data"
    /\ UNCHANGED <<capacity, filesz, pass, fileSize>>

EndData ==
    /\ phase = "data"
    /\ EndCurSegment("data")
    /\ phase' = "ready"
    /\ pass' = pass + 1
    /\ UNCHANGED <<offset, capacity, start, fileSize>>

WriteElfFile ==
    /\ phase = "ready"
    /\ pass = TOTAL_PASSES
    /\ fileSize' = offset
    /\ phase' = "written"
    /\ UNCHANGED <<offset, capacity, start, filesz, pass>>

(* The iterations of makeNeededSpace in whichever call is being made. *)
MakeNeededSpace ==
    \/ phase = "construct" /\ Realloc(FIRST_SEGMENT_OFFSET + 1)
    \/ phase = "text" /\ \E n \in TextSizes :
          /\ offset + n <= FIRST_SEGMENT_OFFSET + MaxText
          /\ Realloc(n)
    \/ phase \in {"bss", "dataStart"} /\ Realloc(NeededForNewSegment)
    \/ phase = "data" /\ \E n \in DataSizes :
          /\ offset + n <= start["data"] + MaxData
          /\ Realloc(n)

WriteText ==
    \E n \in TextSizes : /\ offset + n <= FIRST_SEGMENT_OFFSET + MaxText
                         /\ WriteBytes("text", n)

WriteData ==
    \E n \in DataSizes : /\ offset + n <= start["data"] + MaxData
                         /\ WriteBytes("data", n)

Next ==
    \/ Construct
    \/ StartText
    \/ WriteText
    \/ EndText
    \/ WriteBss
    \/ StartData
    \/ WriteData
    \/ EndData
    \/ WriteElfFile
    \/ MakeNeededSpace

Spec == Init /\ [][Next]_builderVars

-----------------------------------------------------------------------------
(* Every field keeps its type; the phases are those of makeCompilationPass. *)
TypeOK ==
    /\ offset \in Nat
    /\ capacity \in Nat
    /\ start \in [Segments -> Nat]
    /\ filesz \in [Segments -> Nat]
    /\ phase \in Phases
    /\ pass \in 0 .. TOTAL_PASSES
    /\ fileSize \in Nat

(* ASSERT_ELF_BUILDER, evaluated on entry to every operation, never fails: *)
(* the offset stays strictly inside the buffer, although writeBSS moves it *)
(* 512 bytes forward without makeNeededSpace (compiler.cpp:431).           *)
AssertElfBuilder == offset < capacity

End(seg) == start[seg] + filesz[seg]

(* In the file that is written the headers and the three segments follow   *)
(* each other, no two of them share a page (each page gets the protection  *)
(* of one segment), every segment starts on a page, as the loader demands  *)
(* of p_offset and p_vaddr, and fwrite covers exactly the image.           *)
SegmentsApart ==
    phase = "written" =>
        /\ HEADERS_SIZE <= start["text"]
        /\ \A s \in Segments : start[s] % PAGE_SIZE = 0
        /\ End("text") < start["bss"]
        /\ filesz["bss"] = IO_BUFFER_SIZE
        /\ End("bss") < start["data"]
        /\ End("data") = fileSize
        /\ fileSize < capacity
=============================================================================
