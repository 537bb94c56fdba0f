---------------------------- MODULE MCExecution -----------------------------
(* Control, calls, arrays, strings and the library: the programs of        *)
(* Shapes; each comparison in a condition, a loop and a value; each of the *)
(* ten operations inside each of the ten.                                  *)
EXTENDS Execution

P == INSTANCE SourcePrograms

MCPrograms == LET sources == P!Shapes \o P!AllCompared \o P!AllNested IN Compiled(sources)
MCLiteral  == LET sources == <<P!SameContent>> IN Compiled(sources)

=============================================================================
