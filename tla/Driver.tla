------------------------------- MODULE Driver -------------------------------
(***************************************************************************)
(* The command: src/main_compiler.cpp.  Options, then the stages one after *)
(* the other, each of which may end the process, and the files that it     *)
(* opens on the way.                                                       *)
(*                                                                         *)
(* A file's content is one of a few kinds.  What a stage makes of the      *)
(* program is left open (the modules of the stages say more); so is        *)
(* whether a file can be opened.  What is written to an open file gets     *)
(* there: no result of fwrite or fclose is looked at.                      *)
(***************************************************************************)
EXTENDS Integers, Sequences

CONSTANTS
    CommandLines, \* what argv[1], argv[2], ... may be
    Files,        \* names of files, every word of a command line among them
    FileSystems   \* the files that may be there at the start

DEFAULT_OUTPUT == "a.asm"

(* The paths below ../examples/log; those of the graph as one.             *)
TokensLog == "dumped_tokens.txt"
TreeLog   == "dumped_tree.txt"
GraphLog  == "tree_dumps"
Logs      == {TokensLog, TreeLog, GraphLog}

NoFile == ""  \* nullptr

(* Options that only set their flagEnabled.                                *)
SimpleFlags == {"-fdump-tokens", "-fdump-tree-graph-simple", "-fdump-tree-graph-detailed",
                "-open-tree-graph", "-fdump-tree", "-fdump-symtab", "-numeric"}

Old     == {"absent", "source", "old"}
Written == {"empty", "dump", "listing", "broken", "program", "mixed"}

ASSUME FilesAssumption ==
    /\ FileSystems \subseteq [Files -> Old]
    /\ CommandLines \subseteq Seq(Files)
    /\ Logs \union {DEFAULT_OUTPUT} \subseteq Files
    /\ NoFile \notin Files

Failures == {"INPUT_UNSPECIFIED", "OUTPUT_UNSPECIFIED", "NASM_OUTPUT_UNSPECIFIED",
             "INPUT_LOAD_FAILED", "OUTPUT_LOAD_FAILED", "NASM_OUTPUT_LOAD_FAILED",
             "COMPILATION_FAILED"}

(* KILLED: by an assertion or by the processor.                            *)
Exits == {"NO_ERROR", "KILLED"} \union Failures

VARIABLES
    argv, arg,
    flagEnabled, input, output, nasmOutput, \* FlagManager
    stage,   \* what comes next
    tree,    \* what parseProgram has made: "" before it
    files,
    before,  \* the files at the start: history
    exit     \* how the process ended, "" while it runs

flags == <<arg, flagEnabled, input, output, nasmOutput>>
vars  == <<argv, flags, stage, tree, files, before, exit>>

-----------------------------------------------------------------------------
Init ==
    /\ argv \in CommandLines
    /\ arg = 1
    /\ flagEnabled = {}
    /\ input = IF argv = <<>> THEN NoFile ELSE argv[1]
    /\ output = NoFile
    /\ nasmOutput = NoFile
    /\ stage = "flags"
    /\ tree = ""
    /\ files \in FileSystems
    /\ before = files
    /\ exit = ""

(* The process ends with the given code; its files stay as they are.       *)
Return(code) ==
    /\ exit' = code
    /\ stage' = "ended"
    /\ UNCHANGED <<argv, tree, before>>

GoOn(next) ==
    /\ stage' = next
    /\ UNCHANGED <<argv, exit, before>>

-----------------------------------------------------------------------------
(* processFlags looks at every word, those that were taken as the name of  *)
(* a file too, and goes on from the next one.                              *)
AtFlag(names) == stage = "flags" /\ arg <= Len(argv) /\ argv[arg] \in names

NextFlag ==
    /\ arg' = arg + 1
    /\ UNCHANGED <<argv, input, stage, tree, files, before, exit>>

processSimpleFlag ==
    /\ AtFlag(SimpleFlags)
    /\ flagEnabled' = flagEnabled \union {argv[arg]}
    /\ NextFlag
    /\ UNCHANGED <<output, nasmOutput>>

processFlagNasmDump ==
    /\ AtFlag({"-S"})
    /\ flagEnabled' = flagEnabled \union {"-S"}
    /\ IF arg + 1 > Len(argv)
       THEN Return("NASM_OUTPUT_UNSPECIFIED") /\ UNCHANGED <<arg, input, nasmOutput, files>>
       ELSE nasmOutput' = argv[arg + 1] /\ NextFlag
    /\ UNCHANGED output

OwnNameBug ==
    /\ AtFlag({"-o"})
    /\ IF arg + 1 > Len(argv)
       THEN Return("OUTPUT_UNSPECIFIED") /\ UNCHANGED <<arg, input, output, files>>
       ELSE output' = argv[arg] /\ NextFlag
    /\ UNCHANGED <<flagEnabled, nasmOutput>>

processFlagOutput ==
    /\ AtFlag({"-o"})
    /\ IF arg + 1 > Len(argv)
       THEN Return("OUTPUT_UNSPECIFIED") /\ UNCHANGED <<arg, input, output, files>>
       ELSE output' = argv[arg + 1] /\ NextFlag
    /\ UNCHANGED <<flagEnabled, nasmOutput>>

(* The help is printed, and the rest goes on as if it had not been.        *)
processFlagHelp ==
    /\ AtFlag({"-h"})
    /\ NextFlag
    /\ UNCHANGED <<flagEnabled, output, nasmOutput>>

NoFlag ==
    /\ AtFlag(Files \ (SimpleFlags \union {"-S", "-o", "-h"}))
    /\ NextFlag
    /\ UNCHANGED <<flagEnabled, output, nasmOutput>>

processFlags ==
    \/ processSimpleFlag \/ processFlagNasmDump \/ processFlagOutput \/ processFlagHelp
    \/ NoFlag

(* The end of main.                                                        *)
StartCompile ==
    /\ stage = "flags"
    /\ arg > Len(argv)
    /\ IF input = NoFile
       THEN Return("INPUT_UNSPECIFIED") /\ UNCHANGED output
       ELSE /\ GoOn("load")
            /\ output' = IF output = NoFile THEN DEFAULT_OUTPUT ELSE output
            /\ UNCHANGED tree
    /\ UNCHANGED <<arg, flagEnabled, input, nasmOutput, files>>

-----------------------------------------------------------------------------
(* The stages of compile().                                                *)
At(s) == stage = s /\ UNCHANGED flags

Load ==
    /\ At("load")
    /\ UNCHANGED files
    /\ \/ files[input] # "absent" /\ GoOn("tokenize") /\ UNCHANGED tree
       \/ Return("INPUT_LOAD_FAILED")

(* A dump goes to its file, or an assertion fails as there is none.        *)
DumpTo(log, next) ==
    \/ files' = [files EXCEPT ![log] = "dump"] /\ GoOn(next) /\ UNCHANGED tree
    \/ Return("KILLED") /\ UNCHANGED files

Skip(next) == GoOn(next) /\ UNCHANGED <<tree, files>>

Tokenize ==
    /\ At("tokenize")
    /\ IF "-fdump-tokens" \in flagEnabled THEN DumpTo(TokensLog, "parse") ELSE Skip("parse")

(* A file without any declaration has no tree, which is no error.          *)
Parse ==
    /\ At("parse")
    /\ UNCHANGED files
    /\ \/ GoOn("simple") /\ tree' \in {"tree", "none"}
       \/ Return("COMPILATION_FAILED")
       \/ Return("KILLED")

makeGraphDump(next) == IF tree = "none" THEN Return("KILLED") /\ UNCHANGED files
                       ELSE DumpTo(GraphLog, next)

GraphDump(this, flag, next) ==
    /\ At(this)
    /\ IF flag \in flagEnabled THEN makeGraphDump(next) ELSE Skip(next)

SimpleGraphDump   == GraphDump("simple", "-fdump-tree-graph-simple", "detailed")
DetailedGraphDump == GraphDump("detailed", "-fdump-tree-graph-detailed", "symtab")

(* A string without content stops the dump of the symbol table.            *)
SymbTableDump ==
    /\ At("symtab")
    /\ \/ Skip("tree")
       \/ "-fdump-symtab" \in flagEnabled /\ Return("KILLED") /\ UNCHANGED files

TreeDump ==
    /\ At("tree")
    /\ IF "-fdump-tree" \in flagEnabled THEN DumpTo(TreeLog, "construct") ELSE Skip("construct")

ConstructCompiler ==
    /\ At("construct")
    /\ IF tree = "none" THEN Return("KILLED") /\ UNCHANGED files ELSE Skip("output")

(* fopen(..., "w") empties the file that was there.                        *)
OpenOutput ==
    /\ At("output")
    /\ \/ /\ files' = [files EXCEPT ![output] = "empty"]
          /\ GoOn("nasm")
          /\ UNCHANGED tree
       \/ Return("OUTPUT_LOAD_FAILED") /\ UNCHANGED files

OpenNasm ==
    /\ At("nasm")
    /\ IF "-S" \notin flagEnabled THEN Skip("compile")
       ELSE \/ /\ files' = [files EXCEPT ![nasmOutput] = "empty"]
               /\ GoOn("compile")
               /\ UNCHANGED tree
            \/ Return("NASM_OUTPUT_LOAD_FAILED") /\ UNCHANGED files

(* What was written through the two streams, at the latest when they are   *)
(* closed.  Under one name they overwrite each other.                      *)
Flush(elf, listing) ==
    files' = IF "-S" \notin flagEnabled THEN [files EXCEPT ![output] = elf]
             ELSE IF output = nasmOutput THEN [files EXCEPT ![output] = "mixed"]
             ELSE [files EXCEPT ![output] = elf, ![nasmOutput] = listing]

StatusIgnoredBug ==
    /\ At("compile")
    /\ \/ Skip("close")
       \/ Return("COMPILATION_FAILED") /\ UNCHANGED files
       \/ Flush("broken", "listing") /\ Return("NO_ERROR")
       \/ Flush("empty", "broken") /\ Return("KILLED")

(* compile(&compiler): without love it writes nothing; with another error  *)
(* it writes a file that cannot run; an assertion in the midst of it keeps *)
(* what the streams hold from the files.                                   *)
Compile ==
    /\ At("compile")
    /\ \/ Skip("close")
       \/ Return("COMPILATION_FAILED") /\ UNCHANGED files
       \/ Flush("broken", "listing") /\ Return("COMPILATION_FAILED")
       \/ Flush("empty", "broken") /\ Return("KILLED")

Close ==
    /\ At("close")
    /\ Flush("program", "listing")
    /\ Return("NO_ERROR")

Ended == stage = "ended" /\ UNCHANGED vars

Next ==
    \/ processFlags \/ StartCompile
    \/ Load \/ Tokenize \/ Parse
    \/ SimpleGraphDump \/ DetailedGraphDump \/ SymbTableDump \/ TreeDump
    \/ ConstructCompiler \/ OpenOutput \/ OpenNasm \/ Compile \/ Close
    \/ Ended

Spec == Init /\ [][Next]_vars

-----------------------------------------------------------------------------
Contents == Old \union Written

(* Where the option stands last among the first n words, but not as the    *)
(* last of all; the names behind it.                                       *)
LastAt(option, n) ==
    {j \in 1 .. n : /\ j < Len(argv)
                    /\ argv[j] = option
                    /\ \A k \in j + 1 .. n : argv[k] # option}

Behind(option, n) == {argv[i + 1] : i \in LastAt(option, n)}

Asked(option) == Behind(option, Len(argv))

Words == {argv[i] : i \in 1 .. Len(argv)}

(* The file that the command line asks for, read as a user means it.       *)
Target == IF Asked("-o") = {} THEN {DEFAULT_OUTPUT} ELSE Asked("-o")

LogsAskedFor ==
    {log \in Logs :
        \/ log = TokensLog /\ "-fdump-tokens" \in Words
        \/ log = TreeLog /\ "-fdump-tree" \in Words
        \/ log = GraphLog /\ {"-fdump-tree-graph-simple", "-fdump-tree-graph-detailed"}
                                \intersect Words # {}}

(* The types of the variables.                                             *)
TypeOK ==
    /\ argv \in Seq(Files)
    /\ arg \in 1 .. Len(argv) + 1
    /\ flagEnabled \subseteq SimpleFlags \union {"-S"}
    /\ {input, output, nasmOutput} \subseteq Files \union {NoFile}
    /\ tree \in {"", "tree", "none"}
    /\ files \in [Files -> Contents]
    /\ before \in [Files -> Old]
    /\ exit \in Exits \union {""}

(* The exit code is to be trusted: it is 0 exactly if the file that the    *)
(* last -o names (or a.asm) holds the program, and the file that the last  *)
(* -S names its listing, unless one name was given to both.  Values that   *)
(* look like options, options given twice and every failure included.      *)
ExitTellsTruth ==
    exit # "" =>
        /\ (\E f \in Files : files[f] = "program") => exit = "NO_ERROR"
        /\ exit = "NO_ERROR" =>
              \A f \in Target \ Asked("-S") :
                  /\ files[f] = "program"
                  /\ \A g \in Asked("-S") : files[g] = "listing"

(* Nothing else is overwritten, the input least of all: only the logs that *)
(* were asked for and, once the parser has accepted a program, the files   *)
(* behind -o and -S.  What cannot be parsed costs no earlier output.       *)
OnlyNamedFiles ==
    \A f \in Files :
        files[f] # before[f] =>
            f \in LogsAskedFor \/ (tree = "tree" /\ f \in Target \union Asked("-S"))
=============================================================================
