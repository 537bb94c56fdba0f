---------------------------- MODULE Driver_proofs ----------------------------
(***************************************************************************)
(* For every command line and every set of files: the exit code tells the  *)
(* truth, and only the files that were named are written to.               *)
(***************************************************************************)
EXTENDS Driver, SequenceTheorems, TLAPS

Working == {"load", "tokenize", "parse", "simple", "detailed", "symtab", "tree",
            "construct", "output", "nasm", "compile", "close"}

Accepted == {"output", "nasm", "compile", "close"}

Early == {"flags", "load", "tokenize", "parse"}

(* What the first n words have asked for is what the variables hold.       *)
Understood(option, value, n) ==
    \/ Behind(option, n) = {} /\ value = NoFile
    \/ Behind(option, n) = {value} /\ value \in Files

Types ==
    /\ TypeOK
    /\ stage \in {"flags", "ended"} \union Working
    /\ exit # "" <=> stage = "ended"
    /\ flagEnabled \subseteq Words
    /\ argv # <<>> => input \in Files

Reading ==
    stage = "flags" =>
        /\ Understood("-o", output, arg - 1)
        /\ Understood("-S", nasmOutput, arg - 1)
        /\ "-S" \in flagEnabled <=> Behind("-S", arg - 1) # {}
        /\ files = before

(* When the words have all been read.                                      *)
Read ==
    /\ Target = {output}
    /\ input \in Files
    /\ output \in Files
    /\ "-S" \in flagEnabled => Asked("-S") = {nasmOutput} /\ nasmOutput \in Files
    /\ "-S" \notin flagEnabled => Asked("-S") = {}

Named ==
    /\ stage \in Working => Read
    /\ stage \in Accepted => tree = "tree"

HasTree == stage # "ended" => (tree = "" <=> stage \in Early)

NoProgram == exit # "NO_ERROR" => \A f \in Files : files[f] # "program"

Done == exit = "NO_ERROR" => ExitTellsTruth

IInv == Types /\ Reading /\ Named /\ HasTree /\ NoProgram /\ Done /\ OnlyNamedFiles

-----------------------------------------------------------------------------
(* One word more: only an option's own name changes what stands behind it. *)
LEMMA BehindStep ==
    ASSUME argv \in Seq(Files), NEW n \in Nat, n < Len(argv), NEW option
    PROVE  Behind(option, n + 1) =
             IF argv[n + 1] # option THEN Behind(option, n)
             ELSE IF n + 1 < Len(argv) THEN {argv[n + 2]} ELSE {}
<1>1. CASE argv[n + 1] # option
  <2>1. ASSUME NEW j \in 1 .. n + 1
        PROVE  j \in LastAt(option, n + 1) <=> j \in LastAt(option, n)
    BY <1>1 DEF LastAt
  <2>2. LastAt(option, n + 1) \subseteq 1 .. n + 1 /\ LastAt(option, n) \subseteq 1 .. n + 1
    BY DEF LastAt
  <2>3. LastAt(option, n + 1) = LastAt(option, n)
    BY <2>1, <2>2, Zenon
  <2> QED
    BY <1>1, <2>3 DEF Behind
<1>2. CASE argv[n + 1] = option /\ n + 1 < Len(argv)
  <2>1. ASSUME NEW j \in 1 .. n + 1
        PROVE  j \in LastAt(option, n + 1) <=> j = n + 1
    BY <1>2 DEF LastAt
  <2>2. LastAt(option, n + 1) \subseteq 1 .. n + 1 /\ n + 1 \in 1 .. n + 1
    BY DEF LastAt
  <2>3. LastAt(option, n + 1) = {n + 1}
    BY <2>1, <2>2, Zenon
  <2>4. Behind(option, n + 1) = {argv[i + 1] : i \in {n + 1}}
    BY <2>3 DEF Behind
  <2>5. argv[(n + 1) + 1] = argv[n + 2]
    OBVIOUS
  <2>6. Behind(option, n + 1) = {argv[n + 2]}
    BY <2>4, <2>5, Zenon
  <2> QED
    BY <1>2, <2>6
<1>3. CASE argv[n + 1] = option /\ n + 1 = Len(argv)
  <2>1. LastAt(option, n + 1) = {}
    BY <1>3 DEF LastAt
  <2>2. Behind(option, n + 1) = {}
    BY <2>1 DEF Behind
  <2>3. ~(n + 1 < Len(argv))
    BY <1>3
  <2> QED
    BY <1>3, <2>2, <2>3, Zenon
<1> QED
  BY <1>1, <1>2, <1>3

LEMMA Arithmetic ==
    ASSUME NEW n \in Nat, NEW a \in 1 .. n + 1
    PROVE  /\ a > n => a - 1 = n
           /\ a <= n => a \in 1 .. n
           /\ \A b : b = a + 1 => b - 1 = a
           /\ ~(a + 1 > n) =>
                 /\ a - 1 \in Nat /\ a - 1 < n /\ a - 1 + 1 = a /\ a - 1 + 2 = a + 1
                 /\ a < n /\ a + 1 \in 1 .. n /\ a + 1 - 1 = a /\ a + 1 \in 1 .. n + 1
  OBVIOUS

(* Behind of no words.                                                     *)
LEMMA BehindNothing == ASSUME NEW option PROVE Behind(option, 0) = {}
  BY DEF Behind, LastAt

-----------------------------------------------------------------------------
LEMMA InitIInv == Init => IInv
<1> SUFFICES ASSUME Init PROVE IInv
  OBVIOUS
<1>1. argv \in Seq(Files) /\ files \in [Files -> Old] /\ NoFile \notin Files
  BY FilesAssumption DEF Init
<1>2. arg = 1 /\ input = IF argv = <<>> THEN NoFile ELSE argv[1]
  BY Zenon DEF Init
<1>3. argv # <<>> => input \in Files
  <2>1. CASE argv # <<>>
    <3>1. Len(argv) \in Nat \ {0}
      BY <1>1, <2>1, EmptySeq
    <3>2. argv[1] \in Files
      BY <1>1, <3>1, ElementOfSeq
    <3> QED
      BY <1>2, <2>1, <3>2, Zenon
  <2> QED
    BY <2>1
<1>4. input \in Files \union {NoFile}
  BY <1>3 DEF Init
<1>5. Types
  <2>1. TypeOK
    <3>1. Len(argv) \in Nat
      BY <1>1
    <3>2. arg \in 1 .. Len(argv) + 1
      BY <1>2, <3>1
    <3>3. files \in [Files -> Contents]
      BY <1>1 DEF Contents
    <3> QED
      BY <1>1, <1>4, <3>2, <3>3 DEF Init, TypeOK
  <2> QED
    BY <1>3, <2>1 DEF Init, Types
<1>6. Reading
  <2>1. arg - 1 = 0
    BY <1>2
  <2> QED
    BY <2>1, BehindNothing DEF Init, Reading, Understood
<1>7. NoProgram
  BY <1>1 DEF Init, NoProgram, Old
<1> QED
  BY <1>5, <1>6, <1>7 DEF Init, IInv, Named, HasTree, Early, Done, OnlyNamedFiles, Working, Accepted

(* What the properties say of the command line does not change.            *)
LEMMA SameWords ==
    ASSUME argv' = argv
    PROVE  /\ Words' = Words
           /\ Target' = Target
           /\ LogsAskedFor' = LogsAskedFor
           /\ \A option : Asked(option)' = Asked(option)
           /\ \A option : Behind(option, arg - 1)' = Behind(option, arg' - 1)
  BY DEF Words, Target, LogsAskedFor, Asked, Behind, LastAt

(* A word that is no option, or one without a file.                        *)
LEMMA NextFlagStep ==
    ASSUME IInv, stage = "flags", arg <= Len(argv),
           argv[arg] \notin {"-S", "-o"}, NextFlag,
           flagEnabled' = flagEnabled
             \/ (argv[arg] \in SimpleFlags /\ flagEnabled' = flagEnabled \union {argv[arg]}),
           output' = output, nasmOutput' = nasmOutput
    PROVE  IInv'
<1> USE DEF IInv
<1>1. argv \in Seq(Files) /\ arg \in 1 .. Len(argv) + 1 /\ arg - 1 \in Nat /\ arg - 1 < Len(argv)
  <2>1. argv \in Seq(Files) /\ arg \in 1 .. Len(argv) + 1
    BY DEF Types, TypeOK
  <2>2. Len(argv) \in Nat
    BY <2>1, LenProperties, Zenon
  <2> QED
    BY <2>1, <2>2
<1>2. /\ Behind("-o", arg) = Behind("-o", arg - 1)
      /\ Behind("-S", arg) = Behind("-S", arg - 1)
  <2>1. (arg - 1) + 1 = arg
    BY <1>1
  <2> QED
    BY <1>1, <2>1, BehindStep
<1>3. arg' - 1 = arg /\ arg' \in 1 .. Len(argv) + 1 /\ argv' = argv
  BY <1>1 DEF NextFlag
<1>4. Words' = Words /\ argv[arg] \in Words
  BY <1>1, <1>3, SameWords DEF Words
<1>5. flagEnabled' \subseteq Words
  BY <1>4 DEF Types
<1>6. flagEnabled' \subseteq SimpleFlags \union {"-S"}
  BY DEF Types, TypeOK
<1>7. "-S" \in flagEnabled' <=> "-S" \in flagEnabled
  BY DEF SimpleFlags
<1>8. Types'
  BY <1>3, <1>4, <1>5, <1>6 DEF Types, TypeOK, NextFlag
<1>9. Reading'
  <2>1. \A option : Behind(option, arg - 1)' = Behind(option, arg)
    BY <1>3, SameWords
  <2> QED
    BY <1>2, <1>3, <1>7, SameWords DEF Reading, Understood, NextFlag
<1> QED
  BY <1>8, <1>9 DEF Named, HasTree, Early, NoProgram, Done, OnlyNamedFiles, Reading, Types, NextFlag, Working, Accepted
(* An option without a file behind it ends the process before any work.    *)
LEMMA NoFileBehind ==
    ASSUME IInv, stage = "flags",
           NEW code \in {"NASM_OUTPUT_UNSPECIFIED", "OUTPUT_UNSPECIFIED", "INPUT_UNSPECIFIED"},
           Return(code), UNCHANGED <<arg, input, output, nasmOutput, files>>,
           flagEnabled' = flagEnabled
             \/ ("-S" \in Words /\ flagEnabled' = flagEnabled \union {"-S"})
    PROVE  IInv'
<1>1. argv' = argv /\ stage' = "ended" /\ exit' = code /\ exit = ""
  BY DEF Return, IInv, Types
<1>2. Words' = Words
  BY <1>1, SameWords
<1>3. TypeOK'
  BY <1>1 DEF IInv, Types, TypeOK, Return, Exits, Failures
<1>4. Types'
  BY <1>1, <1>2, <1>3 DEF IInv, Types
<1>5. files' = files /\ before' = before /\ files = before
  BY DEF IInv, Reading, Return
<1> QED
  BY <1>1, <1>4, <1>5
  DEF IInv, Reading, Named, HasTree, Early, NoProgram, Done, OnlyNamedFiles, Working, Accepted

LEMMA NasmDumpStep ==
    ASSUME IInv, processFlagNasmDump PROVE IInv'
<1>1. /\ stage = "flags" /\ arg <= Len(argv) /\ argv[arg] = "-S"
      /\ flagEnabled' = flagEnabled \union {"-S"} /\ output' = output
  BY DEF processFlagNasmDump, AtFlag
<1>2. argv \in Seq(Files) /\ arg \in 1 .. Len(argv) + 1 /\ Len(argv) \in Nat /\ exit = ""
  <2>1. argv \in Seq(Files) /\ arg \in 1 .. Len(argv) + 1 /\ exit = ""
    BY <1>1 DEF IInv, Types, TypeOK
  <2>2. Len(argv) \in Nat
    BY <2>1, LenProperties, Zenon
  <2> QED
    BY <2>1, <2>2
<1>3. "-S" \in Words
  <2>1. arg \in 1 .. Len(argv)
    BY <1>1, <1>2, Arithmetic, Zenon
  <2> QED
    BY <1>1, <2>1, Zenon DEF Words
<1>4. CASE arg + 1 > Len(argv)
  BY <1>1, <1>3, <1>4, NoFileBehind DEF processFlagNasmDump
<1>5. CASE ~(arg + 1 > Len(argv))
  <2>1. nasmOutput' = argv[arg + 1] /\ NextFlag
    BY <1>5 DEF processFlagNasmDump
  <2>2. arg - 1 \in Nat /\ arg - 1 < Len(argv) /\ arg - 1 + 1 = arg /\ arg - 1 + 2 = arg + 1
        /\ arg < Len(argv) /\ arg + 1 \in 1 .. Len(argv)
        /\ arg + 1 - 1 = arg /\ arg + 1 \in 1 .. Len(argv) + 1
    BY <1>2, <1>5, Arithmetic, Zenon
  <2>3. Behind("-S", arg) = {argv[arg + 1]} /\ Behind("-o", arg) = Behind("-o", arg - 1)
    <3>1. "-S" # "-o"
      OBVIOUS
    <3> QED
      BY <1>1, <1>2, <2>2, <3>1, BehindStep
  <2>4. argv[arg + 1] \in Files
    BY <1>2, <2>2, ElementOfSeq
  <2>5. argv' = argv /\ arg' - 1 = arg /\ arg' \in 1 .. Len(argv) + 1
    <3>1. argv' = argv /\ arg' = arg + 1
      BY <2>1, Zenon DEF NextFlag
    <3>2. arg' - 1 = arg
      BY <1>2, <3>1, Arithmetic, Zenon
    <3>3. arg' \in 1 .. Len(argv) + 1
      BY <2>2, <3>1, Zenon
    <3> QED
      BY <3>1, <3>2, <3>3
  <2>6. Words' = Words /\ \A option : Behind(option, arg - 1)' = Behind(option, arg)
    BY <2>5, SameWords
  <2>7. TypeOK'
    BY <1>1, <2>1, <2>4, <2>5 DEF IInv, Types, TypeOK, NextFlag
  <2>8. Types'
    BY <1>1, <1>3, <2>1, <2>5, <2>6, <2>7 DEF IInv, Types, NextFlag
  <2>9. Reading'
    BY <1>1, <2>1, <2>3, <2>4, <2>6 DEF IInv, Reading, Understood, NextFlag
  <2> QED
    BY <1>1, <1>2, <2>1, <2>8, <2>9
    DEF IInv, Named, HasTree, Early, NoProgram, Done, OnlyNamedFiles, Reading, NextFlag, Working, Accepted
<1> QED
  BY <1>4, <1>5

LEMMA OutputStep ==
    ASSUME IInv, processFlagOutput PROVE IInv'
<1>1. /\ stage = "flags" /\ arg <= Len(argv) /\ argv[arg] = "-o"
      /\ flagEnabled' = flagEnabled /\ nasmOutput' = nasmOutput
  BY DEF processFlagOutput, AtFlag
<1>2. argv \in Seq(Files) /\ arg \in 1 .. Len(argv) + 1 /\ Len(argv) \in Nat /\ exit = ""
  <2>1. argv \in Seq(Files) /\ arg \in 1 .. Len(argv) + 1 /\ exit = ""
    BY <1>1 DEF IInv, Types, TypeOK
  <2>2. Len(argv) \in Nat
    BY <2>1, LenProperties, Zenon
  <2> QED
    BY <2>1, <2>2
<1>3. CASE arg + 1 > Len(argv)
  BY <1>1, <1>3, NoFileBehind DEF processFlagOutput
<1>4. CASE ~(arg + 1 > Len(argv))
  <2>1. output' = argv[arg + 1] /\ NextFlag
    BY <1>4 DEF processFlagOutput
  <2>2. arg - 1 \in Nat /\ arg - 1 < Len(argv) /\ arg - 1 + 1 = arg /\ arg - 1 + 2 = arg + 1
        /\ arg < Len(argv) /\ arg + 1 \in 1 .. Len(argv)
        /\ arg + 1 - 1 = arg /\ arg + 1 \in 1 .. Len(argv) + 1
    BY <1>2, <1>4, Arithmetic, Zenon
  <2>3. Behind("-o", arg) = {argv[arg + 1]} /\ Behind("-S", arg) = Behind("-S", arg - 1)
    <3>1. "-S" # "-o"
      OBVIOUS
    <3> QED
      BY <1>1, <1>2, <2>2, <3>1, BehindStep
  <2>4. argv[arg + 1] \in Files
    BY <1>2, <2>2, ElementOfSeq
  <2>5. argv' = argv /\ arg' - 1 = arg /\ arg' \in 1 .. Len(argv) + 1
    <3>1. argv' = argv /\ arg' = arg + 1
      BY <2>1, Zenon DEF NextFlag
    <3>2. arg' - 1 = arg
      BY <1>2, <3>1, Arithmetic, Zenon
    <3>3. arg' \in 1 .. Len(argv) + 1
      BY <2>2, <3>1, Zenon
    <3> QED
      BY <3>1, <3>2, <3>3
  <2>6. Words' = Words /\ \A option : Behind(option, arg - 1)' = Behind(option, arg)
    BY <2>5, SameWords
  <2>7. TypeOK'
    BY <1>1, <2>1, <2>4, <2>5 DEF IInv, Types, TypeOK, NextFlag
  <2>8. Types'
    BY <1>1, <2>1, <2>5, <2>6, <2>7 DEF IInv, Types, NextFlag
  <2>9. Reading'
    BY <1>1, <2>1, <2>3, <2>4, <2>6 DEF IInv, Reading, Understood, NextFlag
  <2> QED
    BY <1>1, <1>2, <2>1, <2>8, <2>9
    DEF IInv, Named, HasTree, Early, NoProgram, Done, OnlyNamedFiles, Reading, NextFlag, Working, Accepted
<1> QED
  BY <1>3, <1>4

LEMMA FlagSteps ==
    ASSUME IInv, processFlags PROVE IInv'
<1>1. CASE processSimpleFlag
  BY <1>1, NextFlagStep DEF processSimpleFlag, AtFlag, SimpleFlags
<1>2. CASE processFlagHelp
  BY <1>2, NextFlagStep DEF processFlagHelp, AtFlag
<1>3. CASE NoFlag
  BY <1>3, NextFlagStep DEF NoFlag, AtFlag
<1> QED
  BY <1>1, <1>2, <1>3, NasmDumpStep, OutputStep DEF processFlags

(* All words are read.                                                     *)
LEMMA StartCompileStep ==
    ASSUME IInv, StartCompile PROVE IInv'
<1>1. /\ stage = "flags" /\ arg > Len(argv) /\ exit = ""
      /\ UNCHANGED <<arg, flagEnabled, input, nasmOutput, files>>
  BY DEF StartCompile, IInv, Types
<1>2. argv \in Seq(Files) /\ arg \in 1 .. Len(argv) + 1
  BY DEF IInv, Types, TypeOK
<1>3. arg - 1 = Len(argv)
  <2>1. Len(argv) \in Nat
    BY <1>2
  <2> QED
    BY <1>1, <1>2, <2>1, Arithmetic, Zenon
<1>4. CASE input = NoFile
  BY <1>1, <1>4, NoFileBehind DEF StartCompile
<1>5. CASE input # NoFile
  <2>1. GoOn("load") /\ output' = (IF output = NoFile THEN DEFAULT_OUTPUT ELSE output)
        /\ UNCHANGED tree
    BY <1>5 DEF StartCompile
  <2>2. argv' = argv /\ stage' = "load" /\ exit' = exit /\ before' = before
    BY <2>1 DEF GoOn
  <2>3. Words' = Words /\ Target' = Target /\ \A option : Asked(option)' = Asked(option)
    BY <2>2, SameWords
  <2>4. output' \in Files /\ Target = {output'}
    <3>1. Understood("-o", output, Len(argv))
      BY <1>1, <1>3 DEF IInv, Reading
    <3>2. DEFAULT_OUTPUT \in Files /\ NoFile \notin Files
      BY FilesAssumption
    <3> QED
      BY <2>1, <3>1, <3>2 DEF Understood, Target, Asked
  <2>5. input \in Files
    BY <1>5 DEF IInv, Types, TypeOK
  <2>6. /\ "-S" \in flagEnabled => Asked("-S") = {nasmOutput} /\ nasmOutput \in Files
        /\ "-S" \notin flagEnabled => Asked("-S") = {}
    BY <1>1, <1>3 DEF IInv, Reading, Understood, Asked
  <2>7. Read'
    BY <1>1, <2>3, <2>4, <2>5, <2>6 DEF Read
  <2>8. Types'
    BY <1>1, <2>1, <2>2, <2>3, <2>4 DEF IInv, Types, TypeOK, Working
  <2> QED
    BY <1>1, <2>1, <2>2, <2>7, <2>8
    DEF IInv, Named, HasTree, Early, NoProgram, Done, OnlyNamedFiles, Reading, Working, Accepted
<1> QED
  BY <1>4, <1>5
-----------------------------------------------------------------------------
(* Within compile() the command line and what it means stay as they are.   *)
LEMMA Standing ==
    ASSUME IInv, stage \in Working, UNCHANGED <<argv, flags, before>>
    PROVE  /\ Read /\ Read'
           /\ Words' = Words /\ LogsAskedFor' = LogsAskedFor /\ Target' = Target
           /\ Asked("-S")' = Asked("-S")
           /\ exit = "" /\ files \in [Files -> Contents] /\ \A f \in Files : files[f] # "program"
<1>1. Read
  BY DEF IInv, Named
<1>2. UNCHANGED <<argv, arg, flagEnabled, input, output, nasmOutput>>
  BY DEF flags
<1>3. Words' = Words /\ LogsAskedFor' = LogsAskedFor /\ Target' = Target
      /\ Asked("-S")' = Asked("-S")
  BY <1>2, SameWords
<1>4. Read'
  BY <1>1, <1>2, <1>3 DEF Read
<1>5. exit = "" /\ files \in [Files -> Contents]
  BY DEF IInv, Types, TypeOK, Working
<1> QED
  BY <1>1, <1>3, <1>4, <1>5 DEF IInv, NoProgram

(* A stage that does not finish the program: what is left to show of it.   *)
LEMMA StageStep ==
    ASSUME IInv, stage \in Working, UNCHANGED <<argv, flags, before>>,
           tree' \in {"", "tree", "none"},
           files' \in [Files -> Contents], \A f \in Files : files'[f] # "program",
           OnlyNamedFiles',
           \/ /\ stage' \in Working /\ exit' = exit
              /\ stage' \in Accepted => tree' = "tree"
              /\ tree' = "" <=> stage' \in Early
           \/ stage' = "ended" /\ exit' \in Exits \ {"NO_ERROR"}
    PROVE  IInv'
<1>1. UNCHANGED <<argv, arg, flagEnabled, input, output, nasmOutput>>
  BY DEF flags
<1>2. exit' # "" <=> stage' = "ended"
  BY Standing DEF Exits, Failures, Working
<1>3. exit' # "NO_ERROR" /\ exit' \in Exits \union {""}
  BY Standing DEF Exits
<1>4. TypeOK'
  BY <1>1, <1>3 DEF IInv, Types, TypeOK
<1>5. Types'
  BY <1>1, <1>2, <1>4, Standing DEF IInv, Types
<1>6. Reading' /\ Named' /\ HasTree'
  BY Standing DEF Reading, Named, HasTree, Working, Accepted
<1> QED
  BY <1>3, <1>5, <1>6 DEF IInv, NoProgram, Done

(* Nothing is written, or one file that was named.                         *)
LEMMA OneFileStep ==
    ASSUME IInv, stage \in Working, UNCHANGED <<argv, flags, before>>,
           tree' \in {"", "tree", "none"}, tree = "tree" => tree' = "tree",
           \/ files' = files
           \/ \E f \in Files, kind \in Contents \ {"program"} :
                 /\ files' = [files EXCEPT ![f] = kind]
                 /\ f \in LogsAskedFor \/ (tree = "tree" /\ f \in Target \union Asked("-S")),
           \/ /\ stage' \in Working /\ exit' = exit
              /\ stage' \in Accepted => tree' = "tree"
              /\ tree' = "" <=> stage' \in Early
           \/ stage' = "ended" /\ exit' \in Exits \ {"NO_ERROR"}
    PROVE  IInv'
<1>1. CASE files' = files
  <2>1. OnlyNamedFiles'
    BY <1>1, Standing DEF IInv, OnlyNamedFiles
  <2> QED
    BY <1>1, <2>1, Standing, StageStep
<1>2. ASSUME NEW f \in Files, NEW kind \in Contents \ {"program"},
             files' = [files EXCEPT ![f] = kind],
             f \in LogsAskedFor \/ (tree = "tree" /\ f \in Target \union Asked("-S"))
      PROVE  IInv'
  <2>1. /\ files' \in [Files -> Contents]
        /\ \A g \in Files : files'[g] = IF g = f THEN kind ELSE files[g]
    BY <1>2, Standing
  <2>2. /\ LogsAskedFor' = LogsAskedFor /\ Target' = Target /\ Asked("-S")' = Asked("-S")
        /\ before' = before /\ \A g \in Files : files[g] # "program"
    BY Standing
  <2>3. ASSUME NEW g \in Files, files'[g] # before'[g]
        PROVE  g \in LogsAskedFor' \/ (tree' = "tree" /\ g \in Target' \union Asked("-S")')
    <3>1. CASE g = f
      BY <1>2, <2>2, <3>1
    <3>2. CASE g # f
      <4>1. files[g] # before[g]
        BY <2>1, <2>2, <2>3, <3>2
      <4> QED
        BY <2>2, <4>1 DEF IInv, OnlyNamedFiles
    <3> QED
      BY <3>1, <3>2
  <2>4. OnlyNamedFiles'
    BY <2>3 DEF OnlyNamedFiles
  <2>5. \A g \in Files : files'[g] # "program"
    BY <2>1, <2>2
  <2> QED
    BY <2>1, <2>4, <2>5, StageStep
<1> QED
  BY <1>1, <1>2

(* The logs that an option asks for are logs.                              *)
LEMMA LogOptions ==
    ASSUME IInv, stage \in Working
    PROVE  /\ Logs \subseteq Files
           /\ "-fdump-tokens" \in flagEnabled => TokensLog \in LogsAskedFor
           /\ "-fdump-tree" \in flagEnabled => TreeLog \in LogsAskedFor
           /\ ("-fdump-tree-graph-simple" \in flagEnabled \/ "-fdump-tree-graph-detailed" \in flagEnabled)
                 => GraphLog \in LogsAskedFor
<1>1. flagEnabled \subseteq Words
  BY DEF IInv, Types
<1>2. Logs \subseteq Files
  BY FilesAssumption
<1> QED
  BY <1>1, <1>2 DEF LogsAskedFor, Logs

LEMMA DumpStep ==
    ASSUME IInv, stage \in Working, UNCHANGED flags,
           NEW log \in LogsAskedFor, NEW next \in Working \ Accepted, tree = "" <=> next \in Early, DumpTo(log, next)
    PROVE  IInv'
<1>1. log \in Files /\ "dump" \in Contents \ {"program"}
  BY FilesAssumption DEF LogsAskedFor, Contents, Written, Old
<1>2. tree \in {"", "tree", "none"}
  BY DEF IInv, Types, TypeOK
<1> QED
  BY <1>1, <1>2, OneFileStep DEF DumpTo, GoOn, Return, Exits, Working, Accepted

LEMMA SkipStep ==
    ASSUME IInv, stage \in Working, UNCHANGED flags,
           NEW next \in Working, next \in Accepted => tree = "tree",
           tree = "" <=> next \in Early, Skip(next)
    PROVE  IInv'
<1>1. tree \in {"", "tree", "none"}
  BY DEF IInv, Types, TypeOK
<1> QED
  BY <1>1, OneFileStep DEF Skip, GoOn

LEMMA FailStep ==
    ASSUME IInv, stage \in Working, UNCHANGED <<flags, files>>,
           NEW code \in Exits \ {"NO_ERROR"}, Return(code)
    PROVE  IInv'
<1>1. tree \in {"", "tree", "none"}
  BY DEF IInv, Types, TypeOK
<1> QED
  BY <1>1, OneFileStep DEF Return

LEMMA LogSteps ==
    ASSUME IInv, Tokenize \/ SimpleGraphDump \/ DetailedGraphDump \/ TreeDump PROVE IInv'
<1>1. stage \in Working /\ UNCHANGED flags
  BY DEF Tokenize, SimpleGraphDump, DetailedGraphDump, GraphDump, TreeDump, At, Working
<1>2. CASE Tokenize
  <2>1. "parse" \in Working \ Accepted /\ (tree = "" <=> "parse" \in Early)
    BY <1>2 DEF Working, Accepted, IInv, HasTree, Early, Tokenize, At
  <2> QED
    BY <1>1, <1>2, <2>1, LogOptions, DumpStep, SkipStep DEF Tokenize
<1>3. CASE TreeDump
  <2>1. "construct" \in Working \ Accepted /\ (tree = "" <=> "construct" \in Early)
    BY <1>3 DEF Working, Accepted, IInv, HasTree, Early, TreeDump, At
  <2> QED
    BY <1>1, <1>3, <2>1, LogOptions, DumpStep, SkipStep DEF TreeDump
<1>4. ASSUME NEW this \in {"simple", "detailed"},
             NEW flag \in {"-fdump-tree-graph-simple", "-fdump-tree-graph-detailed"},
             NEW next \in {"detailed", "symtab"}, GraphDump(this, flag, next)
      PROVE  IInv'
  <2>1. next \in Working \ Accepted /\ (tree = "" <=> next \in Early)
    BY <1>4 DEF Working, Accepted, IInv, HasTree, Early, GraphDump, At
  <2>2. "KILLED" \in Exits \ {"NO_ERROR"}
    BY DEF Exits
  <2>3. CASE flag \notin flagEnabled
    BY <1>1, <1>4, <2>1, <2>3, SkipStep DEF GraphDump
  <2>4. CASE flag \in flagEnabled /\ tree = "none"
    BY <1>1, <1>4, <2>2, <2>4, FailStep DEF GraphDump, makeGraphDump
  <2>5. CASE flag \in flagEnabled /\ tree # "none"
    BY <1>1, <1>4, <2>1, <2>5, LogOptions, DumpStep DEF GraphDump, makeGraphDump
  <2> QED
    BY <2>3, <2>4, <2>5
<1> QED
  BY <1>2, <1>3, <1>4 DEF SimpleGraphDump, DetailedGraphDump

(* The stages that write nothing.                                          *)
LEMMA QuietSteps ==
    ASSUME IInv, Load \/ Parse \/ SymbTableDump \/ ConstructCompiler PROVE IInv'
<1>1. stage \in Working /\ UNCHANGED flags
  BY DEF Load, Parse, SymbTableDump, ConstructCompiler, At, Working
<1>2. "KILLED" \in Exits \ {"NO_ERROR"} /\ "INPUT_LOAD_FAILED" \in Exits \ {"NO_ERROR"}
      /\ "COMPILATION_FAILED" \in Exits \ {"NO_ERROR"}
  BY DEF Exits, Failures
<1>3. CASE Load
  <2>1. "tokenize" \in Working \ Accepted /\ (tree = "" <=> "tokenize" \in Early)
    BY <1>3 DEF Working, Accepted, IInv, HasTree, Early, Load, At
  <2>2. CASE GoOn("tokenize") /\ UNCHANGED <<tree, files>>
    BY <1>1, <2>1, <2>2, SkipStep DEF Skip
  <2>3. CASE Return("INPUT_LOAD_FAILED") /\ UNCHANGED files
    BY <1>1, <1>2, <2>3, FailStep
  <2> QED
    BY <1>3, <2>2, <2>3 DEF Load
<1>4. CASE Parse
  <2>1. CASE GoOn("simple") /\ tree' \in {"tree", "none"} /\ UNCHANGED files
    <3>1. stage = "parse" /\ tree' \in {"", "tree", "none"}
      BY <1>4, <2>1 DEF Parse, At
    <3>2. UNCHANGED <<argv, flags, before>> /\ stage' = "simple" /\ exit' = exit
      BY <1>1, <2>1 DEF GoOn
    <3>3. stage' \in Working \ Accepted /\ stage' \notin Early /\ tree' # ""
      BY <2>1, <3>2 DEF Working, Accepted, Early
    <3>4. /\ files' \in [Files -> Contents] /\ \A g \in Files : files'[g] # "program"
          /\ LogsAskedFor' = LogsAskedFor /\ Target' = Target /\ Asked("-S")' = Asked("-S")
          /\ files' = files /\ before' = before
      BY <1>1, <2>1, <3>2, Standing
    <3>5. tree # "tree"
      BY <3>1 DEF IInv, HasTree, Early
    <3>6. OnlyNamedFiles'
      BY <3>4, <3>5 DEF IInv, OnlyNamedFiles
    <3> QED
      BY <1>1, <3>1, <3>2, <3>3, <3>4, <3>6, StageStep
  <2>2. CASE Return("COMPILATION_FAILED") /\ UNCHANGED files
    BY <1>1, <1>2, <2>2, FailStep
  <2>3. CASE Return("KILLED") /\ UNCHANGED files
    BY <1>1, <1>2, <2>3, FailStep
  <2> QED
    BY <1>4, <2>1, <2>2, <2>3 DEF Parse
<1>5. CASE SymbTableDump
  <2>1. "tree" \in Working \ Accepted /\ (tree = "" <=> "tree" \in Early)
    BY <1>5 DEF Working, Accepted, IInv, HasTree, Early, SymbTableDump, At
  <2>2. CASE Skip("tree")
    BY <1>1, <2>1, <2>2, SkipStep
  <2>3. CASE Return("KILLED") /\ UNCHANGED files
    BY <1>1, <1>2, <2>3, FailStep
  <2> QED
    BY <1>5, <2>2, <2>3 DEF SymbTableDump
<1>6. CASE ConstructCompiler
  <2>1. CASE tree = "none"
    BY <1>1, <1>2, <1>6, <2>1, FailStep DEF ConstructCompiler
  <2>2. CASE tree # "none"
    <3>1. Skip("output") /\ "output" \in Working /\ tree = "tree" /\ "output" \notin Early
      BY <1>6, <2>2 DEF ConstructCompiler, Working, At, IInv, HasTree, Early, Types, TypeOK
    <3> QED
      BY <1>1, <3>1, SkipStep
  <2> QED
    BY <2>1, <2>2
<1> QED
  BY <1>3, <1>4, <1>5, <1>6

LEMMA OpenSteps ==
    ASSUME IInv, OpenOutput \/ OpenNasm PROVE IInv'
<1>1. stage \in Accepted /\ stage \in Working /\ UNCHANGED flags
  BY DEF OpenOutput, OpenNasm, At, Accepted, Working
<1>2. tree = "tree" /\ Read
  BY <1>1, Standing DEF IInv, Named
<1>3. "OUTPUT_LOAD_FAILED" \in Exits \ {"NO_ERROR"} /\ "NASM_OUTPUT_LOAD_FAILED" \in Exits \ {"NO_ERROR"}
  BY DEF Exits, Failures
<1>4. /\ "nasm" \in Working \ Early /\ "compile" \in Working \ Early
      /\ "empty" \in Contents \ {"program"}
  BY DEF Working, Early, Contents, Written, Old
<1>5. ASSUME NEW f \in Files, f \in Target \union Asked("-S"), NEW next \in {"nasm", "compile"},
             files' = [files EXCEPT ![f] = "empty"], GoOn(next), UNCHANGED tree
      PROVE  IInv'
  <2>1. stage' \in Working /\ exit' = exit /\ tree' = "tree" /\ stage' \notin Early
        /\ UNCHANGED <<argv, flags, before>>
    BY <1>1, <1>2, <1>4, <1>5 DEF GoOn
  <2> QED
    BY <1>1, <1>2, <1>4, <1>5, <2>1, OneFileStep
<1>6. CASE OpenOutput
  <2>1. CASE Return("OUTPUT_LOAD_FAILED") /\ UNCHANGED files
    BY <1>1, <1>3, <2>1, FailStep
  <2>2. output \in Files /\ output \in Target
    BY <1>2 DEF Read
  <2> QED
    BY <1>5, <1>6, <2>1, <2>2 DEF OpenOutput
<1>7. CASE OpenNasm
  <2>1. CASE Return("NASM_OUTPUT_LOAD_FAILED") /\ UNCHANGED files
    BY <1>1, <1>3, <2>1, FailStep
  <2>2. CASE "-S" \notin flagEnabled
    BY <1>1, <1>2, <1>4, <1>7, <2>2, SkipStep DEF OpenNasm
  <2>3. CASE "-S" \in flagEnabled
    <3>1. nasmOutput \in Files /\ nasmOutput \in Asked("-S")
      BY <1>2, <2>3 DEF Read
    <3> QED
      BY <1>5, <1>7, <2>1, <2>3, <3>1 DEF OpenNasm
  <2> QED
    BY <2>2, <2>3
<1> QED
  BY <1>6, <1>7

(* What closing the two streams does to the files.                         *)
LEMMA FlushFiles ==
    ASSUME IInv, stage \in Accepted, UNCHANGED <<argv, flags, before>>,
           NEW elf \in Contents, NEW listing \in Contents, Flush(elf, listing)
    PROVE  /\ files' \in [Files -> Contents]
           /\ \A f \in Files :
                 files'[f] = IF f \in Target /\ f \in Asked("-S") THEN "mixed"
                             ELSE IF f \in Target THEN elf
                             ELSE IF f \in Asked("-S") THEN listing
                             ELSE files[f]
<1>1. stage \in Working
  BY DEF Working, Accepted
<1>2. Read /\ files \in [Files -> Contents] /\ "mixed" \in Contents
  BY <1>1, Standing DEF Contents, Written
<1>3. CASE "-S" \notin flagEnabled
  BY <1>2, <1>3 DEF Flush, Read
<1>4. CASE "-S" \in flagEnabled /\ output = nasmOutput
  BY <1>2, <1>4 DEF Flush, Read
<1>5. CASE "-S" \in flagEnabled /\ output # nasmOutput
  BY <1>2, <1>5 DEF Flush, Read
<1> QED
  BY <1>3, <1>4, <1>5

(* Once the parser has accepted a program, both files are fair game.       *)
LEMMA FlushNamed ==
    ASSUME IInv, stage \in Accepted, UNCHANGED <<argv, flags, before, tree>>,
           NEW elf \in Contents, NEW listing \in Contents, Flush(elf, listing)
    PROVE  OnlyNamedFiles' /\ tree' = "tree"
<1>1. stage \in Working /\ tree = "tree" /\ tree' = "tree"
  BY DEF IInv, Named, Working, Accepted
<1>2. /\ LogsAskedFor' = LogsAskedFor /\ Target' = Target /\ Asked("-S")' = Asked("-S")
      /\ before' = before
  BY <1>1, Standing
<1>3. ASSUME NEW f \in Files, files'[f] # before'[f]
      PROVE  f \in LogsAskedFor' \/ (tree' = "tree" /\ f \in Target' \union Asked("-S")')
  <2>1. CASE f \in Target \union Asked("-S")
    BY <1>1, <1>2, <2>1
  <2>2. CASE f \notin Target \union Asked("-S")
    <3>1. files[f] # before[f]
      BY <1>2, <1>3, <2>2, FlushFiles
    <3> QED
      BY <1>2, <2>2, <3>1 DEF IInv, OnlyNamedFiles
  <2> QED
    BY <2>1, <2>2
<1> QED
  BY <1>1, <1>3 DEF OnlyNamedFiles

LEMMA CompileStep ==
    ASSUME IInv, Compile PROVE IInv'
<1>1. stage \in Accepted /\ stage \in Working /\ UNCHANGED flags
  BY DEF Compile, At, Accepted, Working
<1>2. tree = "tree" /\ "close" \in Working \ Early
  BY <1>1 DEF IInv, Named, Working, Early
<1>3. "COMPILATION_FAILED" \in Exits \ {"NO_ERROR"} /\ "KILLED" \in Exits \ {"NO_ERROR"}
  BY DEF Exits, Failures
<1>4. ASSUME NEW elf \in Contents \ {"program"}, NEW listing \in Contents \ {"program"},
             Flush(elf, listing), NEW code \in Exits \ {"NO_ERROR"}, Return(code)
      PROVE  IInv'
  <2>1. UNCHANGED <<argv, flags, before, tree>> /\ stage' = "ended" /\ exit' = code
    BY <1>1, <1>4 DEF Return
  <2>2. files' \in [Files -> Contents] /\ OnlyNamedFiles'
    BY <1>1, <1>4, <2>1, FlushFiles, FlushNamed
  <2>3. \A f \in Files : files'[f] # "program"
    BY <1>1, <1>4, <2>1, FlushFiles, Standing
  <2> QED
    BY <1>1, <1>2, <2>1, <2>2, <2>3, StageStep
<1>5. {"broken", "listing", "empty"} \subseteq Contents \ {"program"}
  BY DEF Contents, Written, Old
<1>6. CASE Skip("close")
  BY <1>1, <1>2, <1>6, SkipStep
<1>7. CASE Return("COMPILATION_FAILED") /\ UNCHANGED files
  BY <1>1, <1>3, <1>7, FailStep
<1>8. CASE Flush("broken", "listing") /\ Return("COMPILATION_FAILED")
  BY <1>3, <1>4, <1>5, <1>8
<1>9. CASE Flush("empty", "broken") /\ Return("KILLED")
  BY <1>3, <1>4, <1>5, <1>9
<1> QED
  BY <1>6, <1>7, <1>8, <1>9 DEF Compile

(* The only step to an exit code of 0.                                     *)
LEMMA CloseStep ==
    ASSUME IInv, Close PROVE IInv'
<1>1. stage \in Accepted /\ stage \in Working /\ UNCHANGED flags
  BY DEF Close, At, Accepted, Working
<1>2. /\ UNCHANGED <<argv, flags, before, tree>> /\ stage' = "ended" /\ exit' = "NO_ERROR"
      /\ Flush("program", "listing")
  BY <1>1 DEF Close, Return
<1>3. {"program", "listing"} \subseteq Contents
  BY DEF Contents, Written
<1>4. OnlyNamedFiles' /\ files' \in [Files -> Contents]
  BY <1>1, <1>2, <1>3, FlushFiles, FlushNamed
<1>5. /\ Read /\ Words' = Words /\ Target' = Target /\ Asked("-S")' = Asked("-S")
  BY <1>1, <1>2, Standing
<1>6. Types'
  BY <1>2, <1>4, <1>5 DEF IInv, Types, TypeOK, flags, Exits
<1>7. ExitTellsTruth'
  <2>1. ASSUME NEW f \in Target, f \notin Asked("-S")
        PROVE  files'[f] = "program" /\ \A g \in Asked("-S") : files'[g] = "listing"
    <3>1. f \in Files /\ Target = {f} /\ Asked("-S") \subseteq Files
      BY <1>5, <2>1 DEF Read
    <3> QED
      BY <1>1, <1>2, <1>3, <2>1, <3>1, FlushFiles
  <2> QED
    BY <1>2, <1>5, <2>1 DEF ExitTellsTruth
<1> QED
  BY <1>2, <1>4, <1>6, <1>7
  DEF IInv, Reading, Named, HasTree, NoProgram, Done, Working, Accepted

-----------------------------------------------------------------------------
LEMMA IInvStep == IInv /\ [Next]_vars => IInv'
<1> SUFFICES ASSUME IInv, [Next]_vars PROVE IInv'
  OBVIOUS
<1>1. CASE UNCHANGED vars
  <2>1. UNCHANGED <<argv, arg, flagEnabled, input, output, nasmOutput, stage, tree, files, before, exit>>
    BY <1>1 DEF vars, flags
  <2>2. /\ Words' = Words /\ Target' = Target /\ LogsAskedFor' = LogsAskedFor
        /\ \A option : Asked(option)' = Asked(option)
        /\ \A option : Behind(option, arg - 1)' = Behind(option, arg - 1)
    BY <2>1, SameWords
  <2>3. Types' /\ Reading'
    BY <2>1, <2>2 DEF IInv, Types, TypeOK, Reading, Understood
  <2>4. Named' /\ HasTree' /\ NoProgram'
    BY <2>1, <2>2 DEF IInv, Named, HasTree, NoProgram, Read
  <2>5. Done' /\ OnlyNamedFiles'
    BY <2>1, <2>2 DEF IInv, Done, ExitTellsTruth, OnlyNamedFiles
  <2> QED
    BY <2>3, <2>4, <2>5 DEF IInv
<1>2. CASE Next
  <2>1. CASE Ended
    BY <1>1, <2>1 DEF Ended
  <2> QED
    BY <1>2, <2>1, FlagSteps, StartCompileStep, LogSteps, QuietSteps, OpenSteps, CompileStep, CloseStep
    DEF Next
<1> QED
  BY <1>1, <1>2

LEMMA Always == Spec => []IInv
<1>1. IInv /\ [Next]_vars => IInv'
  BY IInvStep
<1> QED
  BY InitIInv, <1>1, PTL DEF Spec

(* Whatever the words and the files are, the variables keep their types.   *)
THEOREM TypeCorrect == Spec => []TypeOK
<1>1. IInv => TypeOK
  BY DEF IInv, Types
<1> QED
  BY <1>1, Always, PTL

(* The exit code of every run of every command line is to be trusted: a    *)
(* failing stage is reported, whichever it is, and 0 means that the file   *)
(* asked for holds the program.                                            *)
THEOREM ExitIsTrue == Spec => []ExitTellsTruth
<1>1. IInv => ExitTellsTruth
  <2> SUFFICES ASSUME IInv PROVE ExitTellsTruth
    OBVIOUS
  <2>1. CASE exit = "NO_ERROR"
    BY <2>1 DEF IInv, Done
  <2>2. CASE exit # "NO_ERROR" /\ exit # ""
    <3>1. stage = "ended"
      BY <2>2 DEF IInv, Types
    <3>2. \A f \in Files : files[f] # "program"
      BY <2>2 DEF IInv, NoProgram
    <3> QED
      BY <2>2, <3>2 DEF ExitTellsTruth
  <2>3. CASE exit = ""
    BY <2>3 DEF ExitTellsTruth
  <2> QED
    BY <2>1, <2>2, <2>3
<1> QED
  BY <1>1, Always, PTL

(* Whatever the words are, no file is overwritten but those that an option *)
(* names, and those of -o and -S not before the parser has accepted.       *)
THEOREM NamedFilesOnly == Spec => []OnlyNamedFiles
<1>1. IInv => OnlyNamedFiles
  BY DEF IInv
<1> QED
  BY <1>1, Always, PTL
=============================================================================
