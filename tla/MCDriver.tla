------------------------------ MODULE MCDriver ------------------------------
(***************************************************************************)
(* Command lines for TLC: every one of up to three words, and those of     *)
(* five words that name files with -o and -S in every order.               *)
(***************************************************************************)
EXTENDS Driver

Options == SimpleFlags \union {"-S", "-o", "-h"}

MCFiles == Options \union Logs \union {DEFAULT_OUTPUT, "program.txt", "x"}

UpTo(n, words) == UNION {[1 .. k -> words] : k \in 0 .. n}

MCCommandLines ==
    UpTo(2, Options \union {"program.txt", "x", TreeLog})
      \union [1 .. 3 -> {"program.txt", "x", "-S", "-o", "-fdump-tree", "-fdump-symtab"}]
      \union {<<"program.txt">> \o rest : rest \in [1 .. 4 -> {"program.txt", "x", "-S", "-o"}]}

(* The program is there or not; an older output may be in the way.        *)
MCFileSystems ==
    {[f \in MCFiles |-> CASE f = "program.txt" -> p
                          [] f \in {"x", DEFAULT_OUTPUT} -> "old"
                          [] OTHER -> "absent"] : p \in {"source", "absent"}}
=============================================================================
