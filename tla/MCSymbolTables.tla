---------------------------- MODULE MCSymbolTables ----------------------------
(***************************************************************************)
(* Small programs for TLC, over an array of two that grows to three, five  *)
(* and nine elements.                                                      *)
(***************************************************************************)
EXTENDS SymbolTables

CONSTANTS love, f, g, x, y, a, b

(* A function without parameters and one with two.                         *)
MCStdFunctions ==
    << [name |-> "accio", parameters |-> <<>>],
       [name |-> "flagrate_bombarda", parameters |-> <<"precision", "number">>] >>

MCSymmetry == Permutations({f, g}) \union Permutations({x, y}) \union Permutations({a, b})
=============================================================================
