----------------------------- MODULE MCTwoPass ------------------------------
(* The linker on four programs over a library of two functions, at the     *)
(* real sizes of the instructions and of the buffer:                       *)
(*   looping    two functions, backward and forward jumps, mutual calls, a *)
(*              label that is looked up before it is defined and used      *)
(*              after (compileLoop), strings and the IO buffer             *)
(*   large      calls over more code than the initial capacity             *)
(*   undefined  a call without a function                                  *)
(*   headless   no main function                                           *)
EXTENDS TwoPass

CONSTANTS love, helper, while, endWhile, name, accio, flagrate, buffer, none

MCLabels == {love, helper, while, endWhile, name, accio, flagrate, buffer}
MCStdFunctions == <<[label |-> accio, size |-> 93], [label |-> flagrate, size |-> 104]>>

Look(l)      == Event("lookup", l, 0)
Def(l)       == Event("define", l, 0)
Plain(n)     == Event("emit", none, n)
CallOf(l)    == <<Look(l), Event("rel32", l, 5)>>
JumpTo(l)    == <<Event("rel32", l, 6)>>
AddressOf(l) == <<Look(l), Event("imm64", l, 10)>>

Loop(body) ==
    <<Look(while), Look(endWhile), Def(while)>> \o JumpTo(endWhile) \o body
       \o JumpTo(while) \o <<Def(endWhile)>>

StringData == <<Def(name), Plain(14)>>

looping ==
    [code    |-> <<Def(love), Plain(4)>>
                   \o Loop(AddressOf(name) \o CallOf(helper))
                   \o <<Plain(5), Def(helper), Plain(4)>> \o AddressOf(buffer)
                   \o CallOf(flagrate) \o CallOf(love) \o <<Plain(5)>>,
     strings |-> StringData]

large ==
    [code    |-> <<Def(helper), Plain(4100)>> \o CallOf(accio)
                   \o <<Def(love), Plain(9000)>> \o CallOf(helper)
                   \o AddressOf(name),
     strings |-> StringData \o <<Plain(4096)>>]

undefined ==
    [code    |-> <<Def(love)>> \o CallOf(flagrate)
                   \o <<Event("undefinedCall", none, 0)>> \o CallOf(love),
     strings |-> <<>>]

headless ==
    [code |-> <<Def(helper), Plain(5)>>, strings |-> StringData]

MCPrograms == {looping, large, undefined, headless}
MCMaxText  == 20000
MCMaxData  == 5000

(* The abstract builder accepts writes of any of some sizes in any order;  *)
(* the calls that the passes make are a behaviour of it.                   *)
SizesOf(code) == {code[i].size : i \in {k \in DOMAIN code : Writes(code[k])}}

Builder == INSTANCE ElfBuilder WITH
    TextSizes <- UNION {SizesOf(Trace(p)) : p \in Programs},
    DataSizes <- UNION {SizesOf(p.strings) : p \in Programs}

ImplementsBuilder == Builder!Spec
=============================================================================
