# A verification of the potter-tongue compiler

`potter-tongue-x86` compiles a small imperative language ("potter-tongue") straight to a
Linux x86-64 executable: no assembler, no linker. This directory holds TLA+ models of the
compiler and of the programs that it produces, the TLC configurations that check them, and
proofs that TLAPS checks. Paths below are relative to the repository (`src/` is its root).

The program is sequential. What makes it hard is not interleaving but *protocols over a long
run*: two passes over one growing buffer that must agree to the byte, labels that are read
long before they are used, a code generator with one accumulator and one stack, and a parser
whose errors are only a status that everybody has to pass on.

## 1. The system

    characters --tokenizer--> tokens --parser--> tree + symbol table --compiler--> ELF file
                                                                         |  |
                                       two passes of the code generator -+  +- ELF builder
    ELF file --kernel, processor--> output        (with the nasm routines of io/)

| component | source | state | operations | what makes it correct |
|---|---|---|---|---|
| driver | `src/main_compiler.cpp` | flags, file names | parse options, run the stages, open files | the exit code tells what lies in the files; nothing else is overwritten |
| tokenizer, keyword table | `src/parser/tokenizer.cpp`, `syntax.*` | position, line, array of 8192 tokens | one `process...` per kind of token | what was written is what is read, at its line, inside of both arrays |
| parser | `src/parser/parser.cpp` | offset, status, current function | one `parseX` per rule of the grammar | accepts what the grammar says, with the tree that it means |
| syntax tree | `src/parser/expression_tree.*` | nodes | build, dump | - |
| symbol table | `src/symbol_table/` | functions with their variables, strings | push, get by name or content, offset of a variable | each name found is the one that was declared; no pointer outlives a move |
| dynamic array | `libs/dynamic_array/` | growing array | insert, find first | the first match, in the order of insertion |
| compiler, two passes | `src/compiler/compiler.cpp`, `label_manager.*` | label table, pass number, status | `compile`, `makeCompilationPass`, look up and write labels, library files, strings | every reference reaches its label |
| code generator | `compiler.cpp` from `compileFunction` on | label counters, current function | one `compileX` per kind of node | the code prints what the source means |
| instruction writers, encoding | `src/compiler/instructions_compiling.cpp`, `x86_64_specification.*` | - | one `write_...` per instruction | bytes mean the instruction, and are as long as the linker counts |
| ELF builder | `src/compiler/elf_builder.cpp` | buffer, capacity, offset, three program headers | start and end segments, write bytes, make room | never writes outside the buffer, segments do not overlap |
| input and output library | `potter_tongue_libs/io/*.nasm` | 512-byte buffer in bss, registers | read and print integers, fixed point numbers, strings; square root | prints and reads what was meant, whatever the buffer held; stays inside of it |
| processor, kernel | - (external) | registers, stack, descriptors | execute, read, write | - |
| file manager, utilities | `libs/file_manager` (empty submodule), `libs/utilib.h` | - | `loadFile` | - |

**How they interact.**  Everything is a direct call. The shared state is the symbol table
(filled by the parser, read by the code generator, and extended by `writeStdFunctions` in
*every* pass), the label table (filled in one pass, read in the next) and the builder's
offset (moved by whatever writes). An error anywhere only sets a status: the parser returns
null upwards, the compiler goes on to the end and writes the file.

**What is hard** (the list with lines is in `PROJECT.json`, "hazards"):

- two passes that must put every byte in the same place, though an error changes the second
  one's path;
- labels looked up early and used late (`compileLoop`, `compileCondition`,
  `compileCompare`), labels found by a string's content;
- room in the buffer: strict comparison, real-valued growth, 512 bytes of bss taken without
  asking;
- a stack that is unbalanced *inside* a function is repaired by `mov rsp, rbp` at its end
  and so goes unnoticed;
- operands that wait in registers or on the stack while calls overwrite all registers;
- three conventions for the order of parameters (parser, `compileParamList`, `getVarOffset`)
  that must agree;
- an end of the tokens that is no error, and alternatives of the grammar that are tried
  after one gave up;
- pointers into an array that every pass makes longer, and a comparison function that every
  look-up sets for those that follow;
- keywords that begin with other keywords, quotation marks and comments without an end;
- one buffer that six routines read into, write into and never clear;
- an output file that is emptied long before anything is known about the program.

## 2. The modules

| module | models | kind |
|---|---|---|
| `Driver` | options, the order of the stages, what each may end with, the files | state machine |
| `Tokenizer` | the scanner over characters, the keyword table, the line of an error | state machine |
| `SyntaxTree` | nodes, and the look-ups in a symbol table as a value | operators |
| `TreeSymbols` | the symbol table of a whole tree | operators (recursive) |
| `SymbolTables` | the symbol table in memory: blocks that move, pointers, passes | state machine |
| `Parser` | every `parseX` and `requireX` function with the symbol table it fills | operators, and the recursive function `parse` |
| `Parsing` | a text, slips of its writer, the parser | state machine |
| `Grammar` | how README.md of the repository writes a tree | operators (recursive), not code |
| `Reading` | `Parsing` on written programs, held to `Grammar` | composition |
| `Instructions` | what each `write_...` function is asked for: an instruction's length and operands | operators |
| `CodeGen` | every `compileX` function | operators (recursive) |
| `Encoding` | the bytes of every instruction, one behind the other, and a decoder (external) | state machine |
| `ElfBuilder` | the buffer and its segments as the compiler may use them | state machine; abstract specification for `TwoPass` |
| `TwoPass` | `compile()` and `makeCompilationPass()`: two passes over a sequence of events | state machine, implements `ElfBuilder` |
| `Machine` | the part of x86-64 and Linux that the code relies on (external), the library's functions as one step each | state machine |
| `Source` | what a program means: an interpreter of trees | abstract specification of `CodeGen`, not code |
| `Execution` | `CodeGen` + `TwoPass` + `Machine`, held to `Source` | composition |
| `Console` | what the library promises: each call one step | abstract specification of `StdIo`, not code |
| `StdIo` | the six nasm routines loop by loop, read(2) (external) | state machine, implements `Console` |
| `SourcePrograms` | the programs that are compiled, run, parsed and scanned | inputs |
| `..._proofs` of `ElfBuilder`, `TwoPass`, `StdIo`, `Tokenizer`, `Driver`, `SymbolTables`, `Encoding`, `Parsing` | theorems | proofs |
| `MC...` | values of the constants for TLC | |

Operators named `...Bug` are what the definition behind them would be with a plausible
mistake. No specification uses them; each shows that a property can be violated
(`PROJECT.json`, "mutants").

### ElfBuilder
`offset`, `capacity` are the builder's; `start`, `filesz` the program headers' `p_offset`
and sizes; `phase` is the place in `compile()` that decides which call comes next, `pass` is
`Compiler.passNumber`, `fileSize` what was given to `fwrite`. `Realloc` is *one* round of
the loop in `makeNeededSpace`; every write needs `Room`. The growth factor 1.6 is exact
rational arithmetic, truncated as the conversion to `size_t` does. Bytes themselves are left
out.

### TwoPass
The code generator is deterministic, so what it does in a pass is a sequence of events
(`Trace`), one for each call of a primitive: `lookup`, `define`, `emit`, `rel32`, `imm64`,
`std`, `undefinedCall`, and the four around the segments. `labels` is the label table,
`held` the offsets that were looked up and are still to be used - the copies of `Label` on
the C++ stack - and `operand` what each reference has left in the buffer. `at` is where each
event was written, as history. A library file may be missing at any time
(`StdFunctionMissing`): the loop over the library stops there, in that pass and in the next.
After such an error the compiler also leaves out calls of the library functions it did not
reach; the model keeps them, and claims nothing of such a file but that the error is
reported and the compiler ends.

### CodeGen, Machine, Source, Execution
`compileX(c, node)` is the compiler's state after `compileX(compiler, node)`: label
counters, current function and the code so far. An item of code is an event for `TwoPass`
together with an instruction for `Machine`. `Execution` lets `TwoPass` write the file from
the generated events, loads it, and lets `Machine` execute *what lies at each address*: a
jump goes where its operand says, not where a label is. `Source` is an interpreter on trees
that knows no stack and no registers; the two outputs must be equal. `Machine` keeps the
history `frames` of open calls for `CallsReturn` only. A library function is one step that
overwrites exactly the registers its nasm code does. Words are mathematical integers: no
program here overflows 64 bits. `Compiled` joins each program and input with its code,
strings and the output `Source` gives it; the constant `Sources` is a sequence of these
records.

### Parser, Parsing, Grammar, Reading
A record `p` is the parser with the offset, the status, the error that was printed and where,
the table and what the last function returned; `parseX(p)` is that record after `parseX`. The
tokens do not change while the parser is at work and are the variable `tokens`.
`Then(q, next)` is `if (q == nullptr) return nullptr; next`, and `Else(q, next)` tries the next
alternative. The two sorts of null - "not this alternative" and "an error" - are the code's:
both are an empty `node`, and only `status` tells them apart.
A long function is cut in two: `blockBehind` is what `parseBlock` does behind the opening
brace, `functionBody` what `parseFDeclaration` does behind the name, `factorOf` the `switch` of
`parseFactor`.

The rules call each other in a circle, and some are loops. All of that goes through one
recursive function: `parse[n]` answers each of the `Rules` for parsers with less than n tokens
left, and a rule is given `parse[n - 1]` as `inner`. This is no bound: each call in the circle
and each further round of a loop comes behind a token that was read (`Keeps`, proved), so that
`parse[Len(tokens) + 1]` is the parser itself and `parse[0]` is never asked for anything.

`Parsing` lets the writer make up to `MaxSlips` slips in a text and then parses it. `Written`
in `Grammar` is the grammar of README.md (lines 342 to 376) from left to right. `Reading` takes
texts that are written from trees, and compares.

### SymbolTables
`functionsData` is the dynamic array with its block: INSERT at the capacity moves it to a
block whose number is larger by a member of `Moves` (0 is `realloc` in place), and what is
written through a pointer into an older block is lost. `curFunction` is the `Function*` that
the parser keeps while it reads a function, and later the compiler's `CUR_FUNC`. The
compiler pushes the library's functions again in every pass; whether one's code is found,
and whether an earlier error ends that loop, is left open. `cmp` is the comparison of the
array of strings, which each look-up sets. The capacity must be at least 2, for 1 times 1.8
is truncated to 1; the code has 8 or more.

### Tokenizer
A step is one round of the loop of `tokenizeBuffer`. Where the code's pointers are undefined
- `strchr` finds no quotation mark or no new line, a comment ends the file - the model is
told so by the status `garbage`, and behind the array by `overflow`. `loadFile` is external
and puts a NUL behind the text; the model takes it that there is none inside, where `strchr`
would stop. Vertical tabs are left out. `meant` only remembers what a text was written from,
each token with its place; no action reads it. What it is to be written from tokens is
`Written`: blanks at most lie between, a keyword is the longest one there is, a word is no
keyword and ends where its letters end, a string holds no quotation mark and no new line. A
text that leaves this grammar (or one with a comment or a string that nothing ends) is
outside of `ReadsAsMeant`, and inside of the other properties.
With `-numeric` a number is read by `strtoll`, which skips white space of its own; if that
holds a new line (`SwallowsLines`), the lines of all later tokens are too small.

### Driver
Each stage of `compile()` in `main_compiler.cpp` is an action that may succeed, return its
failure or be killed by an assertion; a file is one of a few kinds of content. The code
never looks at a result of `fwrite` or `fclose`, so that a full disk ends with exit code 0;
the model therefore assumes that what is written arrives. Other things that the model shows:
`-h` prints the help and goes on; the first word is the input even if it is an option; one
name for `-o` and `-S` mixes the program with its listing.

### Encoding
`writeItem` is the `write_...` function that an item of `Instructions` stands for,
`writeInstruction` puts its parts behind each other, `Decode` reads them as a processor in
64-bit mode does (external, after Intel's tables). `Emit` appends an item's bytes to the
stream; `items` and `starts` are history, what was asked for and where it began. Two corners
of the code are outside: `push` and `pop` of r8 to r15, which the compiler never uses, take
a byte more than `CodeGen` counts; and an address without a base needs a displacement of
four bytes that the code leaves out if it is 0.

### StdIo, Console
`StdIo` has the four registers that the loops use, and `pc`, the loop that runs. All sizes
are constants: of a word, of the mantissa that `crucio` computes with, of the buffer and of
the longest number. `Terminal` says whether a read gives one line (a terminal) or whatever
is there (a pipe). `Console` prints, reads and computes numbers in one step each; the
refinement maps a finished call to that step. A precision of 0, the end of the input and a
line longer than the buffer are misuse: `Console` promises nothing there, and the buffer may
be left. `io.nasm`, the library in one file for the listing, is not modelled apart.

## 3. What is checked

| run | question | bounds | result |
|---|---|---|---|
| `driver` | does the exit code tell the truth, and what is overwritten? | all command lines of up to 2 words over 15, of 3 words over 6 and of 5 words that name files; input there or not; every stage fails or not | holds |
| `tokenizer` | is what was written read, at its line, within the arrays? | all texts of up to 3 of 14 pieces, of 5 of 4 and of 4 of 4 with two kinds of white space before numbers, every pair of kinds of tokens, three whole programs, with and without `-numeric`; an array of 190 tokens; numbers saturate at 99 | holds |
| `symbol_tables` | does a pointer outlive a move, does a place change, is every literal found? | all programs of 3 functions, 2 variables and 2 strings, 2 passes, 2 library functions, a first capacity of 2 | holds |
| `parser` | is a program read as the grammar means it, and is what is accepted after a slip still a program? | 13 programs; any one token lost, doubled, exchanged with the next, any name mistaken for any other, the file cut off anywhere | holds |
| `encoding` | do the bytes mean the instruction, alone and before others? | every instruction with every register, numbers at the edges of 1, 2 and 4 bytes (8 are beyond TLC, and left to the theorem), addresses with and without base, index, scale and displacement; two instructions in a row | holds |
| `elf_builder` | may any order and number of writes overflow the buffer or let segments overlap? | writes of 39856 and 65536 bytes of text, 2500 and 4096 of data: one ends exactly at a capacity, the other keeps the end on a page boundary; text up to 729087 bytes, which is the proof's bound | holds |
| `two_pass` | do two passes link, in place, to an end, with every error reported, and use the builder as it allows? | four programs (mutual calls and loops; more code than the first capacities; an undefined call; no `love`), two library files that may fail to load | holds |
| `execution` | does the compiled program print what the source means, with a balanced stack, and end? | 115 programs: nested control, recursion, mutual calls, parameters with effects, arrays, early return, strings, the library, each comparison as value, condition and loop, each of the ten operations inside each of the ten on both sides | holds |
| `stdio` | do the routines keep their promise, inside of the buffer, to an end? | any two calls over words of 10 bits, a mantissa of 4 and a buffer of 8; six inputs | holds |
| `literal` | README.md:253 | one program | **violated** |
| `parser_promises` | six errors of parser.h, two rules of the grammar in README.md | a text each | **violated** |
| `stdio_pipe` | accio.nasm:2 | two numbers in a pipe | **violated** |

The properties, by the hazard they are for:

- *driver*: `ExitTellsTruth`, `OnlyNamedFiles`;
- *tokenizer*: `LongestKeyword`, `LinesRight`, `ShownLineRight` (the line that an error
  shows), `GarbageOnlyUnended`, `TokensFit`, `ReadsAsMeant`, and its `TypeOK`, which says
  that it reads inside of the text;
- *symbol table*: `OwnFunction`, `OffsetsStable`, `LiteralsFound`;
- *parser*: `GrammarRead`, `AcceptedIsWritten`, `CutBetweenFunctions`, `ReadsDeclared`,
  `DistinctNames`, `ErrorNotAbove` (about lines, as `parseAssignment` steps back);
- *encoding*: `DecodesBack`;
- *buffer*: `AssertElfBuilder` (the assertion of elf_builder.cpp, after `writeBSS` too),
  `SegmentsApart`, `NoReallocInSecondPass`;
- *two passes*: `Linked`, `SecondPassInPlace`, `Contiguous`, `UndefinedCallReported`,
  `GetsAhead` (each step lowers what is left to do), `Terminates`, and the refinement
  `ImplementsBuilder`;
- *generated code*: `GeneratedWellFormed` (what `Linked` presumes), `PrintsItsMeaning`,
  `RipOnInstruction`, `StatementsKeepStack`, `CallsReturn`, `Exits`;
- *library*: `StaysInBuffer`, the refinement `ImplementsConsole`, `EveryStepCounts` (each
  round of a loop lowers what is left of it, in a misused routine too), `Returns`.

The type invariants of `ElfBuilder`, `TwoPass`, `StdIo` and `Driver` are proved and not
checked by a run; `SymbolTables` has its types in the inductive invariant.

**Why the bounds are enough.**  `elf_builder` explores sizes only where a comparison may
change its mind; the theorems cover all others. `two_pass` needs one label of each kind of
reference, forward and backward; the theorems cover every well-formed program, and
`execution` checks that generated programs are well formed. The code generator has finitely
many pairs of a parent and a child node; `Shapes` and `AllNested` contain those that matter.
The stack has 64 words, more than any of the programs needs; a leak of one word per
statement would still show as `StatementsKeepStack`. In `symbol_tables` a block that always
moves (`Moves` = {1}) is the worst case, and three functions with two of the library in two
passes let the array grow three times; functions other than `love`, variables and literals
are symmetric. `tokenizer` has every branch of every `process...` function next to every
other; texts of 62 to 64 pairs of quotation marks, the densest there are, fill its array of
190 tokens and pass it, and 8192 tokens suffice for every file of 5461 characters. In
`stdio` three digits are the longest number, so the buffer of eight is filled by the longest
output with a sign and a point; radicands lie on both sides of the mantissa, as 2^24 does
for the real one. `driver` needs four words behind the input for the two options that take a
name in any order.

**Fairness.**  `FairSpec` of `TwoPass` and `Spec` of `Execution` assume `WF(Next)`, `Spec`
of `StdIo` `WF(Step)`: a single thread that takes its next step as long as there is one.
`Step` is the inside of a routine: nobody promises that the program calls another one.
Nothing is assumed about which of several enabled actions is taken. The driver's own code
has no loop but that over the words. `CHECK_DEADLOCK FALSE` is set where a system ends
without a further step: the file is written, the program has exited, the text is read.

## 4. What is proved

| theorem | says |
|---|---|
| `ElfBuilder_proofs!TypeCorrect`, `AssertionsHold`, `SegmentsAreApart` | the builder's invariants for *all* sizes of writes |
| `TwoPass_proofs!ImplementsElfBuilder` | every step of the passes is a step of the builder or leaves it alone |
| `TwoPass_proofs!TypeCorrect` | types, for all programs and libraries |
| `TwoPass_proofs!LinkedCorrect` | every reference of every well-formed program reaches its label |
| `TwoPass_proofs!SecondPassIsInPlace`, `TextIsContiguous`, `SecondPassFits` | the second pass overwrites the first exactly and never reallocates |
| `TwoPass_proofs!CompilationEnds` | each step of `compile()` lowers the events that are left or the room that the next one lacks: there are only finitely many, whatever the program and the missing files |
| `TwoPass_proofs!UndefinedCallsReported` | no file with an undefined call is written without an error |
| `StdIo_proofs!TypeCorrect`, `BufferSuffices` | registers and bytes keep their widths; no routine leaves the buffer but by misuse |
| `StdIo_proofs!LoopsComeToAnEnd` | every step of a routine lowers the number of steps left |
| `StdIo_proofs!EachCallKept` | `StdIo` implements `Console` on a terminal: numbers are printed with their sign, digits and fraction, lines are read as the numbers on them and used up one by one, for every word size, buffer, parameter and input |
| `Tokenizer_proofs!TypeCorrect`, `ArraySuffices` | the scanner stays in the text; one and a half tokens per character suffice |
| `Tokenizer_proofs!LongestTaken`, `LinesCounted`, `LineOfTokenShown`, `GarbageExplained` | for every text: the longest keyword is taken, each token knows its line and an error shows it, and the null pointer of `strchr` has one of two causes |
| `Tokenizer_proofs!ReadBack` | every text that was written from keywords, names, numbers, strings and comments, in any order and number, is read back as these, each at its place |
| `Parsing_proofs!TypeCorrect` | the parser stays in its tokens, with a status and a symbol table that are well-formed, for every text, tokens in any order included |
| `Parsing_proofs!NamesDistinct` | no two functions, named strings or variables of a function in its table have one name, parameters excepted, also after an error |
| `Parsing_proofs!ReadsAreDeclared` | each value that a tree reads, at any depth, is in the table: a variable of the function that reads it, or a named string |
| `Encoding_proofs!ReadBack` | every item, with any registers, numbers, labels and addresses, in code of any length, is read back as it was meant, and begins where the linker counts |
| `Driver_proofs!TypeCorrect`, `ExitIsTrue`, `NamedFilesOnly` | the driver's properties for command lines of any length |
| `SymbolTables_proofs!PointersFresh`, `PlacesKept`, `LiteralsHaveEntries` | the symbol table's properties for any program, library, capacity, number of passes and moves |

*Assumptions.*  `ElfBuilder`: `SizesAssumption` and `BoundAssumption`, sizes are natural
numbers and the text is smaller than 729088 bytes. The bound is not a convenience:
`writeBSS` takes 512 bytes without asking, and capacities are 1024, 1638, 2620, ...; up to
729087 bytes of text the room left happens to suffice, one byte more and it does not (a
reallocation leaves 737382 bytes, the buffer needs 737792). `TwoPass`: `ProgramAssumption`,
events have the shape `Trace` gives them. `StdIo`: `SizeAssumption`, the buffer holds the
digits of a word, a sign, a point and a new line (512 bytes and 19 digits do, for precisions
up to 509) and a word has an even number of values; `PowerAssumption`, arithmetic of powers
of ten up to the buffer's size, and `InputAssumption`, what is typed are bytes and a string
of the program has no NUL. `EachCallKept` has two hypotheses of its own. `Terminal`:
`read(2)` ends with the line; through a pipe the statement is false, as `stdio_pipe` shows.
`RootsNear`: the answer of `sqrtss` for each radicand is within the error of a mantissa of
24 bits, a fact about single numbers of the processor's and not of the code's; `MCStdIo`
evaluates it for the radicands of the run. `Tokenizer`: `KeywordsAssumption`, no keyword is
empty; `FilesAssumption`, no NUL in a text; `AlphabetAssumption`, letters are no digits, and
neither is a sign, white space or a quotation mark; `SpellingAssumption`, facts about the
code's table of keywords: none hides a longer one behind it, none is there twice or begins
with a blank, and new lines and quotation marks are in no other. The last three are evaluated by TLC on the tables themselves. `Encoding`:
`OperandsAssumption`, what the operands of the assembler's functions are: 32-bit and 64-bit
numbers, shifts below 64, offsets of labels in the largest text that `ElfBuilder` is proved
for, and the addresses that `Encodable` names; elements of arrays lie at addresses in
registers other than rsp, rbp and r13, as the code generator has them. `Driver`: the words
of a command line are among the files. `SymbolTables`: the library's names cannot be written
in a program, and the capacity is at least 2. `Parsing`: `TextsAssumption`, texts are sequences
of tokens in which no name is a null pointer, and `SlipsAssumption`, a number of slips.

*The builder.*  `AssertElfBuilder` is not inductive, for nothing in it says why the bss
fits. `IInv` adds `CapacityOK` - the capacity is one of the first fifteen of the growth
sequence, or at least 737382 - and `PlaceOK`, where the offset lies in each phase.
`BufferFits` is the arithmetic fact behind it.

*The passes.*  `StepIsCall` maps every step to a call of the builder or a stutter, which
gives the refinement and lends `IInv` to `TwoPass`.

*Linking.*  `IInvL` speaks of *settled* events, those whose place the current pass or the
one before has fixed: consecutive ones lie as far apart as their sizes say (`ChainOK`); in
the second pass the offset is that of the first (`OffsetOK`); the room of the first pass is
there in the second (`RoomOK`); labels in the table (`LabelsOK`), held copies (`HeldOK`) and
operands (`OperandOK`) are those places. An error ends the claim, as the code's second pass
then takes another way; `ErrorsStay` says that no error is forgotten, and `Remembered` that
none of the settled events is an undefined call as long as there is no error.
`CompilationEnds` holds with errors as well. It needs that the jump over the rest of the
library leads forward (`StdsFirst`), that a refused program stays outside of the passes
(`RefusedOK`) and that eight fifths of a capacity, rounded down, are more than it.

*The library.*  `PrintOK` relates the number that is left to the cells that are used: behind
w digits it is below 10^(MaxDigits - w), so that the loop ends before the buffer does.
`ReadOK` says that a new line lies ahead as long as the line has one. Both hold whatever
earlier calls left in the buffer. `StepsLeft` counts cells and digits; that it stays a
natural number is due to `RoundOK`, the pointer's bound in the loops that look for an end.

*What the library promises.*  Every step of `StdIo` is a call, an answer or a stutter of
`Console`; to show it the invariant has to know in the middle of a loop what will be printed
or answered at its end. `ShownOK`: the characters behind the pointer, with the digits of what
`rax` still holds in front of them, are the number to print. This is `Fraction` of the
magnitude as far as it is written, then the point, then `Digits` of the whole part; the sign
comes last, and the smallest word, whose negation overflows, is its own magnitude. `ReadMeant`:
for each way in which the line at hand is a number, `rax` is the value of the digits read,
modulo the word; the digits are those of the line up to the point and behind it, and zeros
where the line has too few. Answers are compared as words, hence a number that does not fit
is nowhere claimed to be read. `GotOK` and `Line`: the buffer holds the line that follows what
was used up. `PromiseOK` joins the three for the mapping, in which characters that are read
but not yet answered with count as not taken (`TakenByConsole`). `Digits` and `ValueOf` are
recursive functions: that they satisfy their equations (`DigitsAre`, `ValuesAre`) and what
follows from these by induction is proved by least counterexamples, as sets of naturals have
a least element (`Least`), not by the library's induction theorems.

*The tokenizer.*  `FitOK` counts one and a half tokens per character, and one half more
while a string that ended at a new line is owed that new line.

What is read is in `IInvR`. It holds of each token as it is added: the place it begins at,
its line and the keyword found there (`TokensRead`; `FirstIsLongest`: the first match in the
table is the longest one). `CountOK` relates the line counter to the new lines passed,
`PairsOK` says that the quotation marks passed on a line come in pairs, so that one without
its counterpart has an odd number on its line, the second cause in `GarbageOnlyUnended`. Texts are sequences of
characters; the two ends of a shown line come from a least and a greatest place
(`LeastOf`, `WalkDown`, `WalkUp`), found by the well-founded order of the naturals.

`ReadsAsMeant` says nothing while the tokenizer runs. `MeantOK` does: the tokens read so far
are the first of those that were meant, and the tokenizer stands where the next one begins
(`StandsAt`), never inside of a string. Then what lies there decides which action is taken:
nothing but a keyword's first characters, a letter, a digit or a quotation mark begins it
(`BeginningChar`), the first match in the table is the keyword that was meant (`OneKeyword`),
strtoll finds no number further on (`NumberFound`), and each end is the only one of its kind
(`OneFirst`). So there is one lemma for each kind of token rather than one for each action,
and no induction over the units of a text.

*The parser.*  `parseProgram` is one step of `Parsing`, so the work is not in the invariant
(`Inv`) but in what each rule of the grammar keeps, for all rules at once. `Keeps(inner, n)`
says of all nine recursive rules what they do with less than n tokens left; `ParseKeeps`
proves it of `parse[n]` by induction over n, from one lemma for each `parseX`, of the form:
given `Keeps(inner, n)`, and n tokens left at most, the result `Gives...`. Inside of a function
that result is `Onward`: the offset does not fall, the table stays distinct and only grows
(`Later`), and what could be read before can be read still. A node that is returned reads
only names of the table at that moment (`ReadsOnly`): there is a set of nodes, closed under
`Children`, that it belongs to and in which each name read is `Readable`. A set rather than a
recursion over the tree, for a tree has no measure until it is built; that the growth of the
table keeps such sets (`Widened`) carries them up through all callers, and `NodesRead` leads
from them to the bounded descent of `NodesOf`. Outside of functions it is `Outward`,
with `FunctionsOK` for the functions found so far: the i-th of the tree is the i-th of the
table. A name that is assigned to needs no declaration (see 5), so nothing is said of it.

*The encoding.*  An instruction is written by setting fields of a record and read by
dividing a byte, so each form has a lemma on either side: what is written is a record of nine
parts (`Parts`), where these parts lie (`Layout`), and what a decoder sees that finds them
there (`ReadOnRegister`, `ReadOnMemory`, `ReadInMemory`). A number comes back from its four
or eight bytes because its upper half is that of a signed number of 32 bits (`ReadAbove`).
`Sound(item, at)` joins the sides for one item at one place: bytes, one to fifteen of them,
as many as its size says, that decode to what it means *wherever they lie in the stream*
(`Placed`). The invariant `IInv` then only says that each item's bytes still lie where they
began (`InText`), and each next start behind them; appending changes neither.

*The driver.*  `Reading` says that `output` and `nasmOutput` are what the words read so far
have asked for, in terms of the command line alone (`Behind`); `Named` and `HasTree` carry
this through the stages, `NoProgram` and `Done` relate the exit code to the files.

*The symbol table.*  `Room` (the array holds what it has, and can grow), `Order` (the
program's functions stand before the library's, none twice), `Declaring` (the function at
hand is the last one, and has no variable before its parameters are complete), `Compiling`
and `Texts`. `Grows` says what a step may do to a function: variables are only appended, and
`paramsCount` only changes while all variables are parameters; hence no place changes
(`PlaceKept`). That a look-up without result means that there is no match (`FindNone`) needs
a least element, which comes from the well-founded order of the naturals (`LeastNat`) rather
than from induction.

*Only model-checked.*  Everything under fairness (`Terminates`, `Exits`, `Returns`), which
is beyond TLAPS, though the decreasing numbers behind the first and the last are proved;
the accuracy of roots (`RootsNear`); everything about `CodeGen`, `Machine`, `Source` and
`Execution`, which are recursive over trees or extend a module that is; and of the parser what
speaks of the grammar (`GrammarRead`, `AcceptedIsWritten`, `CutBetweenFunctions`), as `Written`
is recursive over trees, or of where an error is shown (`ErrorNotAbove`), which compares two
runs of the parser, on a text with its slip and without.

## 5. Where code and documents disagree

1. *A literal with the content of a named string* (`literal`). `compileString` finds the
   named string by content and refers to `STR<i>`, but `writeStringsData` writes the label
   with the string's name. The address stays that of an unknown label, file offset 0, and
   the program prints the ELF header. README.md:253 says it prints the string.
2. `parser_promises` - its property names eight promises, of which the parser keeps none:
   - a missing `Privet-Drive` is accepted if the file ends behind a function, for the end of
     the tokens is never an error (parser.h:87);
   - a call with too few, and one with too many, parameters is accepted (parser.h:96-97);
   - an assignment to an undeclared variable is accepted (parser.h:116);
   - a file that ends behind `flagrate` ends the compiler while it shows the line of a token
     that does not exist; the message itself (parser.h:99) has been printed by then, but
     reaches nothing but a terminal;
   - so does an empty string, whose content is a null pointer (parser.h:144);
   - `accio-bombarda` in an expression takes the rest of the expression for its parameter
     (README.md:364);
   - a call whose first parameter begins with a bracket is refused (README.md:362).
3. *Two numbers in a pipe* (`stdio_pipe`). The first `accio` takes both lines, the second
   finds nothing to read and answers with the first line again. accio.nasm:2 says that it
   reads a number from STDIN.

`GrammarRead` is checked by `parser` with programs that avoid the last two of the second:
`BracketReads` puts a read that is an operand into brackets, and no first parameter begins
with one.

Smaller ones, without a run: the head comments of accio.nasm and flagrate.nasm each leave
out a register that is overwritten (rdx, r13), which harms nobody as the compiler keeps
nothing in registers over a call; x86_64_specification.h lists rbp and r13 without
displacement as unsupported, though the code handles them, and 1 as a valid scale, which
`isValidScale` refuses.

## 6. Not modelled

- dumps, the NASM listing and its formatting, graphviz output: output only. A missing
  `.nasm` file is modelled, as it sets the status, and the driver opens and writes the
  listing;
- `readTreeFromFile`, the reader of tree dumps: nobody calls it, and it is marked as to be
  brought up to date;
- `loadFile`: the file manager is an empty submodule; `Tokenizer`, `TwoPass` and `Driver`
  say what they take from it;
- memory exhaustion (`realloc` and `calloc` are not checked by the code) and the release of
  memory;
- 64-bit overflow of the compiled program's arithmetic; the library's words do wrap;
- the label space that functions, named strings and `IO_BUFFER` share: no document says
  whether names may be equal, so there is nothing to hold the program to;
- `examples/`, in which generated files are kept.

## 7. Order of the work, and what could follow

The passes and the builder came first, then the code generator with the machine that runs
its code, the parser, and the parts around them: library, tokenizer, driver, symbol table,
encoding. What could follow: `Parsing` from characters rather than tokens (now only three
programs of `tokenizer` go all the way); an abstract linker, of one pass with perfect
knowledge, that `TwoPass` implements; the library's loops as the callees of `Execution`,
which today takes each function as the one step that `stdio` shows it to be.
