------------------------- MODULE SymbolTables_proofs -------------------------
(***************************************************************************)
(* For every number of functions, variables, strings, library functions    *)
(* and passes, and wherever realloc puts the array: the pointer that is    *)
(* kept is fresh, and a variable's place in its frame is for good.         *)
(***************************************************************************)
EXTENDS SymbolTables, SequenceTheorems, WellFoundedInduction, TLAPS

AllNames == Names \union {StdFunctions[i].name : i \in 1 .. Len(StdFunctions)}

AllVariables == Variables \union STRING

Function == [name : AllNames, vars : Seq(AllVariables), paramsCount : Nat]

Parsed == {"parameters", "body"}

Types ==
    /\ functionsData \in [block : Nat, capacity : Nat, functions : Seq(Function)]
    /\ curFunction \in [block : Int, index : Nat]
    /\ done \in Nat
    /\ tree \in Seq(Names)
    /\ stage \in {"strings", "std", "functions", "compiled", "refused"} \union Parsed

(* The array has room for what it holds, and can grow.                     *)
Room == Len(functions) <= functionsData.capacity /\ functionsData.capacity >= 2

(* The program's functions stand before the library's, none twice.         *)
Order ==
    /\ Len(tree) <= Len(functions)
    /\ \A i \in 1 .. Len(tree) : functions[i].name = tree[i]
    /\ \A i \in 1 .. Len(functions) : i > Len(tree) => functions[i].name \notin Names
    /\ \A i, j \in 1 .. Len(tree) : tree[i] = tree[j] => i = j

(* While a function is declared it is the last one; it has no variable     *)
(* before all of its parameters are there.                                 *)
Declaring ==
    /\ stage = "strings" => tree = <<>> /\ functions = <<>>
    /\ stage \in Parsed =>
          /\ Len(functions) = Len(tree)
          /\ Len(tree) >= 1
          /\ Points(curFunction, Len(tree))
    /\ stage = "parameters" => functions[Len(tree)].paramsCount = Len(functions[Len(tree)].vars)
    /\ stage \in {"std", "functions"} => Len(tree) >= 1

Compiling == stage = "functions" => Points(curFunction, done + 1)

LiteralNames ==
    \A i, j \in 1 .. Len(strings) :
        i # j /\ strings[i].name = strings[j].name => strings[i].name = NoName

(* A string without a name is only added when none has its content.        *)
Texts ==
    /\ strings \in Seq([name : StringNames \union {NoName}, content : Literals])
    /\ \A s \in printed : \E i \in 1 .. Len(strings) : strings[i].content = s
    /\ \A i, j \in 1 .. Len(strings) :
          i < j /\ strings[i].content = strings[j].content => strings[j].name # NoName
    /\ LiteralNames

IInv == Types /\ Room /\ Order /\ Declaring /\ Compiling /\ Texts

(* What a step may do to a function and to the array of them.              *)
Longer(f, g) ==
    /\ g.name = f.name
    /\ Len(f.vars) <= Len(g.vars)
    /\ \A j \in 1 .. Len(f.vars) : g.vars[j] = f.vars[j]
    /\ \/ g.paramsCount = f.paramsCount
       \/ f.paramsCount = Len(f.vars) /\ f.paramsCount <= g.paramsCount

Grows(before, after) ==
    /\ after \in Seq(Function)
    /\ Len(before) <= Len(after)
    /\ \A i \in 1 .. Len(before) : Longer(before[i], after[i])

-----------------------------------------------------------------------------
(* The first match is what FIND finds, and more behind it changes nothing. *)
LEMMA FindFirst ==
    ASSUME NEW n \in Nat, NEW elements, DOMAIN elements = 1 .. n, NEW x, FIND(elements, x) # 0
    PROVE  /\ FIND(elements, x) \in 1 .. n
           /\ elements[FIND(elements, x)] = x
           /\ \A j \in 1 .. FIND(elements, x) - 1 : elements[j] # x
  BY DEF FIND

LEMMA LeastNat ==
    ASSUME NEW T \in SUBSET Nat, T # {}
    PROVE  \E n \in T : \A m \in T : n <= m
<1> DEFINE R == OpToRel(<, Nat)
<1>1. IsWellFoundedOn(R, Nat)
  BY NatLessThanWellFounded
<1>2. \A y, x \in Nat : <<y, x>> \in R <=> y < x
  BY DEF OpToRel
<1> HIDE DEF R
<1>3. PICK x \in T : \A y \in T : ~ (<<y, x>> \in R)
  BY <1>1, WFMin
<1>4. \A y \in T : ~ (y < x)
  BY <1>2, <1>3
<1> QED
  BY <1>4

LEMMA FindNone ==
    ASSUME NEW n \in Nat, NEW elements, DOMAIN elements = 1 .. n, NEW x, FIND(elements, x) = 0
    PROVE  \A i \in 1 .. n : elements[i] # x
<1> DEFINE Matches == {i \in 1 .. n : elements[i] = x}
<1>1. SUFFICES ASSUME Matches # {} PROVE FALSE
  OBVIOUS
<1>2. PICK i \in Matches : \A j \in Matches : i <= j
  <2>1. Matches \in SUBSET Nat
    OBVIOUS
  <2> QED
    BY <1>1, <2>1, LeastNat
<1>3. \A j \in 1 .. i - 1 : j \in 1 .. n /\ j \notin Matches
  BY <1>2
<1>4. i \in DOMAIN elements /\ elements[i] = x /\ \A j \in 1 .. i - 1 : elements[j] # x
  BY <1>2, <1>3
<1>5. FIND(elements, x) \in 1 .. n
  BY <1>4 DEF FIND
<1> QED
  BY <1>5

LEMMA FindIs ==
    ASSUME NEW n \in Nat, NEW elements, DOMAIN elements = 1 .. n, NEW x,
           NEW i \in 1 .. n, elements[i] = x, \A j \in 1 .. i - 1 : elements[j] # x
    PROVE  FIND(elements, x) = i
<1> DEFINE First(k) == elements[k] = x /\ \A j \in 1 .. k - 1 : elements[j] # x
<1>1. First(i)
  OBVIOUS
<1>2. ASSUME NEW k \in 1 .. n, First(k) PROVE k = i
  BY <1>1, <1>2
<1> QED
  BY <1>1, <1>2 DEF FIND

LEMMA FindKept ==
    ASSUME NEW n \in Nat, NEW elements, DOMAIN elements = 1 .. n,
           NEW m \in Nat, NEW longer, DOMAIN longer = 1 .. m, n <= m,
           \A j \in 1 .. n : longer[j] = elements[j],
           NEW x, FIND(elements, x) # 0
    PROVE  FIND(longer, x) = FIND(elements, x)
<1> DEFINE i == FIND(elements, x)
<1>1. i \in 1 .. n /\ elements[i] = x /\ \A j \in 1 .. i - 1 : elements[j] # x
  BY FindFirst
<1>2. i \in 1 .. m /\ longer[i] = x /\ \A j \in 1 .. i - 1 : longer[j] # x
  BY <1>1
<1> QED
  BY <1>2, FindIs

LEMMA FindKeptForAll ==
    \A n, m \in Nat : \A elements, longer, x :
        /\ DOMAIN elements = 1 .. n /\ DOMAIN longer = 1 .. m /\ n <= m
        /\ \A j \in 1 .. n : longer[j] = elements[j]
        /\ FIND(elements, x) # 0
        => FIND(longer, x) = FIND(elements, x)
  BY FindKept

LEMMA OffsetKept ==
    ASSUME NEW f \in Function, NEW g \in Function, Longer(f, g),
           NEW x, getVarOffset(f, x) # -1
    PROVE  getVarOffset(g, x) = getVarOffset(f, x)
<1>1. f.vars \in Seq(AllVariables) /\ g.vars \in Seq(AllVariables)
      /\ f.paramsCount \in Nat /\ g.paramsCount \in Nat
  BY DEF Function
<1> DEFINE k == FIND(f.vars, x)
<1>2. k # 0
  BY DEF getVarOffset
<1>3. Len(f.vars) \in Nat /\ DOMAIN f.vars = 1 .. Len(f.vars)
      /\ Len(g.vars) \in Nat /\ DOMAIN g.vars = 1 .. Len(g.vars)
  BY <1>1
<1>4. k \in 1 .. Len(f.vars)
  BY <1>2, <1>3, FindFirst
<1>5. FIND(g.vars, x) = k
  BY <1>2, <1>3, FindKept DEF Longer
<1>6. CASE g.paramsCount = f.paramsCount
  BY <1>5, <1>6 DEF getVarOffset
<1>7. CASE f.paramsCount = Len(f.vars) /\ f.paramsCount <= g.paramsCount
  <2>1. k - 1 \in 0 .. f.paramsCount - 1 /\ k - 1 \in 0 .. g.paramsCount - 1 /\ k - 1 # -1
    BY <1>1, <1>3, <1>4, <1>7
  <2> QED
    BY <1>5, <2>1 DEF getVarOffset
<1> QED
  BY <1>6, <1>7 DEF Longer

(* Where the compiler finds a variable does not depend on what has come to *)
(* the table since.                                                        *)
LEMMA PlaceKept ==
    ASSUME functions \in Seq(Function), Grows(functions, functions'),
           NEW name, NEW x, Place(name, x) # -1
    PROVE  Place(name, x)' = Place(name, x)
<1>1. /\ Len(functions) \in Nat /\ DOMAIN functions = 1 .. Len(functions)
      /\ functions' \in Seq(Function)
      /\ Len(functions') \in Nat /\ DOMAIN functions' = 1 .. Len(functions')
      /\ Len(functions) <= Len(functions')
  BY DEF Grows
<1> DEFINE names == [i \in DOMAIN functions |-> functions[i].name]
           after == [i \in DOMAIN functions' |-> functions'[i].name]
           i == FIND(names, name)
<1>2. DOMAIN names = 1 .. Len(functions) /\ DOMAIN after = 1 .. Len(functions')
  BY <1>1
<1>3. ASSUME NEW k \in 1 .. Len(functions)
      PROVE  after[k] = names[k] /\ Longer(functions[k], functions'[k])
             /\ functions[k] \in Function /\ functions'[k] \in Function
  BY <1>1, <1>3 DEF Grows, Longer
<1>4. getFunction(name) = FIND(names, name) /\ getFunction(name)' = FIND(after, name)
  BY DEF getFunction
<1>5. i # 0
  BY <1>4 DEF Place
<1>6. i \in 1 .. Len(functions)
  <2> HIDE DEF names
  <2> QED
    BY <1>1, <1>2, <1>5, FindFirst
<1>7. FIND(after, name) = i
  <2>1. \A k \in 1 .. Len(functions) : after[k] = names[k]
    BY <1>3
  <2> HIDE DEF names, after
  <2> QED
    BY <1>1, <1>2, <1>5, <2>1, FindKeptForAll
<1> HIDE DEF names, after, i
<1>8. Place(name, x) = getVarOffset(functions[i], x)
  BY <1>4, <1>5 DEF Place, i
<1>9. Place(name, x)' = getVarOffset(functions'[i], x)
  BY <1>4, <1>5, <1>7 DEF Place, i, getVarOffset, FIND
<1>10. getVarOffset(functions[i], x) # -1
  BY <1>8
<1> QED
  BY <1>3, <1>6, <1>8, <1>9, <1>10, OffsetKept

-----------------------------------------------------------------------------
LEMMA InitIInv == Init => IInv
<1> SUFFICES ASSUME Init PROVE IInv
  OBVIOUS
<1>1. Texts
  BY DEF Init, Texts, LiteralNames
<1> QED
  BY <1>1, TableAssumption
  DEF Init, IInv, Types, Room, Order, Declaring, Compiling, Parsed, Nowhere, functions

(* An insertion: one function more, in an array with room for it.          *)
LEMMA Inserted ==
    ASSUME NEW data \in [block : Nat, capacity : Nat, functions : Seq(Function)],
           Len(data.functions) <= data.capacity, data.capacity >= 2,
           NEW f \in Function, NEW after \in INSERT(data, f)
    PROVE  /\ after \in [block : Nat, capacity : Nat, functions : Seq(Function)]
           /\ after.functions = Append(data.functions, f)
           /\ Len(after.functions) <= after.capacity /\ after.capacity >= 2
<1> DEFINE longer == Append(data.functions, f)
<1>1. longer \in Seq(Function) /\ Len(longer) = Len(data.functions) + 1 /\ Len(data.functions) \in Nat
  OBVIOUS
<1>2. CASE Len(data.functions) < data.capacity
  <2>1. after = [data EXCEPT !.functions = longer]
    BY <1>2 DEF INSERT
  <2>2. after.functions = longer /\ after.capacity = data.capacity
    BY <2>1
  <2>3. after \in [block : Nat, capacity : Nat, functions : Seq(Function)]
    BY <1>1, <2>1
  <2>4. data.capacity \in Nat
    OBVIOUS
  <2>5. Len(longer) <= data.capacity
    <3> HIDE DEF longer
    <3> QED
      BY <1>1, <1>2, <2>4
  <2> QED
    BY <2>2, <2>3, <2>5
<1>3. CASE ~(Len(data.functions) < data.capacity)
  <2>1. PICK move \in Moves :
           after = [block |-> data.block + move, capacity |-> Grown(data.capacity), functions |-> longer]
    BY <1>3 DEF INSERT
  <2>2. data.block + move \in Nat
    BY TableAssumption
  <2>3. \A c \in Nat : c >= 2 => Grown(c) \in Nat /\ Grown(c) >= c + 1
    BY DEF Grown
  <2>4. Grown(data.capacity) \in Nat /\ Grown(data.capacity) >= data.capacity + 1
    BY <2>3
  <2>5. after.functions = longer /\ after.capacity = Grown(data.capacity) /\ after.block = data.block + move
    BY <2>1
  <2>6. after \in [block : Nat, capacity : Nat, functions : Seq(Function)]
    BY <1>1, <2>1, <2>2, <2>4
  <2>7. Len(data.functions) <= data.capacity
    OBVIOUS
  <2>8. Len(longer) <= Grown(data.capacity) /\ Grown(data.capacity) >= 2
    <3>1. data.capacity \in Nat
      OBVIOUS
    <3> HIDE DEF longer
    <3> QED
      BY <1>1, <2>4, <2>7, <3>1
  <2> QED
    BY <2>5, <2>6, <2>8
<1> QED
  BY <1>2, <1>3

LEMMA GrowsItself == ASSUME NEW F \in Seq(Function) PROVE Grows(F, F)
<1>1. \A i \in 1 .. Len(F) : F[i] \in Function
  OBVIOUS
<1> QED
  BY <1>1 DEF Grows, Longer, Function

LEMMA GrowsByOne ==
    ASSUME NEW F \in Seq(Function), NEW f \in Function
    PROVE  Grows(F, Append(F, f))
<1>1. Append(F, f) \in Seq(Function) /\ Len(F) <= Len(Append(F, f))
      /\ \A i \in 1 .. Len(F) : F[i] \in Function /\ Append(F, f)[i] = F[i]
  OBVIOUS
<1> QED
  BY <1>1 DEF Grows, Longer, Function

(* A step that leaves the functions alone.                                 *)
LEMMA UnmovedStep ==
    ASSUME IInv, UNCHANGED <<functionsData, tree>>, Types', Declaring', Compiling', Texts'
    PROVE  IInv' /\ Grows(functions, functions')
<1>1. functions' = functions /\ functions \in Seq(Function)
  BY DEF IInv, Types, functions
<1> QED
  BY <1>1, GrowsItself DEF IInv, Room, Order

LEMMA RefuseStep ==
    ASSUME IInv, Refuse, UNCHANGED compiling
    PROVE  IInv' /\ Grows(functions, functions')
<1>1. Types' /\ Declaring' /\ Compiling' /\ Texts'
  BY DEF Refuse, compiling, IInv, Types, Declaring, Compiling, Parsed, Texts, LiteralNames
<1> QED
  BY <1>1, UnmovedStep DEF Refuse

(* What the look-ups of strings have found when they have found nothing.   *)
LEMMA NoString ==
    ASSUME IInv, NEW compare \in {"name", "content"}, NEW string,
           findString(compare, string) = 0
    PROVE  \A i \in 1 .. Len(strings) : strings[i][compare] # string[compare]
<1> DEFINE fields == [i \in DOMAIN strings |-> strings[i][compare]]
<1>1. Len(strings) \in Nat /\ DOMAIN strings = 1 .. Len(strings)
  BY DEF IInv, Texts
<1>2. DOMAIN fields = 1 .. Len(strings) /\ FIND(fields, string[compare]) = 0
  BY <1>1 DEF findString
<1>3. \A i \in 1 .. Len(strings) : fields[i] # string[compare]
  <2> HIDE DEF fields
  <2> QED
    BY <1>1, <1>2, FindNone
<1> QED
  BY <1>1, <1>3

LEMMA AppendedText ==
    ASSUME IInv, NEW s \in [name : StringNames \union {NoName}, content : Literals],
           strings' = Append(strings, s),
           \A i \in 1 .. Len(strings) : s.name # NoName => strings[i].name # s.name,
           \A i \in 1 .. Len(strings) : s.name = NoName => strings[i].content # s.content,
           printed' \subseteq printed \union {s.content}
    PROVE  Texts'
<1>1. /\ strings \in Seq([name : StringNames \union {NoName}, content : Literals])
      /\ Len(strings) \in Nat
  BY DEF IInv, Texts
<1>2. /\ strings' \in Seq([name : StringNames \union {NoName}, content : Literals])
      /\ Len(strings') = Len(strings) + 1
      /\ strings'[Len(strings) + 1] = s
      /\ \A i \in 1 .. Len(strings) : strings'[i] = strings[i]
  BY <1>1
<1>3. \A t \in printed' : \E i \in 1 .. Len(strings') : strings'[i].content = t
  <2>1. ASSUME NEW t \in printed PROVE \E i \in 1 .. Len(strings') : strings'[i].content = t
    <3>1. PICK i \in 1 .. Len(strings) : strings[i].content = t
      BY DEF IInv, Texts
    <3> QED
      BY <1>1, <1>2, <3>1
  <2> QED
    BY <1>1, <1>2, <2>1
<1>4. ASSUME NEW i \in 1 .. Len(strings'), NEW j \in 1 .. Len(strings'),
             i < j, strings'[i].content = strings'[j].content
      PROVE  strings'[j].name # NoName
  BY <1>1, <1>2, <1>4 DEF IInv, Texts
<1>5. LiteralNames'
  BY <1>1, <1>2 DEF IInv, Texts, LiteralNames
<1> QED
  BY <1>2, <1>3, <1>4, <1>5 DEF Texts

LEMMA StringSteps ==
    ASSUME IInv,
           \/ \E name \in StringNames, content \in Literals : parseSDeclaration(name, content)
           \/ \E literal \in Literals : parsePrintString(literal)
           \/ \E name \in StringNames : parsePrintStringId(name)
    PROVE  IInv' /\ Grows(functions, functions')
<1>1. ASSUME UNCHANGED <<functionsData, curFunction, stage, tree, done>>, Texts'
      PROVE  IInv' /\ Grows(functions, functions')
  <2>1. Types' /\ Declaring' /\ Compiling'
    BY <1>1 DEF IInv, Types, Declaring, Compiling, Points, functions
  <2> QED
    BY <1>1, <2>1, UnmovedStep
<1>2. CASE Refuse /\ UNCHANGED compiling
  BY <1>2, RefuseStep
<1>3. ASSUME UNCHANGED <<strings, printed>> PROVE Texts'
  BY <1>3 DEF IInv, Texts, LiteralNames
<1>4. ASSUME NEW name \in StringNames, NEW content \in Literals, parseSDeclaration(name, content),
             ~Refuse
      PROVE  IInv' /\ Grows(functions, functions')
  <2> DEFINE s == String(name, content)
  <2>1. /\ findString("name", String(name, NoName)) = 0 /\ strings' = Append(strings, s)
        /\ UNCHANGED <<functionsData, curFunction, stage, tree, done, printed>>
    BY <1>4 DEF parseSDeclaration, compiling, findString
  <2>2. \A i \in 1 .. Len(strings) : strings[i].name # name
    BY <2>1, NoString DEF String
  <2>3. s \in [name : StringNames \union {NoName}, content : Literals] /\ s.name = name /\ name # NoName
    BY TableAssumption DEF String
  <2> HIDE DEF s
  <2>4. Texts'
    BY <2>1, <2>2, <2>3, AppendedText
  <2> QED
    BY <1>1, <2>1, <2>4
<1>5. ASSUME NEW literal \in Literals, parsePrintString(literal)
      PROVE  IInv' /\ Grows(functions, functions')
  <2> DEFINE s == String(NoName, literal)
  <2>1. /\ UNCHANGED <<functionsData, curFunction, stage, tree, done>>
        /\ printed' = printed \union {literal}
        /\ IF findString("content", s) # 0 THEN strings' = strings ELSE strings' = Append(strings, s)
    BY <1>5 DEF parsePrintString, compiling, findString
  <2>2. CASE findString("content", s) # 0
    <3> DEFINE contents == [i \in DOMAIN strings |-> strings[i]["content"]]
               i == FIND(contents, literal)
    <3>1. /\ Len(strings) \in Nat /\ DOMAIN strings = 1 .. Len(strings)
          /\ DOMAIN contents = 1 .. Len(strings) /\ i # 0
      BY <2>2 DEF IInv, Texts, findString, String
    <3>2. i \in 1 .. Len(strings) /\ contents[i] = literal
      <4> HIDE DEF contents
      <4> QED
        BY <3>1, FindFirst
    <3>3. strings[i].content = literal
      <4> HIDE DEF i
      <4> QED
        BY <3>1, <3>2
    <3> HIDE DEF i
    <3>4. Texts'
      BY <2>1, <2>2, <3>2, <3>3 DEF IInv, Texts, LiteralNames
    <3> QED
      BY <1>1, <2>1, <3>4
  <2>3. CASE findString("content", s) = 0
    <3>1. \A i \in 1 .. Len(strings) : strings[i].content # literal
      BY <2>3, NoString DEF String
    <3>2. s \in [name : StringNames \union {NoName}, content : Literals]
          /\ s.name = NoName /\ s.content = literal
      BY DEF String
    <3> HIDE DEF s
    <3>3. Texts'
      BY <2>1, <2>3, <3>1, <3>2, AppendedText
    <3> QED
      BY <1>1, <2>1, <3>3
  <2> QED
    BY <2>2, <2>3
<1>6. ASSUME NEW name \in StringNames, parsePrintStringId(name)
      PROVE  IInv' /\ Grows(functions, functions')
  BY <1>1, <1>2, <1>3, <1>6 DEF parsePrintStringId, compiling
<1>7. CASE Refuse /\ \E name \in StringNames, content \in Literals : parseSDeclaration(name, content)
  BY <1>2, <1>7 DEF parseSDeclaration
<1> QED
  BY <1>4, <1>5, <1>6, <1>7

LEMMA StageSteps ==
    ASSUME IInv, openBody \/ compile \/ startFunctions \/ compileFunction \/ endPass
    PROVE  IInv' /\ Grows(functions, functions')
<1>1. UNCHANGED <<functionsData, tree>> /\ functions' = functions
  BY DEF openBody, compile, startFunctions, compileFunction, endPass, functions
<1>2. CASE openBody
  <2>1. Types' /\ Declaring' /\ Compiling' /\ Texts'
    BY <1>1, <1>2 DEF openBody, compiling, IInv, Types, Declaring, Compiling, Texts, LiteralNames, Points, Parsed
  <2> QED
    BY <1>1, <2>1, UnmovedStep
<1>3. CASE compile
  <2>1. Types' /\ Declaring' /\ Compiling' /\ Texts'
    BY <1>1, <1>3 DEF compile, compiling, IInv, Types, Declaring, Compiling, Texts, LiteralNames, Points, Parsed
  <2> QED
    BY <1>1, <2>1, UnmovedStep
<1>4. CASE startFunctions
  <2>1. Types' /\ Declaring' /\ Compiling' /\ Texts'
    BY <1>1, <1>4 DEF startFunctions, IInv, Types, Declaring, Compiling, Texts, LiteralNames, Points, PointerTo, Parsed
  <2> QED
    BY <1>1, <2>1, UnmovedStep
<1>5. CASE compileFunction
  <2>1. Types' /\ Declaring' /\ Compiling' /\ Texts'
    BY <1>1, <1>5 DEF compileFunction, IInv, Types, Declaring, Compiling, Texts, LiteralNames, Points, Parsed
  <2> QED
    BY <1>1, <2>1, UnmovedStep
<1>6. CASE endPass
  <2>1. Types' /\ Declaring' /\ Compiling' /\ Texts'
    BY <1>1, <1>6 DEF endPass, IInv, Types, Declaring, Compiling, Texts, LiteralNames, Points, Parsed
  <2> QED
    BY <1>1, <2>1, UnmovedStep
<1> QED
  BY <1>2, <1>3, <1>4, <1>5, <1>6

LEMMA DeclareStep ==
    ASSUME IInv, NEW name \in Names, parseFDeclaration(name)
    PROVE  IInv' /\ Grows(functions, functions')
<1>1. CASE getFunction(name) # 0
  BY <1>1, RefuseStep DEF parseFDeclaration, compiling
<1>2. CASE getFunction(name) = 0
  <2> DEFINE f == newFunction(name)
  <2>1. /\ functionsData' \in INSERT(functionsData, f)
        /\ curFunction' = PointerTo(functionsData', Len(functions) + 1)
        /\ stage' = "parameters" /\ tree' = Append(tree, name) /\ UNCHANGED <<done, strings, printed>>
    BY <1>2 DEF parseFDeclaration, compiling
  <2>2. /\ functionsData \in [block : Nat, capacity : Nat, functions : Seq(Function)]
        /\ functions \in Seq(Function) /\ functions = functionsData.functions
        /\ Len(functions) \in Nat /\ tree \in Seq(Names)
        /\ Len(functions) = Len(tree)
    BY DEF IInv, Types, functions, Declaring, Parsed, parseFDeclaration
  <2>3. f \in Function /\ f.name = name /\ f.vars = <<>> /\ f.paramsCount = 0
    BY DEF newFunction, Function, AllNames
  <2> HIDE DEF f
  <2>4. /\ functionsData' \in [block : Nat, capacity : Nat, functions : Seq(Function)]
        /\ functions' = Append(functions, f)
        /\ Room'
    BY <2>1, <2>2, <2>3, Inserted DEF IInv, Room, functions
  <2>5. \A i \in 1 .. Len(functions) : functions[i].name # name
    <3> DEFINE names == [i \in DOMAIN functions |-> functions[i].name]
    <3>1. FIND(names, name) = 0 /\ DOMAIN names = 1 .. Len(functions)
          /\ DOMAIN functions = 1 .. Len(functions)
      BY <1>2, <2>2 DEF getFunction
    <3>2. \A i \in 1 .. Len(functions) : names[i] # name
      <4> HIDE DEF names
      <4> QED
        BY <2>2, <3>1, FindNone
    <3> QED
      BY <3>1, <3>2
  <2>6. /\ Len(functions') = Len(functions) + 1 /\ functions'[Len(functions) + 1] = f
        /\ \A i \in 1 .. Len(functions) : functions'[i] = functions[i]
        /\ Len(tree') = Len(tree) + 1 /\ tree'[Len(tree) + 1] = name /\ tree' \in Seq(Names)
        /\ \A i \in 1 .. Len(tree) : tree'[i] = tree[i]
    BY <2>1, <2>2, <2>4
  <2>7. Types'
    BY <2>1, <2>2, <2>4, <2>6 DEF IInv, Types, PointerTo, Parsed
  <2>8. Order'
    <3>1. \A i \in 1 .. Len(tree') : functions'[i].name = tree'[i]
      BY <2>2, <2>3, <2>6 DEF IInv, Order
    <3>2. \A i \in 1 .. Len(tree) : tree[i] # name
      BY <2>2, <2>5 DEF IInv, Order
    <3>3. \A i, j \in 1 .. Len(tree') : tree'[i] = tree'[j] => i = j
      BY <2>2, <2>6, <3>2 DEF IInv, Order
    <3> QED
      BY <2>2, <2>6, <3>1, <3>3 DEF Order
  <2>9. Declaring'
    <3>1. Points(curFunction, Len(tree))'
      BY <2>1, <2>2, <2>6 DEF Points, PointerTo
    <3>2. functions'[Len(tree')].paramsCount = 0 /\ Len(functions'[Len(tree')].vars) = 0
      BY <2>2, <2>3, <2>6
    <3> QED
      BY <2>1, <2>2, <2>6, <3>1, <3>2 DEF Declaring, Parsed
  <2>10. Compiling' /\ Texts'
    BY <2>1 DEF IInv, Compiling, Texts, LiteralNames
  <2> QED
    BY <2>2, <2>3, <2>4, <2>7, <2>8, <2>9, <2>10, GrowsByOne DEF IInv
<1> QED
  BY <1>1, <1>2

(* The last function has got something more.                               *)
LEMMA PushStep ==
    ASSUME IInv, stage \in Parsed, UNCHANGED <<curFunction, stage, done, tree, strings, printed>>,
           NEW g \in Function, Longer(functions[Len(functions)], g),
           stage = "parameters" => g.paramsCount = Len(g.vars),
           functionsData' = [functionsData EXCEPT !.functions = [@ EXCEPT ![Len(functions)] = g]]
    PROVE  IInv' /\ Grows(functions, functions')
<1> DEFINE n == Len(functions)
<1>1. /\ functionsData \in [block : Nat, capacity : Nat, functions : Seq(Function)]
      /\ functions \in Seq(Function) /\ n \in Nat /\ n = Len(tree) /\ n >= 1
      /\ functions = functionsData.functions
  BY DEF IInv, Types, Declaring, functions
<1>2. functions' = [functions EXCEPT ![n] = g]
  BY <1>1 DEF functions
<1>3. /\ functions' \in Seq(Function) /\ Len(functions') = n
      /\ functions'[n] = g
      /\ \A i \in 1 .. n : i # n => functions'[i] = functions[i]
  <2> HIDE DEF n
  <2>1. functions \in [1 .. n -> Function] /\ n \in 1 .. n
    BY <1>1 DEF n
  <2>2. functions' \in [1 .. n -> Function]
    BY <1>2, <2>1
  <2> QED
    BY <1>1, <1>2, <2>1, <2>2
<1>4. /\ functionsData' \in [block : Nat, capacity : Nat, functions : Seq(Function)]
      /\ functionsData'.block = functionsData.block /\ functionsData'.capacity = functionsData.capacity
  BY <1>1, <1>2, <1>3 DEF functions
<1>5. \A i \in 1 .. n : functions[i] \in Function /\ Longer(functions[i], functions'[i])
  <2>1. \A i \in 1 .. n : functions[i] \in Function
    BY <1>1
  <2>2. \A i \in 1 .. n : Longer(functions[i], functions[i])
    BY <1>1, GrowsItself DEF Grows
  <2> QED
    BY <1>3, <2>1, <2>2
<1> HIDE DEF n
<1>6. Grows(functions, functions')
  BY <1>1, <1>3, <1>5 DEF Grows, n
<1>7. \A i \in 1 .. n : functions'[i].name = functions[i].name
  BY <1>5 DEF Longer
<1>8. Types' /\ Room'
  BY <1>1, <1>3, <1>4 DEF IInv, Types, Room, n
<1>9. Order'
  BY <1>1, <1>3, <1>7 DEF IInv, Order, n
<1>10. Declaring'
  BY <1>1, <1>3, <1>4 DEF IInv, Declaring, Points, Parsed, n
<1>11. Compiling' /\ Texts'
  BY DEF IInv, Compiling, Texts, LiteralNames, Parsed
<1> QED
  BY <1>6, <1>8, <1>9, <1>10, <1>11 DEF IInv

LEMMA FunctionFields ==
    ASSUME NEW f \in Function
    PROVE  /\ f = [name |-> f.name, vars |-> f.vars, paramsCount |-> f.paramsCount]
           /\ f.name \in AllNames /\ f.vars \in Seq(AllVariables) /\ f.paramsCount \in Nat
  BY DEF Function

LEMMA MoreParameters ==
    ASSUME NEW f \in Function, f.paramsCount = Len(f.vars), NEW xs \in Seq(AllVariables), NEW g,
           g = [f EXCEPT !.vars = @ \o xs, !.paramsCount = @ + Len(xs)]
    PROVE  g \in Function /\ Longer(f, g) /\ g.paramsCount = Len(g.vars)
<1>1. /\ f.name \in AllNames /\ f.vars \in Seq(AllVariables) /\ f.paramsCount \in Nat
      /\ g.name = f.name /\ g.vars = f.vars \o xs /\ g.paramsCount = f.paramsCount + Len(xs)
      /\ g = [name |-> g.name, vars |-> g.vars, paramsCount |-> g.paramsCount]
  BY DEF Function
<1> DEFINE vs == f.vars
<1>2. /\ vs \o xs \in Seq(AllVariables) /\ Len(vs \o xs) = Len(vs) + Len(xs)
      /\ Len(vs) \in Nat /\ Len(xs) \in Nat
      /\ \A j \in 1 .. Len(vs) : (vs \o xs)[j] = vs[j]
  BY <1>1
<1>3. g \in Function
  <2>1. g.vars \in Seq(AllVariables) /\ g.paramsCount \in Nat /\ g.name \in AllNames
    BY <1>1, <1>2
  <2> QED
    BY <1>1, <2>1 DEF Function
<1> QED
  BY <1>1, <1>2, <1>3 DEF Longer

LEMMA OneMoreVariable ==
    ASSUME NEW f \in Function, NEW x \in AllVariables, NEW g, g = [f EXCEPT !.vars = Append(@, x)]
    PROVE  g \in Function /\ Longer(f, g)
<1>1. /\ f.name \in AllNames /\ f.vars \in Seq(AllVariables) /\ f.paramsCount \in Nat
      /\ g.name = f.name /\ g.vars = Append(f.vars, x) /\ g.paramsCount = f.paramsCount
      /\ g = [name |-> g.name, vars |-> g.vars, paramsCount |-> g.paramsCount]
  BY DEF Function
<1> DEFINE vs == f.vars
<1>2. /\ Append(vs, x) \in Seq(AllVariables) /\ Len(Append(vs, x)) = Len(vs) + 1 /\ Len(vs) \in Nat
      /\ \A j \in 1 .. Len(vs) : Append(vs, x)[j] = vs[j]
  BY <1>1
<1>3. g \in Function
  <2>1. g.vars \in Seq(AllVariables) /\ g.paramsCount \in Nat /\ g.name \in AllNames
    BY <1>1, <1>2
  <2> QED
    BY <1>1, <2>1 DEF Function
<1> QED
  BY <1>1, <1>2, <1>3 DEF Longer

LEMMA ParameterStep ==
    ASSUME IInv, NEW x \in Variables, parseParameter(x)
    PROVE  IInv' /\ Grows(functions, functions')
<1> DEFINE n == Len(functions)
           f == functions[n]
           g == [f EXCEPT !.vars = @ \o <<x>>, !.paramsCount = @ + Len(<<x>>)]
<1>1. /\ stage = "parameters" /\ UNCHANGED <<curFunction, stage, done, tree, strings, printed>>
      /\ functionsData' = pushParameters(functionsData, curFunction, <<x>>)
  BY DEF parseParameter, compiling
<1>2. /\ functionsData \in [block : Nat, capacity : Nat, functions : Seq(Function)]
      /\ functions \in Seq(Function) /\ n \in 1 .. Len(functions)
      /\ curFunction.block = functionsData.block /\ curFunction.index = n
      /\ f.paramsCount = Len(f.vars)
  BY <1>1 DEF IInv, Types, Declaring, Points, Parsed, functions
<1>3. f \in Function /\ <<x>> \in Seq(AllVariables)
  BY <1>2 DEF AllVariables
<1>4. g \in Function /\ Longer(f, g) /\ g.paramsCount = Len(g.vars)
  BY <1>2, <1>3, MoreParameters
<1>5. functionsData' = [functionsData EXCEPT !.functions = [@ EXCEPT ![n] = g]]
  BY <1>1, <1>2, <1>3, FunctionFields DEF pushParameters, functions
<1> HIDE DEF g
<1> QED
  BY <1>1, <1>2, <1>4, <1>5, PushStep DEF Parsed

LEMMA VariableStep ==
    ASSUME IInv, NEW x \in Variables, parseVDeclaration(x)
    PROVE  IInv' /\ Grows(functions, functions')
<1> DEFINE n == Len(functions)
           f == functions[n]
           g == [f EXCEPT !.vars = Append(@, x)]
<1>1. CASE Refuse /\ UNCHANGED compiling
  BY <1>1, RefuseStep
<1>2. CASE /\ UNCHANGED <<curFunction, stage, done, tree, strings, printed>>
           /\ functionsData' = pushVariable(functionsData, curFunction, x)
  <2>1. stage = "body"
    BY DEF parseVDeclaration
  <2>2. /\ functionsData \in [block : Nat, capacity : Nat, functions : Seq(Function)]
        /\ functions \in Seq(Function) /\ n \in 1 .. Len(functions)
        /\ curFunction.block = functionsData.block /\ curFunction.index = n
    BY <2>1 DEF IInv, Types, Declaring, Points, Parsed, functions
  <2>3. f \in Function /\ x \in AllVariables
    BY <2>2 DEF AllVariables
  <2>4. g \in Function /\ Longer(f, g)
    BY <2>3, OneMoreVariable
  <2>5. functionsData' = [functionsData EXCEPT !.functions = [@ EXCEPT ![n] = g]]
    BY <1>2, <2>2, <2>3 DEF pushVariable, functions
  <2> HIDE DEF g
  <2> QED
    BY <1>2, <2>1, <2>4, <2>5, PushStep DEF Parsed
<1> QED
  BY <1>1, <1>2 DEF parseVDeclaration, compiling

LEMMA ReplaceLast ==
    ASSUME NEW S, NEW F \in Seq(S), NEW f \in S, NEW g \in S
    PROVE  [Append(F, f) EXCEPT ![Len(F) + 1] = g] = Append(F, g)
<1> DEFINE e == [Append(F, f) EXCEPT ![Len(F) + 1] = g]
           n == Len(F) + 1
<1>1. /\ n \in Nat /\ Append(F, f) \in Seq(S) /\ Append(F, g) \in Seq(S)
      /\ Len(Append(F, f)) = n /\ Len(Append(F, g)) = n
      /\ Append(F, g)[n] = g
      /\ \A i \in 1 .. n : i # n => Append(F, f)[i] = F[i] /\ Append(F, g)[i] = F[i]
  OBVIOUS
<1> HIDE DEF n
<1>2. Append(F, f) \in [1 .. n -> S] /\ Append(F, g) \in [1 .. n -> S]
  BY <1>1, LenProperties
<1>3. e \in [1 .. n -> S] /\ e[n] = g /\ \A i \in 1 .. n : i # n => e[i] = Append(F, f)[i]
  <2>1. n \in 1 .. n
    BY <1>1 DEF n
  <2> QED
    BY <1>2, <2>1 DEF n
<1>4. \A i \in 1 .. n : e[i] = Append(F, g)[i]
  BY <1>1, <1>3
<1> HIDE DEF e
<1>5. e = Append(F, g)
  <2>1. DOMAIN e = 1 .. n /\ DOMAIN Append(F, g) = 1 .. n
    BY <1>2, <1>3
  <2>2. e = [i \in 1 .. n |-> e[i]] /\ Append(F, g) = [i \in 1 .. n |-> Append(F, g)[i]]
    BY <1>2, <1>3
  <2> QED
    BY <1>4, <2>2, Zenon
<1> QED
  BY <1>5 DEF e, n

(* A standard function more, behind those that are there.                  *)
LEMMA StdFunctionStep ==
    ASSUME IInv, writeStdFunction
    PROVE  IInv' /\ Grows(functions, functions')
<1> DEFINE info == StdFunctions[done + 1]
           f == newFunction(info.name)
           n == Len(functions)
<1>1. /\ stage = "std" /\ done < Len(StdFunctions) /\ done \in Nat
      /\ UNCHANGED <<stage, tree, strings, printed, curFunction>>
      /\ done' \in {done + 1, Len(StdFunctions)}
  BY DEF writeStdFunction, IInv, Types
<1>2. /\ info.name \in AllNames \ Names /\ info.parameters \in Seq(STRING)
      /\ Len(StdFunctions) \in Nat /\ done + 1 \in 1 .. Len(StdFunctions)
  <2>1. Len(StdFunctions) \in Nat
    BY TableAssumption
  <2>2. done + 1 \in 1 .. Len(StdFunctions)
    BY <1>1, <2>1
  <2>3. info \in [name : STRING, parameters : Seq(STRING)]
    <3> DEFINE S == [name : STRING, parameters : Seq(STRING)]
    <3>1. StdFunctions \in Seq(S)
      BY TableAssumption
    <3> HIDE DEF S
    <3>2. StdFunctions[done + 1] \in S
      BY <2>2, <3>1
    <3> QED
      BY <3>2 DEF S
  <2>4. info.name \in AllNames \ Names
    BY <2>1, <2>2, TableAssumption DEF AllNames
  <2> QED
    BY <2>1, <2>2, <2>3, <2>4
<1>3. PICK data \in INSERT(functionsData, f) :
         \/ functionsData' = pushParameters(data, PointerTo(data, Len(data.functions)), info.parameters)
         \/ functionsData' = data
  BY DEF writeStdFunction
<1>4. /\ functionsData \in [block : Nat, capacity : Nat, functions : Seq(Function)]
      /\ functions \in Seq(Function) /\ n \in Nat /\ functions = functionsData.functions
  BY DEF IInv, Types, functions
<1>5. f \in Function /\ f.name = info.name /\ f.vars = <<>> /\ f.paramsCount = 0
  BY <1>2 DEF newFunction, Function
<1> HIDE DEF f
<1>6. /\ data \in [block : Nat, capacity : Nat, functions : Seq(Function)]
      /\ data.functions = Append(functions, f)
      /\ Len(data.functions) <= data.capacity /\ data.capacity >= 2
  BY <1>3, <1>4, <1>5, Inserted DEF IInv, Room
<1> DEFINE g == [f EXCEPT !.vars = @ \o info.parameters, !.paramsCount = @ + Len(info.parameters)]
<1>7. g \in Function /\ g.name = info.name
  <2>1. info.parameters \in Seq(AllVariables)
    BY <1>2 DEF AllVariables
  <2>2. f.paramsCount = Len(f.vars)
    BY <1>5
  <2>3. g = [f EXCEPT !.vars = @ \o info.parameters, !.paramsCount = @ + Len(info.parameters)]
    OBVIOUS
  <2> HIDE DEF g, info
  <2>4. g \in Function /\ Longer(f, g)
    BY <1>5, <2>1, <2>2, <2>3, MoreParameters
  <2> QED
    BY <1>5, <2>4 DEF Longer
<1>8. PICK h \in Function : h.name = info.name /\ functions' = Append(functions, h)
                            /\ functionsData' = [data EXCEPT !.functions = functions']
  <2>1. CASE functionsData' = data
    BY <1>5, <1>6, <2>1 DEF functions
  <2>2. CASE functionsData' = pushParameters(data, PointerTo(data, Len(data.functions)), info.parameters)
    <3>1. Len(data.functions) = n + 1 /\ data.functions[n + 1] = f
      BY <1>4, <1>5, <1>6
    <3>2. functionsData' = [data EXCEPT !.functions = [@ EXCEPT ![n + 1] = g]]
      <4>1. functionsData' = [data EXCEPT !.functions[n + 1].vars = @ \o info.parameters,
                                          !.functions[n + 1].paramsCount = @ + Len(info.parameters)]
        BY <2>2, <3>1 DEF pushParameters, PointerTo
      <4>2. n + 1 \in DOMAIN data.functions
        BY <1>4, <1>6, <3>1
      <4> QED
        BY <1>5, <1>6, <3>1, <4>1, <4>2, FunctionFields
    <3> HIDE DEF g
    <3>3. [data.functions EXCEPT ![n + 1] = g] = Append(functions, g)
      <4> functions \in Seq(Function) /\ f \in Function /\ g \in Function
        BY <1>4, <1>5, <1>7
      <4>1. [Append(functions, f) EXCEPT ![Len(functions) + 1] = g] = Append(functions, g)
        <5> HIDE DEF n
        <5> QED
          BY ReplaceLast
      <4> QED
        BY <1>6, <4>1
    <3>4. functionsData'.functions = Append(functions, g)
      BY <1>6, <3>2, <3>3
    <3> QED
      BY <1>6, <1>7, <3>2, <3>3, <3>4 DEF functions
  <2> QED
    BY <1>3, <2>1, <2>2
<1>9. /\ functions' \in Seq(Function) /\ Len(functions') = n + 1 /\ functions'[n + 1] = h
      /\ \A i \in 1 .. n : functions'[i] = functions[i]
  BY <1>4, <1>8
<1>10. Types' /\ Room'
  <2>1. functionsData' \in [block : Nat, capacity : Nat, functions : Seq(Function)]
        /\ functionsData'.capacity = data.capacity
    BY <1>6, <1>8, <1>9
  <2>2. Len(functions') = Len(data.functions)
    BY <1>4, <1>6, <1>9, <1>5
  <2>3. done' \in Nat
    BY <1>1, <1>2
  <2> QED
    BY <1>1, <1>6, <2>1, <2>2, <2>3 DEF IInv, Types, Room
<1>11. Order'
  <2>1. Order /\ tree' = tree /\ h.name \notin Names
    BY <1>1, <1>2, <1>8 DEF IInv
  <2>2. Len(functions) = n
    OBVIOUS
  <2> HIDE DEF n, info
  <2> QED
    BY <1>4, <1>9, <2>1, <2>2 DEF Order
<1>12. Declaring' /\ Compiling' /\ Texts'
  BY <1>1 DEF IInv, Declaring, Compiling, Texts, LiteralNames, Parsed
<1> QED
  BY <1>4, <1>8, <1>10, <1>11, <1>12, GrowsByOne DEF IInv

-----------------------------------------------------------------------------
LEMMA NextStep == IInv /\ [Next]_vars => IInv' /\ Grows(functions, functions')
<1> SUFFICES ASSUME IInv, [Next]_vars PROVE IInv' /\ Grows(functions, functions')
  OBVIOUS
<1>1. CASE UNCHANGED vars
  <2>1. UNCHANGED <<functionsData, strings, cmp, curFunction, stage, done, pass, tree, printed>>
    BY <1>1 DEF vars
  <2>2. Types' /\ Declaring' /\ Compiling' /\ Texts'
    BY <2>1 DEF IInv, Types, Declaring, Compiling, Points, functions, Texts, LiteralNames
  <2> QED
    BY <2>1, <2>2, UnmovedStep
<1>2. CASE Next
  <2>1. CASE Ended
    BY <1>1, <2>1 DEF Ended
  <2> QED
    BY <1>2, <2>1, StringSteps, DeclareStep, ParameterStep, VariableStep, StageSteps, StdFunctionStep
    DEF Next
<1> QED
  BY <1>1, <1>2

LEMMA Always == Spec => []IInv
<1>1. IInv /\ [Next]_vars => IInv'
  BY NextStep
<1> QED
  BY InitIInv, <1>1, PTL DEF Spec

(* Whatever the program declares, wherever the array goes and however      *)
(* often it grows: the Function* that the parser and the compiler keep is  *)
(* the one of the function they are at.                                    *)
THEOREM PointersFresh == Spec => []OwnFunction
<1>1. IInv => OwnFunction
  <2> SUFFICES ASSUME IInv PROVE OwnFunction
    OBVIOUS
  <2> DEFINE names == [i \in DOMAIN functions |-> functions[i].name]
  <2>1. Len(functions) \in Nat /\ DOMAIN functions = 1 .. Len(functions) /\ Len(tree) \in Nat
    BY DEF IInv, Types, functions
  <2>2. DOMAIN names = 1 .. Len(functions)
    BY <2>1
  <2>3. ASSUME NEW i \in 1 .. Len(tree)
        PROVE  functions[i].name = tree[i] /\ getFunction(tree[i]) = i
    <3>1. i \in 1 .. Len(functions) /\ functions[i].name = tree[i]
      BY <2>1 DEF IInv, Order
    <3>2. \A j \in 1 .. i - 1 : j \in 1 .. Len(tree) /\ j \in 1 .. Len(functions) /\ functions[j].name = tree[j]
      BY <2>1, <3>1 DEF IInv, Order
    <3>3. names[i] = tree[i] /\ \A j \in 1 .. i - 1 : names[j] # tree[i]
      BY <2>1, <3>1, <3>2 DEF IInv, Order
    <3>4. FIND(names, tree[i]) = i
      <4> HIDE DEF names
      <4> QED
        BY <2>1, <2>2, <3>1, <3>3, FindIs
    <3> QED
      BY <3>1, <3>4 DEF getFunction
  <2> QED
    BY <2>3 DEF IInv, Declaring, Compiling, OwnFunction, Parsed
<1> QED
  BY <1>1, Always, PTL

(* A place in a frame, once given, is given for good.                      *)
THEOREM PlacesKept == Spec => OffsetsStable
<1>1. IInv /\ [Next]_vars =>
        [\A i \in DOMAIN functions :
            \A name \in {functions[i].name}, x \in Range(functions[i].vars) :
                Place(name, x) # -1 => Place(name, x)' = Place(name, x)]_vars
  <2>1. IInv => functions \in Seq(Function)
    BY DEF IInv, Types, functions
  <2> QED
    BY <2>1, NextStep, PlaceKept
<1> QED
  BY <1>1, Always, PTL DEF Spec, OffsetsStable

(* Every literal is found by its content, in its only nameless entry.      *)
THEOREM LiteralsHaveEntries == Spec => []LiteralsFound
<1>1. IInv => LiteralsFound
  <2> SUFFICES ASSUME IInv PROVE LiteralsFound
    OBVIOUS
  <2>1. Len(strings) \in Nat /\ DOMAIN strings = 1 .. Len(strings)
    BY DEF IInv, Texts
  <2>2. ASSUME NEW s \in printed
        PROVE  LET i == findString("content", String(NoName, s))
               IN i # 0 /\ \A j \in DOMAIN strings :
                              j # i /\ strings[j].content = s => strings[j].name # NoName
    <3> DEFINE contents == [i \in DOMAIN strings |-> strings[i]["content"]]
               first == FIND(contents, s)
    <3>1. DOMAIN contents = 1 .. Len(strings) /\ findString("content", String(NoName, s)) = first
      BY <2>1 DEF findString, String
    <3>2. PICK k \in 1 .. Len(strings) : strings[k].content = s
      BY DEF IInv, Texts
    <3>3. contents[k] = s
      BY <2>1, <3>2
    <3>4. \A j \in 1 .. Len(strings) : contents[j] = strings[j].content
      BY <2>1
    <3> HIDE DEF contents
    <3>5. first # 0
      BY <2>1, <3>1, <3>2, <3>3, FindNone
    <3>6. first \in 1 .. Len(strings) /\ contents[first] = s /\ \A j \in 1 .. first - 1 : contents[j] # s
      BY <2>1, <3>1, <3>5, FindFirst
    <3> HIDE DEF first
    <3>7. ASSUME NEW j \in 1 .. Len(strings), j # first, strings[j].content = s
          PROVE  strings[j].name # NoName
      <4>1. ~(j < first)
        BY <3>4, <3>6, <3>7
      <4>2. first < j /\ strings[first].content = strings[j].content
        BY <3>4, <3>6, <3>7, <4>1
      <4> QED
        BY <3>6, <4>2 DEF IInv, Texts
    <3> QED
      BY <2>1, <3>1, <3>5, <3>7
  <2>3. \A i, j \in DOMAIN strings :
           i # j /\ strings[i].name = strings[j].name => strings[i].name = NoName
    BY <2>1 DEF IInv, Texts, LiteralNames
  <2> QED
    BY <2>2, <2>3 DEF LiteralsFound
<1> QED
  BY <1>1, Always, PTL
=============================================================================
