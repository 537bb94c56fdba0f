--------------------------- MODULE Parsing_proofs ---------------------------
(***************************************************************************)
(* The parser on every text, after any slips.                              *)
(***************************************************************************)
EXTENDS Parsing, SequenceTheorems, WellFoundedInduction, TLAPS

-----------------------------------------------------------------------------
LEMMA Least ==
    ASSUME NEW T \in SUBSET Nat, T # {}
    PROVE  \E n \in T : \A m \in T : n <= m
  <1> DEFINE R == OpToRel(<, Nat)
  <1>1. IsWellFoundedOn(R, Nat)
    BY NatLessThanWellFounded
  <1>2. \A y, x \in Nat : <<y, x>> \in R <=> y < x
    BY DEF OpToRel
  <1> HIDE DEF R
  <1>3. PICK x \in T : \A y \in T : ~(<<y, x>> \in R)
    BY <1>1, WFMin
  <1>4. \A y \in T : ~(y < x)
    BY <1>2, <1>3
  <1> QED BY <1>4

(* Induction, for a set rather than a predicate.                           *)
LEMMA Induction ==
    ASSUME NEW S, 0 \in S, \A k \in Nat : k \in S => k + 1 \in S
    PROVE  \A k \in Nat : k \in S
  <1> SUFFICES ASSUME NEW k \in Nat, k \notin S PROVE FALSE
    OBVIOUS
  <1> DEFINE T == {n \in Nat : n \notin S}
  <1>1. T \in SUBSET Nat /\ T # {}
    OBVIOUS
  <1>2. PICK n \in T : \A m \in T : n <= m
    BY <1>1, Least
  <1>3. n \in Nat /\ n # 0 /\ n - 1 \in Nat /\ ~(n <= n - 1) /\ n - 1 + 1 = n
    OBVIOUS
  <1>4. n - 1 \in S
    BY <1>2, <1>3
  <1> QED BY <1>3, <1>4

-----------------------------------------------------------------------------
(* Trees that read only names in V.                                        *)
Closed(S, V) == \A m \in S : Children(m) \subseteq S /\ (m.type = "ID_TYPE" => m.id \in V)

ReadsOnly(n, V) == \E S : n \in S /\ Closed(S, V)

IsList(l) == \E S : l \in Seq(S)

ListReads(l, V) == IsList(l) /\ \A i \in 1 .. Len(l) : ReadsOnly(l[i], V)

OperandsRead(l, V) == IsList(l) /\ \A i \in 1 .. Len(l) : ReadsOnly(l[i].operand, V)

LEMMA Widened ==
    ASSUME NEW V, NEW W, V \subseteq W
    PROVE  /\ \A n : ReadsOnly(n, V) => ReadsOnly(n, W)
           /\ \A l : ListReads(l, V) => ListReads(l, W)
           /\ \A l : OperandsRead(l, V) => OperandsRead(l, W)
  <1>1. \A n : ReadsOnly(n, V) => ReadsOnly(n, W)
    BY DEF ReadsOnly, Closed
  <1> QED BY <1>1 DEF ListReads, OperandsRead

(* A node reads what its children read.                                    *)
LEMMA NodeReads ==
    ASSUME NEW n, NEW V, n.type # "ID_TYPE", \A m \in Children(n) : ReadsOnly(m, V)
    PROVE  ReadsOnly(n, V)
  <1> DEFINE Of(m) == CHOOSE S : m \in S /\ Closed(S, V)
             T == {n} \union UNION {Of(m) : m \in Children(n)}
  <1>1. \A m \in Children(n) : m \in Of(m) /\ Closed(Of(m), V)
    BY DEF ReadsOnly
  <1> HIDE DEF Of
  <1>2. \A m \in T : Children(m) \subseteq T /\ (m.type = "ID_TYPE" => m.id \in V)
    <2> SUFFICES ASSUME NEW m \in T
                 PROVE  Children(m) \subseteq T /\ (m.type = "ID_TYPE" => m.id \in V)
      OBVIOUS
    <2>1. CASE m = n
      BY <1>1, <2>1
    <2>2. CASE m # n
      <3>1. PICK c \in Children(n) : m \in Of(c)
        BY <2>2
      <3>2. Closed(Of(c), V)
        BY <1>1, <3>1
      <3>3. Children(m) \subseteq Of(c) /\ (m.type = "ID_TYPE" => m.id \in V)
        BY <3>1, <3>2 DEF Closed
      <3> QED BY <3>1, <3>3
    <2> QED BY <2>1, <2>2
  <1>3. n \in T
    OBVIOUS
  <1> HIDE DEF T
  <1> QED BY <1>2, <1>3 DEF ReadsOnly, Closed

LEMMA LeafReads ==
    ASSUME NEW V
    PROVE  /\ ReadsOnly(Null, V)
           /\ \A k : ReadsOnly(Num(k), V)
           /\ \A s : ReadsOnly(String(s), V)
           /\ \A x \in V : ReadsOnly(Id(x), V)
  <1>1. Children(Null) = {} /\ Null.type # "ID_TYPE"
    BY DEF Children, Null
  <1>2. ASSUME NEW k PROVE Children(Num(k)) = {} /\ Num(k).type # "ID_TYPE"
    BY DEF Children, Num
  <1>3. ASSUME NEW s PROVE Children(String(s)) = {} /\ String(s).type # "ID_TYPE"
    BY DEF Children, String
  <1>4. ASSUME NEW x \in V PROVE ReadsOnly(Id(x), V)
    <2>1. Children(Id(x)) = {} /\ Id(x).id = x
      BY DEF Children, Id
    <2>2. Id(x) \in {Id(x)} /\ Closed({Id(x)}, V)
      BY <2>1 DEF Closed
    <2> QED BY <2>2 DEF ReadsOnly
  <1> QED BY <1>1, <1>2, <1>3, <1>4, NodeReads

LEMMA MathReads ==
    ASSUME NEW V, NEW l, NEW r, NEW op, ReadsOnly(l, V), ReadsOnly(r, V)
    PROVE  ReadsOnly(Math(l, op, r), V)
  <1>1. Children(Math(l, op, r)) = {l, r} /\ Math(l, op, r).type # "ID_TYPE"
    BY DEF Children, Math
  <1> QED BY <1>1, NodeReads

LEMMA OneChildReads ==
    ASSUME NEW V, NEW x, NEW e, ReadsOnly(e, V)
    PROVE  /\ ReadsOnly(MemAccess(x, e), V)
           /\ ReadsOnly(ADecl(x, e), V)
           /\ ReadsOnly(Return(e), V)
  <1>1. Children(MemAccess(x, e)) = {e} /\ MemAccess(x, e).type # "ID_TYPE"
    BY DEF Children, MemAccess
  <1>2. Children(ADecl(x, e)) = {e} /\ ADecl(x, e).type # "ID_TYPE"
    BY DEF Children, ADecl
  <1>3. Children(Return(e)) = {e} /\ Return(e).type # "ID_TYPE"
    BY DEF Children, Return
  <1> QED BY <1>1, <1>2, <1>3, NodeReads

LEMMA CallReads ==
    ASSUME NEW V, NEW x, NEW l, ListReads(l, V)
    PROVE  ReadsOnly(CallOf(x, l), V)
  <1>1. Children(CallOf(x, l)) = {l[i] : i \in 1 .. Len(l)} /\ CallOf(x, l).type # "ID_TYPE"
    BY DEF Children, CallOf
  <1> QED BY <1>1, NodeReads DEF ListReads

LEMMA AssignReads ==
    ASSUME NEW V, NEW v, NEW e, ReadsOnly(e, V), v.type = "ID_TYPE" \/ ReadsOnly(v, V)
    PROVE  /\ ReadsOnly(Assign(v, e), V)
           /\ ReadsOnly([Assign(v, e) EXCEPT !.type = "VDECL_TYPE"], V)
  <1>1. /\ Children(Assign(v, e)) = {e} \union (IF v.type = "ID_TYPE" THEN {} ELSE {v})
        /\ Assign(v, e).type # "ID_TYPE"
    BY DEF Children, Assign
  <1>2. [Assign(v, e) EXCEPT !.type = "VDECL_TYPE"]
          = [type |-> "VDECL_TYPE", lvalue |-> v, expression |-> e]
    BY DEF Assign
  <1>3. LET d == [type |-> "VDECL_TYPE", lvalue |-> v, expression |-> e]
        IN /\ Children(d) = {e} \union (IF v.type = "ID_TYPE" THEN {} ELSE {v})
           /\ d.type # "ID_TYPE"
    BY DEF Children
  <1> QED BY <1>1, <1>2, <1>3, NodeReads

LEMMA BlockReads ==
    ASSUME NEW V, NEW e, NEW b, ReadsOnly(e, V), ListReads(b, V)
    PROVE  /\ ReadsOnly(Loop(e, b), V)
           /\ \A c : ListReads(c, V) => ReadsOnly(Cond(e, b, c), V)
  <1>1. Children(Loop(e, b)) = {e} \union {b[i] : i \in 1 .. Len(b)} /\ Loop(e, b).type # "ID_TYPE"
    BY DEF Children, Loop
  <1>2. ASSUME NEW c, ListReads(c, V) PROVE ReadsOnly(Cond(e, b, c), V)
    <2>1. /\ Children(Cond(e, b, c)) = {e} \union {b[i] : i \in 1 .. Len(b)}
                                           \union {c[i] : i \in 1 .. Len(c)}
          /\ Cond(e, b, c).type # "ID_TYPE"
      BY DEF Children, Cond
    <2> QED BY <1>2, <2>1, NodeReads DEF ListReads
  <1> QED BY <1>1, <1>2, NodeReads DEF ListReads

LEMMA FrontOf ==
    ASSUME NEW e, NEW l, IsList(l)
    PROVE  /\ IsList(<<e>> \o l) /\ Len(l) \in Nat /\ Len(<<e>> \o l) = Len(l) + 1
           /\ (<<e>> \o l)[1] = e
           /\ \A i \in 1 .. Len(l) : (<<e>> \o l)[i + 1] = l[i]
  <1>1. PICK S : l \in Seq(S)
    BY DEF IsList
  <1>2. l \in Seq(S \union {e}) /\ <<e>> \in Seq(S \union {e})
    BY <1>1
  <1>3. <<e>> \o l \in Seq(S \union {e})
    BY <1>2
  <1>4. /\ Len(l) \in Nat /\ Len(<<e>> \o l) = Len(l) + 1 /\ (<<e>> \o l)[1] = e
        /\ \A i \in 1 .. Len(l) : (<<e>> \o l)[i + 1] = l[i]
    BY <1>2
  <1> QED BY <1>3, <1>4 DEF IsList

LEMMA BackOf ==
    ASSUME NEW e, NEW l, IsList(l)
    PROVE  /\ IsList(Append(l, e)) /\ Len(l) \in Nat /\ Len(Append(l, e)) = Len(l) + 1
           /\ Append(l, e)[Len(l) + 1] = e
           /\ \A i \in 1 .. Len(l) : Append(l, e)[i] = l[i]
  <1>1. PICK S : l \in Seq(S)
    BY DEF IsList
  <1>2. l \in Seq(S \union {e}) /\ e \in S \union {e}
    BY <1>1
  <1>3. Append(l, e) \in Seq(S \union {e})
    BY <1>2
  <1> QED BY <1>2, <1>3 DEF IsList

LEMMA NoneRead ==
    ASSUME NEW V
    PROVE  IsList(<<>>) /\ ListReads(<<>>, V) /\ OperandsRead(<<>>, V)
  BY DEF ListReads, OperandsRead, IsList

LEMMA FrontReads ==
    ASSUME NEW V, NEW e, NEW l, ReadsOnly(e, V), ListReads(l, V)
    PROVE  ListReads(<<e>> \o l, V)
  <1> DEFINE f == <<e>> \o l
  <1>1. /\ IsList(f) /\ Len(l) \in Nat /\ Len(f) = Len(l) + 1 /\ f[1] = e
        /\ \A i \in 1 .. Len(l) : f[i + 1] = l[i]
    BY FrontOf DEF ListReads
  <1> HIDE DEF f
  <1>2. ASSUME NEW i \in 1 .. Len(f) PROVE ReadsOnly(f[i], V)
    <2>1. CASE i = 1
      BY <1>1, <2>1
    <2>2. CASE i # 1
      <3>1. i - 1 \in 1 .. Len(l) /\ (i - 1) + 1 = i
        BY <1>1, <2>2
      <3>2. f[i] = l[i - 1]
        BY <1>1, <3>1
      <3> QED BY <3>1, <3>2 DEF ListReads
    <2> QED BY <2>1, <2>2
  <1>3. ListReads(f, V)
    BY <1>1, <1>2 DEF ListReads
  <1> QED BY <1>3 DEF f

LEMMA FrontOperandReads ==
    ASSUME NEW V, NEW e, NEW l, ReadsOnly(e.operand, V), OperandsRead(l, V)
    PROVE  OperandsRead(<<e>> \o l, V)
  <1> DEFINE f == <<e>> \o l
  <1>1. /\ IsList(f) /\ Len(l) \in Nat /\ Len(f) = Len(l) + 1 /\ f[1] = e
        /\ \A i \in 1 .. Len(l) : f[i + 1] = l[i]
    BY FrontOf DEF OperandsRead
  <1> HIDE DEF f
  <1>2. ASSUME NEW i \in 1 .. Len(f) PROVE ReadsOnly(f[i].operand, V)
    <2>1. CASE i = 1
      BY <1>1, <2>1
    <2>2. CASE i # 1
      <3>1. i - 1 \in 1 .. Len(l) /\ (i - 1) + 1 = i
        BY <1>1, <2>2
      <3>2. f[i] = l[i - 1]
        BY <1>1, <3>1
      <3> QED BY <3>1, <3>2 DEF OperandsRead
    <2> QED BY <2>1, <2>2
  <1>3. OperandsRead(f, V)
    BY <1>1, <1>2 DEF OperandsRead
  <1> QED BY <1>3 DEF f

LEMMA BackReads ==
    ASSUME NEW V, NEW e, NEW l, ReadsOnly(e, V), ListReads(l, V)
    PROVE  ListReads(Append(l, e), V)
  <1> DEFINE f == Append(l, e)
  <1>1. /\ IsList(f) /\ Len(l) \in Nat /\ Len(f) = Len(l) + 1 /\ f[Len(l) + 1] = e
        /\ \A i \in 1 .. Len(l) : f[i] = l[i]
    BY BackOf DEF ListReads
  <1> HIDE DEF f
  <1>2. ASSUME NEW i \in 1 .. Len(f) PROVE ReadsOnly(f[i], V)
    <2>1. CASE i = Len(l) + 1
      BY <1>1, <2>1
    <2>2. CASE i # Len(l) + 1
      <3>1. i \in 1 .. Len(l)
        BY <1>1, <2>2
      <3> QED BY <1>1, <3>1 DEF ListReads
    <2> QED BY <2>1, <2>2
  <1>3. ListReads(f, V)
    BY <1>1, <1>2 DEF ListReads
  <1> QED BY <1>3 DEF f

LEMMA FewRead ==
    ASSUME NEW V, NEW d, NEW e, ReadsOnly(d, V), ReadsOnly(e, V)
    PROVE  ListReads(<<d>>, V) /\ ListReads(<<d, e>>, V)
  <1> DEFINE one == <<d>>  two == <<d, e>>
  <1>1. one \in Seq({d, e}) /\ two \in Seq({d, e})
    OBVIOUS
  <1>2. Len(one) = 1 /\ one[1] = d /\ Len(two) = 2 /\ two[1] = d /\ two[2] = e
    OBVIOUS
  <1> HIDE DEF one, two
  <1>3. IsList(one) /\ IsList(two)
    BY <1>1 DEF IsList
  <1>4. ASSUME NEW i \in 1 .. 2 PROVE ReadsOnly(two[i], V)
    BY <1>2
  <1>5. ASSUME NEW i \in 1 .. 1 PROVE ReadsOnly(one[i], V)
    BY <1>2
  <1>6. ListReads(one, V) /\ ListReads(two, V)
    BY <1>2, <1>3, <1>4, <1>5 DEF ListReads
  <1> QED BY <1>6 DEF one, two

-----------------------------------------------------------------------------
(* The operations of a level, folded to the left.                          *)
Joined(v, found) == Math(v, found.operation, found.operand)

LeftTo(f, first, rest, n) ==
    f = [i \in 0 .. n |-> IF i = 0 THEN first ELSE Joined(f[i - 1], rest[i])]

LEMMA LeftToAll ==
    ASSUME NEW first, NEW rest
    PROVE  \A n \in Nat : \E f : LeftTo(f, first, rest, n)
  <1> DEFINE S == {n \in Nat : \E f : LeftTo(f, first, rest, n)}
  <1>1. 0 \in S
    <2>1. LeftTo([i \in 0 .. 0 |-> first], first, rest, 0)
      BY DEF LeftTo
    <2> QED BY <2>1
  <1>2. ASSUME NEW k \in Nat, k \in S PROVE k + 1 \in S
    <2>1. PICK f : LeftTo(f, first, rest, k)
      BY <1>2
    <2> DEFINE g == [i \in 0 .. k + 1 |-> IF i = 0 THEN first ELSE Joined(f[i - 1], rest[i])]
    <2>2. ASSUME NEW i \in 0 .. k PROVE g[i] = f[i]
      <3>1. i \in 0 .. k + 1
        OBVIOUS
      <3> QED BY <2>1, <3>1 DEF LeftTo
    <2>3. ASSUME NEW i \in 0 .. k + 1
          PROVE  g[i] = IF i = 0 THEN first ELSE Joined(g[i - 1], rest[i])
      <3>1. CASE i = 0
        BY <3>1
      <3>2. CASE i # 0
        <4>1. i - 1 \in 0 .. k
          BY <3>2
        <4>2. g[i - 1] = f[i - 1]
          BY <2>2, <4>1
        <4> QED BY <3>2, <4>2
      <3> QED BY <3>1, <3>2
    <2>4. LeftTo(g, first, rest, k + 1)
      BY <2>3 DEF LeftTo
    <2> HIDE DEF g
    <2> QED BY <2>4
  <1> HIDE DEF S
  <1>3. \A n \in Nat : n \in S
    BY <1>1, <1>2, Induction
  <1> QED BY <1>3 DEF S

LEMMA LeftwardsReads ==
    ASSUME NEW V, NEW first, NEW rest, ReadsOnly(first, V), OperandsRead(rest, V)
    PROVE  ReadsOnly(Leftwards(first, rest), V)
  <1>1. Len(rest) \in Nat
    BY DEF OperandsRead, IsList
  <1> DEFINE tree == CHOOSE f : LeftTo(f, first, rest, Len(rest))
  <1>2. LeftTo(tree, first, rest, Len(rest))
    BY <1>1, LeftToAll
  <1>3. Leftwards(first, rest) = tree[Len(rest)]
    BY Zenon DEF Leftwards, LeftTo, Joined
  <1> HIDE DEF tree
  <1>4. \A i \in 0 .. Len(rest) :
           tree[i] = IF i = 0 THEN first ELSE Joined(tree[i - 1], rest[i])
    BY <1>2 DEF LeftTo
  <1> DEFINE S == {i \in Nat : i <= Len(rest) => ReadsOnly(tree[i], V)}
  <1>5. 0 \in S
    BY <1>1, <1>4
  <1>6. ASSUME NEW k \in Nat, k \in S PROVE k + 1 \in S
    <2> SUFFICES ASSUME k + 1 <= Len(rest) PROVE ReadsOnly(tree[k + 1], V)
      OBVIOUS
    <2>1. k + 1 \in 0 .. Len(rest) /\ k + 1 \in 1 .. Len(rest) /\ k + 1 # 0 /\ (k + 1) - 1 = k
      BY <1>1
    <2>2. ReadsOnly(tree[k], V)
      BY <1>1, <1>6
    <2>3. ReadsOnly(rest[k + 1].operand, V)
      BY <2>1 DEF OperandsRead
    <2>4. tree[k + 1] = Joined(tree[k], rest[k + 1])
      BY <1>4, <2>1
    <2> QED BY <2>2, <2>3, <2>4, MathReads DEF Joined
  <1> HIDE DEF S
  <1>7. Len(rest) \in S
    BY <1>1, <1>5, <1>6, Induction
  <1> QED BY <1>1, <1>3, <1>7 DEF S

-----------------------------------------------------------------------------
(* The nodes of a block, level by level.                                   *)
Top(block) == [above |-> {}, here |-> {block[i] : i \in 1 .. Len(block)}]

DownTo(f, block, n) == f = [d \in 0 .. n |-> IF d = 0 THEN Top(block) ELSE Deeper(f[d - 1])]

LEMMA DownToAll ==
    ASSUME NEW block
    PROVE  \A n \in Nat : \E f : DownTo(f, block, n)
  <1> DEFINE S == {n \in Nat : \E f : DownTo(f, block, n)}
  <1>1. 0 \in S
    <2>1. DownTo([i \in 0 .. 0 |-> Top(block)], block, 0)
      BY DEF DownTo
    <2> QED BY <2>1
  <1>2. ASSUME NEW k \in Nat, k \in S PROVE k + 1 \in S
    <2>1. PICK f : DownTo(f, block, k)
      BY <1>2
    <2> DEFINE g == [i \in 0 .. k + 1 |-> IF i = 0 THEN Top(block) ELSE Deeper(f[i - 1])]
    <2>2. ASSUME NEW i \in 0 .. k PROVE g[i] = f[i]
      <3>1. i \in 0 .. k + 1
        OBVIOUS
      <3> QED BY <2>1, <3>1 DEF DownTo
    <2>3. ASSUME NEW i \in 0 .. k + 1
          PROVE  g[i] = IF i = 0 THEN Top(block) ELSE Deeper(g[i - 1])
      <3>1. CASE i = 0
        BY <3>1
      <3>2. CASE i # 0
        <4>1. i - 1 \in 0 .. k
          BY <3>2
        <4>2. g[i - 1] = f[i - 1]
          BY <2>2, <4>1
        <4> QED BY <3>2, <4>2
      <3> QED BY <3>1, <3>2
    <2>4. DownTo(g, block, k + 1)
      BY <2>3 DEF DownTo
    <2> HIDE DEF g
    <2> QED BY <2>4
  <1> HIDE DEF S
  <1>3. \A n \in Nat : n \in S
    BY <1>1, <1>2, Induction
  <1> QED BY <1>3 DEF S

LEMMA NodesRead ==
    ASSUME NEW V, NEW block, ListReads(block, V), Len(tokens) \in Nat
    PROVE  \A n \in NodesOf(block) : n.type = "ID_TYPE" => n.id \in V
  <1> DEFINE depth == Len(tokens) \div 4 + 1
             down == CHOOSE f : DownTo(f, block, depth)
  <1>0. depth \in Nat
    OBVIOUS
  <1>1. DownTo(down, block, depth)
    BY <1>0, DownToAll
  <1>2. NodesOf(block) = down[depth].above
    BY Zenon DEF NodesOf, DownTo, Top
  <1> HIDE DEF down, depth
  <1>3. \A i \in 0 .. depth :
           down[i] = IF i = 0 THEN Top(block) ELSE Deeper(down[i - 1])
    BY <1>1 DEF DownTo
  <1>4. PICK S : /\ \A i \in 1 .. Len(block) : block[i] \in S
                 /\ Closed(S, V)
    <2>1. ReadsOnly(Loop(Null, block), V)
      BY BlockReads, LeafReads
    <2>2. PICK S : Loop(Null, block) \in S /\ Closed(S, V)
      BY <2>1 DEF ReadsOnly
    <2>3. {block[i] : i \in 1 .. Len(block)} \subseteq Children(Loop(Null, block))
      BY DEF Children, Loop
    <2>4. Children(Loop(Null, block)) \subseteq S
      BY <2>2 DEF Closed
    <2> QED BY <2>2, <2>3, <2>4
  <1>5. Top(block).above \subseteq S /\ Top(block).here \subseteq S
    BY <1>4 DEF Top
  <1>6. ASSUME NEW v, v.above \subseteq S, v.here \subseteq S
        PROVE  Deeper(v).above \subseteq S /\ Deeper(v).here \subseteq S
    <2>1. ASSUME NEW w, w.above \subseteq S, w.here \subseteq S
          PROVE  Below(w).above \subseteq S /\ Below(w).here \subseteq S
      <3>1. UNION {Children(n) : n \in w.here} \subseteq S
        BY <1>4, <2>1 DEF Closed
      <3> QED BY <2>1, <3>1 DEF Below
    <2> QED BY <1>6, <2>1 DEF Deeper
  <1> DEFINE D == {i \in Nat : i <= depth
                                  => down[i].above \subseteq S /\ down[i].here \subseteq S}
  <1>7. 0 \in D
    BY <1>3, <1>5
  <1>8. ASSUME NEW k \in Nat, k \in D PROVE k + 1 \in D
    <2> SUFFICES ASSUME k + 1 <= depth
                 PROVE  down[k + 1].above \subseteq S /\ down[k + 1].here \subseteq S
      OBVIOUS
    <2>1. k + 1 \in 0 .. depth /\ k + 1 # 0 /\ (k + 1) - 1 = k
      BY <1>0
    <2>2. down[k].above \subseteq S /\ down[k].here \subseteq S
      BY <1>0, <1>8
    <2>3. down[k + 1] = Deeper(down[k])
      BY <1>3, <2>1
    <2> QED BY <1>6, <2>2, <2>3
  <1> HIDE DEF D
  <1>9. depth \in D
    BY <1>0, <1>7, <1>8, Induction
  <1>10. NodesOf(block) \subseteq S
    BY <1>2, <1>9 DEF D
  <1> QED BY <1>4, <1>10 DEF Closed

-----------------------------------------------------------------------------
(* Parsers, and what reading a token does to one.                          *)
IsParser(p) ==
    /\ tokens \in Seq(TokenSet)
    /\ p \in [offset : 0 .. Len(tokens), status : Statuses, printed : Statuses,
              printedAt : 0 .. Len(tokens), table : Tables, node : {p.node}]

(* q is p later, with the same symbol table.                               *)
Same(p, q) == IsParser(q) /\ p.offset <= q.offset /\ q.table = p.table

(* What has been found took a token at least.                              *)
Ahead(p, q) == Found(q) => p.offset < q.offset

LEMMA Typed ==
    ASSUME NEW p, IsParser(p)
    PROVE  /\ tokens \in Seq(TokenSet) /\ Len(tokens) \in Nat
           /\ p.offset \in 0 .. Len(tokens) /\ p.offset \in Nat /\ tokensLeft(p) \in Nat
           /\ p.status \in Statuses /\ p.printed \in Statuses /\ p.printedAt \in 0 .. Len(tokens)
           /\ p.table \in Tables
           /\ Same(p, p)
  <1>1. tokens \in Seq(TokenSet) /\ Len(tokens) \in Nat
    BY DEF IsParser
  <1>2. /\ p.offset \in 0 .. Len(tokens) /\ p.status \in Statuses
        /\ p.printed \in Statuses /\ p.printedAt \in 0 .. Len(tokens) /\ p.table \in Tables
    BY DEF IsParser
  <1> QED BY <1>1, <1>2 DEF Same, tokensLeft

LEMMA SameOn ==
    ASSUME NEW p, NEW q, NEW r, IsParser(p), Same(p, q), Same(q, r)
    PROVE  /\ Same(p, r)
           /\ p.offset < q.offset => p.offset < r.offset
           /\ Ahead(q, r) => Ahead(p, r)
  <1>1. p.offset \in Nat /\ q.offset \in Nat /\ r.offset \in Nat
    BY Typed DEF Same
  <1> QED BY <1>1 DEF Same, Ahead

LEMMA Returning ==
    ASSUME NEW p, IsParser(p), NEW n
    PROVE  /\ Same(p, Return_(p, n)) /\ Found(Return_(p, n)) /\ Node(Return_(p, n)) = n
           /\ Return_(p, n).offset = p.offset
           /\ Same(p, Nothing(p)) /\ ~Found(Nothing(p)) /\ Nothing(p).offset = p.offset
           /\ Same(p, Passed(p)) /\ Found(Passed(p)) /\ Passed(p).offset = p.offset
  <1>1. ASSUME NEW x
        PROVE  LET q == [p EXCEPT !.node = x]
               IN IsParser(q) /\ q.offset = p.offset /\ q.table = p.table /\ q.node = x
    BY DEF IsParser
  <1>2. p.offset <= p.offset
    BY Typed
  <1>3. \A x : <<x>> # <<>> /\ <<x>>[1] = x
    OBVIOUS
  <1> QED BY <1>1, <1>2, <1>3 DEF Return_, Nothing, Passed, Same, Found, Node

LEMMA Failing ==
    ASSUME NEW p, IsParser(p), NEW error \in Statuses
    PROVE  /\ Same(p, syntaxError(p, error)) /\ ~Found(syntaxError(p, error))
           /\ syntaxError(p, error).offset = p.offset
  <1>1. PICK shown \in Statuses, at \in 0 .. Len(tokens) :
           syntaxError(p, error) =
              [offset |-> p.offset, status |-> error, table |-> p.table, node |-> <<>>,
               printed |-> shown, printedAt |-> at]
    <2> DEFINE s == IF p.status = "NO_ERROR"
                    THEN IF tokensLeft(p) = 0 THEN "KILLED" ELSE error
                    ELSE p.printed
               t == IF p.status = "NO_ERROR" THEN p.offset ELSE p.printedAt
    <2>2. s \in Statuses /\ t \in 0 .. Len(tokens)
      BY Typed DEF Statuses
    <2>3. syntaxError(p, error) =
              [offset |-> p.offset, status |-> error, table |-> p.table, node |-> <<>>,
               printed |-> s, printedAt |-> t]
      BY DEF syntaxError
    <2> HIDE DEF s, t
    <2> QED BY <2>2, <2>3
  <1> DEFINE q == [offset |-> p.offset, status |-> error, table |-> p.table, node |-> <<>>,
                   printed |-> shown, printedAt |-> at]
  <1>2. q.offset = p.offset /\ q.table = p.table /\ q.node = <<>>
    OBVIOUS
  <1>3. IsParser(q)
    BY Typed DEF IsParser
  <1> HIDE DEF q
  <1>4. Same(p, q) /\ ~Found(q) /\ q.offset = p.offset
    BY <1>2, <1>3, Typed DEF Same, Found
  <1> QED BY <1>1, <1>4 DEF q

LEMMA Proceeding ==
    ASSUME NEW p, IsParser(p)
    PROVE  /\ Same(p, proceed(p)) /\ proceed(p).node = p.node
           /\ tokensLeft(p) > 0 => p.offset < proceed(p).offset
  <1> DEFINE to == IF tokensLeft(p) > 0 THEN p.offset + 1 ELSE p.offset
  <1>1. to \in 0 .. Len(tokens) /\ p.offset <= to /\ (tokensLeft(p) > 0 => p.offset < to)
    BY Typed DEF tokensLeft
  <1>2. proceed(p) = [p EXCEPT !.offset = to]
    BY DEF proceed
  <1> HIDE DEF to
  <1>3. LET q == [p EXCEPT !.offset = to]
        IN IsParser(q) /\ q.offset = to /\ q.table = p.table /\ q.node = p.node
    BY <1>1 DEF IsParser
  <1> QED BY <1>1, <1>2, <1>3 DEF Same

(* Only a token of the text is no quoted string without a place.           *)
LEMMA Current ==
    ASSUME NEW p, IsParser(p)
    PROVE  /\ curToken(p).type # "QUOTED_STRING_TOKEN_TYPE" => tokensLeft(p) > 0
           /\ curToken(p) \in TokenSet
           /\ \A k : isKeyword(p, k) => tokensLeft(p) > 0
           /\ isIdType(p) => tokensLeft(p) > 0 /\ curToken(p).id \in Names
  <1>1. Unnamed \in Contents
    BY DEF Contents
  <1>2. EndOfTokens \in TokenSet /\ EndOfTokens.type = "QUOTED_STRING_TOKEN_TYPE"
    <2>1. EndOfTokens = [type |-> "QUOTED_STRING_TOKEN_TYPE", string |-> Unnamed]
      BY DEF EndOfTokens, NoString, Quoted
    <2>2. EndOfTokens \in [type : {"QUOTED_STRING_TOKEN_TYPE"}, string : Contents]
      BY <1>1, <2>1
    <2> QED BY <2>1, <2>2 DEF TokenSet
  <1>3. p.offset < Len(tokens) => tokensLeft(p) > 0 /\ p.offset + 1 \in 1 .. Len(tokens)
    BY Typed DEF tokensLeft
  <1>4. curToken(p) \in TokenSet
    BY <1>2, <1>3, Typed DEF curToken, TokenAt
  <1>5. curToken(p).type # "QUOTED_STRING_TOKEN_TYPE" => tokensLeft(p) > 0
    BY <1>2, <1>3 DEF curToken, TokenAt
  <1>6. isIdType(p) => curToken(p).id \in Names
    <2>1. \A t \in TokenSet : t.type = "ID_TOKEN_TYPE" => t.id \in Names
      BY DEF TokenSet
    <2> QED BY <1>4, <2>1 DEF isIdType
  <1> QED BY <1>4, <1>5, <1>6 DEF isKeyword, IsKeyword, isIdType

(* The errors that the parser reports.                                     *)
LEMMA Codes ==
    {"ARRAY_DECLARATION_NO_COMMA", "ARRAY_DECLARATION_NO_SIZE", "BRACKET_NEEDED",
     "CLOSE_BRACE_NEEDED", "COMPARAND_NOT_FOUND", "DEREFERENCING_NO_VARIABLE",
     "ELSE_BLOCK_NEEDED", "FACTOR_NOT_FOUND", "FLOOR_EXPRESSION_NEEDED",
     "FUNCTION_BODY_NEEDED", "FUNCTION_DECLARATION_NEEDED", "FUNCTION_PARAMS_NEEDED",
     "FUNCTION_SECOND_DECLARATION", "ID_NEEDED", "IF_BLOCK_NEEDED", "IF_EXPRESSION_NEEDED",
     "LOOP_BLOCK_NEEDED", "LOOP_EXPRESSION_NEEDED", "MEM_ACCESS_IVALID_EXPRESSION",
     "MEM_ACCESS_NO_SECOND_BRACKET", "NEW_LINE_NEEDED", "NO_CLOSE_STRING_ID",
     "NO_EXPRESSION_INSIDE_BRACKETS", "NO_PROG_END", "NO_PROG_START",
     "NO_QUOTED_STRING_IN_DECLARATION", "NO_SECOND_QUOTE_AFTER_STRING",
     "NO_STRING_AFTER_QUOTE", "NO_STRING_ID_IN_DECLARATION", "OPEN_BRACE_NEEDED",
     "PRINT_EXPRESSION_NEEDED", "PRINT_FLOAT_EXPRESSION_NEEDED", "PRINT_FLOAT_NO_COMMA",
     "PRINT_FLOAT_PRECISION_NEEDED", "PRINT_STRING_INVALID_ARGUMENT",
     "PRINT_STRING_UNDECLARED_STRING_ID", "RETURN_EXPRESSION_NEEDED",
     "STRING_DECLARATION_AFTER_FIRST_FUNCTION_DECLARATION", "STRING_ID_SECOND_DECLARATION",
     "TERM_NOT_FOUND", "VARIABLE_ASSIGNMENT_NO_EXPRESSION",
     "VARIABLE_DECLARATION_NO_ASSIGNMENT", "VARIABLE_SECOND_DECLARATION",
     "VARIABLE_UNDECLARED_USAGE", "KILLED"} \subseteq Statuses
  BY DEF Statuses, ParseError

LEMMA RequiringKeyword ==
    ASSUME NEW p, IsParser(p), NEW k, NEW error \in Statuses
    PROVE  /\ Same(p, requireKeyword(p, k, error)) /\ Ahead(p, requireKeyword(p, k, error))

  <1> DEFINE r == requireKeyword(p, k, error)
  <1>1. CASE tokensLeft(p) = 0
    <2>1. r = Nothing(p)
      BY <1>1 DEF requireKeyword
    <2> QED BY <2>1, Returning DEF Ahead
  <1>2. CASE tokensLeft(p) > 0 /\ isKeyword(p, k)
    <2>1. r = Passed(proceed(p))
      BY <1>2, Typed DEF requireKeyword
    <2>2. Same(p, proceed(p)) /\ p.offset < proceed(p).offset
      BY <1>2, Proceeding
    <2>3. Same(proceed(p), Passed(proceed(p)))
      BY <2>2, Returning DEF Same
    <2> QED BY <2>1, <2>2, <2>3, SameOn DEF Ahead
  <1>3. CASE tokensLeft(p) # 0 /\ ~(tokensLeft(p) > 0 /\ isKeyword(p, k))
    <2>1. r = syntaxError(p, error)
      BY <1>3 DEF requireKeyword
    <2> QED BY <2>1, Failing DEF Ahead
  <1> QED BY <1>1, <1>2, <1>3

LEMMA RequiringId ==
    ASSUME NEW p, IsParser(p)
    PROVE  /\ Same(p, requireIdToken(p)) /\ Ahead(p, requireIdToken(p))
           /\ Found(requireIdToken(p)) => isIdType(p)
  <1> DEFINE r == requireIdToken(p)
  <1>1. CASE tokensLeft(p) = 0
    <2>1. r = Nothing(p)
      BY <1>1 DEF requireIdToken
    <2> QED BY <2>1, Returning DEF Ahead
  <1>2. CASE tokensLeft(p) > 0 /\ isIdType(p)
    <2>1. r = Passed(proceed(p))
      BY <1>2, Typed DEF requireIdToken
    <2>2. Same(p, proceed(p)) /\ p.offset < proceed(p).offset
      BY <1>2, Proceeding
    <2>3. Same(proceed(p), Passed(proceed(p)))
      BY <2>2, Returning DEF Same
    <2> QED BY <1>2, <2>1, <2>2, <2>3, SameOn DEF Ahead
  <1>3. CASE tokensLeft(p) # 0 /\ ~(tokensLeft(p) > 0 /\ isIdType(p))
    <2>1. r = syntaxError(p, "ID_NEEDED")
      BY <1>3 DEF requireIdToken
    <2> QED BY <2>1, Codes, Failing DEF Ahead
  <1> QED BY <1>1, <1>2, <1>3

LEMMA PastNewLines ==
    ASSUME NEW p, IsParser(p)
    PROVE  Same(p, pastNewLines(p)) /\ pastNewLines(p).node = p.node
  <1> DEFINE rest == {i \in p.offset .. Len(tokens) : ~IsKeyword(TokenAt(i), "NEW_LINE")}
             to   == CHOOSE i \in rest : \A j \in rest : i <= j
  <1>1. /\ Len(tokens) \in p.offset .. Len(tokens) /\ p.offset \in Nat /\ Len(tokens) \in Nat
    BY Typed
  <1>2. ~IsKeyword(TokenAt(Len(tokens)), "NEW_LINE")
    BY <1>1 DEF TokenAt, IsKeyword, EndOfTokens, NoString, Quoted
  <1>3. rest \in SUBSET Nat /\ rest # {}
    BY <1>1, <1>2
  <1>4. to \in rest
    <2> HIDE DEF rest
    <2> QED BY <1>3, Least
  <1>5. to \in 0 .. Len(tokens) /\ p.offset <= to
    BY <1>1, <1>4
  <1>6. pastNewLines(p) = [p EXCEPT !.offset = to]
    BY DEF pastNewLines
  <1> HIDE DEF to
  <1>7. LET q == [p EXCEPT !.offset = to]
        IN IsParser(q) /\ q.offset = to /\ q.table = p.table /\ q.node = p.node
    BY <1>5 DEF IsParser
  <1> QED BY <1>5, <1>6, <1>7 DEF Same

LEMMA RequiringNewLines ==
    ASSUME NEW p, IsParser(p)
    PROVE  Same(p, requireNewLines(p)) /\ Ahead(p, requireNewLines(p))
  <1> DEFINE q == requireKeyword(p, "NEW_LINE", "NEW_LINE_NEEDED")
             r == pastNewLines(q)
  <1>1. requireNewLines(p) = IF Found(q) THEN r ELSE q
    BY DEF requireNewLines, Then
  <1>2. Same(p, q) /\ Ahead(p, q)
    BY Codes, RequiringKeyword
  <1> HIDE DEF q
  <1>3. Same(q, r)
    BY <1>2, PastNewLines DEF Same
  <1> HIDE DEF r
  <1> QED BY <1>1, <1>2, <1>3, SameOn DEF Ahead

LEMMA ReadingId ==
    ASSUME NEW p, IsParser(p)
    PROVE  /\ Same(p, parseId(p)) /\ Ahead(p, parseId(p))
           /\ Found(parseId(p)) =>
                 Node(parseId(p)) = Id(curToken(p).id) /\ curToken(p).id \in Names
  <1>1. CASE isIdType(p)
    <2>1. parseId(p) = Return_(proceed(p), Id(curToken(p).id))
      BY <1>1 DEF parseId
    <2>2. Same(p, proceed(p)) /\ p.offset < proceed(p).offset /\ curToken(p).id \in Names
      BY <1>1, Current, Proceeding
    <2>3. IsParser(proceed(p))
      BY <2>2 DEF Same
    <2> QED BY <2>1, <2>2, <2>3, Returning, SameOn DEF Ahead
  <1>2. CASE ~isIdType(p)
    <2>1. parseId(p) = Nothing(p)
      BY <1>2 DEF parseId
    <2> QED BY <2>1, Returning DEF Ahead
  <1> QED BY <1>1, <1>2

LEMMA ReadingNumber ==
    ASSUME NEW p, IsParser(p)
    PROVE  /\ Same(p, parseNumber(p)) /\ Ahead(p, parseNumber(p))
           /\ Found(parseNumber(p)) => \E k : Node(parseNumber(p)) = Num(k)
  <1>1. CASE curToken(p).type = "NUMBER_TOKEN_TYPE"
    <2>1. parseNumber(p) = Return_(proceed(p), Num(curToken(p).number))
      BY <1>1 DEF parseNumber
    <2>2. Same(p, proceed(p)) /\ p.offset < proceed(p).offset
      BY <1>1, Current, Proceeding
    <2>3. IsParser(proceed(p))
      BY <2>2 DEF Same
    <2> QED BY <2>1, <2>2, <2>3, Returning, SameOn DEF Ahead
  <1>2. CASE curToken(p).type # "NUMBER_TOKEN_TYPE"
    <2>1. parseNumber(p) = Nothing(p)
      BY <1>2 DEF parseNumber
    <2> QED BY <2>1, Returning DEF Ahead
  <1> QED BY <1>1, <1>2

LEMMA ReadingStringId ==
    ASSUME NEW p, IsParser(p)
    PROVE  /\ Same(p, parseStringId(p)) /\ Ahead(p, parseStringId(p))
           /\ Found(parseStringId(p)) => \E y \in Names : Node(parseStringId(p)) = Id(y)
  <1> DEFINE q == proceed(p)
             x == parseId(q)
             r == parseStringId(p)
  <1>1. Same(p, q) /\ IsParser(q)
    BY Proceeding DEF Same
  <1>2. /\ Same(q, x) /\ IsParser(x) /\ Ahead(q, x)
        /\ Found(x) => \E y \in Names : Node(x) = Id(y)
    <2> HIDE DEF q
    <2> QED BY <1>1, ReadingId DEF Same
  <1>3. r = IF ~isKeyword(p, "STR_ID_OPEN") THEN Nothing(p)
            ELSE IF ~Found(x) THEN syntaxError(x, "ID_NEEDED")
            ELSE IF isKeyword(x, "STR_ID_CLOSE") THEN proceed(x)
            ELSE syntaxError(x, "NO_CLOSE_STRING_ID")
    BY DEF parseStringId
  <1> HIDE DEF q, x, r
  <1>4. Same(p, x) /\ Ahead(p, x)
    BY <1>1, <1>2, SameOn
  <1>5. CASE ~isKeyword(p, "STR_ID_OPEN")
    BY <1>3, <1>5, Returning DEF Ahead, r
  <1>6. CASE isKeyword(p, "STR_ID_OPEN") /\ ~Found(x)
    <2>1. r = syntaxError(x, "ID_NEEDED")
      BY <1>3, <1>6
    <2>2. Same(x, r) /\ ~Found(r)
      BY <1>2, <2>1, Codes, Failing
    <2> QED BY <1>4, <2>2, SameOn DEF Ahead, r
  <1>7. CASE isKeyword(p, "STR_ID_OPEN") /\ Found(x) /\ isKeyword(x, "STR_ID_CLOSE")
    <2>1. r = proceed(x)
      BY <1>3, <1>7
    <2>2. Same(x, r) /\ r.node = x.node
      BY <1>2, <2>1, Proceeding
    <2>3. p.offset < x.offset /\ Node(r) = Node(x)
      BY <1>4, <1>7, <2>2 DEF Ahead, Node, Found
    <2> QED BY <1>2, <1>4, <1>7, <2>2, <2>3, SameOn DEF Ahead, r
  <1>8. CASE isKeyword(p, "STR_ID_OPEN") /\ Found(x) /\ ~isKeyword(x, "STR_ID_CLOSE")
    <2>1. r = syntaxError(x, "NO_CLOSE_STRING_ID")
      BY <1>3, <1>8
    <2>2. Same(x, r) /\ ~Found(r)
      BY <1>2, <2>1, Codes, Failing
    <2> QED BY <1>4, <2>2, SameOn DEF Ahead, r
  <1> QED BY <1>5, <1>6, <1>7, <1>8

LEMMA ReadingQuotedString ==
    ASSUME NEW p, IsParser(p)
    PROVE  /\ Same(p, parseQuotedString(p)) /\ Ahead(p, parseQuotedString(p))
           /\ Found(parseQuotedString(p)) =>
                 \E s \in Contents : Node(parseQuotedString(p)) = String(s)
  <1> DEFINE q == proceed(p)
             s == proceed(q)
             c == requireKeyword(s, "STR_QUOTE", "NO_SECOND_QUOTE_AFTER_STRING")
             r == parseQuotedString(p)
             read == Return_(c, String(curToken(q).string))
  <1>1. Same(p, q) /\ IsParser(q)
    BY Proceeding DEF Same
  <1>2. Same(q, s) /\ IsParser(s)
    <2> HIDE DEF q
    <2> QED BY <1>1, Proceeding DEF Same
  <1>3. Same(s, c) /\ Ahead(s, c) /\ IsParser(c)
    <2> HIDE DEF s
    <2> QED BY <1>2, Codes, RequiringKeyword DEF Same
  <1>4. r = IF ~isKeyword(p, "STR_QUOTE") THEN Nothing(p)
            ELSE IF curToken(q).type # "QUOTED_STRING_TOKEN_TYPE"
                 THEN syntaxError(q, "NO_STRING_AFTER_QUOTE")
            ELSE IF Found(c) THEN read ELSE c
    BY DEF parseQuotedString, Then, Giving
  <1> HIDE DEF q, s, c, r
  <1>5. Same(p, c) /\ Ahead(p, c)
    BY <1>1, <1>2, <1>3, SameOn
  <1>6. CASE ~isKeyword(p, "STR_QUOTE")
    BY <1>4, <1>6, Returning DEF Ahead, r
  <1>7. CASE isKeyword(p, "STR_QUOTE") /\ curToken(q).type # "QUOTED_STRING_TOKEN_TYPE"
    <2>1. r = syntaxError(q, "NO_STRING_AFTER_QUOTE")
      BY <1>4, <1>7
    <2>2. Same(q, r) /\ ~Found(r)
      BY <1>1, <2>1, Codes, Failing
    <2> QED BY <1>1, <2>2, SameOn DEF Ahead, r
  <1>8. CASE /\ isKeyword(p, "STR_QUOTE") /\ curToken(q).type = "QUOTED_STRING_TOKEN_TYPE"
             /\ ~Found(c)
    BY <1>4, <1>5, <1>8 DEF r
  <1>9. CASE /\ isKeyword(p, "STR_QUOTE") /\ curToken(q).type = "QUOTED_STRING_TOKEN_TYPE"
             /\ Found(c)
    <2>1. r = Return_(c, String(curToken(q).string))
      BY <1>4, <1>9
    <2>2. Same(c, r) /\ Node(r) = String(curToken(q).string)
      BY <1>3, <2>1, Returning
    <2>3. curToken(q) \in TokenSet
      BY <1>1, Current
    <2>4. curToken(q).string \in Contents
      BY <1>9, <2>3 DEF TokenSet
    <2>5. p.offset < c.offset
      BY <1>5, <1>9 DEF Ahead
    <2> QED BY <1>5, <2>2, <2>4, <2>5, SameOn DEF Ahead, r
  <1> QED BY <1>6, <1>7, <1>8, <1>9

-----------------------------------------------------------------------------
(* The symbol table.                                                       *)
VarsOf(f) == {f.vars[k] : k \in 1 .. Len(f.vars)}

LEMMA DeclaredIsVar ==
    ASSUME NEW f \in FunctionSet, NEW x
    PROVE  (getVarOffset(f, x) # -1) <=> x \in VarsOf(f)
  <1> DEFINE I == {i \in 1 .. Len(f.vars) : f.vars[i] = x}
             least == CHOOSE i \in I : \A j \in I : i <= j
             at == IF I # {} THEN least ELSE 0
  <1>1. Len(f.vars) \in Nat /\ f.paramsCount \in Nat
    BY DEF FunctionSet
  <1>2. SelectInSeq(f.vars, LAMBDA v : v = x) = at
    BY Zenon DEF SelectInSeq, Min
  <1>3. getVarOffset(f, x) =
           CASE at = 0 -> -1
             [] at \in 1 .. f.paramsCount -> 16 + 8 * (at - 1)
             [] at > f.paramsCount -> -8 * (at - f.paramsCount)
    BY <1>2, Zenon DEF getVarOffset
  <1>4. I # {} <=> x \in VarsOf(f)
    BY DEF VarsOf
  <1>5. I # {} => least \in I
    <2>1. I \in SUBSET Nat
      BY <1>1
    <2> HIDE DEF I
    <2> QED BY <2>1, Least
  <1>6. I # {} => at \in Nat /\ at # 0
    <2>1. \A i \in I : i \in Nat /\ i # 0
      BY <1>1
    <2> HIDE DEF I, least
    <2> QED BY <1>5, <2>1
  <1>7. I = {} => at = 0
    OBVIOUS
  <1> HIDE DEF at, I
  <1>8. CASE I = {}
    <2>1. getVarOffset(f, x) = -1
      BY <1>1, <1>3, <1>7, <1>8
    <2> QED BY <1>4, <1>8, <2>1
  <1>9. CASE I # {}
    <2>1. CASE at <= f.paramsCount
      <3>1. getVarOffset(f, x) = 16 + 8 * (at - 1)
        BY <1>1, <1>3, <1>6, <1>9, <2>1
      <3>2. 16 + 8 * (at - 1) # -1
        BY <1>6, <1>9
      <3> QED BY <1>4, <1>9, <3>1, <3>2
    <2>2. CASE at > f.paramsCount
      <3>1. getVarOffset(f, x) = -8 * (at - f.paramsCount)
        BY <1>1, <1>3, <1>6, <1>9, <2>2
      <3>2. -8 * (at - f.paramsCount) # -1
        BY <1>1, <1>6, <1>9, <2>2
      <3> QED BY <1>4, <1>9, <3>1, <3>2
    <2> QED BY <1>1, <1>6, <1>9, <2>1, <2>2
  <1> QED BY <1>8, <1>9

(* u is t later: nothing is forgotten.                                     *)
Later(t, u) ==
    /\ Len(t.functions) <= Len(u.functions)
    /\ \A i \in 1 .. Len(t.functions) :
          /\ u.functions[i].name = t.functions[i].name
          /\ Readable(t, i) \subseteq Readable(u, i)

LEMMA TableParts ==
    ASSUME NEW t \in Tables
    PROVE  /\ t.functions \in Seq(FunctionSet) /\ t.strings \in Seq(StringSet)
           /\ Len(t.functions) \in Nat /\ Len(t.strings) \in Nat
           /\ \A i \in 1 .. Len(t.functions) : t.functions[i] \in FunctionSet
           /\ \A i \in 1 .. Len(t.strings) : t.strings[i] \in StringSet
  BY DEF Tables

LEMMA LaterOn ==
    ASSUME NEW t \in Tables
    PROVE  /\ Later(t, t)
           /\ \A u \in Tables, v \in Tables : Later(t, u) /\ Later(u, v) => Later(t, v)
  <1>1. Later(t, t)
    BY TableParts DEF Later
  <1>2. ASSUME NEW u \in Tables, NEW v \in Tables, Later(t, u), Later(u, v) PROVE Later(t, v)
    <2>1. Len(t.functions) \in Nat /\ Len(u.functions) \in Nat /\ Len(v.functions) \in Nat
      BY TableParts
    <2>2. \A i \in 1 .. Len(t.functions) : i \in 1 .. Len(u.functions)
      BY <1>2, <2>1 DEF Later
    <2> QED BY <1>2, <2>1, <2>2 DEF Later
  <1> QED BY <1>1, <1>2

StringNames(t) == {t.strings[k].name : k \in 1 .. Len(t.strings)} \ {Unnamed}

LEMMA ReadableParts ==
    ASSUME NEW t, NEW i
    PROVE  Readable(t, i) = VarsOf(t.functions[i]) \union StringNames(t)
  BY DEF Readable, VarsOf, StringNames

(* Only parameters share a name.                                           *)
VarsApart(f) ==
    \A i, j \in 1 .. Len(f.vars) : i < j /\ f.vars[i] = f.vars[j] => j <= f.paramsCount

Extends(f, g) ==
    g \in FunctionSet /\ g.name = f.name /\ VarsOf(f) \subseteq VarsOf(g) /\ VarsApart(g)

LEMMA Replacing ==
    ASSUME NEW t \in Tables, Distinct(t), Len(t.functions) > 0,
           NEW f, Extends(t.functions[Len(t.functions)], f)
    PROVE  LET u == [t EXCEPT !.functions = [@ EXCEPT ![Len(@)] = f]]
           IN /\ u \in Tables /\ Distinct(u) /\ Later(t, u)
              /\ Len(u.functions) = Len(t.functions)
              /\ u.functions[Len(u.functions)] = f /\ u.strings = t.strings
  <1> DEFINE old == t.functions
             n   == Len(old)
             new == [old EXCEPT ![n] = f]
             u   == [t EXCEPT !.functions = new]
  <1>1. old \in Seq(FunctionSet) /\ n \in Nat /\ n \in 1 .. n /\ t.strings \in Seq(StringSet)
    BY TableParts
  <1>2. f \in FunctionSet /\ f.name = old[n].name /\ VarsOf(old[n]) \subseteq VarsOf(f)
        /\ VarsApart(f)
    BY DEF Extends
  <1>3. new \in Seq(FunctionSet) /\ Len(new) = n /\ new[n] = f
        /\ \A i \in 1 .. n : i # n => new[i] = old[i]
    BY <1>1, <1>2
  <1> HIDE DEF new
  <1>4. u.functions = new /\ u.strings = t.strings /\ u \in Tables
    BY <1>3 DEF Tables
  <1> HIDE DEF u
  <1>5. \A i \in 1 .. n : new[i].name = old[i].name
    BY <1>2, <1>3
  <1>6. Distinct(u)
    <2>1. \A i, j \in 1 .. n : i # j => new[i].name # new[j].name
      BY <1>5 DEF Distinct
    <2>2. \A i, j \in 1 .. Len(u.strings) :
             i # j /\ u.strings[i].name = u.strings[j].name => u.strings[i].name = Unnamed
      BY <1>4 DEF Distinct
    <2>3. \A k \in 1 .. n : VarsApart(new[k])
      <3> SUFFICES ASSUME NEW k \in 1 .. n PROVE VarsApart(new[k])
        OBVIOUS
      <3>1. CASE k = n
        BY <1>2, <1>3, <3>1
      <3>2. CASE k # n
        <4>1. new[k] = old[k]
          BY <1>3, <3>2
        <4> QED BY <4>1 DEF Distinct, VarsApart
      <3> QED BY <3>1, <3>2
    <2> QED BY <1>3, <1>4, <2>1, <2>2, <2>3 DEF Distinct, VarsApart
  <1>7. Later(t, u)
    <2>1. ASSUME NEW i \in 1 .. n PROVE VarsOf(old[i]) \subseteq VarsOf(new[i])
      BY <1>2, <1>3
    <2>2. StringNames(u) = StringNames(t)
      BY <1>4 DEF StringNames
    <2>3. ASSUME NEW i \in 1 .. n PROVE Readable(t, i) \subseteq Readable(u, i)
      BY <1>4, <2>1, <2>2, ReadableParts
    <2>4. Len(t.functions) <= Len(u.functions)
      BY <1>1, <1>3, <1>4
    <2> QED BY <1>4, <1>5, <2>3, <2>4 DEF Later
  <1> QED BY <1>3, <1>4, <1>6, <1>7 DEF u, new

LEMMA PushingVariable ==
    ASSUME NEW f \in FunctionSet, VarsApart(f), NEW x \in Names, x \notin VarsOf(f)
    PROVE  Extends(f, pushVariable(f, x)) /\ x \in VarsOf(pushVariable(f, x))
  <1> DEFINE v == Append(f.vars, x)
             g == pushVariable(f, x)
  <1>1. f.vars \in Seq(Names) /\ Len(f.vars) \in Nat /\ f.paramsCount \in Nat
    BY DEF FunctionSet
  <1>2. /\ v \in Seq(Names) /\ Len(v) = Len(f.vars) + 1 /\ v[Len(f.vars) + 1] = x
        /\ \A i \in 1 .. Len(f.vars) : v[i] = f.vars[i]
    BY <1>1
  <1>3. g = [f EXCEPT !.vars = v]
    BY DEF pushVariable
  <1> HIDE DEF v, g
  <1>4. g \in FunctionSet /\ g.name = f.name /\ g.vars = v /\ g.paramsCount = f.paramsCount
    BY <1>2, <1>3 DEF FunctionSet
  <1>5. VarsOf(f) \subseteq VarsOf(g) /\ x \in VarsOf(g)
    <2>1. \A i \in 1 .. Len(f.vars) : i \in 1 .. Len(v)
      BY <1>1, <1>2
    <2>2. Len(f.vars) + 1 \in 1 .. Len(v)
      BY <1>1, <1>2
    <2> QED BY <1>2, <1>4, <2>1, <2>2 DEF VarsOf
  <1>6. VarsApart(g)
    <2> SUFFICES ASSUME NEW i \in 1 .. Len(v), NEW j \in 1 .. Len(v), i < j, v[i] = v[j]
                 PROVE  j <= f.paramsCount
      BY <1>4 DEF VarsApart
    <2>1. i \in 1 .. Len(f.vars)
      BY <1>1, <1>2
    <2> v[i] = f.vars[i]
      BY <1>2, <2>1
    <2>2. CASE j = Len(f.vars) + 1
      BY <1>2, <2>1, <2>2 DEF VarsOf
    <2>3. CASE j # Len(f.vars) + 1
      <3>1. j \in 1 .. Len(f.vars)
        BY <1>1, <1>2, <2>3
      <3>2. v[j] = f.vars[j]
        BY <1>2, <3>1
      <3> QED BY <2>1, <3>1, <3>2 DEF VarsApart
    <2> QED BY <2>2, <2>3
  <1> QED BY <1>4, <1>5, <1>6 DEF Extends, g

LEMMA PushingParameter ==
    ASSUME NEW f \in FunctionSet, f.paramsCount = Len(f.vars), NEW x \in Names
    PROVE  LET g == pushParameter(f, x)
           IN Extends(f, g) /\ g.paramsCount = Len(g.vars)
  <1> DEFINE v == Append(f.vars, x)
             g == [name |-> f.name, vars |-> v, paramsCount |-> f.paramsCount + 1]
  <1>1. f.vars \in Seq(Names) /\ Len(f.vars) \in Nat /\ f.paramsCount \in Nat /\ f.name \in Names
    BY DEF FunctionSet
  <1>2. /\ v \in Seq(Names) /\ Len(v) = Len(f.vars) + 1
        /\ \A i \in 1 .. Len(f.vars) : v[i] = f.vars[i]
    BY <1>1
  <1> HIDE DEF v
  <1>3. /\ g \in FunctionSet /\ g.name = f.name /\ g.vars = v
        /\ g.paramsCount = Len(g.vars)
    BY <1>1, <1>2 DEF FunctionSet
  <1>4. pushParameter(f, x) = g
    BY DEF pushParameter, v
  <1> HIDE DEF g
  <1>5. VarsOf(f) \subseteq VarsOf(g)
    <2>1. \A i \in 1 .. Len(f.vars) : i \in 1 .. Len(v)
      BY <1>1, <1>2
    <2> QED BY <1>2, <1>3, <2>1 DEF VarsOf
  <1>6. VarsApart(g)
    BY <1>2, <1>3 DEF VarsApart
  <1> QED BY <1>3, <1>4, <1>5, <1>6 DEF Extends

LEMMA PushingFunction ==
    ASSUME NEW t \in Tables, Distinct(t), NEW x \in Names,
           \A i \in 1 .. Len(t.functions) : t.functions[i].name # x
    PROVE  LET u == pushFunction(t, x)
               f == u.functions[Len(u.functions)]
           IN /\ u \in Tables /\ Distinct(u) /\ Later(t, u)
              /\ Len(u.functions) = Len(t.functions) + 1
              /\ f.name = x /\ f.paramsCount = Len(f.vars)
  <1> DEFINE old == t.functions
             n   == Len(old)
             f   == [name |-> x, vars |-> <<>>, paramsCount |-> 0]
             new == Append(old, f)
             u   == [t EXCEPT !.functions = new]
  <1>1. old \in Seq(FunctionSet) /\ n \in Nat /\ t.strings \in Seq(StringSet)
    BY TableParts
  <1>2. f \in FunctionSet /\ f.name = x /\ f.vars = <<>> /\ f.paramsCount = 0 /\ Len(f.vars) = 0
    BY DEF FunctionSet
  <1> HIDE DEF f
  <1>3. new \in Seq(FunctionSet) /\ Len(new) = n + 1 /\ new[n + 1] = f
        /\ \A i \in 1 .. n : new[i] = old[i]
    BY <1>1, <1>2
  <1> HIDE DEF new
  <1>4. u.functions = new /\ u.strings = t.strings /\ u \in Tables
    BY <1>3 DEF Tables
  <1>5. u = pushFunction(t, x)
    BY DEF pushFunction, new, f
  <1> HIDE DEF u
  <1>6. Distinct(u)
    <2>1. ASSUME NEW i \in 1 .. n + 1, NEW j \in 1 .. n + 1, i # j
          PROVE  new[i].name # new[j].name
      <3>1. CASE i = n + 1
        <4>1. j \in 1 .. n
          BY <1>1, <2>1, <3>1
        <4> QED BY <1>2, <1>3, <3>1, <4>1
      <3>2. CASE j = n + 1
        <4>1. i \in 1 .. n
          BY <1>1, <2>1, <3>2
        <4> QED BY <1>2, <1>3, <3>2, <4>1
      <3>3. CASE i # n + 1 /\ j # n + 1
        <4>1. i \in 1 .. n /\ j \in 1 .. n
          BY <1>1, <3>3
        <4> QED BY <1>3, <2>1, <4>1 DEF Distinct
      <3> QED BY <3>1, <3>2, <3>3
    <2>2. \A i, j \in 1 .. Len(u.strings) :
             i # j /\ u.strings[i].name = u.strings[j].name => u.strings[i].name = Unnamed
      BY <1>4 DEF Distinct
    <2>3. ASSUME NEW k \in 1 .. n + 1 PROVE VarsApart(new[k])
      <3>1. CASE k = n + 1
        BY <1>2, <1>3, <3>1 DEF VarsApart
      <3>2. CASE k # n + 1
        <4>1. k \in 1 .. n /\ new[k] = old[k]
          BY <1>1, <1>3, <3>2
        <4> QED BY <4>1 DEF Distinct, VarsApart
      <3> QED BY <3>1, <3>2
    <2> QED BY <1>3, <1>4, <2>1, <2>2, <2>3 DEF Distinct, VarsApart
  <1>7. Later(t, u)
    BY <1>1, <1>3, <1>4 DEF Later, Readable
  <1> QED BY <1>2, <1>3, <1>4, <1>5, <1>6, <1>7

LEMMA PushingString ==
    ASSUME NEW t \in Tables, Distinct(t), NEW x \in Names \union {Unnamed}, NEW s \in Contents,
           x # Unnamed => \A i \in 1 .. Len(t.strings) : t.strings[i].name # x
    PROVE  LET u == [t EXCEPT !.strings = Append(@, [name |-> x, content |-> s])]
           IN u \in Tables /\ Distinct(u) /\ Later(t, u) /\ u.functions = t.functions
  <1> DEFINE old == t.strings
             n   == Len(old)
             e   == [name |-> x, content |-> s]
             new == Append(old, e)
             u   == [t EXCEPT !.strings = new]
  <1>1. t.functions \in Seq(FunctionSet) /\ n \in Nat /\ old \in Seq(StringSet)
        /\ Len(t.functions) \in Nat
    BY TableParts
  <1>2. e \in StringSet /\ e.name = x
    BY DEF StringSet
  <1> HIDE DEF e
  <1>3. new \in Seq(StringSet) /\ Len(new) = n + 1 /\ new[n + 1] = e
        /\ \A i \in 1 .. n : new[i] = old[i]
    BY <1>1, <1>2
  <1> HIDE DEF new
  <1>4. u.functions = t.functions /\ u.strings = new /\ u \in Tables
    BY <1>1, <1>3 DEF Tables
  <1> HIDE DEF u
  <1>5. Distinct(u)
    <2>1. ASSUME NEW i \in 1 .. n + 1, NEW j \in 1 .. n + 1, i # j, new[i].name = new[j].name
          PROVE  new[i].name = Unnamed
      <3>1. CASE i = n + 1
        <4>1. j \in 1 .. n
          BY <1>1, <2>1, <3>1
        <4> QED BY <1>2, <1>3, <2>1, <3>1, <4>1
      <3>2. CASE j = n + 1
        <4>1. i \in 1 .. n
          BY <1>1, <2>1, <3>2
        <4> QED BY <1>2, <1>3, <2>1, <3>2, <4>1
      <3>3. CASE i # n + 1 /\ j # n + 1
        <4>1. i \in 1 .. n /\ j \in 1 .. n
          BY <1>1, <3>3
        <4> QED BY <1>3, <2>1, <4>1 DEF Distinct
      <3> QED BY <3>1, <3>2, <3>3
    <2>2. \A i, j \in 1 .. Len(u.functions) :
             i # j => u.functions[i].name # u.functions[j].name
      BY <1>4 DEF Distinct
    <2>3. \A k \in 1 .. Len(u.functions) : VarsApart(u.functions[k])
      BY <1>4 DEF Distinct, VarsApart
    <2> QED BY <1>3, <1>4, <2>1, <2>2, <2>3 DEF Distinct, VarsApart
  <1>6. Later(t, u)
    <2>1. \A k \in 1 .. n : k \in 1 .. n + 1
      BY <1>1
    <2>2. StringNames(t) \subseteq StringNames(u)
      BY <1>3, <1>4, <2>1 DEF StringNames
    <2> QED BY <1>1, <1>4, <2>2, ReadableParts DEF Later
  <1> QED BY <1>4, <1>5, <1>6 DEF u, new, e

LEMMA PushingLiteral ==
    ASSUME NEW t \in Tables, Distinct(t), NEW s \in Contents
    PROVE  LET u == [t EXCEPT !.strings = pushLiteral(@, s)]
           IN u \in Tables /\ Distinct(u) /\ Later(t, u) /\ u.functions = t.functions
  <1>1. CASE getStringByContent(t.strings, s) # 0
    <2>1. pushLiteral(t.strings, s) = t.strings
      BY <1>1 DEF pushLiteral
    <2>2. [t EXCEPT !.strings = t.strings] = t
      BY DEF Tables
    <2> QED BY <2>1, <2>2, LaterOn
  <1>2. CASE getStringByContent(t.strings, s) = 0
    <2>1. pushLiteral(t.strings, s) = Append(t.strings, [name |-> Unnamed, content |-> s])
      BY <1>2 DEF pushLiteral
    <2>2. Unnamed \in Names \union {Unnamed}
      OBVIOUS
    <2> QED BY <2>1, <2>2, PushingString
  <1> QED BY <1>1, <1>2

-----------------------------------------------------------------------------
(* A parser inside a function, and what the rules do with one.             *)
Fine(p) == IsParser(p) /\ Distinct(p.table)

Inside(p) == Fine(p) /\ Len(p.table.functions) > 0

(* What the function that is being parsed may read.                        *)
Here(p) == Readable(p.table, Len(p.table.functions))

Onward(p, q) ==
    /\ Inside(q)
    /\ p.offset <= q.offset
    /\ Later(p.table, q.table)
    /\ Len(q.table.functions) = Len(p.table.functions)

Past(p, q) == Onward(p, q) /\ Ahead(p, q)

GivesTree(p, q) == Past(p, q) /\ (Found(q) => ReadsOnly(Node(q), Here(q)))

GivesList(p, q) == Onward(p, q) /\ (Found(q) => ListReads(Node(q), Here(q)))

GivesOperands(p, q) == Onward(p, q) /\ (Found(q) => OperandsRead(Node(q), Here(q)))

LEMMA OnwardSame ==
    ASSUME NEW p, NEW q, Inside(p), Same(p, q)
    PROVE  Onward(p, q) /\ Inside(q) /\ Here(q) = Here(p)
  <1>1. p.table \in Tables /\ Later(p.table, p.table)
    BY Typed, LaterOn DEF Inside, Fine
  <1> QED BY <1>1 DEF Onward, Inside, Fine, Same, Here

LEMMA OnwardOn ==
    ASSUME NEW p, Inside(p), NEW q, Onward(p, q)
    PROVE  /\ Onward(p, p) /\ Inside(q) /\ Here(p) \subseteq Here(q)
           /\ \A r : Onward(q, r) =>
                 /\ Onward(p, r)
                 /\ Ahead(q, r) => Ahead(p, r)
                 /\ p.offset < q.offset => p.offset < r.offset
  <1>1. p.table \in Tables /\ Len(p.table.functions) \in Nat /\ p.offset \in Nat
    BY Typed, TableParts DEF Inside, Fine
  <1>2. q.table \in Tables /\ q.offset \in Nat
    BY Typed DEF Inside, Fine, Onward
  <1>3. Onward(p, p)
    BY <1>1, LaterOn DEF Onward
  <1>4. Here(p) \subseteq Here(q)
    <2>1. Len(p.table.functions) \in 1 .. Len(p.table.functions)
      BY <1>1 DEF Inside
    <2> QED BY <2>1 DEF Onward, Later, Here
  <1>5. ASSUME NEW r, Onward(q, r)
        PROVE  /\ Onward(p, r)
               /\ Ahead(q, r) => Ahead(p, r)
               /\ p.offset < q.offset => p.offset < r.offset
    <2>1. r.table \in Tables /\ r.offset \in Nat
      BY <1>5, Typed DEF Inside, Fine, Onward
    <2>2. Later(p.table, r.table)
      BY <1>1, <1>2, <1>5, <2>1, LaterOn DEF Onward
    <2>3. p.offset <= q.offset /\ q.offset <= r.offset
      BY <1>5 DEF Onward
    <2> QED BY <1>1, <1>2, <1>5, <2>1, <2>2, <2>3 DEF Onward, Ahead
  <1> QED BY <1>3, <1>4, <1>5 DEF Onward

LEMMA GivesOn ==
    ASSUME NEW p, Inside(p), NEW q, Onward(p, q)
    PROVE  /\ \A r : Past(q, r) => Past(p, r)
           /\ \A r : GivesTree(q, r) => GivesTree(p, r)
           /\ \A r : GivesList(q, r) => GivesList(p, r)
           /\ \A r : GivesOperands(q, r) => GivesOperands(p, r)
  BY OnwardOn DEF Past, GivesTree, GivesList, GivesOperands

(* A failure gives nothing, whatever it should have given.                 *)
LEMMA NothingGiven ==
    ASSUME NEW p, NEW q, Onward(p, q), ~Found(q)
    PROVE  Past(p, q) /\ GivesTree(p, q) /\ GivesList(p, q) /\ GivesOperands(p, q)
  BY DEF Past, Ahead, GivesTree, GivesList, GivesOperands

LEMMA Refused ==
    ASSUME NEW p, Inside(p), NEW q, Onward(p, q)
    PROVE  /\ \A error \in Statuses :
                 LET r == syntaxError(q, error)
                 IN /\ Onward(p, r) /\ ~Found(r)
                    /\ Past(p, r) /\ GivesTree(p, r) /\ GivesList(p, r) /\ GivesOperands(p, r)
           /\ LET r == Nothing(q)
              IN /\ Onward(p, r) /\ ~Found(r)
                 /\ Past(p, r) /\ GivesTree(p, r) /\ GivesList(p, r) /\ GivesOperands(p, r)
  <1>1. Inside(q) /\ IsParser(q)
    BY DEF Onward, Inside, Fine
  <1>2. ASSUME NEW r, Same(q, r) PROVE Onward(p, r)
    BY <1>1, <1>2, OnwardSame, OnwardOn
  <1>3. ASSUME NEW error \in Statuses
        PROVE  Onward(p, syntaxError(q, error)) /\ ~Found(syntaxError(q, error))
    BY <1>1, <1>2, Failing
  <1>4. Onward(p, Nothing(q)) /\ ~Found(Nothing(q))
    BY <1>1, <1>2, Returning
  <1> QED BY <1>3, <1>4, NothingGiven

LEMMA Given ==
    ASSUME NEW p, Inside(p), NEW q, Onward(p, q), NEW n
    PROVE  LET r == Return_(q, n)
           IN /\ Onward(p, r)
              /\ p.offset < q.offset => Past(p, r)
              /\ p.offset < q.offset /\ ReadsOnly(n, Here(q)) => GivesTree(p, r)
              /\ ListReads(n, Here(q)) => GivesList(p, r)
              /\ OperandsRead(n, Here(q)) => GivesOperands(p, r)
  <1> DEFINE r == Return_(q, n)
  <1>1. Inside(q) /\ IsParser(q)
    BY DEF Onward, Inside, Fine
  <1>2. Same(q, r) /\ Node(r) = n
    BY <1>1, Returning
  <1> HIDE DEF r
  <1>3. Onward(q, r) /\ Here(r) = Here(q)
    BY <1>1, <1>2, OnwardSame
  <1>4. Onward(p, r) /\ (p.offset < q.offset => p.offset < r.offset)
    BY <1>3, OnwardOn
  <1> QED BY <1>2, <1>3, <1>4 DEF Past, Ahead, GivesTree, GivesList, GivesOperands, r

(* A step behind another, if that has found something.                     *)
LEMMA Sequel ==
    ASSUME NEW p, NEW q, Onward(p, q), NEW r
    PROVE  /\ (Found(q) => Past(p, r)) => Past(p, Then(q, r))
           /\ (Found(q) => GivesTree(p, r)) => GivesTree(p, Then(q, r))
           /\ (Found(q) => GivesList(p, r)) => GivesList(p, Then(q, r))
           /\ (Found(q) => GivesOperands(p, r)) => GivesOperands(p, Then(q, r))
  BY NothingGiven DEF Then

LEMMA Alternative ==
    ASSUME NEW p, NEW q, NEW r, GivesTree(p, q), ~Found(q) => GivesTree(p, r)
    PROVE  GivesTree(p, Else(q, r))
  BY DEF Else

LEMMA OnwardProceed ==
    ASSUME NEW p, Inside(p)
    PROVE  /\ Onward(p, p) /\ Onward(p, proceed(p)) /\ Inside(proceed(p)) /\ IsParser(p)
           /\ proceed(p).node = p.node /\ proceed(p).table = p.table
           /\ tokensLeft(p) > 0 => p.offset < proceed(p).offset
  <1>1. IsParser(p)
    BY DEF Inside, Fine
  <1>2. Same(p, proceed(p)) /\ Same(p, p)
    BY <1>1, Typed, Proceeding
  <1> QED BY <1>1, <1>2, OnwardSame, Proceeding DEF Same

LEMMA PastSame ==
    ASSUME NEW p, NEW q, Inside(p), Same(p, q), Ahead(p, q)
    PROVE  Past(p, q) /\ Here(q) = Here(p)
  BY OnwardSame DEF Past

-----------------------------------------------------------------------------
(* What a rule may take for granted of the rules behind a token it has     *)
(* read: they keep their promises for parsers with less than n tokens left. *)
InnerOK(inner, n) ==
    \A q : Inside(q) /\ tokensLeft(q) < n =>
        /\ GivesTree(q, Recur(inner, "expression", q))
        /\ \A level \in 1 .. 3 : GivesOperands(q, Recur(inner, Operands[level], q))
        /\ GivesList(q, Recur(inner, "exprs", q))
        /\ GivesList(q, Recur(inner, "statements", q)) /\ Found(Recur(inner, "statements", q))

Ready(inner, n, p) == n \in Nat /\ InnerOK(inner, n) /\ Inside(p) /\ tokensLeft(p) <= n

Behind(inner, n, p) == Ready(inner, n, p) /\ tokensLeft(p) < n

LEMMA ReadyOn ==
    ASSUME NEW inner, NEW n, NEW p, Ready(inner, n, p), NEW q, Onward(p, q)
    PROVE  /\ Inside(p) /\ Inside(q) /\ Ready(inner, n, q)
           /\ p.offset < q.offset => Behind(inner, n, q)
           /\ Behind(inner, n, p) => Behind(inner, n, q)
  <1>1. /\ Inside(p) /\ Inside(q) /\ n \in Nat /\ tokensLeft(p) <= n
        /\ InnerOK(inner, n) /\ p.offset <= q.offset
    BY DEF Ready, Onward
  <1>2. p.offset \in Nat /\ q.offset \in Nat /\ Len(tokens) \in Nat
    BY <1>1, Typed DEF Inside, Fine
  <1>3. /\ tokensLeft(q) <= n
        /\ p.offset < q.offset => tokensLeft(q) < n
        /\ tokensLeft(p) < n => tokensLeft(q) < n
    BY <1>1, <1>2 DEF tokensLeft
  <1> QED BY <1>1, <1>3 DEF Ready, Behind

LEMMA Wrapped ==
    ASSUME NEW p, Inside(p), NEW q, Onward(p, q), NEW n
    PROVE  LET r == Then(q, Return_(q, n))
           IN /\ Past(p, q) /\ (Found(q) => ReadsOnly(n, Here(q))) => GivesTree(p, r)
              /\ (Found(q) => ListReads(n, Here(q))) => GivesList(p, r)
              /\ (Found(q) => OperandsRead(n, Here(q))) => GivesOperands(p, r)
              /\ Past(p, q) => Past(p, r)
  <1>1. Past(p, q) /\ Found(q) => p.offset < q.offset
    BY DEF Past, Ahead
  <1> DEFINE r == Return_(q, n)
  <1>2. /\ p.offset < q.offset => Past(p, r)
        /\ p.offset < q.offset /\ ReadsOnly(n, Here(q)) => GivesTree(p, r)
        /\ ListReads(n, Here(q)) => GivesList(p, r)
        /\ OperandsRead(n, Here(q)) => GivesOperands(p, r)
    BY Given
  <1> HIDE DEF r
  <1>3. /\ Past(p, q) /\ (Found(q) => ReadsOnly(n, Here(q))) => GivesTree(p, Then(q, r))
        /\ (Found(q) => ListReads(n, Here(q))) => GivesList(p, Then(q, r))
        /\ (Found(q) => OperandsRead(n, Here(q))) => GivesOperands(p, Then(q, r))
        /\ Past(p, q) => Past(p, Then(q, r))
    BY <1>1, <1>2, Sequel
  <1> QED BY <1>3 DEF r

LEMMA KeywordPast ==
    ASSUME NEW p, Inside(p), NEW k, NEW error \in Statuses
    PROVE  LET q == requireKeyword(p, k, error)
           IN Past(p, q) /\ Inside(q) /\ Here(q) = Here(p)
  <1>1. IsParser(p)
    BY DEF Inside, Fine
  <1> QED BY <1>1, RequiringKeyword, PastSame, OnwardSame

(* A tree, and the token that closes it.                                   *)
LEMMA Closing ==
    ASSUME NEW p, Inside(p), NEW e, GivesTree(p, e), NEW k, NEW error \in Statuses
    PROVE  LET closed == Then(e, requireKeyword(e, k, error))
           IN /\ Past(p, closed)
              /\ Found(closed) => Found(e) /\ ReadsOnly(Node(e), Here(closed))
  <1> DEFINE q == requireKeyword(e, k, error)
  <1>1. Onward(p, e) /\ Inside(e)
    BY DEF GivesTree, Past, Onward
  <1>2. Past(e, q) /\ Here(q) = Here(e)
    BY <1>1, KeywordPast
  <1> HIDE DEF q
  <1>3. Past(p, q)
    BY <1>1, <1>2, GivesOn
  <1>4. Past(p, Then(e, q))
    BY <1>1, <1>3, Sequel
  <1>5. Found(Then(e, q)) => Found(e) /\ Then(e, q) = q
    BY DEF Then
  <1>6. Found(e) => ReadsOnly(Node(e), Here(e))
    BY DEF GivesTree
  <1>7. Found(Then(e, q)) => Found(e) /\ ReadsOnly(Node(e), Here(Then(e, q)))
    BY <1>2, <1>5, <1>6
  <1> QED BY <1>4, <1>7 DEF q

LEMMA RequiringExpression ==
    ASSUME NEW inner, NEW n, NEW p, Behind(inner, n, p), NEW error \in Statuses
    PROVE  GivesTree(p, requireExpression(inner, p, error))
  <1> DEFINE e == Recur(inner, "expression", p)
             r == syntaxError(e, error)
  <1>1. Inside(p) /\ GivesTree(p, e)
    BY DEF Behind, Ready, InnerOK
  <1> HIDE DEF e
  <1>2. GivesTree(p, r)
    BY <1>1, Refused DEF GivesTree, Past
  <1> HIDE DEF r
  <1>3. GivesTree(p, Else(e, r))
    BY <1>1, <1>2, Alternative
  <1> QED BY <1>3 DEF requireExpression, e, r, Required

LEMMA RequiringAfter ==
    ASSUME NEW inner, NEW n, NEW p, Ready(inner, n, p), NEW k,
           NEW missing \in Statuses, NEW error \in Statuses
    PROVE  GivesTree(p, requireAfter(inner, p, k, missing, error))
  <1> DEFINE q == requireKeyword(p, k, missing)
             e == requireExpression(inner, q, error)
  <1>1. Inside(p) /\ Past(p, q)
    BY KeywordPast DEF Ready
  <1> HIDE DEF q
  <1>2. Found(q) => Behind(inner, n, q)
    BY <1>1, ReadyOn DEF Past, Ahead
  <1>3. Found(q) => GivesTree(q, e)
    BY <1>2, RequiringExpression
  <1> HIDE DEF e
  <1>4. Found(q) => GivesTree(p, e)
    BY <1>1, <1>3, GivesOn DEF Past
  <1>5. GivesTree(p, Then(q, e))
    BY <1>1, <1>4, Sequel DEF Past
  <1> QED BY <1>5 DEF requireAfter, q, e

LEMMA ReadingMemAccess ==
    ASSUME NEW inner, NEW n, NEW p, Ready(inner, n, p)
    PROVE  GivesTree(p, parseMemAccess(inner, p))
  <1> DEFINE a == proceed(p)
             b == proceed(a)
             e == requireExpression(inner, b, "MEM_ACCESS_IVALID_EXPRESSION")
             c == Then(e, requireKeyword(e, "MEM_ACCESS", "MEM_ACCESS_NO_SECOND_BRACKET"))
             m == MemAccess(curToken(p).id, Node(e))
             no == \/ ~isIdType(p) \/ tokensLeft(p) <= 1
                   \/ ~IsKeyword(TokenAt(p.offset + 1), "MEM_ACCESS")
  <1>1. parseMemAccess(inner, p) = IF no THEN Nothing(p) ELSE Then(c, Return_(c, m))
    BY DEF parseMemAccess, Giving, WithKeyword
  <1>2. Inside(p) /\ IsParser(p) /\ Onward(p, p)
    BY OnwardProceed DEF Ready
  <1>3. CASE no
    BY <1>1, <1>2, <1>3, Refused
  <1>4. CASE ~no
    <2>1. Onward(p, a) /\ Inside(a) /\ p.offset < a.offset
      BY <1>2, <1>4, Current, OnwardProceed
    <2>2. Onward(a, b)
      <3> HIDE DEF a
      <3> QED BY <2>1, OnwardProceed
    <2> HIDE DEF no, a, b
    <2>3. Onward(p, b) /\ p.offset < b.offset
      BY <1>2, <2>1, <2>2, OnwardOn
    <2>4. Behind(inner, n, b)
      BY <2>3, ReadyOn
    <2>5. GivesTree(b, e)
      BY <2>4, Codes, RequiringExpression
    <2> HIDE DEF e
    <2>6. GivesTree(p, e)
      BY <1>2, <2>3, <2>5, GivesOn
    <2>7. Past(p, c) /\ (Found(c) => ReadsOnly(Node(e), Here(c)))
      BY <1>2, <2>6, Codes, Closing
    <2> HIDE DEF c
    <2>8. Found(c) => ReadsOnly(m, Here(c))
      BY <2>7, OneChildReads
    <2> HIDE DEF m
    <2> QED BY <1>1, <1>2, <1>4, <2>7, <2>8, Wrapped DEF Past
  <1> QED BY <1>3, <1>4

LEMMA ReadingBrackets ==
    ASSUME NEW inner, NEW n, NEW p, Ready(inner, n, p), tokensLeft(p) > 0
    PROVE  GivesTree(p, parseBrackets(inner, p))
  <1> DEFINE a == proceed(p)
             e == requireExpression(inner, a, "NO_EXPRESSION_INSIDE_BRACKETS")
             c == Then(e, requireBracket(e))
  <1>1. Inside(p) /\ Onward(p, a) /\ p.offset < a.offset
    BY OnwardProceed DEF Ready
  <1> HIDE DEF a
  <1>2. GivesTree(a, e)
    BY <1>1, ReadyOn, Codes, RequiringExpression
  <1> HIDE DEF e
  <1>3. GivesTree(p, e)
    BY <1>1, <1>2, GivesOn
  <1>4. Past(p, c) /\ (Found(c) => ReadsOnly(Node(e), Here(c)))
    BY <1>1, <1>3, Codes, Closing DEF requireBracket
  <1> HIDE DEF c
  <1>5. GivesTree(p, Then(c, Return_(c, Node(e))))
    BY <1>1, <1>4, Wrapped DEF Past
  <1> QED BY <1>5 DEF parseBrackets, a, e, c, InBrackets, Giving, WithBracket

LEMMA ReadingStandardFunc ==
    ASSUME NEW inner, NEW n, NEW p, Ready(inner, n, p), NEW x, tokensLeft(p) > 0
    PROVE  GivesTree(p, parseStandardFunc(inner, p, x))
  <1> DEFINE a == proceed(p)
             e == requireAfter(inner, a, "BRACKET", "BRACKET_NEEDED", "FLOOR_EXPRESSION_NEEDED")
             c == Then(e, requireBracket(e))
             m == CallOf(x, <<Node(e)>>)
  <1>1. Inside(p) /\ Onward(p, a)
    BY OnwardProceed DEF Ready
  <1> HIDE DEF a
  <1>2. GivesTree(a, e)
    BY <1>1, ReadyOn, Codes, RequiringAfter
  <1> HIDE DEF e
  <1>3. GivesTree(p, e)
    BY <1>1, <1>2, GivesOn
  <1>4. Past(p, c) /\ (Found(c) => ReadsOnly(Node(e), Here(c)))
    BY <1>1, <1>3, Codes, Closing DEF requireBracket
  <1> HIDE DEF c
  <1>5. Found(c) => ReadsOnly(m, Here(c))
    BY <1>4, FewRead, CallReads
  <1> HIDE DEF m
  <1>6. GivesTree(p, Then(c, Return_(c, m)))
    BY <1>1, <1>4, <1>5, Wrapped DEF Past
  <1> QED BY <1>6 DEF parseStandardFunc, a, e, c, m, Giving, WithBracket

LEMMA ReadingScanFloat ==
    ASSUME NEW inner, NEW n, NEW p, Ready(inner, n, p), tokensLeft(p) > 0
    PROVE  GivesTree(p, parseScanFloat(inner, p))
  <1> DEFINE a == proceed(p)
             e == Recur(inner, "expression", a)
             m == CallOf("accio_bombarda", <<Node(e)>>)
  <1>1. Inside(p) /\ Onward(p, a) /\ p.offset < a.offset
    BY OnwardProceed DEF Ready
  <1> HIDE DEF a
  <1>2. Behind(inner, n, a)
    BY <1>1, ReadyOn
  <1>3. GivesTree(a, e)
    BY <1>2 DEF Behind, Ready, InnerOK
  <1> HIDE DEF e
  <1>4. Onward(a, e) /\ ReadsOnly(Node(e), Here(e))
    <2>1. CASE Found(e)
      BY <1>3, <2>1 DEF GivesTree, Past
    <2>2. CASE ~Found(e)
      <3>1. Node(e) = Null
        BY <2>2 DEF Node
      <3> QED BY <1>3, <3>1, LeafReads DEF GivesTree, Past
    <2> QED BY <2>1, <2>2
  <1>5. Onward(p, e) /\ p.offset < e.offset
    BY <1>1, <1>4, OnwardOn
  <1>6. ReadsOnly(m, Here(e))
    BY <1>4, FewRead, CallReads
  <1> HIDE DEF m
  <1>7. GivesTree(p, Return_(e, m))
    BY <1>1, <1>5, <1>6, Given
  <1> QED BY <1>7 DEF parseScanFloat, a, e, m

LEMMA CurrentFunction ==
    ASSUME NEW p, Inside(p)
    PROVE  /\ curFunction(p) \in FunctionSet /\ VarsApart(curFunction(p))
           /\ Len(p.table.functions) \in 1 .. Len(p.table.functions)
           /\ \A x : IsDeclared(p, x) <=> x \in VarsOf(curFunction(p))
           /\ VarsOf(curFunction(p)) \subseteq Here(p)
  <1>1. p.table \in Tables /\ Len(p.table.functions) > 0
    BY Typed DEF Inside, Fine
  <1>2. /\ Len(p.table.functions) \in 1 .. Len(p.table.functions)
        /\ curFunction(p) \in FunctionSet
    BY <1>1, TableParts DEF curFunction
  <1>3. VarsApart(curFunction(p))
    BY <1>2 DEF Inside, Fine, Distinct, VarsApart, curFunction
  <1>4. \A x : IsDeclared(p, x) <=> x \in VarsOf(curFunction(p))
    BY <1>2, DeclaredIsVar DEF IsDeclared
  <1>5. VarsOf(curFunction(p)) \subseteq Here(p)
    BY ReadableParts DEF Here, curFunction
  <1> QED BY <1>2, <1>3, <1>4, <1>5

(* Here the parser looks whether a variable is declared.                   *)
LEMMA ReadingDereferenced ==
    ASSUME NEW p, Inside(p)
    PROVE  GivesTree(p, parseDereferenced(p))
  <1> DEFINE a == proceed(p)
             v == parseId(a)
             r == parseDereferenced(p)
  <1>1. r = IF ~Found(v) THEN syntaxError(v, "DEREFERENCING_NO_VARIABLE")
            ELSE IF ~IsDeclared(v, Node(v).id) THEN syntaxError(a, "VARIABLE_UNDECLARED_USAGE")
            ELSE v
    BY DEF parseDereferenced
  <1>2. Onward(p, a) /\ Inside(a) /\ IsParser(a)
    BY OnwardProceed DEF Inside, Fine
  <1> HIDE DEF a
  <1>3. Past(a, v) /\ (Found(v) => \E y : Node(v) = Id(y))
    BY <1>2, ReadingId, PastSame
  <1> HIDE DEF v, r
  <1>4. Past(p, v) /\ Inside(v)
    BY <1>2, <1>3, GivesOn DEF Past, Onward
  <1>5. CASE ~Found(v)
    <2>1. r = syntaxError(v, "DEREFERENCING_NO_VARIABLE")
      BY <1>1, <1>5
    <2>2. GivesTree(p, r)
      BY <1>4, <2>1, Codes, Refused DEF Past
    <2> QED BY <2>2 DEF r
  <1>6. CASE Found(v) /\ ~IsDeclared(v, Node(v).id)
    <2>1. r = syntaxError(a, "VARIABLE_UNDECLARED_USAGE")
      BY <1>1, <1>6
    <2>2. GivesTree(p, r)
      BY <1>2, <2>1, Codes, Refused
    <2> QED BY <2>2 DEF r
  <1>7. CASE Found(v) /\ IsDeclared(v, Node(v).id)
    <2>1. r = v
      BY <1>1, <1>7
    <2>2. PICK y : Node(v) = Id(y)
      BY <1>3, <1>7
    <2>3. Node(v).id = y
      BY <2>2 DEF Id
    <2>4. y \in Here(v)
      BY <1>4, <1>7, <2>3, CurrentFunction
    <2>5. ReadsOnly(Node(v), Here(v))
      BY <2>2, <2>4, LeafReads
    <2>6. GivesTree(p, r)
      BY <1>4, <2>1, <2>5 DEF GivesTree
    <2> QED BY <2>6 DEF r
  <1> QED BY <1>5, <1>6, <1>7

LEMMA ReadingExprs ==
    ASSUME NEW inner, NEW n, NEW p, Ready(inner, n, p)
    PROVE  GivesList(p, parseExprs(inner, p))
  <1> DEFINE a == proceed(p)
             e == requireExpression(inner, a, "FUNCTION_PARAMS_NEEDED")
             s == Recur(inner, "exprs", e)
             t == Then(e, s)
             l == Further(Node(e), Node(t))
  <1>1. parseExprs(inner, p) = IF ~isKeyword(p, "COMMA") THEN Return_(p, <<>>)
                               ELSE Then(t, Return_(t, l))
    BY DEF parseExprs, Giving
  <1>2. Inside(p) /\ Onward(p, p) /\ Onward(p, a)
    BY OnwardProceed DEF Ready
  <1>3. CASE ~isKeyword(p, "COMMA")
    <2>1. ListReads(<<>>, Here(p))
      BY NoneRead
    <2> QED BY <1>1, <1>2, <1>3, <2>1, Given
  <1>4. CASE isKeyword(p, "COMMA")
    <2>1. p.offset < a.offset
      BY <1>2, <1>4, Current, OnwardProceed DEF Inside, Fine
    <2> HIDE DEF a
    <2>2. GivesTree(a, e)
      BY <1>2, <2>1, ReadyOn, Codes, RequiringExpression
    <2> HIDE DEF e
    <2>3. GivesTree(p, e) /\ Onward(p, e)
      BY <1>2, <2>2, GivesOn DEF GivesTree, Past
    <2>4. Found(e) => Behind(inner, n, e)
      BY <2>3, ReadyOn DEF GivesTree, Past, Ahead
    <2>5. Found(e) => GivesList(e, s) /\ Inside(e)
      BY <2>4 DEF Behind, Ready, InnerOK
    <2> HIDE DEF s
    <2>6. Found(e) => GivesList(p, s)
      BY <1>2, <2>3, <2>5, GivesOn
    <2>7. GivesList(p, t) /\ (Found(t) => Found(e) /\ t = s)
      BY <2>3, <2>6, Sequel DEF Then
    <2> HIDE DEF t
    <2>8. Found(t) => ListReads(Node(t), Here(t)) /\ ReadsOnly(Node(e), Here(t))
      <3> SUFFICES ASSUME Found(t)
                   PROVE  ListReads(Node(t), Here(t)) /\ ReadsOnly(Node(e), Here(t))
        OBVIOUS
      <3>1. Here(e) \subseteq Here(t)
        BY <2>5, <2>7, OnwardOn DEF GivesList
      <3>2. ReadsOnly(Node(e), Here(e))
        BY <2>3, <2>7 DEF GivesTree
      <3> QED BY <2>7, <3>1, <3>2, Widened DEF GivesList
    <2>9. Found(t) => ListReads(l, Here(t))
      BY <2>8, BackReads DEF Further
    <2> HIDE DEF l
    <2> QED BY <1>1, <1>2, <1>4, <2>7, <2>9, Wrapped DEF GivesList
  <1> QED BY <1>3, <1>4

LEMMA ReadingExprList ==
    ASSUME NEW inner, NEW n, NEW p, Behind(inner, n, p)
    PROVE  GivesList(p, parseExprList(inner, p))
  <1> DEFINE e == Recur(inner, "expression", p)
             s == Recur(inner, "exprs", e)
             t == Then(e, s)
             l == Further(Node(e), Node(t))
  <1>1. GivesTree(p, e) /\ Inside(p) /\ Ready(inner, n, p)
    BY DEF Behind, Ready, InnerOK
  <1> HIDE DEF e
  <1>2. Onward(p, e)
    BY <1>1 DEF GivesTree, Past
  <1>3. Behind(inner, n, e)
    BY <1>1, <1>2, ReadyOn
  <1>4. GivesList(e, s) /\ Inside(e)
    BY <1>3 DEF Behind, Ready, InnerOK
  <1> HIDE DEF s
  <1>5. GivesList(p, s)
    BY <1>1, <1>2, <1>4, GivesOn
  <1>6. GivesList(p, t) /\ (Found(t) => Found(e) /\ t = s)
    BY <1>2, <1>5, Sequel DEF Then
  <1> HIDE DEF t
  <1>7. Found(t) => ListReads(Node(t), Here(t)) /\ ReadsOnly(Node(e), Here(t))
    <2> SUFFICES ASSUME Found(t)
                 PROVE  ListReads(Node(t), Here(t)) /\ ReadsOnly(Node(e), Here(t))
      OBVIOUS
    <2>1. Here(e) \subseteq Here(t)
      BY <1>4, <1>6, OnwardOn DEF GivesList
    <2>2. ReadsOnly(Node(e), Here(e))
      BY <1>1, <1>6 DEF GivesTree
    <2> QED BY <1>6, <2>1, <2>2, Widened DEF GivesList
  <1>8. Found(t) => ListReads(l, Here(t))
    BY <1>7, BackReads DEF Further
  <1> HIDE DEF l
  <1>9. GivesList(p, Then(t, Return_(t, l)))
    BY <1>1, <1>6, <1>8, Wrapped DEF GivesList
  <1> QED BY <1>9 DEF parseExprList, e, s, t, l, Giving

LEMMA ReadingCall ==
    ASSUME NEW inner, NEW n, NEW p, Ready(inner, n, p), tokensLeft(p) > 0
    PROVE  GivesTree(p, parseCall(inner, p))
  <1> DEFINE a    == proceed(p)
             name == requireIdToken(a)
             b    == requireBracket(name)
             open == Then(name, b)
             none == isKeyword(open, "BRACKET")
             list == IF none THEN Return_(open, <<>>) ELSE parseExprList(inner, open)
             alt  == Else(list, syntaxError(list, "FUNCTION_PARAMS_NEEDED"))
             params == Then(open, alt)
             d    == requireBracket(params)
             closed == Then(params, d)
             m    == CallOf(curToken(a).id, Node(params))
  <1>1. parseCall(inner, p) = Then(closed, Return_(closed, m))
    BY DEF parseCall, Giving, WithBracket, callParams, Required
  <1>2. Inside(p) /\ Onward(p, a) /\ p.offset < a.offset /\ Inside(a) /\ IsParser(a)
    BY OnwardProceed DEF Ready, Inside, Fine
  <1> HIDE DEF a
  <1>3. Onward(a, name) /\ Inside(name)
    BY <1>2, RequiringId, PastSame DEF Past, Onward
  <1> HIDE DEF name
  <1>4. Past(name, b)
    BY <1>3, Codes, KeywordPast DEF requireBracket
  <1> HIDE DEF b
  <1>5. Onward(a, open)
    BY <1>2, <1>3, <1>4, OnwardOn DEF Then, Past
  <1>6. Onward(p, open) /\ p.offset < open.offset
    BY <1>2, <1>5, OnwardOn
  <1>7. Found(open) => Behind(inner, n, open)
    BY <1>6, ReadyOn
  <1> HIDE DEF open
  <1>8. GivesList(open, list)
    <2>1. CASE none
      <3>1. ListReads(<<>>, Here(open)) /\ Inside(open) /\ Onward(open, open)
        BY <1>6, NoneRead, OnwardProceed DEF Onward
      <3> QED BY <2>1, <3>1, Given
    <2>2. CASE ~none
      <3>1. Behind(inner, n, open)
        BY <1>6, ReadyOn
      <3> QED BY <2>2, <3>1, ReadingExprList
    <2> QED BY <2>1, <2>2
  <1> HIDE DEF list
  <1>9. Inside(open)
    BY <1>6 DEF Onward
  <1>10. GivesList(open, alt)
    <2>1. CASE Found(list)
      BY <1>8, <2>1 DEF Else
    <2>2. CASE ~Found(list)
      BY <1>8, <1>9, <2>2, Codes, Refused DEF Else, GivesList
    <2> QED BY <2>1, <2>2
  <1> HIDE DEF alt
  <1>11. GivesList(open, params)
    <2>1. Onward(open, open)
      BY <1>9, OnwardProceed
    <2> QED BY <1>10, <2>1, Sequel
  <1> HIDE DEF params
  <1>12. Past(params, d) /\ Here(d) = Here(params)
    BY <1>11, Codes, KeywordPast DEF requireBracket, GivesList, Onward
  <1> HIDE DEF d
  <1>13. Onward(p, closed) /\ p.offset < closed.offset
    <2>1. Onward(open, closed)
      <3>1. Onward(open, params) /\ Onward(params, d)
        BY <1>11, <1>12 DEF GivesList, Past
      <3>2. Onward(open, d)
        BY <1>9, <3>1, OnwardOn
      <3> QED BY <3>1, <3>2 DEF Then
    <2> HIDE DEF closed
    <2> QED BY <1>2, <1>6, <2>1, OnwardOn
  <1>14. Found(closed) => ListReads(Node(params), Here(closed))
    BY <1>11, <1>12 DEF Then, GivesList
  <1> HIDE DEF closed
  <1>15. Found(closed) => ReadsOnly(m, Here(closed))
    BY <1>14, CallReads
  <1> HIDE DEF m
  <1>16. GivesTree(p, Then(closed, Return_(closed, m)))
    BY <1>2, <1>13, <1>15, Wrapped DEF Past, Ahead
  <1> QED BY <1>1, <1>16

LEMMA ReadingFactor ==
    ASSUME NEW inner, NEW n, NEW p, Ready(inner, n, p)
    PROVE  GivesTree(p, parseFactor(inner, p))
  <1> DEFINE q == parseMemAccess(inner, p)
             scan == Return_(proceed(q), CallOf("accio", <<>>))
             rand == Return_(proceed(q), CallOf("riddikulus", <<>>))
             r == parseFactor(inner, p)
             other == CASE isKeyword(q, "BRACKET")    -> parseBrackets(inner, q)
                        [] isKeyword(q, "DEREF")      -> parseDereferenced(q)
                        [] isKeyword(q, "CALL")       -> parseCall(inner, q)
                        [] isKeyword(q, "SQRT")       -> parseStandardFunc(inner, q, "crucio")
                        [] isKeyword(q, "SCAN")       -> scan
                        [] isKeyword(q, "SCAN_FLOAT") -> parseScanFloat(inner, q)
                        [] isKeyword(q, "RAND_JUMP")  -> rand
                        [] OTHER -> q
  <1>1. r = CASE curToken(p).type = "NUMBER_TOKEN_TYPE" -> parseNumber(p)
              [] curToken(p).type # "NUMBER_TOKEN_TYPE" /\ Found(q) -> q
              [] OTHER -> other
    BY Zenon DEF parseFactor, factorOf
  <1>2. GivesTree(p, q) /\ Inside(p) /\ Onward(p, q)
    BY ReadingMemAccess DEF GivesTree, Past, Ready
  <1> HIDE DEF q, other
  <1>3. Ready(inner, n, q) /\ Inside(q) /\ \A k : isKeyword(q, k) => tokensLeft(q) > 0
    BY <1>2, ReadyOn, Current DEF Inside, Fine
  <1>4. isKeyword(q, "SCAN") => GivesTree(q, scan)
    <2>1. ReadsOnly(CallOf("accio", <<>>), Here(proceed(q)))
      BY NoneRead, CallReads
    <2> QED BY <1>3, <2>1, OnwardProceed, Given
  <1>5. isKeyword(q, "RAND_JUMP") => GivesTree(q, rand)
    <2>1. ReadsOnly(CallOf("riddikulus", <<>>), Here(proceed(q)))
      BY NoneRead, CallReads
    <2> QED BY <1>3, <2>1, OnwardProceed, Given
  <1> HIDE DEF r, scan, rand
  <1>6. CASE curToken(p).type = "NUMBER_TOKEN_TYPE"
    <2>1. Past(p, parseNumber(p))
      BY <1>2, ReadingNumber, PastSame DEF Inside, Fine
    <2>2. Found(parseNumber(p)) => ReadsOnly(Node(parseNumber(p)), Here(parseNumber(p)))
      BY <1>2, ReadingNumber, LeafReads DEF Inside, Fine
    <2> QED BY <1>1, <1>6, <2>1, <2>2 DEF GivesTree, r
  <1>7. CASE curToken(p).type # "NUMBER_TOKEN_TYPE" /\ Found(q)
    BY <1>1, <1>2, <1>7 DEF r
  <1>8. CASE curToken(p).type # "NUMBER_TOKEN_TYPE" /\ ~Found(q)
    <2>1. GivesTree(q, q)
      BY <1>3, <1>8, OnwardProceed, NothingGiven
    <2>2. isKeyword(q, "BRACKET") => GivesTree(q, parseBrackets(inner, q))
      BY <1>3, ReadingBrackets
    <2>3. isKeyword(q, "DEREF") => GivesTree(q, parseDereferenced(q))
      BY <1>3, ReadingDereferenced
    <2>4. isKeyword(q, "CALL") => GivesTree(q, parseCall(inner, q))
      BY <1>3, ReadingCall
    <2>5. isKeyword(q, "SQRT") => GivesTree(q, parseStandardFunc(inner, q, "crucio"))
      BY <1>3, ReadingStandardFunc
    <2>6. isKeyword(q, "SCAN_FLOAT") => GivesTree(q, parseScanFloat(inner, q))
      BY <1>3, ReadingScanFloat
    <2>7. r = other
      BY <1>1, <1>8
    <2>8. GivesTree(q, r)
      BY <1>4, <1>5, <2>1, <2>2, <2>3, <2>4, <2>5, <2>6, <2>7 DEF other
    <2> QED BY <1>2, <2>8, GivesOn DEF r
  <1> QED BY <1>6, <1>7, <1>8

LEMMA ReadingLevel ==
    ASSUME NEW inner, NEW n, NEW p, Ready(inner, n, p), NEW level \in 1 .. 3,
           NEW first, GivesTree(p, first)
    PROVE  GivesTree(p, parseLevel(inner, first, level))
  <1> DEFINE s == Recur(inner, Operands[level], first)
             m == Leftwards(Node(first), Node(s))
             t == Then(s, Return_(s, m))
  <1>1. Inside(p) /\ Onward(p, first)
    BY DEF GivesTree, Past, Ready
  <1>2. Found(first) => Behind(inner, n, first) /\ Inside(first)
    BY <1>1, ReadyOn DEF GivesTree, Past, Ahead
  <1>3. Found(first) => GivesOperands(first, s)
    BY <1>2 DEF Behind, Ready, InnerOK
  <1> HIDE DEF s
  <1>4. Found(first) => GivesTree(p, t)
    <2> SUFFICES ASSUME Found(first) PROVE GivesTree(p, t)
      OBVIOUS
    <2>1. Onward(first, s) /\ Here(first) \subseteq Here(s) /\ p.offset < first.offset
      BY <1>2, <1>3, OnwardOn DEF GivesOperands, GivesTree, Past, Ahead
    <2>2. Onward(p, s) /\ p.offset < s.offset
      BY <1>1, <2>1, OnwardOn
    <2>3. Found(s) => ReadsOnly(m, Here(s))
      <3>1. ReadsOnly(Node(first), Here(s))
        BY <2>1, Widened DEF GivesTree
      <3> QED BY <1>3, <3>1, LeftwardsReads DEF GivesOperands
    <2> HIDE DEF m
    <2> QED BY <1>1, <2>2, <2>3, Wrapped DEF Past, Ahead
  <1> HIDE DEF t
  <1>5. GivesTree(p, Then(first, t))
    BY <1>1, <1>4, Sequel
  <1> QED BY <1>5 DEF parseLevel, t, s, m, Giving

LEMMA ReadingExpression ==
    ASSUME NEW inner, NEW n, NEW p, Ready(inner, n, p)
    PROVE  /\ GivesTree(p, parseTerm(inner, p))
           /\ GivesTree(p, parseComparand(inner, p))
           /\ GivesTree(p, parseExpression(inner, p))
  <1>1. GivesTree(p, parseTerm(inner, p))
    BY ReadingFactor, ReadingLevel DEF parseTerm
  <1>2. GivesTree(p, parseComparand(inner, p))
    BY <1>1, ReadingLevel DEF parseComparand
  <1>3. GivesTree(p, parseExpression(inner, p))
    BY <1>2, ReadingLevel DEF parseExpression
  <1> QED BY <1>1, <1>2, <1>3

LEMMA ReadingOperands ==
    ASSUME NEW inner, NEW n, NEW p, Ready(inner, n, p), NEW level \in 1 .. 3,
           NEW second, GivesTree(proceed(p), second)
    PROVE  GivesOperands(p, parseOperands(inner, p, second, level))
  <1> DEFINE a == proceed(p)
             s == Recur(inner, Operands[level], second)
             e == [operation |-> Operations[level][curToken(p).keyword], operand |-> Node(second)]
             l == <<e>> \o Node(s)
             r == parseOperands(inner, p, second, level)
  <1>1. r = IF ~IsOperation(p, level) THEN Return_(p, <<>>)
            ELSE IF ~Found(second) THEN syntaxError(second, OperandMissing[level])
            ELSE Then(s, Return_(s, l))
    BY DEF parseOperands, Giving
  <1>2. e.operand = Node(second)
    OBVIOUS
  <1> HIDE DEF e
  <1>3. Inside(p) /\ Onward(p, p) /\ Onward(p, a) /\ Inside(a)
    BY OnwardProceed DEF Ready
  <1>4. GivesTree(p, second) /\ Onward(p, second)
    <2> HIDE DEF a
    <2>1. GivesTree(p, second)
      BY <1>3, GivesOn DEF a
    <2> QED BY <2>1 DEF GivesTree, Past
  <1> HIDE DEF r
  <1>5. CASE ~IsOperation(p, level)
    <2>1. ListReads(<<>>, Here(p)) /\ OperandsRead(<<>>, Here(p))
      BY NoneRead
    <2>2. GivesOperands(p, r)
      BY <1>1, <1>3, <1>5, <2>1, Given
    <2> QED BY <2>2 DEF r
  <1>6. CASE IsOperation(p, level) /\ ~Found(second)
    <2>1. OperandMissing[level] \in Statuses
      <3>1. level = 1 \/ level = 2 \/ level = 3
        OBVIOUS
      <3>2. OperandMissing[1] = "COMPARAND_NOT_FOUND" /\ OperandMissing[2] = "TERM_NOT_FOUND"
            /\ OperandMissing[3] = "FACTOR_NOT_FOUND"
        BY DEF OperandMissing
      <3> QED BY <3>1, <3>2, Codes
    <2>2. GivesOperands(p, r)
      BY <1>1, <1>3, <1>4, <1>6, <2>1, Refused
    <2> QED BY <2>2 DEF r
  <1>7. CASE IsOperation(p, level) /\ Found(second)
    <2>1. Behind(inner, n, second) /\ Inside(second)
      BY <1>4, <1>7, ReadyOn DEF GivesTree, Past, Ahead
    <2>2. GivesOperands(second, s)
      BY <2>1 DEF Behind, Ready, InnerOK
    <2> HIDE DEF s
    <2>3. GivesOperands(p, s) /\ Here(second) \subseteq Here(s)
      BY <1>3, <1>4, <2>1, <2>2, GivesOn, OnwardOn DEF GivesOperands
    <2>4. ReadsOnly(e.operand, Here(s))
      BY <1>2, <1>4, <1>7, <2>3, Widened DEF GivesTree
    <2>5. Found(s) => OperandsRead(l, Here(s))
      BY <2>3, <2>4, FrontOperandReads DEF GivesOperands
    <2> HIDE DEF l
    <2>6. GivesOperands(p, Then(s, Return_(s, l)))
      BY <1>3, <2>3, <2>5, Wrapped DEF GivesOperands
    <2> QED BY <1>1, <1>7, <2>6 DEF r
  <1> QED BY <1>5, <1>6, <1>7

-----------------------------------------------------------------------------
(* Statements.                                                             *)
LEMMA WithingTable ==
    ASSUME NEW p, Fine(p), NEW u \in Tables, Distinct(u)
    PROVE  LET q == WithTable(p, u)
           IN /\ Fine(q) /\ q.table = u /\ q.offset = p.offset /\ q.node = p.node
              /\ Inside(p) /\ Later(p.table, u) /\ Len(u.functions) = Len(p.table.functions)
                    => Onward(p, q)
  <1> DEFINE q == WithTable(p, u)
  <1>1. IsParser(q) /\ q.table = u /\ q.offset = p.offset /\ q.node = p.node
    BY DEF Fine, IsParser, WithTable
  <1> HIDE DEF q
  <1>2. p.offset \in Nat
    BY Typed DEF Fine
  <1> QED BY <1>1, <1>2 DEF Fine, Inside, Onward, q

LEMMA WithingCurrent ==
    ASSUME NEW p, Inside(p), NEW f, Extends(curFunction(p), f)
    PROVE  LET q == WithCurrent(p, f)
           IN /\ Onward(p, q) /\ curFunction(q) = f
              /\ q.offset = p.offset /\ q.node = p.node
  <1> DEFINE u == [p.table EXCEPT !.functions = [@ EXCEPT ![Len(@)] = f]]
  <1>1. p.table \in Tables /\ Distinct(p.table) /\ Len(p.table.functions) > 0 /\ Fine(p)
    BY Typed DEF Inside, Fine
  <1>2. /\ u \in Tables /\ Distinct(u) /\ Later(p.table, u)
        /\ Len(u.functions) = Len(p.table.functions)
        /\ u.functions[Len(u.functions)] = f
    BY <1>1, Replacing DEF curFunction
  <1> HIDE DEF u
  <1>3. WithCurrent(p, f) = WithTable(p, u)
    BY DEF WithCurrent, u
  <1> QED BY <1>1, <1>2, <1>3, WithingTable DEF curFunction

LEMMA ReadingLValue ==
    ASSUME NEW inner, NEW n, NEW p, Ready(inner, n, p)
    PROVE  LET v == parseLValue(inner, p)
           IN /\ Past(p, v)
              /\ Found(v) => Node(v).type = "ID_TYPE" \/ ReadsOnly(Node(v), Here(v))
  <1> DEFINE e == parseMemAccess(inner, p)
             x == parseId(e)
  <1>1. parseLValue(inner, p) = IF Found(e) THEN e ELSE x
    BY DEF parseLValue, Else
  <1>2. GivesTree(p, e) /\ Inside(p) /\ Onward(p, e) /\ Inside(e) /\ IsParser(e)
    BY ReadingMemAccess DEF GivesTree, Past, Ready, Onward, Inside, Fine
  <1> HIDE DEF e
  <1>3. Past(e, x) /\ (Found(x) => \E y : Node(x) = Id(y))
    BY <1>2, ReadingId, PastSame
  <1> HIDE DEF x
  <1>4. Past(p, x) /\ (Found(x) => Node(x).type = "ID_TYPE")
    BY <1>2, <1>3, GivesOn DEF Id
  <1> QED BY <1>1, <1>2, <1>4 DEF GivesTree

GivesAssignment(p, q) ==
    /\ Past(p, q)
    /\ Found(q) => \E v, e : /\ Node(q) = Assign(v, e)
                             /\ v.type = "ID_TYPE" \/ ReadsOnly(v, Here(q))
                             /\ ReadsOnly(e, Here(q))

LEMMA ReadingAssignment ==
    ASSUME NEW inner, NEW n, NEW p, Ready(inner, n, p)
    PROVE  GivesAssignment(p, parseAssignment(inner, p)) /\ GivesTree(p, parseAssignment(inner, p))
  <1> DEFINE v == parseLValue(inner, p)
             a == proceed(v)
             e == requireExpression(inner, a, "VARIABLE_ASSIGNMENT_NO_EXPRESSION")
             back == [v EXCEPT !.offset = p.offset]
             m == Assign(Node(v), Node(e))
             r == parseAssignment(inner, p)
  <1>1. r = IF ~Found(v) THEN v
            ELSE IF ~isKeyword(v, "ASSIGN") THEN Nothing(back)
            ELSE Then(e, Return_(e, m))
    BY DEF parseAssignment, assignmentTo, Giving
  <1>2. /\ Past(p, v) /\ Onward(p, v) /\ Inside(v) /\ Inside(p)
        /\ Found(v) => Node(v).type = "ID_TYPE" \/ ReadsOnly(Node(v), Here(v))
    BY ReadingLValue DEF Past, Onward, Ready
  <1> HIDE DEF v, r
  <1>3. CASE ~Found(v)
    <2>1. Past(p, r) /\ ~Found(r)
      BY <1>1, <1>2, <1>3
    <2> QED BY <2>1 DEF GivesAssignment, GivesTree, r
  <1>4. CASE Found(v) /\ ~isKeyword(v, "ASSIGN")
    <2>1. IsParser(back) /\ back.offset = p.offset /\ back.table = v.table
      <3>1. p.offset \in 0 .. Len(tokens) /\ IsParser(v)
        BY <1>2, Typed DEF Inside, Fine
      <3> QED BY <3>1 DEF IsParser
    <2> HIDE DEF back
    <2>2. p.offset <= p.offset
      BY <1>2, Typed DEF Inside, Fine
    <2>3. Onward(p, back)
      BY <1>2, <2>1, <2>2 DEF Onward, Inside, Fine
    <2>4. Past(p, r) /\ ~Found(r)
      BY <1>1, <1>2, <1>4, <2>3, Refused
    <2> QED BY <2>4 DEF GivesAssignment, GivesTree, r
  <1>5. CASE Found(v) /\ isKeyword(v, "ASSIGN")
    <2>1. Onward(v, a) /\ v.offset < a.offset
      BY <1>2, <1>5, Current, OnwardProceed DEF Inside, Fine
    <2>2. Ready(inner, n, v)
      BY <1>2, ReadyOn
    <2> HIDE DEF a
    <2>3. GivesTree(a, e) /\ Inside(a)
      BY <2>1, <2>2, ReadyOn, Codes, RequiringExpression DEF Onward
    <2> HIDE DEF e
    <2>4. GivesTree(v, e)
      BY <1>2, <2>1, <2>3, GivesOn
    <2>5. GivesTree(p, e) /\ Here(v) \subseteq Here(e)
      BY <1>2, <2>4, GivesOn, OnwardOn DEF GivesTree, Past
    <2>6. Found(e) => \/ Node(v).type = "ID_TYPE" \/ ReadsOnly(Node(v), Here(e))
      BY <1>2, <1>5, <2>5, Widened
    <2>7. Found(e) => ReadsOnly(Node(e), Here(e))
      BY <2>5 DEF GivesTree
    <2>8. Found(e) => ReadsOnly(m, Here(e))
      BY <2>6, <2>7, AssignReads
    <2> DEFINE t == Return_(e, m)
    <2>9. r = Then(e, t)
      BY <1>1, <1>5
    <2>10. Node(t) = m /\ Here(t) = Here(e)
      <3>1. IsParser(e) /\ Inside(e)
        BY <2>5 DEF GivesTree, Past, Onward, Inside, Fine
      <3> HIDE DEF m
      <3> QED BY <3>1, Returning, OnwardSame
    <2>11. GivesTree(p, Then(e, t))
      <3> HIDE DEF m
      <3> QED BY <1>2, <2>5, <2>8, Wrapped DEF GivesTree, Past
    <2>12. Found(r) => Found(e) /\ r = t
      BY <2>9 DEF Then
    <2> HIDE DEF t
    <2>13. Found(r) => \E w, f : /\ Node(r) = Assign(w, f)
                                 /\ w.type = "ID_TYPE" \/ ReadsOnly(w, Here(r))
                                 /\ ReadsOnly(f, Here(r))
      BY <2>6, <2>7, <2>10, <2>12
    <2>14. GivesTree(p, r) /\ GivesAssignment(p, r)
      BY <2>9, <2>11, <2>13 DEF GivesAssignment, GivesTree
    <2> QED BY <2>14 DEF r
  <1> QED BY <1>3, <1>4, <1>5

LEMMA Declaring ==
    ASSUME NEW p, Inside(p), NEW error \in Statuses
    PROVE  Onward(p, declare(p, error))
  <1> DEFINE x == curToken(p).id
             f == pushVariable(curFunction(p), x)
             q == WithCurrent(p, f)
  <1>1. declare(p, error) = IF ~isIdType(p) THEN syntaxError(p, error)
                            ELSE IF IsDeclared(p, x)
                                 THEN syntaxError(p, "VARIABLE_SECOND_DECLARATION")
                            ELSE Passed(q)
    BY DEF declare
  <1>2. Onward(p, p) /\ IsParser(p)
    BY OnwardProceed
  <1>3. CASE ~isIdType(p)
    BY <1>1, <1>2, <1>3, Refused
  <1>4. CASE isIdType(p) /\ IsDeclared(p, x)
    BY <1>1, <1>2, <1>4, Codes, Refused
  <1>5. CASE isIdType(p) /\ ~IsDeclared(p, x)
    <2>1. x \in Names
      BY <1>2, <1>5, Current
    <2>2. Extends(curFunction(p), f)
      BY <1>5, <2>1, CurrentFunction, PushingVariable
    <2> HIDE DEF f
    <2>3. Onward(p, q)
      BY <2>2, WithingCurrent
    <2> HIDE DEF q
    <2>4. Onward(p, Passed(q))
      BY <2>3, Given DEF Passed
    <2> QED BY <1>1, <1>5, <2>4
  <1> QED BY <1>3, <1>4, <1>5

LEMMA ReadingVDeclaration ==
    ASSUME NEW inner, NEW n, NEW p, Ready(inner, n, p)
    PROVE  GivesTree(p, parseVDeclaration(inner, p))
  <1> DEFINE a == proceed(p)
             d == declare(a, "VARIABLE_DECLARATION_NO_ASSIGNMENT")
             s == parseAssignment(inner, d)
             m == [Node(s) EXCEPT !.type = "VDECL_TYPE"]
             t == Return_(s, m)
             r == parseVDeclaration(inner, p)
  <1>1. r = IF ~isKeyword(p, "VDECL") THEN Nothing(p)
            ELSE IF ~Found(d) THEN d
            ELSE IF Found(s) THEN t
            ELSE syntaxError(s, "VARIABLE_DECLARATION_NO_ASSIGNMENT")
    BY DEF parseVDeclaration, declaredBy
  <1>2. Inside(p) /\ Onward(p, p) /\ Onward(p, a) /\ Inside(a)
    BY OnwardProceed DEF Ready
  <1> HIDE DEF a
  <1>3. Onward(p, d)
    BY <1>2, Codes, Declaring, OnwardOn
  <1> HIDE DEF d
  <1>4. GivesAssignment(d, s)
    BY <1>3, ReadyOn, ReadingAssignment
  <1> HIDE DEF s, t, r
  <1>5. Past(p, s) /\ Onward(p, s)
    BY <1>2, <1>3, <1>4, GivesOn DEF GivesAssignment, Past
  <1>6. CASE ~isKeyword(p, "VDECL")
    <2>1. GivesTree(p, r)
      BY <1>1, <1>2, <1>6, Refused
    <2> QED BY <2>1 DEF r
  <1>7. CASE isKeyword(p, "VDECL") /\ ~Found(d)
    <2>1. GivesTree(p, r)
      BY <1>1, <1>3, <1>7, NothingGiven
    <2> QED BY <2>1 DEF r
  <1>8. CASE isKeyword(p, "VDECL") /\ Found(d) /\ ~Found(s)
    <2>1. GivesTree(p, r)
      BY <1>1, <1>2, <1>5, <1>8, Codes, Refused
    <2> QED BY <2>1 DEF r
  <1>9. CASE isKeyword(p, "VDECL") /\ Found(d) /\ Found(s)
    <2>1. ReadsOnly(m, Here(s))
      BY <1>4, <1>9, AssignReads DEF GivesAssignment
    <2> HIDE DEF m
    <2>2. p.offset < s.offset
      BY <1>5, <1>9 DEF Past, Ahead
    <2>3. GivesTree(p, t)
      BY <1>2, <1>5, <2>1, <2>2, Given DEF t
    <2>4. r = t
      BY <1>1, <1>9
    <2> QED BY <2>3, <2>4 DEF r
  <1> QED BY <1>6, <1>7, <1>8, <1>9

LEMMA ReadingADeclaration ==
    ASSUME NEW inner, NEW n, NEW p, Ready(inner, n, p)
    PROVE  GivesTree(p, parseADeclaration(inner, p))
  <1> DEFINE a == proceed(p)
             d == declare(a, "ID_NEEDED")
             b == proceed(d)
             e == requireAfter(inner, b, "COMMA", "ARRAY_DECLARATION_NO_COMMA",
                               "ARRAY_DECLARATION_NO_SIZE")
             s == Then(d, e)
             m == ADecl(curToken(d).id, Node(s))
  <1>1. parseADeclaration(inner, p) = IF ~isKeyword(p, "ADECL") THEN Nothing(p)
                                      ELSE Then(s, Return_(s, m))
    BY DEF parseADeclaration, Giving
  <1>2. Inside(p) /\ Onward(p, p) /\ Onward(p, a) /\ Inside(a)
    BY OnwardProceed DEF Ready
  <1>3. CASE ~isKeyword(p, "ADECL")
    BY <1>1, <1>2, <1>3, Refused
  <1>4. CASE isKeyword(p, "ADECL")
    <2>1. p.offset < a.offset
      BY <1>2, <1>4, Current, OnwardProceed DEF Inside, Fine
    <2> HIDE DEF a
    <2>2. Onward(p, d)
      BY <1>2, Codes, Declaring, OnwardOn
    <2> HIDE DEF d
    <2>3. Onward(p, b)
      BY <1>2, <2>2, OnwardProceed, OnwardOn DEF Onward
    <2> HIDE DEF b
    <2>4. GivesTree(b, e)
      BY <2>3, ReadyOn, Codes, RequiringAfter
    <2> HIDE DEF e
    <2>5. GivesTree(p, e)
      BY <1>2, <2>3, <2>4, GivesOn
    <2>6. GivesTree(p, s)
      BY <2>2, <2>5, Sequel
    <2> HIDE DEF s
    <2>7. Found(s) => ReadsOnly(m, Here(s))
      BY <2>6, OneChildReads DEF GivesTree
    <2> HIDE DEF m
    <2> QED BY <1>1, <1>2, <1>4, <2>6, <2>7, Wrapped DEF GivesTree, Past
  <1> QED BY <1>3, <1>4

LEMMA ReadingJump ==
    ASSUME NEW inner, NEW n, NEW p, Ready(inner, n, p)
    PROVE  /\ GivesTree(p, parseJump(inner, p))
           /\ GivesTree(p, parsePrint(inner, p))
  <1>1. Inside(p) /\ Onward(p, p) /\ IsParser(p)
    BY OnwardProceed DEF Ready
  <1> DEFINE a == proceed(p)
             e == requireExpression(inner, a, "RETURN_EXPRESSION_NEEDED")
             f == requireExpression(inner, a, "PRINT_EXPRESSION_NEEDED")
  <1>2. ASSUME NEW k, isKeyword(p, k)
        PROVE  GivesTree(p, e) /\ GivesTree(p, f)
    <2>1. Onward(p, a) /\ p.offset < a.offset
      BY <1>1, <1>2, Current, OnwardProceed
    <2> HIDE DEF a
    <2>2. Behind(inner, n, a)
      BY <2>1, ReadyOn
    <2>3. GivesTree(a, e) /\ GivesTree(a, f)
      BY <2>2, Codes, RequiringExpression
    <2> QED BY <1>1, <2>1, <2>3, GivesOn
  <1> HIDE DEF a, e, f
  <1>3. GivesTree(p, parseJump(inner, p))
    <2> DEFINE m == Return(Node(e))
    <2>1. parseJump(inner, p) = IF ~isKeyword(p, "RETURN") THEN Nothing(p)
                                ELSE Then(e, Return_(e, m))
      BY DEF parseJump, e, a, Giving
    <2>2. CASE ~isKeyword(p, "RETURN")
      BY <1>1, <2>1, <2>2, Refused
    <2>3. CASE isKeyword(p, "RETURN")
      <3>1. GivesTree(p, e)
        BY <1>2, <2>3
      <3>2. Found(e) => ReadsOnly(m, Here(e))
        BY <3>1, OneChildReads DEF GivesTree
      <3> HIDE DEF m
      <3> QED BY <1>1, <2>1, <2>3, <3>1, <3>2, Wrapped DEF GivesTree, Past
    <2> QED BY <2>2, <2>3
  <1>4. GivesTree(p, parsePrint(inner, p))
    <2> DEFINE m == CallOf("flagrate", <<Node(f)>>)
    <2>1. parsePrint(inner, p) = IF ~isKeyword(p, "PRINT") THEN Nothing(p)
                                 ELSE Then(f, Return_(f, m))
      BY DEF parsePrint, f, a, Giving
    <2>2. CASE ~isKeyword(p, "PRINT")
      BY <1>1, <2>1, <2>2, Refused
    <2>3. CASE isKeyword(p, "PRINT")
      <3>1. GivesTree(p, f)
        BY <1>2, <2>3
      <3>2. Found(f) => ReadsOnly(m, Here(f))
        BY <3>1, FewRead, CallReads DEF GivesTree
      <3> HIDE DEF m
      <3> QED BY <1>1, <2>1, <2>3, <3>1, <3>2, Wrapped DEF GivesTree, Past
    <2> QED BY <2>2, <2>3
  <1> QED BY <1>3, <1>4

LEMMA ReadingPrintFloat ==
    ASSUME NEW inner, NEW n, NEW p, Ready(inner, n, p)
    PROVE  GivesTree(p, parsePrintFloat(inner, p))
  <1> DEFINE a == proceed(p)
             w == requireExpression(inner, a, "PRINT_FLOAT_PRECISION_NEEDED")
             v == requireAfter(inner, w, "COMMA", "PRINT_FLOAT_NO_COMMA",
                               "PRINT_FLOAT_EXPRESSION_NEEDED")
             e == Then(w, v)
             m == PrintFloat(Node(e), Node(w))
  <1>1. parsePrintFloat(inner, p) = IF ~isKeyword(p, "PRINT_FLOAT") THEN Nothing(p)
                                    ELSE Then(e, Return_(e, m))
    BY DEF parsePrintFloat, Giving
  <1>2. Inside(p) /\ Onward(p, p) /\ IsParser(p) /\ Onward(p, a)
    BY OnwardProceed DEF Ready
  <1>3. CASE ~isKeyword(p, "PRINT_FLOAT")
    BY <1>1, <1>2, <1>3, Refused
  <1>4. CASE isKeyword(p, "PRINT_FLOAT")
    <2>1. p.offset < a.offset
      BY <1>2, <1>4, Current, OnwardProceed
    <2> HIDE DEF a
    <2>2. GivesTree(a, w)
      BY <1>2, <2>1, ReadyOn, Codes, RequiringExpression
    <2> HIDE DEF w
    <2>3. GivesTree(p, w) /\ Onward(p, w) /\ Inside(w)
      BY <1>2, <2>2, GivesOn DEF GivesTree, Past, Onward
    <2>4. GivesTree(w, v)
      BY <2>3, ReadyOn, Codes, RequiringAfter
    <2> HIDE DEF v
    <2>5. GivesTree(p, v) /\ Here(w) \subseteq Here(v)
      BY <1>2, <2>3, <2>4, GivesOn, OnwardOn DEF GivesTree, Past
    <2>6. GivesTree(p, e) /\ (Found(e) => Found(w) /\ e = v)
      BY <2>3, <2>5, Sequel DEF Then
    <2> HIDE DEF e
    <2>7. Found(e) => ReadsOnly(Node(e), Here(e)) /\ ReadsOnly(Node(w), Here(e))
      BY <2>3, <2>5, <2>6, Widened DEF GivesTree
    <2>8. Found(e) => ReadsOnly(m, Here(e))
      BY <2>7, FewRead, CallReads DEF PrintFloat
    <2> HIDE DEF m
    <2> QED BY <1>1, <1>2, <1>4, <2>6, <2>8, Wrapped DEF GivesTree, Past
  <1> QED BY <1>3, <1>4

LEMMA PrintingString ==
    ASSUME NEW p, Inside(p), NEW q, Onward(p, q), p.offset < q.offset,
           NEW node, ReadsOnly(node, Here(q))
    PROVE  GivesTree(p, PrintString(q, node))
  <1>1. ReadsOnly(CallOf("flagrate_s", <<node>>), Here(q))
    BY FewRead, CallReads
  <1> QED BY <1>1, Given DEF PrintString

LEMMA PrintingLiteral ==
    ASSUME NEW p, Inside(p), NEW q, Onward(p, q), p.offset < q.offset, NEW s \in Contents
    PROVE  GivesTree(p, PrintLiteral(q, s))
  <1> DEFINE u == [q.table EXCEPT !.strings = pushLiteral(@, s)]
             w == WithTable(q, u)
  <1>1. PrintLiteral(q, s) = IF s = Unnamed THEN syntaxError(q, "KILLED")
                             ELSE PrintString(w, String(s))
    BY DEF PrintLiteral
  <1>2. Inside(q) /\ Fine(q) /\ q.table \in Tables /\ Distinct(q.table)
    BY Typed DEF Onward, Inside, Fine
  <1>3. u \in Tables /\ Distinct(u) /\ Later(q.table, u) /\ u.functions = q.table.functions
    BY <1>2, PushingLiteral
  <1> HIDE DEF u
  <1>4. Onward(q, w)
    BY <1>2, <1>3, WithingTable
  <1> HIDE DEF w
  <1>5. Onward(p, w) /\ p.offset < w.offset
    BY <1>4, OnwardOn
  <1>6. ReadsOnly(String(s), Here(w))
    BY LeafReads
  <1>7. GivesTree(p, PrintString(w, String(s)))
    BY <1>5, <1>6, PrintingString
  <1>8. GivesTree(p, syntaxError(q, "KILLED"))
    BY Codes, Refused
  <1> QED BY <1>1, <1>7, <1>8

(* Here the parser looks whether a string is declared.                     *)
LEMMA ReadingPrintString ==
    ASSUME NEW inner, NEW p, Inside(p)
    PROVE  GivesTree(p, parsePrintString(inner, p))
  <1> DEFINE a == proceed(p)
             b == proceed(a)
             x == parseStringId(a)
             l == parseQuotedString(x)
             r == parsePrintString(inner, p)
  <1>1. r = IF ~isKeyword(p, "PRINT_STRING") THEN Nothing(p)
            ELSE IF isKeyword(a, "STR_NEW_LINE") THEN PrintLiteral(b, "\n")
            ELSE IF Found(x)
                 THEN IF stringNamed(x, Node(x).id) THEN PrintString(x, Node(x))
                      ELSE syntaxError(x, "PRINT_STRING_UNDECLARED_STRING_ID")
            ELSE IF Found(l) THEN PrintLiteral(l, Node(l).string)
            ELSE syntaxError(l, "PRINT_STRING_INVALID_ARGUMENT")
    BY DEF parsePrintString, printed
  <1>2. Onward(p, a) /\ Inside(a) /\ IsParser(a) /\ Onward(p, p)
    BY OnwardProceed DEF Inside, Fine
  <1>3. CASE ~isKeyword(p, "PRINT_STRING")
    <2>1. GivesTree(p, Nothing(p))
      BY <1>2, Refused
    <2> QED BY <1>1, <1>3, <2>1
  <1>4. CASE isKeyword(p, "PRINT_STRING")
    <2>1. p.offset < a.offset
      BY <1>2, <1>4, Current, OnwardProceed DEF Inside, Fine
    <2> HIDE DEF a, r
    <2>2. Onward(p, b) /\ p.offset < b.offset
      BY <1>2, <2>1, OnwardProceed, OnwardOn
    <2> HIDE DEF b
    <2>3. /\ Past(a, x) /\ Inside(x) /\ IsParser(x)
          /\ Found(x) => \E y \in Names : Node(x) = Id(y)
      <3>1. Past(a, x) /\ (Found(x) => \E y \in Names : Node(x) = Id(y))
        BY <1>2, ReadingStringId, PastSame
      <3> HIDE DEF x
      <3> QED BY <3>1 DEF Past, Onward, Inside, Fine
    <2> HIDE DEF x
    <2>4. /\ Past(x, l) /\ (Found(l) => \E s \in Contents : Node(l) = String(s))
      BY <2>3, ReadingQuotedString, PastSame
    <2> HIDE DEF l
    <2>5. Onward(p, x) /\ p.offset < x.offset /\ Onward(a, x)
      BY <1>2, <2>1, <2>3, OnwardOn DEF Past
    <2>6. Onward(p, l) /\ p.offset < l.offset
      BY <2>4, <2>5, OnwardOn DEF Past
    <2>7. GivesTree(p, PrintLiteral(b, "\n"))
      <3>1. "\n" \in Contents
        BY DEF Contents
      <3> QED BY <2>2, <3>1, PrintingLiteral
    <2>8. CASE isKeyword(a, "STR_NEW_LINE")
      BY <1>1, <1>4, <2>7, <2>8 DEF r
    <2>9. CASE ~isKeyword(a, "STR_NEW_LINE") /\ Found(x) /\ stringNamed(x, Node(x).id)
      <3>1. PICK y \in Names : Node(x) = Id(y)
        BY <2>3, <2>9
      <3>2. Node(x).id = y /\ y # Unnamed
        BY <3>1 DEF Id, Names
      <3>3. y \in StringNames(x.table)
        BY <2>9, <3>2 DEF stringNamed, StringNames
      <3>4. y \in Here(x)
        BY <3>3, ReadableParts DEF Here
      <3>5. ReadsOnly(Node(x), Here(x))
        BY <3>1, <3>4, LeafReads
      <3>6. GivesTree(p, PrintString(x, Node(x)))
        BY <2>5, <3>5, PrintingString
      <3> QED BY <1>1, <1>4, <2>9, <3>6 DEF r
    <2>10. CASE ~isKeyword(a, "STR_NEW_LINE") /\ Found(x) /\ ~stringNamed(x, Node(x).id)
      <3>1. GivesTree(p, syntaxError(x, "PRINT_STRING_UNDECLARED_STRING_ID"))
        BY <2>5, Codes, Refused
      <3> QED BY <1>1, <1>4, <2>10, <3>1 DEF r
    <2>11. CASE ~isKeyword(a, "STR_NEW_LINE") /\ ~Found(x) /\ Found(l)
      <3>1. PICK s \in Contents : Node(l) = String(s)
        BY <2>4, <2>11
      <3>2. Node(l).string = s
        BY <3>1 DEF String
      <3>3. GivesTree(p, PrintLiteral(l, Node(l).string))
        BY <2>6, <3>2, PrintingLiteral
      <3> QED BY <1>1, <1>4, <2>11, <3>3 DEF r
    <2>12. CASE ~isKeyword(a, "STR_NEW_LINE") /\ ~Found(x) /\ ~Found(l)
      <3>1. GivesTree(p, syntaxError(l, "PRINT_STRING_INVALID_ARGUMENT"))
        BY <2>6, Codes, Refused
      <3> QED BY <1>1, <1>4, <2>12, <3>1 DEF r
    <2> QED BY <2>8, <2>9, <2>10, <2>11, <2>12
  <1> QED BY <1>3, <1>4

(* The next rule, where the rules before it have not found anything.       *)
LEMMA NextRule ==
    ASSUME NEW inner, NEW n, NEW p, Ready(inner, n, p), NEW q, GivesTree(p, q), NEW r,
           Ready(inner, n, q) => GivesTree(q, r)
    PROVE  GivesTree(p, Else(q, r))
  <1>1. Onward(p, q) /\ Inside(p)
    BY DEF GivesTree, Past, Ready
  <1>2. Ready(inner, n, q)
    BY <1>1, ReadyOn
  <1>3. GivesTree(p, r)
    BY <1>1, <1>2, GivesOn
  <1> QED BY <1>3, Alternative

LEMMA ReadingCommand ==
    ASSUME NEW inner, NEW n, NEW p, Behind(inner, n, p)
    PROVE  GivesTree(p, parseCommand(inner, p))
  <1> DEFINE a == parseVDeclaration(inner, p)
             b == Else(a, parseADeclaration(inner, a))
             c == Else(b, parseAssignment(inner, b))
             d == Else(c, parseJump(inner, c))
             e == Else(d, parsePrintFloat(inner, d))
             f == Else(e, parsePrintString(inner, e))
             g == Else(f, parsePrint(inner, f))
             h == Recur(inner, "expression", g)
  <1>1. Ready(inner, n, p) /\ Inside(p)
    BY DEF Behind, Ready
  <1>2. GivesTree(p, a)
    BY <1>1, ReadingVDeclaration
  <1> HIDE DEF a
  <1>3. GivesTree(p, b)
    BY <1>1, <1>2, ReadingADeclaration, NextRule
  <1> HIDE DEF b
  <1>4. GivesTree(p, c)
    BY <1>1, <1>3, ReadingAssignment, NextRule
  <1> HIDE DEF c
  <1>5. GivesTree(p, d)
    BY <1>1, <1>4, ReadingJump, NextRule
  <1> HIDE DEF d
  <1>6. GivesTree(p, e)
    BY <1>1, <1>5, ReadingPrintFloat, NextRule
  <1> HIDE DEF e
  <1>7. GivesTree(p, f)
    <2>1. Ready(inner, n, e) => GivesTree(e, parsePrintString(inner, e))
      BY ReadingPrintString DEF Ready
    <2> QED BY <1>1, <1>6, <2>1, NextRule
  <1> HIDE DEF f
  <1>8. GivesTree(p, g)
    BY <1>1, <1>7, ReadingJump, NextRule
  <1> HIDE DEF g
  <1>9. Onward(p, g)
    BY <1>8 DEF GivesTree, Past
  <1>10. Behind(inner, n, g)
    BY <1>1, <1>9, ReadyOn
  <1>11. GivesTree(g, h)
    BY <1>10 DEF Behind, Ready, InnerOK
  <1> HIDE DEF h
  <1>12. GivesTree(p, Else(g, h))
    BY <1>1, <1>8, <1>11, NextRule
  <1> QED BY <1>12 DEF parseCommand, h, g, f, e, d, c, b, a, Or, expressionOf, parsePrints

LEMMA NewLinesPast ==
    ASSUME NEW p, Inside(p)
    PROVE  LET q == requireNewLines(p)
           IN Past(p, q) /\ Inside(q) /\ Here(q) = Here(p)
  <1>1. IsParser(p)
    BY DEF Inside, Fine
  <1> QED BY <1>1, RequiringNewLines, PastSame, OnwardSame

LEMMA ReadingCmdLine ==
    ASSUME NEW inner, NEW n, NEW p, Ready(inner, n, p)
    PROVE  GivesTree(p, parseCmdLine(inner, p))
  <1> DEFINE a == proceed(p)
             c == parseCommand(inner, a)
             d == requireNewLines(c)
             e == Then(c, d)
  <1>1. parseCmdLine(inner, p) = IF ~isKeyword(p, "CMD_LINE") THEN Nothing(p)
                                 ELSE Then(e, Return_(e, Node(c)))
    BY DEF parseCmdLine, OnItsLine, Giving, WithNewLines
  <1>2. Inside(p) /\ Onward(p, p) /\ IsParser(p) /\ Onward(p, a)
    BY OnwardProceed DEF Ready
  <1>3. CASE ~isKeyword(p, "CMD_LINE")
    BY <1>1, <1>2, <1>3, Refused
  <1>4. CASE isKeyword(p, "CMD_LINE")
    <2>1. p.offset < a.offset
      BY <1>2, <1>4, Current, OnwardProceed
    <2> HIDE DEF a
    <2>2. Behind(inner, n, a)
      BY <1>2, <2>1, ReadyOn
    <2>3. GivesTree(a, c)
      BY <2>2, ReadingCommand
    <2> HIDE DEF c
    <2>4. GivesTree(p, c) /\ Onward(p, c) /\ Inside(c)
      BY <1>2, <2>3, GivesOn DEF GivesTree, Past, Onward
    <2>5. Past(c, d) /\ Here(d) = Here(c)
      BY <2>4, NewLinesPast
    <2> HIDE DEF d
    <2>6. Past(p, d)
      BY <1>2, <2>4, <2>5, GivesOn
    <2>7. Past(p, e) /\ (Found(e) => Found(c) /\ e = d)
      BY <2>4, <2>6, Sequel DEF Then
    <2> HIDE DEF e
    <2>8. Found(e) => ReadsOnly(Node(c), Here(e))
      BY <2>4, <2>5, <2>7 DEF GivesTree
    <2> QED BY <1>1, <1>2, <1>4, <2>7, <2>8, Wrapped DEF Past
  <1> QED BY <1>3, <1>4

GivesBlock(p, q) == Past(p, q) /\ GivesList(p, q)

LEMMA ReadingBlock ==
    ASSUME NEW inner, NEW n, NEW p, Ready(inner, n, p)
    PROVE  GivesBlock(p, parseBlock(inner, p))
  <1> DEFINE line   == requireNewLines(p)
             b      == requireKeyword(line, "OPEN_BRACE", "OPEN_BRACE_NEEDED")
             brace  == Then(line, b)
             o      == requireNewLines(brace)
             open   == Then(brace, o)
             s      == Recur(inner, "statements", open)
             block  == Then(open, s)
             c      == requireKeyword(block, "CLOSE_BRACE", "CLOSE_BRACE_NEEDED")
             closed == Then(open, c)
             e      == requireNewLines(closed)
             end    == Then(closed, e)
  <1>1. Inside(p)
    BY DEF Ready
  <1>2. Past(p, line) /\ Inside(line)
    BY <1>1, NewLinesPast
  <1> HIDE DEF line
  <1>3. Past(line, b)
    BY <1>2, Codes, KeywordPast
  <1> HIDE DEF b
  <1>4. Past(p, b)
    BY <1>1, <1>2, <1>3, GivesOn DEF Past
  <1>5. Past(p, brace) /\ Inside(brace)
    BY <1>2, <1>4, Sequel DEF Past, Onward
  <1> HIDE DEF brace
  <1>6. Past(brace, o)
    BY <1>5, NewLinesPast
  <1> HIDE DEF o
  <1>7. Past(p, o)
    BY <1>1, <1>5, <1>6, GivesOn DEF Past
  <1>8. Past(p, open) /\ Inside(open)
    BY <1>5, <1>7, Sequel DEF Past, Onward
  <1> HIDE DEF open
  <1>9. Found(open) => GivesList(open, s) /\ Found(s)
    <2> SUFFICES ASSUME Found(open) PROVE GivesList(open, s) /\ Found(s)
      OBVIOUS
    <2>1. Behind(inner, n, open)
      BY <1>8, ReadyOn DEF Past, Ahead
    <2> QED BY <1>8, <2>1 DEF Behind, Ready, InnerOK
  <1> HIDE DEF s
  <1>10. GivesList(p, block) /\ Inside(block) /\ (Found(open) => Found(block))
    <2>1. Found(open) => GivesList(p, s)
      BY <1>1, <1>8, <1>9, GivesOn DEF Past
    <2>2. Found(open) => Found(block)
      BY <1>9 DEF Then
    <2> QED BY <1>8, <2>1, <2>2, Sequel DEF Past, GivesList, Onward
  <1> HIDE DEF block
  <1>11. Past(block, c) /\ Here(c) = Here(block)
    BY <1>10, Codes, KeywordPast
  <1> HIDE DEF c
  <1>12. Past(p, c)
    BY <1>1, <1>10, <1>11, GivesOn DEF GivesList
  <1>13. Past(p, closed) /\ Inside(closed) /\ (Found(closed) => Found(open) /\ closed = c)
    <2>1. Past(p, closed)
      BY <1>8, <1>12, Sequel DEF Past
    <2> QED BY <2>1 DEF Past, Onward, Then
  <1> HIDE DEF closed
  <1>14. Past(closed, e) /\ Here(e) = Here(closed)
    BY <1>13, NewLinesPast
  <1> HIDE DEF e
  <1>15. Past(p, end) /\ (Found(end) => Found(closed) /\ end = e)
    <2>1. Past(p, e)
      BY <1>1, <1>13, <1>14, GivesOn DEF Past
    <2> QED BY <1>13, <2>1, Sequel DEF Past, Then
  <1> HIDE DEF end
  <1>16. Found(end) => ListReads(Node(block), Here(end))
    BY <1>10, <1>11, <1>13, <1>14, <1>15 DEF GivesList
  <1>17. GivesBlock(p, Then(end, Return_(end, Node(block))))
    BY <1>1, <1>15, <1>16, Wrapped DEF Past, GivesBlock
  <1> QED BY <1>17 DEF parseBlock, end, e, closed, c, block, s, open, o, brace, b, line,
                           WithKeyword, WithNewLines, blockBehind, Giving

LEMMA RequiringBlock ==
    ASSUME NEW inner, NEW n, NEW p, Ready(inner, n, p), NEW error \in Statuses
    PROVE  GivesBlock(p, requireBlock(inner, p, error))
  <1> DEFINE b == parseBlock(inner, p)
             r == syntaxError(b, error)
  <1>1. GivesBlock(p, b) /\ Inside(p)
    BY ReadingBlock DEF Ready
  <1> HIDE DEF b
  <1>2. GivesBlock(p, r)
    BY <1>1, Refused DEF GivesBlock, GivesList
  <1> HIDE DEF r
  <1>3. GivesBlock(p, Else(b, r))
    BY <1>1, <1>2 DEF Else
  <1> QED BY <1>3 DEF requireBlock, r, b, Required

LEMMA RequiringCondition ==
    ASSUME NEW inner, NEW n, NEW p, Ready(inner, n, p), NEW error \in Statuses
    PROVE  GivesTree(p, requireCondition(inner, p, error))
  <1> DEFINE e == requireAfter(inner, p, "BRACKET", "BRACKET_NEEDED", error)
             c == Then(e, requireBracket(e))
  <1>1. GivesTree(p, e) /\ Inside(p)
    BY Codes, RequiringAfter DEF Ready
  <1> HIDE DEF e
  <1>2. Past(p, c) /\ (Found(c) => ReadsOnly(Node(e), Here(c)))
    BY <1>1, Codes, Closing DEF requireBracket
  <1> HIDE DEF c
  <1>3. GivesTree(p, Then(c, Return_(c, Node(e))))
    BY <1>1, <1>2, Wrapped DEF Past
  <1> QED BY <1>3 DEF requireCondition, c, e, InBrackets, Giving, WithBracket

LEMMA ReadingCondition ==
    ASSUME NEW inner, NEW n, NEW p, Ready(inner, n, p)
    PROVE  GivesTree(p, parseCondition(inner, p))
  <1> DEFINE a == proceed(p)
             e == requireCondition(inner, a, "IF_EXPRESSION_NEEDED")
             b == requireBlock(inner, e, "IF_BLOCK_NEEDED")
             then == Then(e, b)
             c == proceed(then)
             d == requireBlock(inner, c, "ELSE_BLOCK_NEEDED")
             else == IF isKeyword(then, "ELSE") THEN d ELSE Return_(then, <<>>)
             m == Cond(Node(e), Node(then), Node(else))
  <1>1. parseCondition(inner, p) =
           IF ~isKeyword(p, "IF") THEN Nothing(p)
           ELSE IF ~Found(then) THEN then ELSE Then(else, Return_(else, m))
    BY DEF parseCondition, conditionOf, Giving, elseBlock, Then
  <1>2. Inside(p) /\ Onward(p, p) /\ Onward(p, a)
    BY OnwardProceed DEF Ready
  <1>3. CASE ~isKeyword(p, "IF")
    BY <1>1, <1>2, <1>3, Refused
  <1>4. CASE isKeyword(p, "IF")
    <2> HIDE DEF a
    <2>1. GivesTree(a, e)
      BY <1>2, ReadyOn, Codes, RequiringCondition
    <2> HIDE DEF e
    <2>2. GivesTree(p, e) /\ Onward(p, e) /\ Inside(e)
      BY <1>2, <2>1, GivesOn DEF GivesTree, Past, Onward
    <2>3. GivesBlock(e, b)
      BY <2>2, ReadyOn, Codes, RequiringBlock
    <2> HIDE DEF b
    <2>4. Past(p, then) /\ (Found(then) => Found(e) /\ then = b)
      <3>1. Past(p, b)
        BY <1>2, <2>2, <2>3, GivesOn DEF GivesBlock
      <3> QED BY <2>2, <3>1, Sequel DEF Then
    <2> HIDE DEF then
    <2>5. Onward(p, then) /\ Inside(then) /\ IsParser(then)
      BY <2>4 DEF Past, Onward, Inside, Fine
    <2>6. CASE ~Found(then)
      <3>1. GivesTree(p, then)
        BY <2>5, <2>6, NothingGiven
      <3> QED BY <1>1, <1>4, <2>6, <3>1
    <2>7. CASE Found(then)
      <3>1. ReadsOnly(Node(e), Here(then)) /\ ListReads(Node(then), Here(then))
        <4>1. Here(e) \subseteq Here(then) /\ ListReads(Node(then), Here(then))
          BY <2>2, <2>3, <2>4, <2>7, OnwardOn DEF GivesBlock, GivesList
        <4> QED BY <2>2, <2>4, <2>7, <4>1, Widened DEF GivesTree
      <3>2. GivesList(then, else)
        <4>1. CASE isKeyword(then, "ELSE")
          <5>1. Onward(then, c)
            BY <2>5, OnwardProceed
          <5> HIDE DEF c
          <5>2. Onward(p, c)
            BY <1>2, <2>5, <5>1, OnwardOn
          <5>3. GivesBlock(c, d)
            BY <5>2, ReadyOn, Codes, RequiringBlock
          <5>4. GivesList(then, d)
            BY <2>5, <5>1, <5>3, GivesOn DEF GivesBlock
          <5> QED BY <4>1, <5>4
        <4>2. CASE ~isKeyword(then, "ELSE")
          <5>1. ListReads(<<>>, Here(then)) /\ Onward(then, then)
            BY <2>5, NoneRead, OnwardProceed
          <5>2. GivesList(then, Return_(then, <<>>))
            BY <2>5, <5>1, Given
          <5> QED BY <4>2, <5>2
        <4> QED BY <4>1, <4>2
      <3> HIDE DEF else
      <3>3. Onward(p, else) /\ p.offset < else.offset /\ Here(then) \subseteq Here(else)
        BY <1>2, <2>4, <2>5, <2>7, <3>2, OnwardOn DEF GivesList, Past, Ahead
      <3>4. Found(else) => ReadsOnly(m, Here(else))
        <4> SUFFICES ASSUME Found(else) PROVE ReadsOnly(m, Here(else))
          OBVIOUS
        <4>1. ReadsOnly(Node(e), Here(else)) /\ ListReads(Node(then), Here(else))
          BY <3>1, <3>3, Widened
        <4>2. ListReads(Node(else), Here(else))
          BY <3>2 DEF GivesList
        <4> QED BY <4>1, <4>2, BlockReads
      <3> HIDE DEF m
      <3>5. GivesTree(p, Then(else, Return_(else, m)))
        BY <1>2, <3>3, <3>4, Wrapped DEF Past, Ahead
      <3> QED BY <1>1, <1>4, <2>7, <3>5
    <2> QED BY <2>6, <2>7
  <1> QED BY <1>3, <1>4

LEMMA ReadingLoop ==
    ASSUME NEW inner, NEW n, NEW p, Ready(inner, n, p)
    PROVE  GivesTree(p, parseLoop(inner, p))
  <1> DEFINE a == proceed(p)
             e == requireCondition(inner, a, "LOOP_EXPRESSION_NEEDED")
             b == requireBlock(inner, e, "LOOP_BLOCK_NEEDED")
             body == Then(e, b)
             m == Loop(Node(e), Node(body))
  <1>1. parseLoop(inner, p) =
           IF ~isKeyword(p, "LOOP") THEN Nothing(p) ELSE Then(body, Return_(body, m))
    BY DEF parseLoop, loopOf, Giving
  <1>2. Inside(p) /\ Onward(p, p) /\ Onward(p, a)
    BY OnwardProceed DEF Ready
  <1>3. CASE ~isKeyword(p, "LOOP")
    BY <1>1, <1>2, <1>3, Refused
  <1>4. CASE isKeyword(p, "LOOP")
    <2> HIDE DEF a
    <2>1. GivesTree(a, e)
      BY <1>2, ReadyOn, Codes, RequiringCondition
    <2> HIDE DEF e
    <2>2. GivesTree(p, e) /\ Onward(p, e) /\ Inside(e)
      BY <1>2, <2>1, GivesOn DEF GivesTree, Past, Onward
    <2>3. GivesBlock(e, b)
      BY <2>2, ReadyOn, Codes, RequiringBlock
    <2> HIDE DEF b
    <2>4. Past(p, body) /\ (Found(body) => Found(e) /\ body = b)
      <3>1. Past(p, b)
        BY <1>2, <2>2, <2>3, GivesOn DEF GivesBlock
      <3> QED BY <2>2, <3>1, Sequel DEF Then
    <2> HIDE DEF body
    <2>5. Found(body) => ReadsOnly(m, Here(body))
      <3> SUFFICES ASSUME Found(body) PROVE ReadsOnly(m, Here(body))
        OBVIOUS
      <3>1. Here(e) \subseteq Here(body) /\ ListReads(Node(body), Here(body))
        BY <2>2, <2>3, <2>4, OnwardOn DEF GivesBlock, GivesList
      <3>2. ReadsOnly(Node(e), Here(body))
        BY <2>2, <2>4, <3>1, Widened DEF GivesTree
      <3> QED BY <3>1, <3>2, BlockReads
    <2> HIDE DEF m
    <2> QED BY <1>1, <1>2, <1>4, <2>4, <2>5, Wrapped DEF Past
  <1> QED BY <1>3, <1>4

LEMMA ReadingStatement ==
    ASSUME NEW inner, NEW n, NEW p, Ready(inner, n, p)
    PROVE  GivesTree(p, parseStatement(inner, p))
  <1> DEFINE a == parseCmdLine(inner, p)
             b == Else(a, parseCondition(inner, a))
             c == Else(b, parseLoop(inner, b))
  <1>1. GivesTree(p, a)
    BY ReadingCmdLine
  <1> HIDE DEF a
  <1>2. GivesTree(p, b)
    BY <1>1, ReadingCondition, NextRule
  <1> HIDE DEF b
  <1>3. GivesTree(p, c)
    BY <1>2, ReadingLoop, NextRule
  <1> QED BY <1>3 DEF parseStatement, c, b, a, Or

LEMMA ReadingStatements ==
    ASSUME NEW inner, NEW n, NEW p, Ready(inner, n, p)
    PROVE  GivesList(p, parseStatements(inner, p)) /\ Found(parseStatements(inner, p))
  <1> DEFINE s == parseStatement(inner, p)
             t == Recur(inner, "statements", s)
             l == <<Node(s)>> \o Node(t)
  <1>1. parseStatements(inner, p) = IF Found(s) THEN Then(t, Return_(t, l)) ELSE Return_(s, <<>>)
    BY DEF parseStatements, Repeated, Giving
  <1>2. Inside(p) /\ GivesTree(p, s) /\ Onward(p, s) /\ Inside(s) /\ IsParser(s)
    BY ReadingStatement DEF GivesTree, Past, Onward, Ready, Inside, Fine
  <1> HIDE DEF s
  <1>3. CASE Found(s)
    <2>1. Behind(inner, n, s)
      BY <1>2, <1>3, ReadyOn DEF GivesTree, Past, Ahead
    <2>2. GivesList(s, t) /\ Found(t)
      BY <2>1 DEF Behind, Ready, InnerOK
    <2> HIDE DEF t
    <2>3. Onward(p, t) /\ Here(s) \subseteq Here(t)
      BY <1>2, <2>2, OnwardOn DEF GivesList
    <2>4. ReadsOnly(Node(s), Here(t)) /\ ListReads(Node(t), Here(t))
      BY <1>2, <1>3, <2>2, <2>3, Widened DEF GivesTree, GivesList
    <2>5. ListReads(l, Here(t))
      BY <2>4, FrontReads
    <2> HIDE DEF l
    <2>6. GivesList(p, Return_(t, l)) /\ Found(Return_(t, l))
      <3>1. IsParser(t)
        BY <2>3 DEF Onward, Inside, Fine
      <3> QED BY <1>2, <2>3, <2>5, <3>1, Given, Returning
    <2> QED BY <1>1, <1>3, <2>2, <2>6 DEF Then
  <1>4. CASE ~Found(s)
    <2>1. ListReads(<<>>, Here(s))
      BY NoneRead
    <2>2. GivesList(p, Return_(s, <<>>)) /\ Found(Return_(s, <<>>))
      BY <1>2, <2>1, Given, Returning
    <2> QED BY <1>1, <1>4, <2>2
  <1> QED BY <1>3, <1>4

-----------------------------------------------------------------------------
(* Declarations.                                                           *)
Outward(p, q) == Fine(q) /\ p.offset <= q.offset /\ Later(p.table, q.table)

GivesStrings(p, q) == Outward(p, q) /\ q.table.functions = p.table.functions

(* f is the function i of the table, and reads what this may read.         *)
FunctionOK(f, t, i) == f.name = t.functions[i].name /\ ListReads(f.body, Readable(t, i))

GivesFunction(p, q) ==
    /\ Outward(p, q)
    /\ Found(q) =>
          /\ p.offset < q.offset
          /\ Len(q.table.functions) = Len(p.table.functions) + 1
          /\ FunctionOK(Node(q), q.table, Len(q.table.functions))

FunctionsOK(l, t, first) ==
    /\ IsList(l)
    /\ first + Len(l) <= Len(t.functions)
    /\ \A i \in 1 .. Len(l) : FunctionOK(l[i], t, first + i)

GivesFunctions(p, q) ==
    /\ Outward(p, q)
    /\ Found(q) => FunctionsOK(Node(q), q.table, Len(p.table.functions))

(* While its parameters are being read, a function has no other variables. *)
InParams(p) == Inside(p) /\ curFunction(p).paramsCount = Len(curFunction(p).vars)

OuterOK(inner, n) ==
    \A q : Fine(q) /\ tokensLeft(q) < n =>
        /\ InParams(q) => Onward(q, Recur(inner, "params", q))
        /\ GivesStrings(q, Recur(inner, "strings", q))
        /\ GivesFunctions(q, Recur(inner, "functions", q))

Prepared(inner, n, p) ==
    n \in Nat /\ InnerOK(inner, n) /\ OuterOK(inner, n) /\ Fine(p) /\ tokensLeft(p) <= n

LEMMA OutwardSame ==
    ASSUME NEW p, Fine(p), NEW q
    PROVE  /\ Same(p, q) => Outward(p, q) /\ Fine(q) /\ IsParser(q)
           /\ Onward(p, q) => Outward(p, q)
  <1>1. p.table \in Tables /\ Later(p.table, p.table)
    BY Typed, LaterOn DEF Fine
  <1> QED BY <1>1 DEF Outward, Fine, Same, Onward, Inside

LEMMA OutwardOn ==
    ASSUME NEW p, Fine(p), NEW q, Outward(p, q)
    PROVE  /\ Fine(q) /\ IsParser(q) /\ Outward(p, p)
           /\ \A r : Outward(q, r) =>
                 /\ Outward(p, r)
                 /\ p.offset < q.offset => p.offset < r.offset
                 /\ q.offset < r.offset => p.offset < r.offset
  <1>1. p.table \in Tables /\ p.offset \in Nat /\ Outward(p, p)
    BY Typed, OutwardSame DEF Fine
  <1>2. q.table \in Tables /\ q.offset \in Nat /\ Fine(q) /\ IsParser(q)
    BY Typed DEF Fine, Outward
  <1>3. ASSUME NEW r, Outward(q, r)
        PROVE  /\ Outward(p, r)
               /\ p.offset < q.offset => p.offset < r.offset
               /\ q.offset < r.offset => p.offset < r.offset
    <2>1. r.table \in Tables /\ r.offset \in Nat
      BY <1>3, Typed DEF Fine, Outward
    <2>2. Later(p.table, r.table)
      BY <1>1, <1>2, <1>3, <2>1, LaterOn DEF Outward
    <2> QED BY <1>1, <1>2, <1>3, <2>1, <2>2 DEF Outward
  <1> QED BY <1>1, <1>2, <1>3

LEMMA PreparedOn ==
    ASSUME NEW inner, NEW n, NEW p, Prepared(inner, n, p), NEW q, Outward(p, q)
    PROVE  /\ Fine(p) /\ Fine(q) /\ Prepared(inner, n, q)
           /\ p.offset < q.offset => tokensLeft(q) < n
           /\ Inside(q) => Ready(inner, n, q)
  <1>1. /\ Fine(p) /\ Fine(q) /\ n \in Nat /\ tokensLeft(p) <= n /\ p.offset <= q.offset
        /\ InnerOK(inner, n) /\ OuterOK(inner, n)
    BY DEF Prepared, Outward
  <1>2. p.offset \in Nat /\ q.offset \in Nat /\ Len(tokens) \in Nat
    BY <1>1, Typed DEF Fine
  <1>3. tokensLeft(q) <= n /\ (p.offset < q.offset => tokensLeft(q) < n)
    BY <1>1, <1>2 DEF tokensLeft
  <1> QED BY <1>1, <1>3 DEF Prepared, Ready

(* A failure gives nothing, whatever it should have given.                 *)
LEMMA OuterRefused ==
    ASSUME NEW p, Fine(p), NEW q, Outward(p, q)
    PROVE  /\ ~Found(q) => GivesFunction(p, q) /\ GivesFunctions(p, q)
           /\ \A error \in Statuses :
                 LET r == syntaxError(q, error)
                 IN /\ Outward(p, r) /\ ~Found(r) /\ r.table = q.table
                    /\ GivesFunction(p, r) /\ GivesFunctions(p, r)
           /\ LET r == Nothing(q)
              IN /\ Outward(p, r) /\ ~Found(r) /\ r.table = q.table
                 /\ GivesFunction(p, r) /\ GivesFunctions(p, r)
           /\ \A n : LET r == Return_(q, n)
                     IN /\ Outward(p, r) /\ Found(r) /\ Node(r) = n
                        /\ r.table = q.table /\ r.offset = q.offset
  <1>1. Fine(q) /\ IsParser(q)
    BY DEF Outward, Fine
  <1>2. ASSUME NEW r, Same(q, r) PROVE Outward(p, r) /\ r.table = q.table
    BY <1>1, <1>2, OutwardSame, OutwardOn DEF Same
  <1>3. ASSUME NEW r, Outward(p, r), ~Found(r) PROVE GivesFunction(p, r) /\ GivesFunctions(p, r)
    BY <1>3 DEF GivesFunction, GivesFunctions
  <1>4. ASSUME NEW error \in Statuses
        PROVE  LET r == syntaxError(q, error)
               IN Outward(p, r) /\ ~Found(r) /\ r.table = q.table
    BY <1>1, <1>2, Failing
  <1>5. LET r == Nothing(q) IN Outward(p, r) /\ ~Found(r) /\ r.table = q.table
    BY <1>1, <1>2, Returning
  <1>6. ASSUME NEW n
        PROVE  LET r == Return_(q, n)
               IN /\ Outward(p, r) /\ Found(r) /\ Node(r) = n
                  /\ r.table = q.table /\ r.offset = q.offset
    BY <1>1, <1>2, Returning
  <1> QED BY <1>3, <1>4, <1>5, <1>6

LEMMA WithingParameter ==
    ASSUME NEW p, InParams(p), NEW x \in Names
    PROVE  LET q == WithParameter(p, x)
           IN Onward(p, q) /\ InParams(q) /\ q.offset = p.offset
  <1> DEFINE f == pushParameter(curFunction(p), x)
             q == WithCurrent(p, f)
  <1>1. Inside(p) /\ curFunction(p) \in FunctionSet
    BY CurrentFunction DEF InParams
  <1>2. Extends(curFunction(p), f) /\ f.paramsCount = Len(f.vars)
    BY <1>1, PushingParameter DEF InParams
  <1> HIDE DEF f
  <1>3. Onward(p, q) /\ curFunction(q) = f /\ q.offset = p.offset
    BY <1>1, <1>2, WithingCurrent
  <1> HIDE DEF q
  <1>4. InParams(q)
    BY <1>2, <1>3 DEF InParams, Onward
  <1> QED BY <1>3, <1>4 DEF WithParameter, q, f

LEMMA InParamsSame ==
    ASSUME NEW p, InParams(p), NEW q, Same(p, q)
    PROVE  InParams(q) /\ Onward(p, q)
  BY OnwardSame DEF InParams, Same, curFunction

LEMMA ReadingParams ==
    ASSUME NEW inner, NEW n, NEW p, Prepared(inner, n, p), InParams(p)
    PROVE  Onward(p, parseParams(inner, p))
  <1> DEFINE a == proceed(p)
             x == parseId(a)
             w == WithParameter(x, Node(x).id)
             t == Recur(inner, "params", w)
             l == <<Node(x).id>> \o Node(t)
  <1>1. parseParams(inner, p) = IF ~isKeyword(p, "COMMA") THEN Return_(p, <<>>)
                                ELSE IF ~Found(x) THEN syntaxError(x, "FUNCTION_PARAMS_NEEDED")
                                ELSE Then(t, Return_(t, l))
    BY DEF parseParams, Giving
  <1>2. Inside(p) /\ Fine(p) /\ IsParser(p) /\ Onward(p, p)
    BY OnwardProceed DEF InParams, Inside, Fine
  <1>3. CASE ~isKeyword(p, "COMMA")
    BY <1>1, <1>2, <1>3, Given
  <1>4. CASE isKeyword(p, "COMMA")
    <2>1. Same(p, a) /\ IsParser(a) /\ p.offset < a.offset
      BY <1>2, <1>4, Current, Proceeding DEF Same
    <2> HIDE DEF a
    <2>2. Same(a, x) /\ (Found(x) => \E y \in Names : Node(x) = Id(y))
      BY <2>1, ReadingId
    <2> HIDE DEF x
    <2>3. Same(p, x) /\ p.offset < x.offset
      BY <1>2, <2>1, <2>2, SameOn
    <2>4. InParams(x) /\ Onward(p, x)
      BY <2>3, InParamsSame
    <2>5. CASE ~Found(x)
      BY <1>1, <1>2, <1>4, <2>4, <2>5, Codes, Refused
    <2>6. CASE Found(x)
      <3>1. Node(x).id \in Names
        BY <2>2, <2>6 DEF Id
      <3>2. Onward(x, w) /\ InParams(w)
        BY <2>4, <3>1, WithingParameter
      <3> HIDE DEF w
      <3>3. Onward(p, w) /\ p.offset < w.offset
        BY <1>2, <2>3, <2>4, <3>2, OnwardOn
      <3>4. Fine(w) /\ tokensLeft(w) < n
        BY <1>2, <3>3, OutwardSame, PreparedOn DEF Outward
      <3>5. Onward(w, t)
        BY <3>2, <3>4 DEF Prepared, OuterOK
      <3> HIDE DEF t
      <3>6. Onward(p, t)
        BY <1>2, <3>3, <3>5, OnwardOn
      <3> HIDE DEF l
      <3>7. Onward(p, Return_(t, l))
        BY <1>2, <3>6, Given
      <3> QED BY <1>1, <1>4, <2>6, <3>6, <3>7 DEF Then
    <2> QED BY <2>5, <2>6
  <1> QED BY <1>3, <1>4

LEMMA ReadingParamList ==
    ASSUME NEW inner, NEW n, NEW p, Prepared(inner, n, p), InParams(p)
    PROVE  Onward(p, parseParamList(inner, p))
  <1> DEFINE x == parseId(p)
             w == WithParameter(x, Node(x).id)
             t == parseParams(inner, w)
             l == <<Node(x).id>> \o Node(t)
  <1>1. parseParamList(inner, p) = Then(x, Then(t, Return_(t, l)))
    BY DEF parseParamList, Giving
  <1>2. Inside(p) /\ Fine(p) /\ IsParser(p)
    BY DEF InParams, Inside, Fine
  <1>3. Same(p, x) /\ (Found(x) => \E y \in Names : Node(x) = Id(y))
    BY <1>2, ReadingId
  <1> HIDE DEF x
  <1>4. InParams(x) /\ Onward(p, x)
    BY <1>3, InParamsSame
  <1>5. CASE ~Found(x)
    BY <1>1, <1>4, <1>5 DEF Then
  <1>6. CASE Found(x)
    <2>1. Node(x).id \in Names
      BY <1>3, <1>6 DEF Id
    <2>2. Onward(x, w) /\ InParams(w)
      BY <1>4, <2>1, WithingParameter
    <2> HIDE DEF w
    <2>3. Onward(p, w)
      BY <1>2, <1>4, <2>2, OnwardOn
    <2>4. Prepared(inner, n, w)
      BY <1>2, <2>3, OutwardSame, PreparedOn
    <2>5. Onward(w, t)
      BY <2>2, <2>4, ReadingParams
    <2> HIDE DEF t
    <2>6. Onward(p, t)
      BY <1>2, <2>3, <2>5, OnwardOn
    <2> HIDE DEF l
    <2>7. Onward(p, Return_(t, l))
      BY <1>2, <2>6, Given
    <2> QED BY <1>1, <1>6, <2>6, <2>7 DEF Then
  <1> QED BY <1>5, <1>6

LEMMA ReadingFDeclaration ==
    ASSUME NEW inner, NEW n, NEW p, Prepared(inner, n, p)
    PROVE  GivesFunction(p, parseFDeclaration(inner, p))
  <1> DEFINE a      == proceed(p)
             b      == proceed(a)
             void   == IF isZero(a) THEN b ELSE a
             name   == parseId(void)
             x      == Node(name).id
             u      == pushFunction(name.table, x)
             pushed == WithTable(name, u)
             params == parseParamList(inner, pushed)
             list   == IF Found(params) THEN Node(params) ELSE <<>>
             c      == proceed(params)
             begin  == IF isZero(params) THEN c ELSE params
             block  == requireBlock(inner, begin, "FUNCTION_BODY_NEEDED")
             m      == FDecl(x, list, Node(block))
             r      == parseFDeclaration(inner, p)
  <1>1. r = IF tokensLeft(p) = 0 \/ ~isKeyword(p, "FDECL") THEN Nothing(p)
            ELSE IF ~Found(name) THEN syntaxError(name, "ID_NEEDED")
            ELSE IF functionNamed(name, x) THEN syntaxError(name, "FUNCTION_SECOND_DECLARATION")
            ELSE IF ~Found(params) /\ ~isZero(params)
                 THEN syntaxError(params, "FUNCTION_PARAMS_NEEDED")
            ELSE Then(block, Return_(block, m))
    BY DEF parseFDeclaration, functionBody, Giving
  <1>2. Fine(p) /\ IsParser(p) /\ Outward(p, p)
    BY OutwardOn, OutwardSame, Typed DEF Prepared, Fine
  <1>3. CASE tokensLeft(p) = 0 \/ ~isKeyword(p, "FDECL")
    <2>1. GivesFunction(p, Nothing(p))
      BY <1>2, OuterRefused
    <2> QED BY <1>1, <1>3, <2>1
  <1>4. CASE ~(tokensLeft(p) = 0 \/ ~isKeyword(p, "FDECL"))
    <2>1. Same(p, a) /\ IsParser(a) /\ p.offset < a.offset
      BY <1>2, <1>4, Current, Proceeding DEF Same
    <2> HIDE DEF a, r
    <2>2. Same(a, b)
      BY <2>1, Proceeding
    <2> HIDE DEF b
    <2>3. Same(a, void) /\ IsParser(void)
      BY <2>1, <2>2, Typed DEF Same
    <2> HIDE DEF void
    <2>4. Same(void, name) /\ (Found(name) => \E y \in Names : Node(name) = Id(y))
      BY <2>3, ReadingId
    <2> HIDE DEF name
    <2>5. Same(p, name) /\ p.offset < name.offset
      BY <1>2, <2>1, <2>3, <2>4, SameOn
    <2>6. Outward(p, name) /\ Fine(name) /\ name.table = p.table
      BY <1>2, <2>5, OutwardSame DEF Same
    <2>7. CASE ~Found(name)
      <3>1. GivesFunction(p, syntaxError(name, "ID_NEEDED"))
        BY <1>2, <2>6, Codes, OuterRefused
      <3> QED BY <1>1, <1>4, <2>7, <3>1 DEF r
    <2>8. CASE Found(name) /\ functionNamed(name, x)
      <3>1. GivesFunction(p, syntaxError(name, "FUNCTION_SECOND_DECLARATION"))
        BY <1>2, <2>6, Codes, OuterRefused
      <3> QED BY <1>1, <1>4, <2>8, <3>1 DEF r
    <2>9. CASE Found(name) /\ ~functionNamed(name, x)
      <3>1. x \in Names
        BY <2>4, <2>9 DEF Id
      <3> HIDE DEF x
      <3>2. name.table \in Tables /\ Distinct(name.table)
        BY <2>6, Typed DEF Fine
      <3>3. /\ u \in Tables /\ Distinct(u) /\ Later(name.table, u)
            /\ Len(u.functions) = Len(name.table.functions) + 1
            /\ u.functions[Len(u.functions)].name = x
            /\ u.functions[Len(u.functions)].paramsCount
                  = Len(u.functions[Len(u.functions)].vars)
        BY <2>9, <3>1, <3>2, PushingFunction DEF functionNamed
      <3> HIDE DEF u
      <3>4. Fine(pushed) /\ pushed.table = u /\ pushed.offset = name.offset
        BY <2>6, <3>3, WithingTable
      <3> HIDE DEF pushed
      <3>5. InParams(pushed)
        <4>1. Len(name.table.functions) \in Nat
          BY <3>2, TableParts
        <4>2. Len(u.functions) > 0
          BY <3>3, <4>1
        <4>3. Inside(pushed)
          BY <3>4, <4>2 DEF Inside
        <4>4. curFunction(pushed) = u.functions[Len(u.functions)]
          BY <3>4 DEF curFunction
        <4> QED BY <3>3, <4>3, <4>4 DEF InParams
      <3>6. Outward(p, pushed) /\ p.offset < pushed.offset
        <4>1. name.offset \in Nat
          BY <2>6, Typed DEF Fine
        <4>2. Outward(name, pushed)
          BY <3>3, <3>4, <4>1 DEF Outward
        <4> QED BY <1>2, <2>5, <2>6, <4>2, OutwardOn
      <3>7. Prepared(inner, n, pushed) /\ Inside(pushed)
        BY <3>5, <3>6, PreparedOn DEF InParams
      <3>8. Onward(pushed, params) /\ Inside(params)
        BY <3>5, <3>7, ReadingParamList DEF Onward
      <3> HIDE DEF params
      <3>9. Onward(params, c) /\ Onward(params, params)
        BY <3>8, OnwardProceed
      <3> HIDE DEF c
      <3>10. Onward(pushed, begin)
        BY <3>7, <3>8, <3>9, OnwardOn
      <3> HIDE DEF begin
      <3>11. Ready(inner, n, begin) /\ Inside(begin)
        BY <3>7, <3>10, OutwardSame, PreparedOn DEF Onward, Inside
      <3>12. GivesBlock(begin, block)
        BY <3>11, Codes, RequiringBlock
      <3> HIDE DEF block
      <3>13. Onward(pushed, block)
        BY <3>7, <3>10, <3>12, OnwardOn DEF GivesBlock, Past
      <3>14. Outward(p, block) /\ p.offset < block.offset
        BY <1>2, <3>6, <3>7, <3>13, OutwardSame, OutwardOn DEF Inside
      <3>15. CASE ~Found(params) /\ ~isZero(params)
        <4>1. Outward(p, params)
          BY <1>2, <3>6, <3>7, <3>8, OutwardSame, OutwardOn DEF Inside
        <4>2. GivesFunction(p, syntaxError(params, "FUNCTION_PARAMS_NEEDED"))
          BY <1>2, <4>1, Codes, OuterRefused
        <4> QED BY <1>1, <1>4, <2>9, <3>15, <4>2 DEF r
      <3>16. CASE ~(~Found(params) /\ ~isZero(params)) /\ ~Found(block)
        <4>1. GivesFunction(p, block)
          BY <1>2, <3>14, <3>16, OuterRefused
        <4>2. r = block
          BY <1>1, <1>4, <2>9, <3>16 DEF Then
        <4> QED BY <4>1, <4>2 DEF r
      <3>17. CASE ~(~Found(params) /\ ~isZero(params)) /\ Found(block)
        <4> DEFINE e == Return_(block, m)
        <4>1. r = e
          BY <1>1, <1>4, <2>9, <3>17 DEF Then
        <4>2. m.name = x /\ m.body = Node(block)
          BY DEF FDecl
        <4> HIDE DEF m
        <4>3. /\ Outward(p, e) /\ Found(e) /\ Node(e) = m /\ e.table = block.table
              /\ e.offset = block.offset
          BY <1>2, <3>14, OuterRefused
        <4> HIDE DEF e
        <4>4. Len(block.table.functions) = Len(p.table.functions) + 1
          BY <2>6, <3>3, <3>4, <3>13 DEF Onward
        <4>5. block.table.functions[Len(block.table.functions)].name = x
          <5>1. Len(u.functions) \in 1 .. Len(u.functions)
            BY <3>2, <3>3, TableParts
          <5> QED BY <3>3, <3>4, <3>13, <5>1 DEF Onward, Later
        <4>6. ListReads(m.body, Readable(block.table, Len(block.table.functions)))
          BY <3>12, <3>17, <4>2 DEF GivesBlock, GivesList, Here
        <4>7. GivesFunction(p, e)
          BY <3>14, <4>2, <4>3, <4>4, <4>5, <4>6 DEF GivesFunction, FunctionOK
        <4> QED BY <4>1, <4>7 DEF r
      <3> QED BY <3>15, <3>16, <3>17
    <2> QED BY <2>7, <2>8, <2>9
  <1> QED BY <1>3, <1>4

LEMMA ReadingSDeclaration ==
    ASSUME NEW p, Fine(p)
    PROVE  LET s == parseSDeclaration(p)
           IN GivesStrings(p, s) /\ Ahead(p, s) /\ (~Found(s) => Same(p, s))
  <1> DEFINE a    == proceed(p)
             name == parseStringId(a)
             x    == Node(name).id
             quoted == parseQuotedString(name)
             s    == Node(quoted).string
             line == requireNewLines(quoted)
             u    == pushString(line.table, x, s)
             w    == WithTable(line, u)
             e    == Return_(w, <<x, s>>)
             r    == parseSDeclaration(p)
  <1>1. r = IF tokensLeft(p) = 0 \/ ~isKeyword(p, "SDECL") THEN Nothing(p)
            ELSE IF ~Found(name) THEN syntaxError(name, "NO_STRING_ID_IN_DECLARATION")
            ELSE IF stringNamed(name, x) THEN syntaxError(name, "STRING_ID_SECOND_DECLARATION")
            ELSE IF ~Found(quoted) THEN syntaxError(quoted, "NO_QUOTED_STRING_IN_DECLARATION")
            ELSE Then(line, e)
    BY DEF parseSDeclaration, stringDeclared
  <1>2. IsParser(p) /\ Outward(p, p)
    BY OutwardOn, OutwardSame, Typed DEF Fine
  <1>3. ASSUME NEW q, Same(p, q), ~Found(q)
        PROVE  GivesStrings(p, q) /\ Ahead(p, q) /\ (~Found(q) => Same(p, q))
    BY <1>3, OutwardSame DEF GivesStrings, Ahead, Same
  <1>4. CASE tokensLeft(p) = 0 \/ ~isKeyword(p, "SDECL")
    <2>1. Same(p, Nothing(p)) /\ ~Found(Nothing(p))
      BY <1>2, Returning
    <2> QED BY <1>1, <1>3, <1>4, <2>1
  <1>5. CASE ~(tokensLeft(p) = 0 \/ ~isKeyword(p, "SDECL"))
    <2>1. Same(p, a) /\ IsParser(a) /\ p.offset < a.offset
      BY <1>2, <1>5, Current, Proceeding DEF Same
    <2> HIDE DEF a, r
    <2>2. Same(a, name) /\ (Found(name) => \E y \in Names : Node(name) = Id(y))
      BY <2>1, ReadingStringId
    <2> HIDE DEF name
    <2>3. Same(p, name) /\ p.offset < name.offset /\ IsParser(name)
      BY <1>2, <2>1, <2>2, SameOn DEF Same
    <2>4. /\ Same(name, quoted)
          /\ Found(quoted) => \E y \in Contents : Node(quoted) = String(y)
      BY <2>3, ReadingQuotedString
    <2> HIDE DEF quoted
    <2>5. Same(p, quoted) /\ p.offset < quoted.offset /\ IsParser(quoted)
      BY <1>2, <2>3, <2>4, SameOn DEF Same
    <2>6. Same(quoted, line)
      BY <2>5, RequiringNewLines
    <2> HIDE DEF line
    <2>7. Same(p, line) /\ p.offset < line.offset /\ IsParser(line)
      BY <1>2, <2>5, <2>6, SameOn DEF Same
    <2>8. ASSUME NEW q, Same(p, q), IsParser(q), NEW error \in Statuses, r = syntaxError(q, error)
          PROVE  GivesStrings(p, r) /\ Ahead(p, r) /\ (~Found(r) => Same(p, r))
      <3>1. Same(q, r) /\ ~Found(r)
        BY <2>8, Failing
      <3>2. Same(p, r)
        BY <1>2, <2>8, <3>1, SameOn
      <3> QED BY <1>3, <3>1, <3>2
    <2>9. CASE ~Found(name)
      <3>1. r = syntaxError(name, "NO_STRING_ID_IN_DECLARATION")
        BY <1>1, <1>5, <2>9
      <3> QED BY <2>3, <2>8, <3>1, Codes DEF r
    <2>10. CASE Found(name) /\ stringNamed(name, x)
      <3>1. r = syntaxError(name, "STRING_ID_SECOND_DECLARATION")
        BY <1>1, <1>5, <2>10
      <3> QED BY <2>3, <2>8, <3>1, Codes DEF r
    <2>11. CASE Found(name) /\ ~stringNamed(name, x) /\ ~Found(quoted)
      <3>1. r = syntaxError(quoted, "NO_QUOTED_STRING_IN_DECLARATION")
        BY <1>1, <1>5, <2>11
      <3> QED BY <2>5, <2>8, <3>1, Codes DEF r
    <2>12. CASE Found(name) /\ ~stringNamed(name, x) /\ Found(quoted) /\ ~Found(line)
      <3>1. r = line
        BY <1>1, <1>5, <2>12 DEF Then
      <3> QED BY <1>3, <2>7, <2>12, <3>1 DEF r
    <2>13. CASE Found(name) /\ ~stringNamed(name, x) /\ Found(quoted) /\ Found(line)
      <3>1. r = e
        BY <1>1, <1>5, <2>13 DEF Then
      <3>2. x \in Names /\ s \in Contents
        BY <2>2, <2>4, <2>13 DEF Id, String
      <3>3. line.table = p.table /\ name.table = p.table /\ Fine(line)
        BY <2>3, <2>7 DEF Same, Fine
      <3> HIDE DEF x, s
      <3>4. u \in Tables /\ Distinct(u) /\ Later(p.table, u) /\ u.functions = p.table.functions
        <4>1. p.table \in Tables /\ Distinct(p.table)
          BY <1>2, Typed DEF Fine
        <4> QED BY <2>13, <3>2, <3>3, <4>1, PushingString DEF stringNamed, pushString
      <3> HIDE DEF u
      <3>5. Fine(w) /\ w.table = u /\ w.offset = line.offset
        BY <3>3, <3>4, WithingTable
      <3> HIDE DEF w
      <3>6. Outward(p, w) /\ p.offset < w.offset
        BY <2>7, <3>4, <3>5 DEF Outward, Same
      <3>7. Outward(p, e) /\ Found(e) /\ e.table = u /\ p.offset < e.offset
        BY <3>5, <3>6, OuterRefused
      <3> HIDE DEF e
      <3> QED BY <3>1, <3>4, <3>7 DEF GivesStrings, Ahead, r
    <2> QED BY <2>9, <2>10, <2>11, <2>12, <2>13
  <1> QED BY <1>4, <1>5

LEMMA ReadingSDeclarations ==
    ASSUME NEW inner, NEW n, NEW p, Prepared(inner, n, p)
    PROVE  GivesStrings(p, parseSDeclarations(inner, p))
  <1> DEFINE s == parseSDeclaration(p)
             t == Recur(inner, "strings", s)
             l == <<Node(s)>> \o Node(t)
  <1>1. parseSDeclarations(inner, p) =
           IF Found(s) THEN Then(t, Return_(t, l)) ELSE Return_(s, <<>>)
    BY DEF parseSDeclarations, Repeated, Giving
  <1>2. Fine(p) /\ GivesStrings(p, s) /\ Outward(p, s) /\ Ahead(p, s) /\ Fine(s)
    BY ReadingSDeclaration DEF Prepared, GivesStrings, Outward
  <1> HIDE DEF s
  <1>3. CASE Found(s)
    <2>1. Prepared(inner, n, s) /\ tokensLeft(s) < n
      BY <1>2, <1>3, PreparedOn DEF Ahead
    <2>2. GivesStrings(s, t)
      BY <1>2, <2>1 DEF Prepared, OuterOK
    <2> HIDE DEF t
    <2>3. GivesStrings(p, t) /\ Outward(p, t)
      BY <1>2, <2>2, OutwardOn DEF GivesStrings
    <2> HIDE DEF l
    <2>4. GivesStrings(p, Return_(t, l))
      BY <1>2, <2>3, OuterRefused DEF GivesStrings
    <2> QED BY <1>1, <1>3, <2>3, <2>4 DEF Then
  <1>4. CASE ~Found(s)
    <2>1. GivesStrings(p, Return_(s, <<>>))
      BY <1>2, OuterRefused DEF GivesStrings
    <2> QED BY <1>1, <1>4, <2>1
  <1> QED BY <1>3, <1>4

LEMMA FunctionLater ==
    ASSUME NEW t \in Tables, NEW u, Later(t, u), NEW i \in 1 .. Len(t.functions),
           NEW f, FunctionOK(f, t, i)
    PROVE  FunctionOK(f, u, i)
  BY Widened DEF FunctionOK, Later

(* A function, and the functions behind it.                                *)
LEMMA OneMoreFunction ==
    ASSUME NEW inner, NEW n, NEW p, Prepared(inner, n, p), NEW f, GivesFunction(p, f), Found(f)
    PROVE  LET t == Recur(inner, "functions", f)
           IN /\ Outward(p, t)
              /\ Found(t) => FunctionsOK(<<Node(f)>> \o Node(t), t.table, Len(p.table.functions))
  <1> DEFINE t == Recur(inner, "functions", f)
             k == Len(p.table.functions)
             l == Node(t)
             g == <<Node(f)>> \o l
  <1>1. /\ Outward(p, f) /\ Fine(p) /\ Fine(f) /\ p.offset < f.offset
        /\ Len(f.table.functions) = k + 1 /\ FunctionOK(Node(f), f.table, k + 1)
    BY DEF GivesFunction, Prepared, Outward
  <1>2. Prepared(inner, n, f) /\ tokensLeft(f) < n
    BY <1>1, PreparedOn
  <1>3. GivesFunctions(f, t)
    BY <1>1, <1>2 DEF Prepared, OuterOK
  <1> HIDE DEF t
  <1>4. Outward(f, t) /\ Outward(p, t) /\ f.table \in Tables /\ t.table \in Tables /\ k \in Nat
        /\ Len(t.table.functions) \in Nat
    BY <1>1, <1>3, OutwardOn, Typed, TableParts DEF GivesFunctions, Fine, Outward
  <1>5. ASSUME Found(t) PROVE FunctionsOK(g, t.table, k)
    <2>1. /\ IsList(l) /\ (k + 1) + Len(l) <= Len(t.table.functions)
          /\ \A i \in 1 .. Len(l) : FunctionOK(l[i], t.table, (k + 1) + i)
      BY <1>1, <1>3, <1>5 DEF GivesFunctions, FunctionsOK
    <2> HIDE DEF l
    <2>2. /\ IsList(g) /\ Len(l) \in Nat /\ Len(g) = Len(l) + 1 /\ g[1] = Node(f)
          /\ \A i \in 1 .. Len(l) : g[i + 1] = l[i]
      BY <2>1, FrontOf
    <2> HIDE DEF g
    <2>3. FunctionOK(g[1], t.table, k + 1)
      <3>1. k + 1 \in 1 .. Len(f.table.functions)
        BY <1>1, <1>4
      <3> QED BY <1>1, <1>4, <2>2, <3>1, FunctionLater DEF Outward
    <2>4. ASSUME NEW i \in 1 .. Len(g), i # 1 PROVE FunctionOK(g[i], t.table, k + i)
      <3>1. i - 1 \in 1 .. Len(l) /\ (i - 1) + 1 = i /\ (k + 1) + (i - 1) = k + i
        BY ONLY <1>4, <2>2, <2>4, i \in 1 .. Len(g)
      <3>2. g[i] = l[i - 1]
        BY <2>2, <3>1
      <3> QED BY <2>1, <3>1, <3>2
    <2>5. k + Len(g) <= Len(t.table.functions)
      <3>1. /\ k \in Nat /\ Len(t.table.functions) \in Nat /\ Len(l) \in Nat
            /\ (k + 1) + Len(l) <= Len(t.table.functions) /\ Len(g) = Len(l) + 1
        BY <1>4, <2>1, <2>2
      <3>2. \A i, j, m \in Nat : (i + 1) + j <= m => i + (j + 1) <= m
        OBVIOUS
      <3>3. k + (Len(l) + 1) <= Len(t.table.functions)
        BY ONLY <3>1, <3>2
      <3> QED BY <3>1, <3>3
    <2> QED BY <2>2, <2>3, <2>4, <2>5 DEF FunctionsOK
  <1> QED BY <1>4, <1>5 DEF t

LEMMA ReadingFDeclarations ==
    ASSUME NEW inner, NEW n, NEW p, Prepared(inner, n, p)
    PROVE  GivesFunctions(p, parseFDeclarations(inner, p))
  <1> DEFINE s == parseSDeclaration(p)
             f == parseFDeclaration(inner, s)
             t == Recur(inner, "functions", f)
             l == <<Node(f)>> \o Node(t)
             r == parseFDeclarations(inner, p)
  <1>1. r = IF Found(s)
            THEN syntaxError(s, "STRING_DECLARATION_AFTER_FIRST_FUNCTION_DECLARATION")
            ELSE IF ~Found(f) THEN Return_(f, <<>>)
            ELSE Then(t, Return_(t, l))
    BY DEF parseFDeclarations, functionsBehind, Repeated, Giving
  <1>2. Fine(p) /\ GivesStrings(p, s) /\ Outward(p, s) /\ Fine(s)
    BY ReadingSDeclaration DEF Prepared, GivesStrings, Outward
  <1> HIDE DEF s, r
  <1>3. Prepared(inner, n, s)
    BY <1>2, PreparedOn
  <1>4. GivesFunction(s, f)
    BY <1>3, ReadingFDeclaration
  <1>5. Outward(p, f)
    BY <1>2, <1>4, OutwardOn DEF GivesFunction
  <1> HIDE DEF f
  <1>6. CASE Found(s)
    <2>1. GivesFunctions(p, r)
      BY <1>1, <1>2, <1>6, Codes, OuterRefused
    <2> QED BY <2>1 DEF r
  <1>7. CASE ~Found(s) /\ ~Found(f)
    <2>1. /\ Outward(p, r) /\ Node(r) = <<>> /\ r.table = f.table
      BY <1>1, <1>2, <1>5, <1>7, OuterRefused
    <2>2. p.table \in Tables /\ f.table \in Tables
      BY <1>2, <1>5, Typed DEF Fine, Outward
    <2>3. IsList(<<>>) /\ Len(<<>>) = 0
      BY NoneRead
    <2>4. Len(p.table.functions) + 0 <= Len(f.table.functions)
      BY <1>5, <2>2, TableParts DEF Outward, Later
    <2>5. FunctionsOK(<<>>, f.table, Len(p.table.functions))
      BY <2>3, <2>4 DEF FunctionsOK
    <2>6. GivesFunctions(p, r)
      BY <2>1, <2>5 DEF GivesFunctions
    <2> QED BY <2>6 DEF r
  <1>8. CASE ~Found(s) /\ Found(f)
    <2>1. /\ Outward(s, t)
          /\ Found(t) => FunctionsOK(l, t.table, Len(s.table.functions))
      BY <1>3, <1>4, <1>8, OneMoreFunction
    <2> HIDE DEF t, l
    <2>2. Outward(p, t)
      BY <1>2, <2>1, OutwardOn
    <2>3. CASE Found(t)
      <3>1. r = Return_(t, l)
        BY <1>1, <1>8, <2>3 DEF Then
      <3>2. Outward(p, r) /\ Node(r) = l /\ r.table = t.table
        BY <1>2, <2>2, <3>1, OuterRefused
      <3>3. GivesFunctions(p, r)
        BY <1>2, <2>1, <2>3, <3>2 DEF GivesFunctions, GivesStrings
      <3> QED BY <3>3 DEF r
    <2>4. CASE ~Found(t)
      <3>1. r = t
        BY <1>1, <1>8, <2>4 DEF Then
      <3>2. GivesFunctions(p, r)
        BY <1>2, <2>2, <2>4, <3>1, OuterRefused
      <3> QED BY <3>2 DEF r
    <2> QED BY <2>3, <2>4
  <1> QED BY <1>6, <1>7, <1>8

GivesProgram(p, q) ==
    /\ Outward(p, q)
    /\ Found(q) => FunctionsOK(Node(q).functions, q.table, Len(p.table.functions))

LEMMA ReadingProgramBody ==
    ASSUME NEW inner, NEW n, NEW p, Prepared(inner, n, p)
    PROVE  GivesProgram(p, parseProgramBody(inner, p))
  <1> DEFINE s == parseSDeclarations(inner, p)
             f == parseFDeclaration(inner, s)
             t == Recur(inner, "functions", f)
             l == <<Node(f)>> \o Node(t)
             m == Program(Node(s), l)
             r == parseProgramBody(inner, p)
  <1>1. r = IF tokensLeft(p) = 0 THEN Nothing(p)
            ELSE IF ~Found(f) THEN syntaxError(f, "FUNCTION_DECLARATION_NEEDED")
            ELSE Then(t, Return_(t, m))
    <2>1. p.offset \in 0 .. Len(tokens) /\ Len(tokens) \in Nat
      BY Typed DEF Prepared, Fine
    <2>2. tokensLeft(p) = 0 \/ tokensLeft(p) > 0
      BY <2>1 DEF tokensLeft
    <2> HIDE DEF f, t, m
    <2> QED BY <2>2 DEF parseProgramBody, s, f, t, m, l, programOf, Giving
  <1>2. Fine(p) /\ GivesStrings(p, s) /\ Outward(p, s) /\ Outward(p, p)
    BY ReadingSDeclarations, OutwardSame, Typed DEF Prepared, GivesStrings, Fine
  <1> HIDE DEF s, r
  <1>3. Prepared(inner, n, s) /\ Fine(s)
    BY <1>2, PreparedOn
  <1>4. GivesFunction(s, f)
    BY <1>3, ReadingFDeclaration
  <1>5. Outward(p, f)
    BY <1>2, <1>4, OutwardOn DEF GivesFunction
  <1> HIDE DEF f
  <1>6. ASSUME NEW q, Outward(p, q), ~Found(q) PROVE GivesProgram(p, q)
    BY <1>6 DEF GivesProgram
  <1>7. CASE tokensLeft(p) = 0
    <2>1. GivesProgram(p, r)
      BY <1>1, <1>2, <1>6, <1>7, OuterRefused
    <2> QED BY <2>1 DEF r
  <1>8. CASE tokensLeft(p) # 0 /\ ~Found(f)
    <2>1. GivesProgram(p, r)
      BY <1>1, <1>2, <1>5, <1>6, <1>8, Codes, OuterRefused
    <2> QED BY <2>1 DEF r
  <1>9. CASE tokensLeft(p) # 0 /\ Found(f)
    <2>1. /\ Outward(s, t)
          /\ Found(t) => FunctionsOK(l, t.table, Len(s.table.functions))
      BY <1>3, <1>4, <1>9, OneMoreFunction
    <2>2. m.functions = l
      BY DEF Program
    <2> HIDE DEF t, l, m
    <2>3. Outward(p, t)
      BY <1>2, <2>1, OutwardOn
    <2>4. CASE Found(t)
      <3>1. r = Return_(t, m)
        BY <1>1, <1>9, <2>4 DEF Then
      <3>2. Outward(p, r) /\ Node(r) = m /\ r.table = t.table
        BY <1>2, <2>3, <3>1, OuterRefused
      <3>3. GivesProgram(p, r)
        BY <1>2, <2>1, <2>2, <2>4, <3>2 DEF GivesProgram, GivesStrings
      <3> QED BY <3>3 DEF r
    <2>5. CASE ~Found(t)
      <3>1. r = t
        BY <1>1, <1>9, <2>5 DEF Then
      <3>2. GivesProgram(p, r)
        BY <1>6, <2>3, <2>5, <3>1
      <3> QED BY <3>2 DEF r
    <2> QED BY <2>4, <2>5
  <1> QED BY <1>7, <1>8, <1>9

-----------------------------------------------------------------------------
(* The recursion.                                                          *)
Keeps(inner, n) == InnerOK(inner, n) /\ OuterOK(inner, n)

LEMMA Applying ==
    ASSUME NEW inner, NEW n \in Nat, Keeps(inner, n), NEW p, Fine(p), tokensLeft(p) <= n
    PROVE  /\ Inside(p) =>
                 /\ GivesTree(p, Apply(inner, "expression", p))
                 /\ \A level \in 1 .. 3 : GivesOperands(p, Apply(inner, Operands[level], p))
                 /\ GivesList(p, Apply(inner, "exprs", p))
                 /\ GivesList(p, Apply(inner, "statements", p))
                 /\ Found(Apply(inner, "statements", p))
           /\ InParams(p) => Onward(p, Apply(inner, "params", p))
           /\ GivesStrings(p, Apply(inner, "strings", p))
           /\ GivesFunctions(p, Apply(inner, "functions", p))
  <1>1. /\ Apply(inner, "expression", p) = parseExpression(inner, p)
        /\ Apply(inner, "exprs", p) = parseExprs(inner, p)
        /\ Apply(inner, "statements", p) = parseStatements(inner, p)
        /\ Apply(inner, "params", p) = parseParams(inner, p)
        /\ Apply(inner, "strings", p) = parseSDeclarations(inner, p)
        /\ Apply(inner, "functions", p) = parseFDeclarations(inner, p)
    BY DEF Apply
  <1>2. Prepared(inner, n, p)
    BY DEF Prepared, Keeps
  <1>3. ASSUME Inside(p)
        PROVE  /\ GivesTree(p, Apply(inner, "expression", p))
               /\ GivesList(p, Apply(inner, "exprs", p))
               /\ GivesList(p, Apply(inner, "statements", p))
               /\ Found(Apply(inner, "statements", p))
    <2>1. Ready(inner, n, p)
      BY <1>3 DEF Ready, Keeps
    <2> QED BY <1>1, <2>1, ReadingExpression, ReadingExprs, ReadingStatements
  <1>4. ASSUME Inside(p), NEW level \in 1 .. 3
        PROVE  GivesOperands(p, Apply(inner, Operands[level], p))
    <2>1. Ready(inner, n, p)
      BY <1>4 DEF Ready, Keeps
    <2> DEFINE a == proceed(p)
    <2>2. Onward(p, a)
      BY <1>4, OnwardProceed
    <2> HIDE DEF a
    <2>3. Ready(inner, n, a)
      BY <2>1, <2>2, ReadyOn
    <2>4. /\ GivesTree(a, parseFactor(inner, a)) /\ GivesTree(a, parseTerm(inner, a))
          /\ GivesTree(a, parseComparand(inner, a))
      BY <2>3, ReadingFactor, ReadingExpression
    <2>5. Operands[1] = "comparands" /\ Operands[2] = "terms" /\ Operands[3] = "factors"
      BY DEF Operands
    <2>6. /\ Apply(inner, "comparands", p) = parseOperands(inner, p, parseComparand(inner, a), 1)
          /\ Apply(inner, "terms", p) = parseOperands(inner, p, parseTerm(inner, a), 2)
          /\ Apply(inner, "factors", p) = parseOperands(inner, p, parseFactor(inner, a), 3)
      BY DEF Apply, a
    <2>7. /\ GivesOperands(p, parseOperands(inner, p, parseComparand(inner, a), 1))
          /\ GivesOperands(p, parseOperands(inner, p, parseTerm(inner, a), 2))
          /\ GivesOperands(p, parseOperands(inner, p, parseFactor(inner, a), 3))
      BY <2>1, <2>4, ReadingOperands DEF a
    <2>8. level = 1 \/ level = 2 \/ level = 3
      OBVIOUS
    <2> QED BY <2>5, <2>6, <2>7, <2>8
  <1>5. InParams(p) => Onward(p, Apply(inner, "params", p))
    BY <1>1, <1>2, ReadingParams
  <1>6. GivesStrings(p, Apply(inner, "strings", p))
    BY <1>1, <1>2, ReadingSDeclarations
  <1>7. GivesFunctions(p, Apply(inner, "functions", p))
    BY <1>1, <1>2, ReadingFDeclarations
  <1> QED BY <1>3, <1>4, <1>5, <1>6, <1>7

Row(f, i) ==
    [call \in Rules \X Parsers |->
        IF i = 0 THEN call[2] ELSE Apply(f[i - 1], call[1], call[2])]

ParseTo(f, n) == f = [i \in 0 .. n |-> Row(f, i)]

LEMMA ParseToAll == \A n \in Nat : \E f : ParseTo(f, n)
  <1> DEFINE S == {n \in Nat : \E f : ParseTo(f, n)}
  <1>1. \A f, g : Row(f, 0) = Row(g, 0)
    BY DEF Row
  <1>2. \A f, g, i : f[i - 1] = g[i - 1] => Row(f, i) = Row(g, i)
    BY DEF Row
  <1>3. 0 \in S
    <2>1. ParseTo([i \in 0 .. 0 |-> Row(<<>>, 0)], 0)
      <3> DEFINE g == [i \in 0 .. 0 |-> Row(<<>>, 0)]
      <3>1. Row(g, 0) = Row(<<>>, 0)
        BY <1>1
      <3> QED BY <3>1 DEF ParseTo
    <2> QED BY <2>1
  <1>4. ASSUME NEW k \in Nat, k \in S PROVE k + 1 \in S
    <2>1. PICK f : ParseTo(f, k)
      BY <1>4
    <2> DEFINE g == [i \in 0 .. k + 1 |-> Row(f, i)]
    <2>2. ASSUME NEW i \in 0 .. k PROVE g[i] = f[i]
      <3>1. i \in 0 .. k + 1
        OBVIOUS
      <3> QED BY <2>1, <3>1 DEF ParseTo
    <2>3. ASSUME NEW i \in 0 .. k + 1 PROVE g[i] = Row(g, i)
      <3>1. g[i] = Row(f, i)
        OBVIOUS
      <3> HIDE DEF g
      <3>2. CASE i = 0
        BY <1>1, <3>1, <3>2
      <3>3. CASE i # 0
        <4>1. i - 1 \in 0 .. k
          BY <3>3
        <4>2. g[i - 1] = f[i - 1]
          BY <2>2, <4>1
        <4> QED BY <1>2, <3>1, <4>2
      <3> QED BY <3>2, <3>3
    <2>4. g = [i \in 0 .. k + 1 |-> Row(g, i)]
      <3>1. g = [i \in 0 .. k + 1 |-> g[i]]
        OBVIOUS
      <3> HIDE DEF g
      <3> QED BY <2>3, <3>1
    <2>5. ParseTo(g, k + 1)
      BY <2>4 DEF ParseTo
    <2> HIDE DEF g
    <2> QED BY <2>5
  <1> HIDE DEF S
  <1>5. \A n \in Nat : n \in S
    BY <1>3, <1>4, Induction
  <1> QED BY <1>5 DEF S

LEMMA ParseStep ==
    ASSUME Len(tokens) \in Nat, NEW k \in 0 .. Len(tokens),
           NEW rule \in Rules, NEW p, IsParser(p)
    PROVE  Recur(parse[k + 1], rule, p) = Apply(parse[k], rule, Nothing(p))
  <1> DEFINE top == Len(tokens) + 1
             call == <<rule, Nothing(p)>>
  <1>1. ParseTo(parse, top)
    <2> DEFINE f == CHOOSE g : ParseTo(g, top)
    <2>1. top \in Nat
      OBVIOUS
    <2>2. ParseTo(f, top)
      <3> HIDE DEF top
      <3> QED BY <2>1, ParseToAll
    <2>3. parse = f
      BY Zenon DEF parse, ParseTo, Row
    <2> HIDE DEF f, top
    <2> QED BY <2>2, <2>3
  <1>2. k + 1 \in 0 .. top /\ k + 1 # 0 /\ (k + 1) - 1 = k
    OBVIOUS
  <1> HIDE DEF top
  <1>3. parse[k + 1] = Row(parse, k + 1)
    BY <1>1, <1>2 DEF ParseTo
  <1>4. Nothing(p) \in Parsers
    <2>1. IsParser(Nothing(p)) /\ Nothing(p).node = <<>>
      BY Returning DEF Same, Nothing, Found
    <2> HIDE DEF call
    <2> QED BY <2>1 DEF IsParser, Parsers
  <1>5. call \in Rules \X Parsers /\ call[1] = rule /\ call[2] = Nothing(p)
    BY <1>4
  <1> HIDE DEF call
  <1>6. Row(parse, k + 1)[call] = Apply(parse[k], call[1], call[2])
    BY <1>2, <1>5 DEF Row
  <1>7. Recur(parse[k + 1], rule, p) = parse[k + 1][call]
    BY DEF Recur, call
  <1> QED BY <1>3, <1>5, <1>6, <1>7

LEMMA ParseKeeps ==
    ASSUME Len(tokens) \in Nat
    PROVE  \A n \in 0 .. Len(tokens) + 1 : Keeps(parse[n], n)
  <1> DEFINE S == {n \in Nat : n <= Len(tokens) + 1 => Keeps(parse[n], n)}
  <1>1. 0 \in S
    <2>1. ASSUME NEW q, IsParser(q) PROVE ~(tokensLeft(q) < 0)
      BY <2>1, Typed
    <2>2. Keeps(parse[0], 0)
      BY <2>1 DEF Keeps, InnerOK, OuterOK, Inside, Fine
    <2> QED BY <2>2
  <1>2. ASSUME NEW k \in Nat, k \in S PROVE k + 1 \in S
    <2> SUFFICES ASSUME k + 1 <= Len(tokens) + 1 PROVE Keeps(parse[k + 1], k + 1)
      OBVIOUS
    <2>1. k \in 0 .. Len(tokens) /\ k <= Len(tokens) + 1
      OBVIOUS
    <2>2. Keeps(parse[k], k)
      BY <1>2, <2>1
    <2> HIDE DEF S
    <2>3. ASSUME NEW q, Fine(q), tokensLeft(q) < k + 1
          PROVE  LET r == Nothing(q)
                 IN /\ Same(q, r) /\ Fine(r) /\ tokensLeft(r) <= k /\ IsParser(q)
                    /\ \A rule \in Rules : Recur(parse[k + 1], rule, q) = Apply(parse[k], rule, r)
      <3>1. Same(q, Nothing(q)) /\ Nothing(q).offset = q.offset /\ IsParser(q)
        BY <2>3, Returning DEF Fine
      <3>2. tokensLeft(q) \in Nat /\ tokensLeft(Nothing(q)) = tokensLeft(q)
        BY <3>1, Typed DEF tokensLeft
      <3>3. Fine(Nothing(q))
        BY <2>3, <3>1 DEF Fine, Same
      <3>4. \A rule \in Rules : Recur(parse[k + 1], rule, q) = Apply(parse[k], rule, Nothing(q))
        BY <2>1, <3>1, ParseStep
      <3> QED BY <2>3, <3>1, <3>2, <3>3, <3>4
    <2>4. /\ {"expression", "exprs", "statements", "params", "strings", "functions"} \subseteq Rules
          /\ \A level \in 1 .. 3 : Operands[level] \in Rules
      BY DEF Rules, Operands
    <2>5. InnerOK(parse[k + 1], k + 1)
      <3> SUFFICES ASSUME NEW q, Inside(q), tokensLeft(q) < k + 1
                   PROVE  LET i == parse[k + 1]
                          IN /\ GivesTree(q, Recur(i, "expression", q))
                             /\ \A level \in 1 .. 3 : GivesOperands(q, Recur(i, Operands[level], q))
                             /\ GivesList(q, Recur(i, "exprs", q))
                             /\ GivesList(q, Recur(i, "statements", q))
                             /\ Found(Recur(i, "statements", q))
        BY DEF InnerOK
      <3> DEFINE r == Nothing(q)
      <3>1. /\ Same(q, r) /\ Fine(r) /\ tokensLeft(r) <= k
            /\ \A rule \in Rules : Recur(parse[k + 1], rule, q) = Apply(parse[k], rule, r)
        BY <2>3 DEF Inside
      <3> HIDE DEF r
      <3>2. Onward(q, r) /\ Inside(r)
        BY <3>1, OnwardSame
      <3>3. /\ GivesTree(r, Apply(parse[k], "expression", r))
            /\ \A level \in 1 .. 3 : GivesOperands(r, Apply(parse[k], Operands[level], r))
            /\ GivesList(r, Apply(parse[k], "exprs", r))
            /\ GivesList(r, Apply(parse[k], "statements", r))
            /\ Found(Apply(parse[k], "statements", r))
        BY <2>2, <3>1, <3>2, Applying
      <3>4. /\ GivesTree(q, Apply(parse[k], "expression", r))
            /\ \A level \in 1 .. 3 : GivesOperands(q, Apply(parse[k], Operands[level], r))
            /\ GivesList(q, Apply(parse[k], "exprs", r))
            /\ GivesList(q, Apply(parse[k], "statements", r))
        BY <3>2, <3>3, GivesOn
      <3> QED BY <2>4, <3>1, <3>3, <3>4
    <2>6. OuterOK(parse[k + 1], k + 1)
      <3> SUFFICES ASSUME NEW q, Fine(q), tokensLeft(q) < k + 1
                   PROVE  LET i == parse[k + 1]
                          IN /\ InParams(q) => Onward(q, Recur(i, "params", q))
                             /\ GivesStrings(q, Recur(i, "strings", q))
                             /\ GivesFunctions(q, Recur(i, "functions", q))
        BY DEF OuterOK
      <3> DEFINE r == Nothing(q)
      <3>1. /\ Same(q, r) /\ Fine(r) /\ tokensLeft(r) <= k
            /\ \A rule \in Rules : Recur(parse[k + 1], rule, q) = Apply(parse[k], rule, r)
        BY <2>3
      <3> HIDE DEF r
      <3>2. Outward(q, r) /\ r.table = q.table
        BY <3>1, OutwardSame DEF Same
      <3>3. /\ InParams(r) => Onward(r, Apply(parse[k], "params", r))
            /\ GivesStrings(r, Apply(parse[k], "strings", r))
            /\ GivesFunctions(r, Apply(parse[k], "functions", r))
        BY <2>2, <3>1, Applying
      <3>4. InParams(q) => Onward(q, Apply(parse[k], "params", r))
        <4> SUFFICES ASSUME InParams(q) PROVE Onward(q, Apply(parse[k], "params", r))
          OBVIOUS
        <4>1. InParams(r) /\ Onward(q, r) /\ Inside(q)
          BY <3>1, InParamsSame DEF InParams
        <4> QED BY <3>3, <4>1, OnwardOn
      <3>5. GivesStrings(q, Apply(parse[k], "strings", r))
        BY <3>2, <3>3, OutwardOn DEF GivesStrings
      <3>6. GivesFunctions(q, Apply(parse[k], "functions", r))
        BY <3>2, <3>3, OutwardOn DEF GivesFunctions
      <3> QED BY <2>4, <3>1, <3>4, <3>5, <3>6
    <2> QED BY <2>5, <2>6 DEF Keeps
  <1> HIDE DEF S
  <1>3. \A n \in Nat : n \in S
    BY <1>1, <1>2, Induction
  <1> QED BY <1>3 DEF S

LEMMA AtTheStart ==
    ASSUME tokens \in Seq(TokenSet)
    PROVE  /\ Fine(construct) /\ IsParser(construct) /\ ~Found(construct)
           /\ construct.offset = 0 /\ construct.printedAt = 0
           /\ construct.table.functions = <<>>
  <1>1. construct.table = [functions |-> <<>>, strings |-> <<>>] /\ construct.node = <<>>
        /\ construct.offset = 0 /\ construct.printedAt = 0
    BY DEF construct
  <1>2. construct.table \in Tables
    BY <1>1 DEF Tables
  <1>3. "NO_ERROR" \in Statuses
    BY DEF Statuses, ParseError
  <1>4. 0 \in 0 .. Len(tokens)
    OBVIOUS
  <1>5. IsParser(construct)
    BY <1>1, <1>2, <1>3, <1>4 DEF IsParser, construct
  <1>6. Distinct(construct.table)
    BY <1>1 DEF Distinct
  <1> QED BY <1>1, <1>5, <1>6 DEF Fine, Found

(* The whole text.                                                         *)
LEMMA ReadingProgram ==
    ASSUME tokens \in Seq(TokenSet)
    PROVE  /\ IsParser(parseProgram) /\ Distinct(parseProgram.table)
           /\ Found(parseProgram) =>
                 FunctionsOK(Node(parseProgram).functions, parseProgram.table, 0)
  <1> DEFINE top   == Len(tokens) + 1
             start == requireKeyword(construct, "PROG_START", "NO_PROG_START")
             title == requireIdToken(start)
             line  == requireNewLines(title)
             body  == parseProgramBody(parse[top], line)
             end   == requireKeyword(body, "PROG_END", "NO_PROG_END")
             r     == [end EXCEPT !.node = body.node]
  <1>1. parseProgram = r
    BY DEF parseProgram, endOf
  <1>2. Len(tokens) \in Nat /\ top \in 0 .. Len(tokens) + 1 /\ top \in Nat
    OBVIOUS
  <1>3. Fine(construct) /\ IsParser(construct) /\ construct.table.functions = <<>>
    BY AtTheStart
  <1>4. Same(construct, start) /\ IsParser(start)
    BY <1>3, Codes, RequiringKeyword DEF Same
  <1> HIDE DEF start
  <1>5. Same(start, title) /\ IsParser(title)
    BY <1>4, RequiringId DEF Same
  <1> HIDE DEF title
  <1>6. Same(title, line) /\ IsParser(line)
    BY <1>5, RequiringNewLines DEF Same
  <1> HIDE DEF line
  <1>7. line.table = construct.table /\ Fine(line)
    BY <1>3, <1>4, <1>5, <1>6 DEF Same, Fine
  <1>8. Keeps(parse[top], top)
    BY <1>2, ParseKeeps
  <1>9. tokensLeft(line) <= top
    <2>1. line.offset \in Nat
      BY <1>6, Typed
    <2> QED BY <1>2, <2>1 DEF tokensLeft
  <1>10. Prepared(parse[top], top, line)
    BY <1>2, <1>7, <1>8, <1>9 DEF Prepared, Keeps
  <1> HIDE DEF top
  <1>11. GivesProgram(line, body)
    BY <1>10, ReadingProgramBody
  <1> HIDE DEF body
  <1>12. Fine(body) /\ IsParser(body)
    BY <1>11 DEF GivesProgram, Outward, Fine
  <1>13. Same(body, end) /\ IsParser(end)
    BY <1>12, Codes, RequiringKeyword DEF Same
  <1> HIDE DEF end
  <1>14. IsParser(r) /\ r.table = end.table /\ r.node = body.node
    BY <1>13 DEF IsParser
  <1> HIDE DEF r
  <1>15. Distinct(r.table) /\ r.table = body.table
    BY <1>12, <1>13, <1>14 DEF Same, Fine
  <1>16. Found(r) => Found(body) /\ Node(r) = Node(body)
    BY <1>14 DEF Found, Node
  <1>17. Len(line.table.functions) = 0
    BY <1>3, <1>7
  <1>18. Found(r) => FunctionsOK(Node(r).functions, r.table, 0)
    BY <1>11, <1>15, <1>16, <1>17 DEF GivesProgram
  <1> QED BY <1>1, <1>14, <1>15, <1>18

-----------------------------------------------------------------------------
SlipSet == {"cut", "lose", "double", "exchange", "mistake"} \X Nat

(* What the parser has accepted reads what its symbol table holds.         *)
Sound(p) ==
    /\ Distinct(p.table)
    /\ Found(p) => FunctionsOK(Node(p).functions, p.table, 0)

(* The parser is built before the text is read, and reads it once.         *)
Inv ==
    /\ chosen \in DOMAIN Texts
    /\ tokens \in Seq(TokenSet)
    /\ slips \in Seq(SlipSet) /\ Len(slips) <= MaxSlips
    /\ stage \in {"written", "parsed"}
    /\ stage = "written" => parser = construct
    /\ IsParser(parser) /\ Sound(parser)

LEMMA SoundLater == Sound(parser') => Sound(parser)'
  BY Zenon DEF Sound, Distinct, Found, Node, Null, FunctionsOK, FunctionOK, IsList, ListReads,
               ReadsOnly, Closed, Children, Readable

LEMMA ParserLater == tokens' = tokens /\ IsParser(parser') => IsParser(parser)'
  BY DEF IsParser

LEMMA Started == Init => Inv
  <1> SUFFICES ASSUME Init PROVE Inv
    OBVIOUS
  <1> USE DEF Init
  <1>1. tokens \in Seq(TokenSet)
    BY TextsAssumption
  <1>2. slips \in Seq(SlipSet) /\ Len(slips) <= MaxSlips
    BY SlipsAssumption
  <1>3. IsParser(parser) /\ Distinct(parser.table) /\ ~Found(parser)
    BY <1>1, AtTheStart DEF Fine
  <1> QED BY <1>1, <1>2, <1>3 DEF Inv, Sound

(* Whatever text a slip leaves, the parser is ready for it.                *)
LEMMA Slipping ==
    ASSUME Inv, NEW kind \in {"cut", "lose", "double", "exchange", "mistake"},
           NEW i \in Nat, NEW text \in Seq(TokenSet), Slip(kind, i, text)
    PROVE  Inv'
  <1> USE DEF Slip
  <1>1. /\ stage = "written" /\ parser = construct /\ parser' = construct
        /\ tokens' = text /\ chosen' = chosen /\ stage' = stage
        /\ chosen \in DOMAIN Texts
    BY DEF Inv
  <1>2. slips' \in Seq(SlipSet) /\ Len(slips') <= MaxSlips
    <2> DEFINE s == <<kind, i>>
    <2>1. s \in SlipSet
      BY DEF SlipSet
    <2> HIDE DEF s
    <2>2. slips \in Seq(SlipSet) /\ Len(slips) \in Nat /\ Len(slips) < MaxSlips
      BY DEF Inv
    <2>3. slips' = Append(slips, s)
      BY DEF s
    <2> QED BY <2>1, <2>2, <2>3, SlipsAssumption
  <1>3. (tokens \in Seq(TokenSet))'
    BY <1>1
  <1>4. (tokens \in Seq(TokenSet) => Fine(construct) /\ IsParser(construct) /\ ~Found(construct))'
    BY AtTheStart, PTL
  <1>5. (parser = construct)'
    BY <1>1 DEF construct
  <1>6. (IsParser(parser) /\ Sound(parser))'
    BY <1>3, <1>4, <1>5 DEF Fine, Sound
  <1> QED BY <1>1, <1>2, <1>3, <1>5, <1>6 DEF Inv

LEMMA Joining ==
    ASSUME NEW s \in Seq(TokenSet), NEW i \in DOMAIN s
    PROVE  /\ i \in 1 .. Len(s) /\ i \in Nat /\ s[i] \in TokenSet
           /\ SubSeq(s, 1, i - 1) \in Seq(TokenSet)
           /\ RemoveAt(s, i) \in Seq(TokenSet)
           /\ InsertAt(s, i, s[i]) \in Seq(TokenSet)
  <1>1. i \in 1 .. Len(s) /\ i \in Nat /\ s[i] \in TokenSet /\ Len(s) \in Nat
    OBVIOUS
  <1>2. \A m, n \in Int : 1 <= m /\ n <= Len(s) => SubSeq(s, m, n) \in Seq(TokenSet)
    <2> SUFFICES ASSUME NEW m \in Int, NEW n \in Int, 1 <= m, n <= Len(s)
                 PROVE  SubSeq(s, m, n) \in Seq(TokenSet)
      OBVIOUS
    <2>1. \A k \in m .. n : s[k] \in TokenSet
      BY <1>1
    <2> QED BY <2>1, SubSeqProperties
  <1>3. /\ SubSeq(s, 1, i - 1) \in Seq(TokenSet)
        /\ SubSeq(s, i + 1, Len(s)) \in Seq(TokenSet)
        /\ SubSeq(s, i, Len(s)) \in Seq(TokenSet)
    BY <1>1, <1>2
  <1>4. <<s[i]>> \in Seq(TokenSet)
    BY <1>1
  <1> DEFINE a == SubSeq(s, 1, i - 1)
             b == SubSeq(s, i + 1, Len(s))
             c == SubSeq(s, i, Len(s))
             d == <<s[i]>>
  <1>5. RemoveAt(s, i) = a \o b /\ InsertAt(s, i, s[i]) = a \o d \o c
    BY Zenon DEF RemoveAt, InsertAt
  <1>6. a \in Seq(TokenSet) /\ b \in Seq(TokenSet) /\ c \in Seq(TokenSet) /\ d \in Seq(TokenSet)
    BY <1>3, <1>4
  <1> HIDE DEF a, b, c, d
  <1>7. a \o b \in Seq(TokenSet) /\ a \o d \o c \in Seq(TokenSet)
    BY <1>6
  <1> QED BY <1>1, <1>3, <1>5, <1>7

LEMMA Exchanging ==
    ASSUME NEW s \in Seq(TokenSet), NEW i \in DOMAIN s, NEW j \in DOMAIN s,
           NEW x \in TokenSet, NEW y \in TokenSet
    PROVE  /\ [s EXCEPT ![i] = x] \in Seq(TokenSet)
           /\ [s EXCEPT ![i] = x, ![j] = y] \in Seq(TokenSet)
  <1> DEFINE t == [s EXCEPT ![i] = x]
  <1>1. t \in Seq(TokenSet) /\ DOMAIN t = DOMAIN s
    OBVIOUS
  <1>2. [s EXCEPT ![i] = x, ![j] = y] = [t EXCEPT ![j] = y]
    BY Zenon
  <1> HIDE DEF t
  <1>3. [t EXCEPT ![j] = y] \in Seq(TokenSet)
    BY <1>1
  <1> QED BY <1>1, <1>2, <1>3 DEF t

LEMMA Stepping == Inv /\ [Next]_vars => Inv'
  <1> SUFFICES ASSUME Inv, [Next]_vars PROVE Inv'
    OBVIOUS
  <1>1. tokens \in Seq(TokenSet) /\ DOMAIN tokens = 1 .. Len(tokens) /\ Len(tokens) \in Nat
    BY DEF Inv
  <1>2. ASSUME NEW kind \in {"cut", "lose", "double", "exchange", "mistake"},
               NEW i \in DOMAIN tokens, NEW text \in Seq(TokenSet), Slip(kind, i, text)
        PROVE  Inv'
    <2>1. i \in Nat
      BY <1>1
    <2> QED BY <1>2, <2>1, Slipping
  <1>3. CASE Cut
    <2>1. PICK i \in DOMAIN tokens : Slip("cut", i, SubSeq(tokens, 1, i - 1))
      BY <1>3 DEF Cut
    <2>2. SubSeq(tokens, 1, i - 1) \in Seq(TokenSet)
      BY <1>1, Joining
    <2> QED BY <1>2, <2>1, <2>2
  <1>4. CASE Lose
    <2>1. PICK i \in DOMAIN tokens : Slip("lose", i, RemoveAt(tokens, i))
      BY <1>4 DEF Lose
    <2>2. RemoveAt(tokens, i) \in Seq(TokenSet)
      BY <1>1, Joining
    <2> QED BY <1>2, <2>1, <2>2
  <1>5. CASE Double
    <2>1. PICK i \in DOMAIN tokens : Slip("double", i, InsertAt(tokens, i, tokens[i]))
      BY <1>5 DEF Double
    <2>2. InsertAt(tokens, i, tokens[i]) \in Seq(TokenSet)
      BY <1>1, Joining
    <2> QED BY <1>2, <2>1, <2>2
  <1>6. CASE Exchange
    <2>1. PICK i \in 1 .. Len(tokens) - 1 :
            Slip("exchange", i, [tokens EXCEPT ![i] = tokens[i + 1], ![i + 1] = tokens[i]])
      BY <1>6 DEF Exchange
    <2>2. i \in DOMAIN tokens /\ i + 1 \in DOMAIN tokens
      BY <1>1
    <2>3. tokens[i] \in TokenSet /\ tokens[i + 1] \in TokenSet
      BY <1>1, <2>2, Joining
    <2>4. [tokens EXCEPT ![i] = tokens[i + 1], ![i + 1] = tokens[i]] \in Seq(TokenSet)
      BY <1>1, <2>2, <2>3, Exchanging
    <2> QED BY <1>2, <2>1, <2>2, <2>4
  <1>7. CASE Mistake
    <2>1. PICK i \in NamePlaces, j \in NamePlaces :
            Slip("mistake", i, [tokens EXCEPT ![i] = tokens[j]])
      BY <1>7 DEF Mistake
    <2>2. i \in DOMAIN tokens /\ j \in DOMAIN tokens
      BY DEF NamePlaces
    <2>3. tokens[j] \in TokenSet
      BY <1>1, <2>2, Joining
    <2>4. [tokens EXCEPT ![i] = tokens[j]] \in Seq(TokenSet)
      BY <1>1, <2>2, <2>3, Exchanging
    <2> QED BY <1>2, <2>1, <2>2, <2>4
  <1>8. CASE Parse
    <2>1. /\ chosen' = chosen /\ tokens' = tokens /\ slips' = slips
          /\ parser' = parseProgram /\ stage' = "parsed"
      BY <1>8 DEF Parse
    <2>2. IsParser(parseProgram) /\ Sound(parseProgram)
      BY <1>1, ReadingProgram DEF Sound
    <2>3. IsParser(parser') /\ Sound(parser')
      BY <2>1, <2>2
    <2>4. IsParser(parser)' /\ Sound(parser)'
      BY <2>1, <2>3, ParserLater, SoundLater
    <2> QED BY <2>1, <2>4 DEF Inv
  <1>9. CASE UNCHANGED vars
    <2>1. /\ chosen' = chosen /\ tokens' = tokens /\ slips' = slips
          /\ parser' = parser /\ stage' = stage
      BY <1>9 DEF vars
    <2>2. IsParser(parser') /\ Sound(parser')
      BY <2>1 DEF Inv
    <2>3. IsParser(parser)' /\ Sound(parser)'
      BY <2>1, <2>2, ParserLater, SoundLater
    <2> QED BY <2>1, <2>3 DEF Inv, construct
  <1> QED BY <1>3, <1>4, <1>5, <1>6, <1>7, <1>8, <1>9 DEF Next

LEMMA Kept == Spec => []Inv
  <1> QED BY Started, Stepping, PTL DEF Spec

(* The parser keeps to its tokens: it never goes behind the first nor past *)
(* the one that calloc has left after the last, and its status and its     *)
(* table are such as the rest of the compiler expects (parser.cpp).        *)
THEOREM TypeCorrect == Spec => []TypeOK
  <1>1. Inv => TypeOK
    <2> SUFFICES ASSUME Inv PROVE TypeOK
      OBVIOUS
    <2>1. Nothing(parser) \in Parsers
      <3>1. IsParser(Nothing(parser)) /\ Nothing(parser).node = <<>>
        BY Returning DEF Inv, Same, Nothing, Found
      <3> QED BY <3>1 DEF IsParser, Parsers
    <2>2. parser.offset \in 0 .. Len(tokens) /\ parser.printedAt \in 0 .. Len(tokens)
      BY DEF Inv, IsParser
    <2> QED BY <2>1, <2>2 DEF Inv, TypeOK
  <1> QED BY <1>1, Kept, PTL

(* Functions, named strings and the variables of a function are told apart *)
(* by their names: the parser refuses the second declaration of a name     *)
(* that is in its symbol table (only parameters may share one).            *)
THEOREM NamesDistinct == Spec => []DistinctNames
  <1>1. Inv => DistinctNames
    BY DEF Inv, Sound, DistinctNames
  <1> QED BY <1>1, Kept, PTL

(* What a program that has been parsed reads, at any depth of its tree, is *)
(* a variable that the function has in the symbol table, or a named        *)
(* string: the code generator finds an offset or a label for all of them.  *)
THEOREM ReadsAreDeclared == Spec => []ReadsDeclared
  <1>1. Inv => ReadsDeclared
    <2> SUFFICES ASSUME Inv, Found(parser) PROVE ReadsDeclared
      BY DEF ReadsDeclared
    <2> DEFINE functions == Node(parser).functions
    <2>1. FunctionsOK(functions, parser.table, 0)
      BY DEF Inv, Sound
    <2> HIDE DEF functions
    <2>2. Len(tokens) \in Nat
      BY DEF Inv
    <2>3. ASSUME NEW i \in 1 .. Len(functions)
          PROVE  /\ functions[i].name = parser.table.functions[i].name
                 /\ \A n \in NodesOf(functions[i].body) :
                       n.type = "ID_TYPE" => n.id \in Readable(parser.table, i)
      <3>1. FunctionOK(functions[i], parser.table, i)
        <4>1. 0 + i = i
          OBVIOUS
        <4> QED BY <2>1, <4>1 DEF FunctionsOK
      <3> QED BY <2>2, <3>1, NodesRead DEF FunctionOK
    <2>4. Len(functions) <= Len(parser.table.functions)
      BY <2>1 DEF FunctionsOK
    <2> QED BY <2>3, <2>4 DEF ReadsDeclared, functions
  <1> QED BY <1>1, Kept, PTL
=============================================================================
