-------------------------- MODULE Tokenizer_proofs --------------------------
(* The tokenizer's types, that its array suffices, and what it reads.      *)
EXTENDS Tokenizer, SequenceTheorems, FiniteSetTheorems, WellFoundedInduction, TLAPS

Elements(s) == {s[i] : i \in DOMAIN s}

(* One half of a token is owed by a string that ends at a new line: a      *)
(* quotation mark alone makes two tokens.                                  *)
Owed(i) == IF Char(i) = NewLine THEN 1 ELSE 0

(* The array holds at most one and a half tokens for every character read. *)
FitOK == 2 * Len(tokens) <= 3 * (position - 1) + Owed(position)

IInv ==
    /\ text \in Seq(STRING)
    /\ tokens \in Seq(Elements(tokens))
    /\ TypeOK
    /\ status = "running" => FitOK
    /\ TokensFit

LEMMA Apart ==
    /\ Quote # NewLine /\ NewLine \notin Blanks /\ Quote \notin Blanks
    /\ NUL \notin Blanks /\ NUL # NewLine /\ NUL # Quote
  BY DEF Quote, NewLine, Blanks, NUL

(* Where skipSpaces stops.                                                 *)
LEMMA Stops ==
    ASSUME text \in Seq(STRING), NEW i \in Nat \ {0}, proceedTo(i)
    PROVE  /\ position' \in i..(Len(text) + 1)
           /\ Char(position') \notin Blanks
           /\ Char(i) \notin Blanks => position' = i
  <1>1. PICK j \in i..(Len(text) + 1) : FirstNotIn(Blanks, i, j) /\ position' = j
    BY DEF proceedTo
  <1>2. Char(i) \notin Blanks => j = i
    <2> SUFFICES ASSUME Char(i) \notin Blanks, j # i  PROVE FALSE
      OBVIOUS
    <2>1. i \in i..(j - 1)
      BY <1>1, LenProperties
    <2> QED BY <2>1, <1>1 DEF FirstNotIn
  <1> QED BY <1>1, <1>2 DEF FirstNotIn

(* One and two tokens, and three, as a sequence of its own elements.       *)
LEMMA Elementary ==
    ASSUME NEW T, NEW s \in Seq(T)
    PROVE  s \in Seq(Elements(s)) /\ Len(s) \in Nat /\ DOMAIN s = 1..Len(s)
  <1>1. Len(s) \in Nat /\ DOMAIN s = 1..Len(s)
    BY LenProperties
  <1>2. s \in [1..Len(s) -> Elements(s)]
    BY <1>1, LenProperties DEF Elements
  <1> QED BY <1>1, <1>2, SeqDef

LEMMA Sums ==
    ASSUME NEW had \in Nat, NEW more \in Nat, NEW from \in Nat, NEW to \in Nat,
           NEW owed \in Nat, NEW owedNext \in Nat,
           2 * had <= 3 * (from - 1) + owed,
           2 * more + owed <= 3 * (to - from) + owedNext
    PROVE  2 * (had + more) <= 3 * (to - 1) + owedNext
  OBVIOUS

(* A step that adds tokens and moves on keeps to one and a half tokens for *)
(* a character.                                                            *)
LEMMA Advance ==
    ASSUME IInv, status = "running", UNCHANGED file, currentLine' \in Nat,
           NEW T, NEW added \in Seq(T), addTokens(added),
           position' \in (position + 1)..(Len(text) + 1), Char(position') \notin Blanks,
           2 * Len(added) + Owed(position) <= 3 * (position' - position) + Owed(position')
    PROVE  IInv'
  <1> DEFINE n == Len(text)  both == tokens \o added
  <1>1. text' = text /\ text \in Seq(STRING) /\ n \in Nat
    BY LenProperties DEF IInv, file
  <1>2. Len(tokens) \in Nat /\ Len(added) \in Nat
    BY Elementary DEF IInv
  <1>3. /\ both \in Seq(Elements(tokens) \union T)
        /\ Len(both) = Len(tokens) + Len(added)
    <2>1. tokens \in Seq(Elements(tokens) \union T) /\ added \in Seq(Elements(tokens) \union T)
      BY SeqMonotonic DEF IInv
    <2> QED BY <2>1, ConcatProperties
  <1>4. 2 * Len(both) <= 3 * (position' - 1) + Owed(position')
    <2>1. Owed(position) \in {0, 1} /\ Owed(position') \in {0, 1}
      BY DEF Owed
    <2>2. 2 * Len(tokens) <= 3 * (position - 1) + Owed(position) /\ position \in Nat
      BY DEF IInv, FitOK, TypeOK
    <2>3. position' \in Nat
      BY <1>1, <2>2
    <2> DEFINE owed == Owed(position)  owedNext == Owed(position')
    <2>4. owed \in Nat /\ owedNext \in Nat
      BY <2>1
    <2>5. 2 * Len(tokens) <= 3 * (position - 1) + owed
      BY <2>2
    <2>6. 2 * Len(added) + owed <= 3 * (position' - position) + owedNext
      BY Zenon
    <2>7. Len(both) = Len(tokens) + Len(added)
      BY <1>3
    <2> HIDE DEF both, owed, owedNext
    <2>8. 2 * Len(both) <= 3 * (position' - 1) + owedNext
      BY <1>2, <2>2, <2>3, <2>4, <2>7, <2>5, <2>6, Sums, Zenon
    <2> QED BY <2>8 DEF owedNext
  <1>5. 2 * Len(both) <= 3 * n
    <2>1. Owed(position') \in {0, 1} /\ (Owed(position') = 1 => position' # n + 1)
      BY Apart, <1>1 DEF Owed, Char
    <2>2. position' \in Nat /\ position' <= n + 1
      BY <1>1 DEF IInv, TypeOK
    <2>3. Len(both) \in Nat
      BY <1>2, <1>3
    <2> DEFINE owedNext == Owed(position')
    <2>4. /\ owedNext \in {0, 1} /\ (owedNext = 1 => position' # n + 1)
          /\ 2 * Len(both) <= 3 * (position' - 1) + owedNext
      BY <2>1, <1>4
    <2>5. n \in Nat
      BY <1>1
    <2> HIDE DEF both, n, owedNext
    <2> QED BY <2>2, <2>3, <2>4, <2>5
  <1>6. position \in Nat /\ position' \in Nat \ {0} /\ position' \in 1..(n + 1)
    BY <1>1 DEF IInv, TypeOK
  <1>7. Char(position)' = Char(position') /\ Owed(position)' = Owed(position')
    BY <1>1 DEF Char, Owed
  <1>8. CASE Len(tokens) + Len(added) <= MAX_TOKENS_COUNT
    <2>1. tokens' = both /\ status' = "running"
      BY <1>8 DEF addTokens
    <2>2. tokens' \in Seq(Elements(tokens'))
      BY <2>1, <1>3, Elementary
    <2>3. TypeOK'
      BY <1>1, <1>3, <1>6, <1>7, <1>8, <2>1 DEF TypeOK
    <2>4. FitOK'
      BY <2>1, <1>4, <1>7 DEF FitOK
    <2> QED BY <2>1, <2>2, <2>3, <2>4, <1>1 DEF IInv, Elements, TokensFit
  <1>9. CASE ~(Len(tokens) + Len(added) <= MAX_TOKENS_COUNT)
    <2>1. tokens' = tokens /\ status' = "overflow"
      BY <1>9 DEF addTokens
    <2>2. TypeOK'
      BY <1>6, <2>1 DEF IInv, TypeOK
    <2>3. TokensFit'
      BY <1>1, <1>2, <1>3, <1>5, <1>9, SizeAssumption DEF TokensFit
    <2> QED BY <2>1, <2>2, <2>3, <1>1 DEF IInv, Elements
  <1> QED BY <1>8, <1>9

LEMMA InitIInv == Init => IInv
  <1> SUFFICES ASSUME Init  PROVE IInv
    OBVIOUS
  <1>1. text \in Seq(STRING) /\ Len(text) \in Nat
    BY FilesAssumption, LenProperties DEF Init
  <1>2. tokens \in Seq(Elements(tokens)) /\ Len(tokens) = 0
    BY EmptySeq DEF Init
  <1>3. position \in 1..(Len(text) + 1) /\ Char(position) \notin Blanks
    BY DEF Init, FirstNotIn
  <1>4. TypeOK
    BY <1>1, <1>2, <1>3, SizeAssumption DEF Init, TypeOK
  <1>5. FitOK
    BY <1>1, <1>2, <1>3 DEF FitOK, Owed
  <1> QED BY <1>1, <1>2, <1>4, <1>5 DEF Init, IInv, TokensFit

LEMMA StepIInv == IInv /\ [Next]_vars => IInv'
  <1> SUFFICES ASSUME IInv, [Next]_vars  PROVE IInv'
    OBVIOUS
  <1>1. /\ text \in Seq(STRING) /\ Len(text) \in Nat
        /\ position \in Nat \ {0} /\ currentLine \in Nat
        /\ Owed(position) \in {0, 1} /\ Owed(position') \in {0, 1}
    BY LenProperties DEF IInv, TypeOK, Owed
  <1>2. CASE processQuotedString
    <2>1. PICK end \in (position + 1)..Len(text) :
             /\ FirstIn({Quote, NewLine}, position + 1, end)
             /\ addTokens(QuotedTokens(end))
             /\ proceedTo(IF text[end] = Quote THEN end + 1 ELSE end)
      BY <1>2 DEF processQuotedString
    <2>2. Char(end) = text[end] /\ text[end] \in {Quote, NewLine}
      BY <1>1, <2>1 DEF FirstIn, Char
    <2>3. Owed(position) = 0 /\ status = "running" /\ UNCHANGED <<file, currentLine>>
      BY <1>2, Apart DEF processQuotedString, IsQuote, Owed
    <2> DEFINE T == {Token(Keyword("STR_QUOTE"), position), Token(Keyword("STR_QUOTE"), end),
                     Token(Quoted(SubSeq(text, position + 1, end - 1)), position + 1)}
    <2>4. CASE text[end] = Quote
      <3>1. QuotedTokens(end) \in Seq(T) /\ Len(QuotedTokens(end)) = 3
        BY <2>2, <2>4 DEF QuotedTokens
      <3>2. position' \in (end + 1)..(Len(text) + 1) /\ Char(position') \notin Blanks
        BY <1>1, <2>1, <2>4, Stops
      <3>3. position' \in (position + 1)..(Len(text) + 1)
        BY <1>1, <2>1, <3>2
      <3>4. 2 * 3 + Owed(position) <= 3 * (position' - position) + Owed(position')
        BY <1>1, <2>1, <2>3, <3>2
      <3> HIDE DEF T
      <3> QED BY <1>1, <2>1, <2>3, <3>1, <3>2, <3>3, <3>4, Advance
    <2>5. CASE text[end] # Quote
      <3>1. QuotedTokens(end) \in Seq(T) /\ Len(QuotedTokens(end)) = 2
        BY <2>2, <2>5 DEF QuotedTokens
      <3>2. position' = end /\ Char(position') \notin Blanks
        BY <1>1, <2>1, <2>2, <2>5, Stops, Apart
      <3>3. position' \in (position + 1)..(Len(text) + 1)
        BY <1>1, <2>1, <3>2
      <3>4. 2 * 2 + Owed(position) <= 3 * (position' - position) + Owed(position')
        <4>1. Owed(position') = 1
          BY <2>2, <2>5, <3>2 DEF Owed
        <4> QED BY <1>1, <2>1, <2>3, <3>2, <4>1
      <3> HIDE DEF T
      <3> QED BY <1>1, <2>1, <2>3, <3>1, <3>2, <3>3, <3>4, Advance
    <2> QED BY <2>4, <2>5
  <1>3. ASSUME NEW token, NEW i \in (position + 1)..(Len(text) + 1), status = "running",
               UNCHANGED file, currentLine' \in Nat,
               addTokens(<<token>>), proceedTo(i)
        PROVE  IInv'
    <2>1. <<token>> \in Seq({token}) /\ Len(<<token>>) = 1
      OBVIOUS
    <2>2. position' \in i..(Len(text) + 1) /\ Char(position') \notin Blanks
      BY <1>1, <1>3, Stops
    <2>3. position' \in (position + 1)..(Len(text) + 1)
      BY <1>1, <1>3, <2>2
    <2>4. 2 * 1 + Owed(position) <= 3 * (position' - position) + Owed(position')
      BY <1>1, <2>3
    <2> QED BY <1>1, <1>3, <2>1, <2>2, <2>3, <2>4, Advance
  <1>4. CASE processNumeric
    <2>1. PICK i \in position..Len(text) : \E j \in i..Len(text) :
             /\ addTokens(<<Token(Numeral(Value(i, j)), position)>>)
             /\ proceedTo(j + 1)
      BY <1>4 DEF processNumeric
    <2>2. PICK j \in i..Len(text) :
             /\ addTokens(<<Token(Numeral(Value(i, j)), position)>>)
             /\ proceedTo(j + 1)
      BY <2>1
    <2>3. j + 1 \in (position + 1)..(Len(text) + 1)
      BY <1>1, <2>1, <2>2
    <2> QED BY <1>1, <1>3, <1>4, <2>2, <2>3 DEF processNumeric
  <1>5. CASE processKeyword
    <2>1. PICK k \in DOMAIN KEYWORDS :
             /\ IsFirstMatch(k)
             /\ addTokens(<<Token(KeywordToken(KEYWORDS[k].code), position)>>)
             /\ proceedTo(position + KEYWORDS[k].length)
      BY <1>5 DEF processKeyword
    <2>2. KEYWORDS[k].length \in Nat \ {0}
      BY KeywordsAssumption
    <2>3. position + KEYWORDS[k].length \in (position + 1)..(Len(text) + 1)
      BY <1>1, <2>1, <2>2 DEF IsFirstMatch, MatchesAt
    <2>4. currentLine' \in Nat
      BY <1>1, <1>5 DEF processKeyword
    <2> QED BY <1>3, <1>5, <2>1, <2>3, <2>4 DEF processKeyword
  <1>6. CASE processComment
    <2>1. PICK end \in position..Len(text) : proceedTo(end + 1)
      BY <1>6 DEF processComment
    <2>2. end + 1 \in (position + 1)..(Len(text) + 1)
      BY <1>1, <2>1
    <2>3. currentLine' \in Nat
      BY <1>1, <1>6 DEF processComment
    <2> QED BY <1>3, <1>6, <2>1, <2>2, <2>3 DEF processComment, CommentHere, CommentNewLine
  <1>7. CASE processLastComment
    <2>1. PICK k \in DOMAIN KEYWORDS : IsFirstMatch(k)
      BY <1>7 DEF processLastComment, CommentHere
    <2>2. position \in 1..Len(text)
      BY <1>1, <2>1, KeywordsAssumption DEF IsFirstMatch, MatchesAt
    <2>3. status = "running" /\ UNCHANGED file /\ currentLine' \in Nat
      BY <1>1, <1>7 DEF processLastComment, CommentHere
    <2>4. CASE position = 1
      <3>1. position' = Len(text) + 1 /\ addTokens(CommentNewLine)
        BY <1>1, <1>7, <2>4 DEF processLastComment
      <3>2. proceedTo(Len(text) + 1)
        <4>1. Char(position') \notin Blanks
          BY <1>1, <3>1, Apart DEF Char
        <4> QED BY <1>1, <3>1, <4>1 DEF proceedTo, FirstNotIn
      <3>3. Len(text) + 1 \in (position + 1)..(Len(text) + 1)
        BY <1>1, <2>2
      <3> QED BY <1>3, <2>3, <3>1, <3>2, <3>3 DEF CommentNewLine
    <2>5. CASE position # 1
      <3>1. /\ position' \in Nat \ {0}
            /\ status' \in {"stopped", "garbage", "overflow"}
            /\ text' = text
        BY <1>1, <1>7, <2>5 DEF processLastComment, file
      <3>2. CASE Len(tokens) < MAX_TOKENS_COUNT
        <4>1. tokens' = tokens \o CommentNewLine /\ status' # "overflow" /\ status' # "running"
          BY <1>7, <2>5, <3>2 DEF processLastComment
        <4>2. /\ tokens' \in Seq(Elements(tokens) \union Elements(CommentNewLine))
              /\ Len(tokens') = Len(tokens) + 1 /\ Len(tokens) \in Nat
          <5>1. CommentNewLine \in Seq({Token(Keyword("NEW_LINE"), position)}) /\ Len(CommentNewLine) = 1
            BY DEF CommentNewLine
          <5>2. CommentNewLine \in Seq(Elements(CommentNewLine))
            BY <5>1, Elementary
          <5>3. tokens \in Seq(Elements(tokens)) /\ Len(tokens) \in Nat
            BY Elementary DEF IInv
          <5>4. /\ CommentNewLine \in Seq(Elements(tokens) \union Elements(CommentNewLine))
                /\ tokens \in Seq(Elements(tokens) \union Elements(CommentNewLine))
            BY <5>2, <5>3, SeqMonotonic
          <5> DEFINE S == Elements(tokens) \union Elements(CommentNewLine)
          <5>5. tokens \o CommentNewLine \in Seq(S)
                  /\ Len(tokens \o CommentNewLine) = Len(tokens) + Len(CommentNewLine)
            <6> HIDE DEF S
            <6>1. tokens \in Seq(S) /\ CommentNewLine \in Seq(S)
              BY <5>4 DEF S
            <6> QED BY <6>1, ConcatProperties
          <5> QED BY <4>1, <5>1, <5>3, <5>5, Zenon
        <4>3. tokens' \in Seq(Elements(tokens'))
          BY <4>2, Elementary
        <4>4. TypeOK'
          BY <2>3, <3>1, <3>2, <4>1, <4>2, SizeAssumption DEF TypeOK
        <4> QED BY <1>1, <3>1, <4>1, <4>3, <4>4 DEF IInv, Elements, TokensFit
      <3>3. CASE ~(Len(tokens) < MAX_TOKENS_COUNT)
        <4>1. tokens' = tokens /\ status' = "overflow"
          BY <1>7, <2>5, <3>3 DEF processLastComment
        <4>2. 2 * Len(tokens) <= 3 * (position - 1) + Owed(position) /\ Len(tokens) = MAX_TOKENS_COUNT
          BY <2>3, <3>3, SizeAssumption, Elementary DEF IInv, FitOK, TypeOK
        <4>3. 3 * Len(text) > 2 * MAX_TOKENS_COUNT
          BY <1>1, <2>2, <4>2, SizeAssumption
        <4> QED BY <1>1, <2>3, <3>1, <4>1, <4>3 DEF IInv, TypeOK, Elements, TokensFit
      <3> QED BY <3>2, <3>3
    <2> QED BY <2>4, <2>5
  <1>8. CASE processId
    <2>1. PICK end \in (position + 1)..(Len(text) + 1) :
             /\ addTokens(<<Token(Name(SubSeq(text, position, end - 1)), position)>>)
             /\ proceedTo(end)
      BY <1>8 DEF processId
    <2> QED BY <1>1, <1>3, <1>8, <2>1 DEF processId
  <1>9. CASE loseQuotedString \/ stop
    BY <1>9 DEF loseQuotedString, stop, file, IInv, TypeOK, TokensFit, Elements
  <1>10. CASE UNCHANGED vars
    BY <1>10 DEF vars, file, IInv, TypeOK, TokensFit, FitOK, Owed, Char, Elements
  <1> QED BY <1>2, <1>4, <1>5, <1>6, <1>7, <1>8, <1>9, <1>10 DEF Next

(* Whatever is in the file, the place at which the tokenizer reads is in   *)
(* it (at its NUL at most) and no token is put behind the array.           *)
THEOREM TypeCorrect == Spec => []TypeOK
  <1>1. IInv => TypeOK
    BY DEF IInv
  <1> QED BY <1>1, InitIInv, StepIInv, PTL DEF Spec

(* The array of MAX_TOKENS_COUNT tokens suffices for every file of at most *)
(* two thirds as many characters, whatever is in it.                       *)
THEOREM ArraySuffices == Spec => []TokensFit
  <1>1. IInv => TokensFit
    BY DEF IInv
  <1> QED BY <1>1, InitIInv, StepIInv, PTL DEF Spec

-----------------------------------------------------------------------------
(* What is read.  Of every token: where it lies, that it is the longest    *)
(* keyword there, and its line.                                            *)
TokensRead ==
    \A n \in DOMAIN tokens :
        /\ tokens[n].pos \in 1..Len(text)
        /\ LongestAt(tokens[n])
        /\ LineRight(n)

Lines(i) == Cardinality(LinesBefore(i))

(* The quotation marks before i on its line.                               *)
QuotesSince(i) ==
    {j \in 1..(i - 1) : text[j] = Quote /\ \A k \in j..(i - 1) : text[k] # NewLine}

Even(S) == \E m \in Nat : Cardinality(S) = 2 * m

CountOK == currentLine = Lines(position) \/ \E n \in DOMAIN tokens : SwallowsLines(tokens[n])

(* Quotation marks come in pairs, but for a string that its line ends.     *)
PairsOK == Char(position) = NewLine \/ Even(QuotesSince(position))

IInvR ==
    /\ IInv
    /\ \A i \in DOMAIN text : text[i] # NUL
    /\ TokensRead
    /\ status = "running" /\ position <= Len(text) => CountOK /\ PairsOK
    /\ GarbageOnlyUnended

LEMMA CountFinite ==
    ASSUME NEW i \in Nat \ {0}
    PROVE  /\ IsFiniteSet(LinesBefore(i)) /\ Lines(i) \in Nat
           /\ IsFiniteSet(QuotesSince(i)) /\ Cardinality(QuotesSince(i)) \in Nat
  <1>1. IsFiniteSet(1..(i - 1))
    BY FS_Interval
  <1>2. LinesBefore(i) \in SUBSET (1..(i - 1)) /\ QuotesSince(i) \in SUBSET (1..(i - 1))
    BY DEF LinesBefore, QuotesSince
  <1>3. IsFiniteSet(LinesBefore(i)) /\ IsFiniteSet(QuotesSince(i))
    BY <1>1, <1>2, FS_Subset
  <1> QED BY <1>3, FS_CardinalityType DEF Lines

(* On one line nothing is counted.                                         *)
LEMMA SameLine ==
    ASSUME NEW i \in Nat \ {0}, NEW j \in Nat, i <= j,
           \A k \in i..(j - 1) : text[k] # NewLine
    PROVE  LinesBefore(j) = LinesBefore(i)
  BY DEF LinesBefore

LEMMA SamePairs ==
    ASSUME NEW i \in Nat \ {0}, NEW j \in Nat, i <= j,
           \A k \in i..(j - 1) : text[k] # NewLine /\ text[k] # Quote
    PROVE  QuotesSince(j) = QuotesSince(i)
  BY DEF QuotesSince

LEMMA NextLine ==
    ASSUME NEW i \in Nat \ {0}, NEW j \in Nat, i <= j, text[j] = NewLine,
           \A k \in i..(j - 1) : text[k] # NewLine
    PROVE  Lines(j + 1) = Lines(i) + 1
  <1>1. LinesBefore(j + 1) = LinesBefore(i) \union {j} /\ j \notin LinesBefore(i)
    BY DEF LinesBefore
  <1> QED BY <1>1, CountFinite, FS_AddElement DEF Lines

LEMMA NoPairs ==
    ASSUME NEW i \in Nat \ {0}, NEW j \in Nat, NEW k \in i..(j - 1), text[k] = NewLine,
           \A l \in (k + 1)..(j - 1) : text[l] # Quote
    PROVE  QuotesSince(j) = {} /\ Even(QuotesSince(j))
  <1>1. QuotesSince(j) = {}
    BY Apart DEF QuotesSince
  <1>2. Cardinality({}) = 2 * 0
    BY FS_EmptySet
  <1> QED BY <1>1, <1>2 DEF Even

LEMMA OnePair ==
    ASSUME NEW i \in Nat \ {0}, NEW j \in Nat, i < j, text[i] = Quote, text[j] = Quote,
           \A k \in (i + 1)..(j - 1) : text[k] # NewLine /\ text[k] # Quote,
           Even(QuotesSince(i))
    PROVE  Even(QuotesSince(j + 1))
  <1>1. PICK m \in Nat : Cardinality(QuotesSince(i)) = 2 * m
    BY DEF Even
  <1>2. QuotesSince(j + 1) = (QuotesSince(i) \union {i}) \union {j}
    BY Apart DEF QuotesSince
  <1>3. i \notin QuotesSince(i) /\ j \notin QuotesSince(i) \union {i}
    BY DEF QuotesSince
  <1>4. IsFiniteSet(QuotesSince(i) \union {i})
          /\ Cardinality(QuotesSince(i) \union {i}) = 2 * m + 1
    BY <1>1, <1>3, CountFinite, FS_AddElement
  <1>5. Cardinality(QuotesSince(j + 1)) = 2 * (m + 1)
    BY <1>2, <1>3, <1>4, FS_AddElement
  <1>6. m + 1 \in Nat
    OBVIOUS
  <1> QED BY <1>5, <1>6 DEF Even

(* The blanks that are skipped are no new lines and no quotation marks.    *)
LEMMA Skipped ==
    ASSUME text \in Seq(STRING), NEW i \in 1..(Len(text) + 1), proceedTo(i)
    PROVE  /\ LinesBefore(position') = LinesBefore(i)
           /\ QuotesSince(position') = QuotesSince(i)
           /\ Char(i) = NewLine => position' = i
  <1>1. Len(text) \in Nat
    BY LenProperties
  <1>2. PICK j \in i..(Len(text) + 1) : FirstNotIn(Blanks, i, j) /\ position' = j
    BY DEF proceedTo
  <1>3. \A k \in i..(j - 1) : text[k] \in Blanks
    BY <1>1, <1>2 DEF FirstNotIn, Char
  <1>4. \A k \in i..(j - 1) : text[k] # NewLine /\ text[k] # Quote
    BY <1>3, Apart
  <1>5. LinesBefore(j) = LinesBefore(i)
    BY <1>1, <1>2, <1>4, SameLine
  <1>6. QuotesSince(j) = QuotesSince(i)
    BY <1>1, <1>2, <1>4, SamePairs
  <1>7. Char(i) = NewLine => position' = i
    BY <1>1, Stops, Apart
  <1> QED BY <1>2, <1>5, <1>6, <1>7

(* A token that stays, or is added, is in the next state what it is now.   *)
LEMMA KeptLongest ==
    ASSUME text' = text, NEW n, NEW t, tokens'[n] = t, LongestAt(t)
    PROVE  LongestAt(tokens[n])'
  BY DEF LongestAt, IsKeywordToken, MatchesAt, Char

(* Tokens that are added at one line keep the tokens well read.            *)
LEMMA AddRead ==
    ASSUME tokens \in Seq(Elements(tokens)), TokensRead, CountOK, text' = text,
           NEW T, NEW added \in Seq(T), tokens' = tokens \o added,
           \A m \in 1..Len(added) :
               /\ added[m].pos \in 1..Len(text)
               /\ LongestAt(added[m])
               /\ added[m].line = currentLine
               /\ Lines(added[m].pos) = Lines(position)
    PROVE  /\ TokensRead'
           /\ Len(tokens') = Len(tokens) + Len(added) /\ Len(tokens) \in Nat /\ Len(added) \in Nat
           /\ DOMAIN tokens' = 1..Len(tokens') /\ DOMAIN tokens = 1..Len(tokens)
           /\ \A n \in 1..Len(tokens) : tokens'[n] = tokens[n]
           /\ \A m \in 1..Len(added) : tokens'[Len(tokens) + m] = added[m]
  <1> DEFINE had == Len(tokens)  S == Elements(tokens) \union T
  <1>1. had \in Nat /\ Len(added) \in Nat /\ DOMAIN tokens = 1..had
    BY Elementary
  <1>2. tokens \in Seq(S) /\ added \in Seq(S)
    BY SeqMonotonic
  <1>3. /\ tokens' \in Seq(S) /\ Len(tokens') = had + Len(added)
        /\ \A n \in 1..(had + Len(added)) :
              tokens'[n] = IF n <= had THEN tokens[n] ELSE added[n - had]
    <2> HIDE DEF S
    <2> QED BY <1>2, ConcatProperties
  <1>4. DOMAIN tokens' = 1..(had + Len(added))
    BY <1>3, Elementary
  <1>5. \A n \in 1..had : tokens'[n] = tokens[n]
    BY <1>1, <1>3
  <1>6. \A m \in 1..Len(added) : tokens'[had + m] = added[m]
    BY <1>1, <1>3
  <1>7. ASSUME NEW n \in 1..had
        PROVE  (tokens[n].pos \in 1..Len(text) /\ LongestAt(tokens[n]) /\ LineRight(n))'
    <2>1. tokens[n].pos \in 1..Len(text) /\ LongestAt(tokens[n]) /\ LineRight(n)
      BY <1>1 DEF TokensRead
    <2>2. \A k \in 1..n : tokens'[k] = tokens[k]
      BY <1>1, <1>5
    <2>3. LineRight(n)'
      BY <2>1, <2>2, <1>5 DEF LineRight, LinesBefore, SwallowsLines, Char
    <2>4. LongestAt(tokens[n])'
      BY <2>1, <1>5, KeptLongest
    <2> QED BY <1>5, <2>1, <2>3, <2>4
  <1>8. ASSUME NEW n \in (had + 1)..(had + Len(added))
        PROVE  (tokens[n].pos \in 1..Len(text) /\ LongestAt(tokens[n]) /\ LineRight(n))'
    <2> DEFINE t == added[n - had]
    <2>1. n - had \in 1..Len(added) /\ n = had + (n - had)
      BY <1>1
    <2>2. tokens'[n] = t
      BY <1>6, <2>1
    <2>3. t.pos \in 1..Len(text) /\ LongestAt(t) /\ t.line = currentLine /\ Lines(t.pos) = Lines(position)
      BY <2>1
    <2> HIDE DEF t
    <2>4. LongestAt(tokens[n])'
      BY <2>2, <2>3, KeptLongest
    <2>5. CASE currentLine = Lines(position)
      <3>1. tokens'[n].line = Cardinality(LinesBefore(t.pos))
        BY <2>2, <2>3, <2>5 DEF Lines
      <3> QED BY <2>2, <2>4, <2>3, <3>1 DEF LineRight, LinesBefore
    <2>6. CASE \E k \in DOMAIN tokens : SwallowsLines(tokens[k])
      <3>1. PICK k \in 1..had : SwallowsLines(tokens[k])
        BY <1>1, <2>6
      <3>2. k \in 1..n
        BY <1>1
      <3>3. SwallowsLines(tokens[k])'
        BY <1>5, <3>1 DEF SwallowsLines, Char
      <3>4. LineRight(n)'
        BY <3>2, <3>3 DEF LineRight
      <3> QED BY <2>2, <2>4, <2>3, <3>4
    <2> QED BY <2>5, <2>6 DEF CountOK
  <1>9. \A n \in 1..(had + Len(added)) : n \in 1..had \/ n \in (had + 1)..(had + Len(added))
    BY <1>1
  <1>10. TokensRead'
    BY <1>4, <1>7, <1>8, <1>9 DEF TokensRead
  <1> QED BY <1>1, <1>3, <1>4, <1>5, <1>6, <1>10

LEMMA KeptRead ==
    ASSUME TokensRead, text' = text, tokens' = tokens
    PROVE  TokensRead'
  <1> SUFFICES ASSUME NEW n \in DOMAIN tokens
               PROVE  (tokens[n].pos \in 1..Len(text) /\ LongestAt(tokens[n]) /\ LineRight(n))'
    BY DEF TokensRead
  <1>1. tokens[n].pos \in 1..Len(text) /\ LongestAt(tokens[n]) /\ LineRight(n)
    BY DEF TokensRead
  <1>2. LongestAt(tokens[n])'
    BY <1>1, KeptLongest
  <1>3. LineRight(n)'
    BY <1>1 DEF LineRight, LinesBefore, SwallowsLines, Char
  <1> QED BY <1>1, <1>2, <1>3

(* A step that adds tokens of one line and goes on behind it.              *)
LEMMA AdvanceRead ==
    ASSUME IInvR, IInv', status = "running", position <= Len(text), UNCHANGED file,
           NEW T, NEW added \in Seq(T), addTokens(added),
           NEW i \in 1..(Len(text) + 1), proceedTo(i), currentLine' \in Nat,
           \A m \in 1..Len(added) :
               /\ added[m].pos \in 1..Len(text)
               /\ LongestAt(added[m])
               /\ added[m].line = currentLine
               /\ Lines(added[m].pos) = Lines(position),
           \/ currentLine' + Lines(position) = currentLine + Lines(i)
           \/ \E m \in 1..Len(added) : SwallowsLines(added[m]),
           Char(i) = NewLine \/ Even(QuotesSince(i))
    PROVE  IInvR'
  <1>1. text' = text /\ text \in Seq(STRING) /\ currentLine \in Nat /\ Len(text) \in Nat
          /\ position \in Nat \ {0}
    BY LenProperties DEF IInvR, IInv, TypeOK, file
  <1>2. /\ LinesBefore(position') = LinesBefore(i) /\ QuotesSince(position') = QuotesSince(i)
        /\ Char(i) = NewLine => position' = i
    BY <1>1, Skipped
  <1>3. TokensRead /\ CountOK /\ tokens \in Seq(Elements(tokens))
    BY DEF IInvR, IInv
  <1>4. CASE status' = "overflow"
    <2>1. tokens' = tokens
      BY <1>4 DEF addTokens
    <2>2. TokensRead'
      BY <1>1, <1>3, <2>1, KeptRead
    <2> QED BY <1>1, <1>4, <2>2 DEF IInvR, GarbageOnlyUnended
  <1>5. CASE status' = "running"
    <2>1. tokens' = tokens \o added
      BY <1>5 DEF addTokens
    <2>2. /\ TokensRead'
          /\ Len(tokens') = Len(tokens) + Len(added) /\ Len(tokens) \in Nat /\ Len(added) \in Nat
          /\ DOMAIN tokens' = 1..Len(tokens') /\ DOMAIN tokens = 1..Len(tokens)
          /\ \A n \in 1..Len(tokens) : tokens'[n] = tokens[n]
          /\ \A m \in 1..Len(added) : tokens'[Len(tokens) + m] = added[m]
      BY <1>1, <1>3, <2>1, AddRead
    <2>3. \A t : SwallowsLines(t)' <=> SwallowsLines(t)
      BY <1>1 DEF SwallowsLines, Char
    <2>4. Lines(position)' = Lines(i) /\ QuotesSince(position)' = QuotesSince(i)
            /\ Char(position)' = Char(position')
      BY <1>1, <1>2 DEF Lines, LinesBefore, QuotesSince, Char
    <2>5. CountOK'
      <3>1. CASE \E n \in DOMAIN tokens : SwallowsLines(tokens[n])
        <4>1. PICK n \in 1..Len(tokens) : SwallowsLines(tokens[n])
          BY <2>2, <3>1
        <4>2. n \in DOMAIN tokens' /\ tokens'[n] = tokens[n]
          BY <2>2
        <4> QED BY <2>3, <4>1, <4>2 DEF CountOK
      <3>2. CASE \E m \in 1..Len(added) : SwallowsLines(added[m])
        <4>1. PICK m \in 1..Len(added) : SwallowsLines(added[m])
          BY <3>2
        <4>2. Len(tokens) + m \in DOMAIN tokens' /\ tokens'[Len(tokens) + m] = added[m]
          BY <2>2
        <4> QED BY <2>3, <4>1, <4>2 DEF CountOK
      <3>3. CASE currentLine = Lines(position) /\ currentLine' + Lines(position) = currentLine + Lines(i)
        <4>1. Lines(position) \in Nat /\ Lines(i) \in Nat
          <5>1. i \in Nat \ {0}
            BY <1>1
          <5> QED BY <1>1, <5>1, CountFinite
        <4>2. currentLine' = Lines(i)
          BY <1>1, <3>3, <4>1
        <4> QED BY <2>4, <4>2 DEF CountOK
      <3> QED BY <1>3, <3>1, <3>2, <3>3 DEF CountOK
    <2>6. PairsOK'
      BY <1>2, <2>4 DEF PairsOK, Even
    <2> QED BY <1>1, <1>5, <2>2, <2>5, <2>6 DEF IInvR, GarbageOnlyUnended
  <1> QED BY <1>4, <1>5 DEF addTokens

-----------------------------------------------------------------------------
LEMMA TableIndices == DOMAIN KEYWORDS \subseteq Nat \ {0}
  BY DEF KEYWORDS

(* The first keyword that matches is the longest one.                      *)
LEMMA FirstIsLongest ==
    ASSUME NEW k \in DOMAIN KEYWORDS, IsFirstMatch(k), NEW l \in DOMAIN KEYWORDS,
           MatchesAt(l, position)
    PROVE  KEYWORDS[l].length <= KEYWORDS[k].length
  <1> SUFFICES ASSUME KEYWORDS[k].length < KEYWORDS[l].length  PROVE FALSE
    BY KeywordsAssumption
  <1>1. k < l
    <2>1. l # k /\ ~(l \in 1..(k - 1))
      BY KeywordsAssumption DEF IsFirstMatch
    <2> QED BY <2>1, TableIndices
  <1>2. PICK c \in 1..KEYWORDS[k].length : Spellings[k][c] # Spellings[l][c]
    <2>1. KEYWORDS[k].length <= KEYWORDS[l].length
      BY KeywordsAssumption
    <2> QED BY <1>1, <2>1, SpellingAssumption
  <1>3. c \in 1..KEYWORDS[l].length
    BY KeywordsAssumption
  <1>4. text[position + c - 1] = Spellings[k][c] /\ text[position + c - 1] = Spellings[l][c]
    BY <1>3 DEF IsFirstMatch, MatchesAt
  <1> QED BY <1>2, <1>4

LEMMA KeywordIsLongest ==
    ASSUME NEW k \in DOMAIN KEYWORDS, IsFirstMatch(k), NEW t, t.pos = position,
           t.token = KeywordToken(IF KEYWORDS[k].code = "COMMENT" THEN "NEW_LINE"
                                                                  ELSE KEYWORDS[k].code)
    PROVE  LongestAt(t)
  BY FirstIsLongest DEF LongestAt, IsFirstMatch

LEMMA QuoteIsLongest ==
    ASSUME text \in Seq(STRING), NEW i \in 1..Len(text), text[i] = Quote,
           NEW t, t.pos = i, t.token = Keyword("STR_QUOTE")
    PROVE  LongestAt(t)
  <1>1. PICK k \in DOMAIN KEYWORDS : KEYWORDS[k].code = "STR_QUOTE" /\ Spellings[k] = <<Quote>>
    BY SpellingAssumption
  <1>2. 1 \in 1..KEYWORDS[k].length /\ Len(text) \in Nat
    BY KeywordsAssumption, LenProperties
  <1>3. KEYWORDS[k].length = 1
    BY <1>1, <1>2, SpellingAssumption
  <1>4. MatchesAt(k, i)
    BY <1>1, <1>2, <1>3 DEF MatchesAt
  <1>5. ASSUME NEW l \in DOMAIN KEYWORDS, MatchesAt(l, i)
        PROVE  KEYWORDS[l].length <= KEYWORDS[k].length
    <2>1. 1 \in 1..KEYWORDS[l].length
      BY KeywordsAssumption
    <2>2. Spellings[l][1] = Quote
      BY <1>5, <2>1 DEF MatchesAt
    <2> QED BY <1>3, <2>1, <2>2, SpellingAssumption
  <1>6. KeywordToken("STR_QUOTE") = Keyword("STR_QUOTE")
    BY DEF KeywordToken, KeywordNumbers
  <1> QED BY <1>1, <1>4, <1>5, <1>6 DEF LongestAt

LEMMA InitRead == Init => IInvR
  <1> SUFFICES ASSUME Init  PROVE IInvR
    OBVIOUS
  <1>1. IInv
    BY InitIInv
  <1>2. (\A i \in DOMAIN text : text[i] # NUL) /\ TokensRead
    BY FilesAssumption DEF Init, TokensRead
  <1>3. position \in 1..(Len(text) + 1) /\ \A k \in 1..(position - 1) : text[k] \in Blanks
    <2>1. Len(text) \in Nat
      BY <1>1, LenProperties DEF IInv
    <2> QED BY <2>1 DEF Init, FirstNotIn, Char
  <1>4. \A k \in 1..(position - 1) : text[k] # NewLine /\ text[k] # Quote
    BY <1>3, Apart
  <1>5. LinesBefore(position) = {} /\ QuotesSince(position) = {}
    BY <1>4 DEF LinesBefore, QuotesSince
  <1>6. Cardinality({}) = 2 * 0 /\ currentLine = 0
    BY FS_EmptySet DEF Init
  <1>7. CountOK /\ PairsOK
    BY <1>5, <1>6 DEF CountOK, PairsOK, Even, Lines
  <1> QED BY <1>1, <1>2, <1>7 DEF IInvR, GarbageOnlyUnended, Init

-----------------------------------------------------------------------------
(* One lemma for each action.                                              *)
LEMMA Joined == ASSUME NEW a, NEW b, NEW c  PROVE <<a, b>> \o <<c>> = <<a, b, c>>
  <1> DEFINE S == {a, b, c}  s == <<a, b>>  t == <<c>>  u == <<a, b, c>>
  <1>1. s \in Seq(S) /\ t \in Seq(S) /\ u \in Seq(S)
    OBVIOUS
  <1>2. /\ Len(s) = 2 /\ Len(t) = 1 /\ Len(u) = 3
        /\ s[1] = u[1] /\ s[2] = u[2] /\ t[1] = u[3]
    OBVIOUS
  <1> HIDE DEF S, s, t, u
  <1>3. /\ s \o t \in Seq(S) /\ Len(s \o t) = 3
        /\ \A i \in 1..3 : (s \o t)[i] = IF i <= 2 THEN s[i] ELSE t[i - 2]
    BY <1>1, <1>2, ConcatProperties
  <1>4. \A i \in 1..3 : (s \o t)[i] = u[i]
    <2>1. \A i \in 1..3 : i \in {1, 2, 3}
      OBVIOUS
    <2> QED BY <1>2, <1>3, <2>1
  <1>5. s \o t = u
    BY <1>1, <1>2, <1>3, <1>4, SeqEqual
  <1> QED BY <1>5 DEF s, t, u

LEMMA QuotedRead == IInvR /\ IInv' /\ processQuotedString => IInvR'
  <1> SUFFICES ASSUME IInvR, IInv', processQuotedString  PROVE IInvR'
    OBVIOUS
  <1>1. PICK end \in (position + 1)..Len(text) :
           /\ FirstIn({Quote, NewLine}, position + 1, end)
           /\ addTokens(QuotedTokens(end))
           /\ proceedTo(IF text[end] = Quote THEN end + 1 ELSE end)
    BY DEF processQuotedString
  <1>2. /\ status = "running" /\ UNCHANGED <<file, currentLine>> /\ text \in Seq(STRING)
        /\ Len(text) \in Nat /\ position \in Nat \ {0} /\ currentLine \in Nat
    BY LenProperties DEF processQuotedString, IInvR, IInv, TypeOK
  <1>3. position \in 1..Len(text) /\ text[position] = Quote /\ Char(position) = text[position]
    BY <1>1, <1>2, Apart DEF processQuotedString, IsQuote, Char
  <1>4. /\ text[end] \in {Quote, NewLine} /\ Char(end) = text[end]
        /\ \A k \in (position + 1)..(end - 1) : text[k] # NewLine /\ text[k] # Quote
    BY <1>1, <1>2 DEF FirstIn, Char
  <1>5. Even(QuotesSince(position))
    BY <1>2, <1>3, Apart DEF IInvR, PairsOK
  <1>6. Lines(end) = Lines(position) /\ Lines(position + 1) = Lines(position)
    <2>1. \A k \in position..(end - 1) : text[k] # NewLine
      BY <1>2, <1>3, <1>4, Apart
    <2>2. LinesBefore(end) = LinesBefore(position)
      BY <1>1, <1>2, <2>1, SameLine
    <2>3. LinesBefore(position + 1) = LinesBefore(position)
      <3>1. \A k \in position..(position + 1 - 1) : text[k] # NewLine
        BY <1>2, <1>3, Apart
      <3> QED BY <1>2, <3>1, SameLine
    <2> QED BY <2>2, <2>3 DEF Lines
  <1> DEFINE open  == Token(Keyword("STR_QUOTE"), position)
             inner == Token(Quoted(SubSeq(text, position + 1, end - 1)), position + 1)
             close == Token(Keyword("STR_QUOTE"), end)
             T     == {open, inner, close}
             added == QuotedTokens(end)
  <1>7. LongestAt(open) /\ open.pos = position /\ open.line = currentLine
    BY <1>2, <1>3, QuoteIsLongest DEF Token
  <1>8. LongestAt(inner) /\ inner.pos = position + 1 /\ inner.line = currentLine
    BY DEF LongestAt, IsKeywordToken, Token, Quoted
  <1>9. close.pos = end /\ close.line = currentLine
    BY DEF Token
  <1>10. addTokens(added) /\ currentLine' \in Nat /\ currentLine' = currentLine
          /\ position <= Len(text) /\ UNCHANGED file
    BY <1>1, <1>2, <1>3
  <1>11. CASE text[end] = Quote
    <2>1. added = <<open, inner, close>>
      <3>1. added = <<open, inner>> \o <<close>>
        BY <1>4, <1>11 DEF QuotedTokens
      <3> HIDE DEF open, inner, close, added
      <3> QED BY <3>1, Joined
    <2>2. LongestAt(close)
      BY <1>2, <1>11, QuoteIsLongest DEF Token
    <2>3. proceedTo(end + 1) /\ end + 1 \in 1..(Len(text) + 1)
      BY <1>1, <1>2, <1>11
    <2>4. Lines(end + 1) = Lines(position)
      <3>1. \A k \in end..(end + 1 - 1) : text[k] # NewLine
        BY <1>2, <1>11, Apart
      <3>2. LinesBefore(end + 1) = LinesBefore(end)
        BY <1>1, <1>2, <3>1, SameLine
      <3> QED BY <1>6, <3>2 DEF Lines
    <2>5. Even(QuotesSince(end + 1))
      BY <1>1, <1>2, <1>3, <1>4, <1>5, <1>11, OnePair
    <2> HIDE DEF open, inner, close
    <2>6. added \in Seq(T) /\ Len(added) = 3 /\ added[1] = open /\ added[2] = inner /\ added[3] = close
      BY <2>1
    <2>7. \A m \in 1..Len(added) :
             /\ added[m].pos \in 1..Len(text) /\ LongestAt(added[m])
             /\ added[m].line = currentLine /\ Lines(added[m].pos) = Lines(position)
      <3>1. \A m \in 1..Len(added) : m \in {1, 2, 3}
        BY <2>6
      <3>2. position + 1 \in 1..Len(text) /\ end \in 1..Len(text)
        BY <1>1, <1>2
      <3> HIDE DEF added
      <3> QED BY <1>3, <1>6, <1>7, <1>8, <1>9, <2>2, <2>6, <3>1, <3>2
    <2> HIDE DEF T, added
    <2> QED BY <1>2, <1>10, <1>3, <2>3, <2>4, <2>5, <2>6, <2>7, AdvanceRead
  <1>12. CASE text[end] # Quote
    <2>1. added = <<open, inner>> /\ text[end] = NewLine
      BY <1>4, <1>12 DEF QuotedTokens
    <2>2. proceedTo(end) /\ end \in 1..(Len(text) + 1) /\ Char(end) = NewLine
      BY <1>1, <1>2, <1>4, <1>12, <2>1
    <2> HIDE DEF open, inner, close
    <2>3. added \in Seq(T) /\ Len(added) = 2 /\ added[1] = open /\ added[2] = inner
      BY <2>1
    <2>4. \A m \in 1..Len(added) :
             /\ added[m].pos \in 1..Len(text) /\ LongestAt(added[m])
             /\ added[m].line = currentLine /\ Lines(added[m].pos) = Lines(position)
      <3>1. \A m \in 1..Len(added) : m \in {1, 2}
        BY <2>3
      <3>2. position + 1 \in 1..Len(text)
        BY <1>1, <1>2
      <3> HIDE DEF added
      <3> QED BY <1>3, <1>6, <1>7, <1>8, <2>3, <3>1, <3>2
    <2> HIDE DEF T, added
    <2> QED BY <1>2, <1>6, <1>10, <2>2, <2>3, <2>4, AdvanceRead
  <1> QED BY <1>11, <1>12

(* The actions that add one token.                                         *)
LEMMA OneTokenRead ==
    ASSUME IInvR, IInv', status = "running", position \in 1..Len(text), UNCHANGED file,
           NEW t, t.pos = position, t.line = currentLine, LongestAt(t), addTokens(<<t>>),
           NEW i \in 1..(Len(text) + 1), proceedTo(i), currentLine' \in Nat,
           currentLine' + Lines(position) = currentLine + Lines(i) \/ SwallowsLines(t),
           Char(i) = NewLine \/ Even(QuotesSince(i))
    PROVE  IInvR'
  <1> DEFINE added == <<t>>
  <1>1. added \in Seq({t}) /\ Len(added) = 1 /\ added[1] = t /\ \A m \in 1..Len(added) : m = 1
    OBVIOUS
  <1>2. addTokens(added) /\ position <= Len(text)
    BY LenProperties DEF IInvR, IInv
  <1> HIDE DEF added
  <1>3. \A m \in 1..Len(added) :
           /\ added[m].pos \in 1..Len(text) /\ LongestAt(added[m])
           /\ added[m].line = currentLine /\ Lines(added[m].pos) = Lines(position)
    BY <1>1
  <1>4. SwallowsLines(t) => \E m \in 1..Len(added) : SwallowsLines(added[m])
    BY <1>1
  <1> QED BY <1>1, <1>2, <1>3, <1>4, AdvanceRead

LEMMA KeywordRead == IInvR /\ IInv' /\ processKeyword => IInvR'
  <1> SUFFICES ASSUME IInvR, IInv', processKeyword  PROVE IInvR'
    OBVIOUS
  <1>1. PICK k \in DOMAIN KEYWORDS :
           /\ IsFirstMatch(k)
           /\ KEYWORDS[k].code # "COMMENT"
           /\ addTokens(<<Token(KeywordToken(KEYWORDS[k].code), position)>>)
           /\ proceedTo(position + KEYWORDS[k].length)
    BY DEF processKeyword
  <1>2. /\ status = "running" /\ UNCHANGED file /\ text \in Seq(STRING)
        /\ Len(text) \in Nat /\ position \in Nat \ {0} /\ currentLine \in Nat
        /\ currentLine' = currentLine + (IF Char(position) = NewLine THEN 1 ELSE 0)
        /\ Char(position) # Quote
    BY LenProperties DEF processKeyword, IInvR, IInv, TypeOK, IsKeyword, IsQuote
  <1>3. PICK size \in Nat \ {0} : size = KEYWORDS[k].length
    BY KeywordsAssumption
  <1>4. /\ size \in Nat \ {0} /\ position + size \in 1..(Len(text) + 1) /\ position \in 1..Len(text)
        /\ Char(position) = text[position]
        /\ \A c \in 1..size : text[position + c - 1] = Spellings[k][c]
    BY <1>1, <1>2, <1>3 DEF IsFirstMatch, MatchesAt, Char
  <1> DEFINE t == Token(KeywordToken(KEYWORDS[k].code), position)
  <1>5. t.pos = position /\ t.line = currentLine /\ LongestAt(t)
    BY <1>1, KeywordIsLongest DEF Token
  <1>6. CASE Char(position) = NewLine
    <2>1. 1 \in 1..size
      BY <1>4
    <2>2. text[position + 1 - 1] = Spellings[k][1] /\ position + 1 - 1 = position
      BY <1>2, <1>4, <2>1
    <2>3. Spellings[k][1] = NewLine
      BY <1>4, <1>6, <2>2
    <2>4. size = 1
      BY <1>3, <2>1, <2>3, SpellingAssumption
    <2>5. Lines(position + 1) = Lines(position) + 1
      <3>1. position \in Nat /\ \A j \in position..(position - 1) : text[j] # NewLine
        BY <1>2
      <3>2. position \in Nat \ {0} /\ text[position] = NewLine /\ position <= position
        BY <1>2, <1>4, <1>6
      <3> HIDE DEF Lines
      <3> QED BY <3>1, <3>2, NextLine
    <2>6. Even(QuotesSince(position + 1))
      <3>1. /\ position + 1 \in Nat /\ position \in position..((position + 1) - 1)
            /\ \A l \in (position + 1)..((position + 1) - 1) : text[l] # Quote
        BY <1>2
      <3> QED BY <1>2, <1>4, <1>6, <3>1, NoPairs
    <2>7. Lines(position) \in Nat
      BY <1>2, CountFinite
    <2>8. currentLine' \in Nat /\ currentLine' + Lines(position) = currentLine + Lines(position + 1)
      BY <1>2, <1>6, <2>5, <2>7
    <2>9. proceedTo(position + 1) /\ position + 1 \in 1..(Len(text) + 1) /\ addTokens(<<t>>)
      BY <1>1, <1>2, <1>3, <1>4, <2>4
    <2> HIDE DEF t
    <2> QED BY <1>2, <1>4, <1>5, <2>6, <2>8, <2>9, OneTokenRead
  <1>7. CASE Char(position) # NewLine
    <2>1. \A c \in 1..size : Spellings[k][c] # NewLine /\ Spellings[k][c] # Quote
      <3> SUFFICES ASSUME NEW c \in 1..size, Spellings[k][c] \in {NewLine, Quote}  PROVE FALSE
        OBVIOUS
      <3>1. size = 1
        BY <1>3, SpellingAssumption
      <3>2. text[position + 1 - 1] = Spellings[k][c] /\ position + 1 - 1 = position
        BY <1>2, <1>4, <3>1
      <3> QED BY <1>2, <1>4, <1>7, <3>2
    <2>2. \A j \in position..(position + size - 1) : text[j] # NewLine /\ text[j] # Quote
      <3> TAKE j \in position..(position + size - 1)
      <3>1. j - position + 1 \in 1..size /\ position + (j - position + 1) - 1 = j
        BY <1>2, <1>4
      <3> QED BY <1>4, <2>1, <3>1
    <2>3. position + size \in Nat /\ position <= position + size
      BY <1>2, <1>4
    <2>4. PICK j \in Nat : j = position + size
      BY <2>3
    <2>5. position <= j /\ \A l \in position..(j - 1) : text[l] # NewLine /\ text[l] # Quote
      BY <1>2, <2>2, <2>3, <2>4
    <2>6. LinesBefore(position + size) = LinesBefore(position)
      BY <1>2, <2>4, <2>5, SameLine
    <2>7. QuotesSince(position + size) = QuotesSince(position)
      BY <1>2, <2>4, <2>5, SamePairs
    <2>8. Even(QuotesSince(position))
      BY <1>2, <1>4, <1>7 DEF IInvR, PairsOK
    <2>9. currentLine' \in Nat /\ currentLine' + Lines(position) = currentLine + Lines(position + size)
      BY <1>2, <1>7, <2>6 DEF Lines
    <2>10. addTokens(<<t>>) /\ proceedTo(position + size)
      BY <1>1, <1>3
    <2>11. Even(QuotesSince(position + size))
      BY <2>7, <2>8
    <2> HIDE DEF t
    <2> QED BY <1>2, <1>4, <1>5, <2>9, <2>10, <2>11, OneTokenRead
  <1> QED BY <1>6, <1>7

LEMMA IdRead == IInvR /\ IInv' /\ processId => IInvR'
  <1> SUFFICES ASSUME IInvR, IInv', processId  PROVE IInvR'
    OBVIOUS
  <1>1. PICK end \in (position + 1)..(Len(text) + 1) :
           /\ FirstNotIn(ID_VALID_SYMBOLS, position, end)
           /\ addTokens(<<Token(Name(SubSeq(text, position, end - 1)), position)>>)
           /\ proceedTo(end)
    BY DEF processId
  <1>2. /\ status = "running" /\ UNCHANGED <<file, currentLine>> /\ text \in Seq(STRING)
        /\ Len(text) \in Nat /\ position \in Nat \ {0} /\ currentLine \in Nat
    BY LenProperties DEF processId, IInvR, IInv, TypeOK
  <1>3. end \in Nat /\ position \in 1..Len(text) /\ end \in 1..(Len(text) + 1) /\ position <= end
    BY <1>1, <1>2
  <1>4. \A k \in position..(end - 1) : text[k] \in ID_VALID_SYMBOLS /\ Char(k) = text[k]
    BY <1>1, <1>2, <1>3 DEF FirstNotIn, Char
  <1>5. \A k \in position..(end - 1) : text[k] # NewLine /\ text[k] # Quote
    <2>1. NewLine \notin ID_VALID_SYMBOLS /\ Quote \notin ID_VALID_SYMBOLS
      BY AlphabetAssumption DEF Spaces, NewLine
    <2> QED BY <1>4, <2>1
  <1>6. LinesBefore(end) = LinesBefore(position) /\ QuotesSince(end) = QuotesSince(position)
    BY <1>2, <1>3, <1>5, SameLine, SamePairs
  <1>7. Even(QuotesSince(end))
    <2>1. position \in position..(end - 1)
      BY <1>1, <1>2
    <2>2. Char(position) # NewLine
      BY <1>4, <1>5, <2>1
    <2> QED BY <1>2, <1>3, <1>6, <2>2 DEF IInvR, PairsOK
  <1> DEFINE t == Token(Name(SubSeq(text, position, end - 1)), position)
  <1>8. t.pos = position /\ t.line = currentLine /\ LongestAt(t)
    BY DEF Token, Name, LongestAt, IsKeywordToken
  <1>9. currentLine' \in Nat /\ currentLine' + Lines(position) = currentLine + Lines(end)
    BY <1>2, <1>6 DEF Lines
  <1>10. addTokens(<<t>>)
    BY <1>1
  <1> HIDE DEF t
  <1> QED BY <1>1, <1>2, <1>3, <1>7, <1>8, <1>9, <1>10, OneTokenRead

LEMMA NumericRead == IInvR /\ IInv' /\ processNumeric => IInvR'
  <1> SUFFICES ASSUME IInvR, IInv', processNumeric  PROVE IInvR'
    OBVIOUS
  <1>1. PICK i \in position..Len(text) : \E j \in i..Len(text) :
            /\ IsNumberAt(i, j)
            /\ addTokens(<<Token(Numeral(Value(i, j)), position)>>)
            /\ proceedTo(j + 1)
    BY DEF processNumeric
  <1>2. PICK j \in i..Len(text) :
            /\ IsNumberAt(i, j)
            /\ addTokens(<<Token(Numeral(Value(i, j)), position)>>)
            /\ proceedTo(j + 1)
    BY <1>1
  <1>3. /\ status = "running" /\ UNCHANGED <<file, currentLine>> /\ text \in Seq(STRING)
        /\ Len(text) \in Nat /\ position \in Nat \ {0} /\ currentLine \in Nat
    BY LenProperties DEF processNumeric, IInvR, IInv, TypeOK
  <1>4. /\ i \in Nat /\ j \in Nat /\ position \in 1..Len(text)
        /\ j + 1 \in 1..(Len(text) + 1) /\ i <= j /\ position <= i
    BY <1>2, <1>3
  <1>5. PICK s \in {i, i - 1} :
           /\ s >= position /\ FirstNotIn(Spaces, position, s)
           /\ s < i => Char(s) \in {"+", "-"}
    BY <1>2 DEF IsNumberAt, DigitsBegin
  <1>6. /\ s \in Int /\ s <= i /\ s + 1 >= i
        /\ \A k \in 1..Len(text) : Char(k) = text[k]
    BY <1>3, <1>4, <1>5 DEF Char
  <1>7. \A k \in position..(s - 1) : Char(k) \in Spaces
    BY <1>5 DEF FirstNotIn
  <1>8. \A k \in i..j : Char(k) \in Digits
    BY <1>2, <1>3, <1>4 DEF IsNumberAt, DigitsBegin, FirstNotIn
  <1>9. \A k \in s..j : text[k] # NewLine /\ text[k] # Quote
    <2> TAKE k \in s..j
    <2>1. k \in 1..Len(text)
      BY <1>2, <1>3, <1>5, <1>6
    <2>2. CASE k < i
      <3>1. k = s
        BY <1>4, <1>6, <2>2
      <3> QED BY <1>5, <1>6, <2>1, <2>2, <3>1 DEF NewLine, Quote
    <2>3. CASE k >= i
      <3>1. Char(k) \in Digits
        BY <1>4, <1>6, <1>8, <2>3
      <3> QED BY <1>6, <2>1, <3>1, AlphabetAssumption DEF Spaces, NewLine
    <2> QED BY <1>4, <1>6, <2>2, <2>3
  <1>10. \A k \in position..j : text[k] # Quote
    <2> TAKE k \in position..j
    <2>1. k \in 1..Len(text)
      BY <1>2, <1>3
    <2>2. CASE k < s
      <3>1. text[k] \in Spaces
        BY <1>3, <1>6, <1>7, <2>1, <2>2
      <3> QED BY <3>1 DEF Spaces, Blanks, Quote
    <2>3. CASE k >= s
      BY <1>6, <1>9, <2>3
    <2> QED BY <1>6, <2>2, <2>3
  <1> DEFINE t == Token(Numeral(Value(i, j)), position)
  <1>11. t.pos = position /\ t.line = currentLine /\ t.token.type = "NUMBER_TOKEN_TYPE"
    BY DEF Token, Numeral
  <1>12. addTokens(<<t>>)
    BY <1>2
  <1> HIDE DEF t
  <1>13. Char(position) \in Spaces \union {"+", "-"} \union Digits
    <2>1. CASE position < s
      BY <1>3, <1>6, <1>7, <2>1
    <2>2. CASE position = s
      BY <1>4, <1>5, <1>6, <1>8, <2>2
    <2> QED BY <1>3, <1>5, <1>6, <2>1, <2>2
  <1>14. LongestAt(t)
    <2>1. ~IsKeywordToken(t)
      BY <1>11, <1>13, AlphabetAssumption DEF IsKeywordToken
    <2> QED BY <2>1 DEF LongestAt
  <1>15. CASE \E l \in position..j : text[l] = NewLine
    <2>1. PICK l \in position..j : text[l] = NewLine
      BY <1>15
    <2>2. l \in 1..Len(text) /\ l < s /\ l \in position..((j + 1) - 1)
      BY <1>2, <1>3, <1>6, <1>9, <2>1
    <2>3. \A k \in position..l : Char(k) \in Spaces
      BY <1>3, <1>6, <1>7, <2>2
    <2>4. SwallowsLines(t)
      BY <1>4, <1>6, <1>11, <2>1, <2>2, <2>3 DEF SwallowsLines
    <2>5. Even(QuotesSince(j + 1))
      <3>1. j + 1 \in Nat /\ \A k \in (l + 1)..((j + 1) - 1) : text[k] # Quote
        BY <1>3, <1>4, <1>10, <2>2
      <3> QED BY <1>3, <2>1, <2>2, <3>1, NoPairs
    <2> QED BY <1>2, <1>3, <1>4, <1>11, <1>12, <1>14, <2>4, <2>5, OneTokenRead
  <1>16. CASE \A l \in position..j : text[l] # NewLine
    <2>1. PICK e \in Nat : e = j + 1
      BY <1>4
    <2>2. position <= e /\ \A k \in position..(e - 1) : text[k] # NewLine /\ text[k] # Quote
      BY <1>3, <1>4, <1>10, <1>16, <2>1
    <2>3. LinesBefore(e) = LinesBefore(position) /\ QuotesSince(e) = QuotesSince(position)
      BY <1>3, <2>1, <2>2, SameLine, SamePairs
    <2>4. Char(position) # NewLine
      BY <1>4, <1>6, <1>16
    <2>5. Even(QuotesSince(e))
      BY <1>3, <1>4, <2>3, <2>4 DEF IInvR, PairsOK
    <2>6. currentLine' \in Nat /\ currentLine' + Lines(position) = currentLine + Lines(e)
      BY <1>3, <2>3 DEF Lines
    <2> QED BY <1>2, <1>3, <1>4, <1>11, <1>12, <1>14, <2>1, <2>5, <2>6, OneTokenRead
  <1> QED BY <1>15, <1>16

(* What a comment begins with, and the token that stands for it.           *)
LEMMA CommentBegins ==
    ASSUME IInvR, CommentHere
    PROVE  /\ status = "running" /\ position \in 1..Len(text)
           /\ \E t : /\ CommentNewLine = <<t>> /\ t.pos = position /\ t.line = currentLine
                     /\ LongestAt(t)
  <1>1. status = "running" /\ Len(text) \in Nat /\ position \in Nat \ {0}
    BY LenProperties DEF CommentHere, IInvR, IInv, TypeOK
  <1>2. PICK k \in DOMAIN KEYWORDS : IsFirstMatch(k) /\ KEYWORDS[k].code = "COMMENT"
    BY DEF CommentHere
  <1>3. position \in 1..Len(text)
    BY <1>1, <1>2, KeywordsAssumption DEF IsFirstMatch, MatchesAt
  <1> DEFINE t == Token(Keyword("NEW_LINE"), position)
  <1>4. KeywordToken("NEW_LINE") = Keyword("NEW_LINE")
    BY DEF KeywordToken, KeywordNumbers
  <1>5. LongestAt(t)
    BY <1>2, <1>4, KeywordIsLongest DEF Token
  <1>6. CommentNewLine = <<t>> /\ t.pos = position /\ t.line = currentLine
    BY DEF CommentNewLine, Token
  <1> QED BY <1>1, <1>3, <1>5, <1>6

LEMMA CommentRead == IInvR /\ IInv' /\ processComment => IInvR'
  <1> SUFFICES ASSUME IInvR, IInv', processComment  PROVE IInvR'
    OBVIOUS
  <1>1. PICK end \in position..Len(text) :
           FirstIn({NewLine}, position, end) /\ proceedTo(end + 1)
    BY DEF processComment
  <1>2. /\ UNCHANGED file /\ text \in Seq(STRING) /\ Len(text) \in Nat
        /\ position \in Nat \ {0} /\ currentLine \in Nat /\ currentLine' = currentLine + 1
    BY LenProperties DEF processComment, IInvR, IInv, TypeOK
  <1>3. PICK t : /\ CommentNewLine = <<t>> /\ t.pos = position /\ t.line = currentLine
                 /\ LongestAt(t)
    BY CommentBegins DEF processComment
  <1>4. status = "running" /\ position \in 1..Len(text) /\ addTokens(<<t>>)
    BY <1>3, CommentBegins DEF processComment
  <1>5. /\ end \in Nat /\ position <= end /\ text[end] = NewLine
        /\ \A k \in position..(end - 1) : text[k] # NewLine
    BY <1>1, <1>2 DEF FirstIn, Char
  <1>6. Lines(end + 1) = Lines(position) + 1
    BY <1>2, <1>5, NextLine
  <1>7. Even(QuotesSince(end + 1))
    <2>1. /\ end + 1 \in Nat /\ end \in position..((end + 1) - 1)
          /\ \A l \in (end + 1)..((end + 1) - 1) : text[l] # Quote
      BY <1>2, <1>5
    <2> QED BY <1>2, <1>5, <2>1, NoPairs
  <1>8. currentLine' \in Nat /\ currentLine' + Lines(position) = currentLine + Lines(end + 1)
    <2>1. Lines(position) \in Nat
      BY <1>2, CountFinite
    <2> QED BY <1>2, <1>6, <2>1
  <1>9. end + 1 \in 1..(Len(text) + 1)
    BY <1>1, <1>2, <1>5
  <1> QED BY <1>1, <1>2, <1>3, <1>4, <1>7, <1>8, <1>9, OneTokenRead

LEMMA LastCommentRead == IInvR /\ IInv' /\ processLastComment => IInvR'
  <1> SUFFICES ASSUME IInvR, IInv', processLastComment  PROVE IInvR'
    OBVIOUS
  <1>1. /\ UNCHANGED file /\ text' = text /\ text \in Seq(STRING) /\ Len(text) \in Nat
        /\ position \in 1..Len(text) /\ position' = position + Len(text)
        /\ CountOK /\ TokensRead /\ tokens \in Seq(Elements(tokens))
    BY LenProperties, CommentBegins DEF processLastComment, IInvR, IInv, file
  <1>2. PICK t : /\ CommentNewLine = <<t>> /\ t.pos = position /\ t.line = currentLine
                 /\ LongestAt(t)
    BY CommentBegins DEF processLastComment
  <1>3. tokens' = tokens \/ tokens' = tokens \o <<t>>
    BY <1>2 DEF processLastComment, addTokens
  <1>4. TokensRead'
    <2>1. CASE tokens' = tokens
      BY <1>1, <2>1, KeptRead
    <2>2. CASE tokens' = tokens \o <<t>>
      <3> DEFINE added == <<t>>
      <3>1. added \in Seq({t}) /\ Len(added) = 1 /\ added[1] = t /\ \A m \in 1..Len(added) : m = 1
        OBVIOUS
      <3>2. tokens' = tokens \o added
        BY <2>2
      <3> HIDE DEF added
      <3>3. \A m \in 1..Len(added) :
               /\ added[m].pos \in 1..Len(text) /\ LongestAt(added[m])
               /\ added[m].line = currentLine /\ Lines(added[m].pos) = Lines(position)
        BY <1>1, <1>2, <3>1
      <3> QED BY <1>1, <3>1, <3>2, <3>3, AddRead
    <2> QED BY <1>3, <2>1, <2>2
  <1>5. ~(position' <= Len(text'))
    BY <1>1
  <1>6. Char(Len(text))' # NewLine
    BY <1>1 DEF processLastComment, Char
  <1> QED BY <1>1, <1>4, <1>5, <1>6 DEF IInvR, GarbageOnlyUnended

LEMMA LoseRead == IInvR /\ IInv' /\ loseQuotedString => IInvR'
  <1> SUFFICES ASSUME IInvR, IInv', loseQuotedString  PROVE IInvR'
    OBVIOUS
  <1>1. /\ status = "running" /\ status' = "garbage" /\ text' = text /\ tokens' = tokens
        /\ text \in Seq(STRING) /\ Len(text) \in Nat /\ position \in Nat \ {0} /\ TokensRead
        /\ Char(position) = Quote /\ ~EndsOfString
    BY LenProperties DEF loseQuotedString, IInvR, IInv, TypeOK, IsQuote, file
  <1>2. position \in 1..Len(text) /\ text[position] = Quote
    BY <1>1, Apart DEF Char
  <1>3. TokensRead'
    BY <1>1, KeptRead
  <1>4. CASE Char(Len(text)) # NewLine
    BY <1>1, <1>3, <1>4 DEF IInvR, GarbageOnlyUnended, Char
  <1>5. CASE Char(Len(text)) = NewLine
    <2>1. Len(text) \in (position + 1)..Len(text) /\ text[Len(text)] = NewLine
      BY <1>1, <1>2, <1>5, Apart DEF Char
    <2>2. \A k \in (position + 1)..Len(text) : text[k] # Quote /\ Char(k) # Quote
      BY <1>1, <1>2, <2>1 DEF EndsOfString, Char
    <2>3. QuotesOfLine(position) = QuotesSince(position) \union {position}
      <3>1. ASSUME NEW j \in QuotesOfLine(position)
            PROVE  j \in QuotesSince(position) \union {position}
        <4>1. j \in 1..Len(text) /\ text[j] = Quote /\ \A k \in j..position : Char(k) # NewLine
          BY <1>1 DEF QuotesOfLine, Char
        <4>2. j <= position
          BY <1>1, <1>2, <2>2, <4>1
        <4>3. \A k \in j..(position - 1) : text[k] # NewLine
          BY <1>1, <1>2, <4>1, <4>2 DEF Char
        <4> QED BY <1>1, <1>2, <4>1, <4>2, <4>3 DEF QuotesSince
      <3>2. ASSUME NEW j \in QuotesSince(position)
            PROVE  j \in QuotesOfLine(position)
        <4>1. /\ j \in 1..(position - 1) /\ text[j] = Quote
              /\ \A k \in j..(position - 1) : text[k] # NewLine
          BY DEF QuotesSince
        <4>2. \A k \in j..position : Char(k) # NewLine
          BY <1>1, <1>2, <4>1, Apart DEF Char
        <4>3. position..j = {}
          BY <1>1, <1>2, <4>1
        <4> QED BY <1>1, <1>2, <4>1, <4>2, <4>3 DEF QuotesOfLine, Char
      <3>3. position \in QuotesOfLine(position)
        <4>1. \A k \in position..position : Char(k) # NewLine
          BY <1>1, <1>2, Apart
        <4> QED BY <1>1, <1>2, <4>1 DEF QuotesOfLine
      <3> QED BY <3>1, <3>2, <3>3
    <2>4. Even(QuotesSince(position))
      BY <1>1, <1>2, Apart DEF IInvR, PairsOK
    <2>5. PICK m \in Nat : Cardinality(QuotesSince(position)) = 2 * m
      BY <2>4 DEF Even
    <2>6. position \notin QuotesSince(position)
      BY <1>1 DEF QuotesSince
    <2>7. Cardinality(QuotesOfLine(position)) = 2 * m + 1
      BY <1>1, <2>3, <2>5, <2>6, CountFinite, FS_AddElement
    <2>8. Cardinality(QuotesOfLine(position)) % 2 = 1
      BY <2>7
    <2>9. \E i \in 1..Len(text) :
              /\ Char(i) = Quote /\ \A k \in (i + 1)..Len(text) : Char(k) # Quote
              /\ Cardinality(QuotesOfLine(i)) % 2 = 1
      BY <1>1, <1>2, <2>2, <2>8
    <2>10. GarbageOnlyUnended'
      BY <1>1, <2>9 DEF GarbageOnlyUnended, QuotesOfLine, Char
    <2> QED BY <1>1, <1>3, <2>10 DEF IInvR
  <1> QED BY <1>4, <1>5

LEMMA StopRead == IInvR /\ IInv' /\ stop => IInvR'
  <1> SUFFICES ASSUME IInvR, IInv', stop  PROVE IInvR'
    OBVIOUS
  <1>1. text' = text /\ tokens' = tokens /\ status' = "stopped" /\ TokensRead
    BY DEF stop, IInvR, file
  <1>2. TokensRead'
    BY <1>1, KeptRead
  <1> QED BY <1>1, <1>2 DEF IInvR, GarbageOnlyUnended

LEMMA StepRead == IInvR /\ IInv' /\ [Next]_vars => IInvR'
  <1> SUFFICES ASSUME IInvR, IInv', [Next]_vars  PROVE IInvR'
    OBVIOUS
  <1>1. CASE UNCHANGED vars
    <2>1. UNCHANGED <<text, position, tokens, currentLine, status>> /\ TokensRead
      BY <1>1 DEF vars, file, IInvR
    <2>2. TokensRead'
      BY <2>1, KeptRead
    <2>3. CountOK' <=> CountOK
      BY <2>1 DEF CountOK, Lines, LinesBefore, SwallowsLines, Char
    <2>4. PairsOK' <=> PairsOK
      BY <2>1 DEF PairsOK, Even, QuotesSince, Char
    <2>5. GarbageOnlyUnended' <=> GarbageOnlyUnended
      BY <2>1 DEF GarbageOnlyUnended, QuotesOfLine, Char
    <2> QED BY <2>1, <2>2, <2>3, <2>4, <2>5 DEF IInvR
  <1> QED BY <1>1, QuotedRead, LoseRead, NumericRead, KeywordRead, CommentRead, LastCommentRead,
             IdRead, StopRead DEF Next

-----------------------------------------------------------------------------
(* The line that is shown.                                                 *)
LEMMA LeastOf ==
    ASSUME NEW T \in SUBSET Nat, T # {}
    PROVE  \E n \in T : \A m \in T : n <= m
  <1> DEFINE R == OpToRel(<, Nat)
  <1>1. IsWellFoundedOn(R, Nat)
    BY NatLessThanWellFounded
  <1>2. \A y, x \in Nat : <<y, x>> \in R <=> y < x
    BY DEF OpToRel
  <1> HIDE DEF R
  <1>3. PICK x \in T : \A y \in T : ~(<<y, x>> \in R)
    BY <1>1, WFMin
  <1>4. \A y \in T : ~(y < x)
    BY <1>2, <1>3
  <1> QED BY <1>4

(* A walk within S ends, down at 0 and up at n at the latest.              *)
LEMMA WalkDown ==
    ASSUME NEW S, NEW m \in Nat, 0 \notin S
    PROVE  \E i \in 0..m : i \notin S /\ \A k \in (i + 1)..m : k \in S
  <1> DEFINE T == {d \in 0..m : m - d \notin S}
  <1>1. T \in SUBSET Nat /\ m \in T
    OBVIOUS
  <1>2. PICK d \in T : \A e \in T : d <= e
    BY <1>1, LeastOf
  <1>3. m - d \in 0..m /\ m - d \notin S
    OBVIOUS
  <1>4. ASSUME NEW k \in ((m - d) + 1)..m  PROVE k \in S
    <2>1. m - k \in 0..m /\ m - (m - k) = k /\ d \in Nat /\ ~(d <= m - k)
      OBVIOUS
    <2> HIDE DEF T
    <2>2. m - k \notin T
      BY <1>2, <2>1
    <2> QED BY <2>1, <2>2 DEF T
  <1> QED BY <1>3, <1>4

LEMMA WalkUp ==
    ASSUME NEW S, NEW m \in Nat, NEW n \in Nat, m <= n, n \notin S
    PROVE  \E i \in m..n : i \notin S /\ \A k \in m..(i - 1) : k \in S
  <1> DEFINE T == {i \in m..n : i \notin S}
  <1>1. T \in SUBSET Nat /\ T # {}
    OBVIOUS
  <1>2. PICK i \in T : \A e \in T : i <= e
    BY <1>1, LeastOf
  <1>3. ASSUME NEW k \in m..(i - 1)  PROVE k \in S
    <2>1. k \in m..n /\ k < i
      OBVIOUS
    <2>2. k \notin T
      BY <1>2, <2>1
    <2> QED BY <2>1, <2>2
  <1> QED BY <1>3

LEMMA LineShown ==
    ASSUME text \in Seq(STRING), \A i \in DOMAIN text : text[i] # NUL,
           NEW pos \in 1..Len(text)
    PROVE  ShownRight(pos)
  <1> DEFINE from  == BeforeNewLine(pos)
             Up(i)   == i > 1 /\ Char(i - 1) # NewLine /\ Char(i) # NewLine
             Down(i) == i <= Len(text) /\ Char(i + 1) # NewLine /\ Char(i) # NewLine
             a == lineStart(pos)
             b == lineEnd(pos)
  <1>1. Len(text) \in Nat /\ DOMAIN text = 1..Len(text)
    BY LenProperties
  <1>2. from \in 0..Len(text) /\ (from = pos \/ (from = pos - 1 /\ Char(pos) = NewLine))
    BY <1>1 DEF BeforeNewLine
  <1>3. a \in 0..from /\ ~Up(a) /\ \A k \in (a + 1)..from : Up(k)
    <2> DEFINE S == {i \in Nat : Up(i)}
    <2>1. 0 \notin S /\ from \in Nat
      BY <1>2
    <2> HIDE DEF S, from
    <2>2. PICK i \in 0..from : i \notin S /\ \A k \in (i + 1)..from : k \in S
      BY <2>1, WalkDown
    <2>3. i \in Nat /\ ~Up(i) /\ \A k \in (i + 1)..from : Up(k)
      <3> HIDE DEF Up
      <3> QED BY <2>1, <2>2 DEF S
    <2>4. \E l \in 0..from : ~Up(l) /\ \A k \in (l + 1)..from : Up(k)
      BY <2>3
    <2>5. a = CHOOSE l \in 0..from : ~Up(l) /\ \A k \in (l + 1)..from : Up(k)
      BY DEF lineStart, from
    <2> HIDE DEF a, Up
    <2> QED BY <2>4, <2>5
  <1>4. b \in from..(Len(text) + 1) /\ ~Down(b) /\ \A k \in from..(b - 1) : Down(k)
    <2> DEFINE S == {i \in Nat : Down(i)}  end == Len(text) + 1
    <2>1. from \in Nat /\ end \in Nat /\ from <= end /\ end \notin S
      BY <1>1, <1>2
    <2>2. b = CHOOSE l \in from..end : ~Down(l) /\ \A k \in from..(l - 1) : Down(k)
      BY DEF lineEnd
    <2> HIDE DEF S, from, end
    <2>3. PICK i \in from..end : i \notin S /\ \A k \in from..(i - 1) : k \in S
      BY <2>1, WalkUp
    <2>4. i \in Nat /\ ~Down(i) /\ \A k \in from..(i - 1) : Down(k)
      BY <2>1, <2>3 DEF S
    <2>5. \E l \in from..end : ~Down(l) /\ \A k \in from..(l - 1) : Down(k)
      BY <2>4
    <2> HIDE DEF b, Down
    <2> QED BY <2>5, <2>2 DEF end
  <1> HIDE DEF from, a, b
  <1>5. CASE from < pos /\ Char(from) \in {NewLine, NUL}
    <2>1. Char(from) = NewLine \/ from = 0
      BY <1>1, <1>2, <1>5, Apart DEF Char
    <2>2. ~Up(from)
      BY <2>1
    <2>3. ~Down(from)
      BY <1>2, <1>5, <2>1
    <2>4. a = from
      BY <1>2, <1>3, <2>2
    <2>5. b = from
      BY <1>1, <1>2, <1>4, <2>3
    <2> QED BY <1>5, <2>4, <2>5 DEF ShownRight, from, a, b
  <1>6. CASE ~(from < pos /\ Char(from) \in {NewLine, NUL})
    <2>1. Char(from) # NewLine /\ from >= 1
      BY <1>1, <1>2, <1>6 DEF Char, BeforeNewLine, from
    <2>2. a >= 1
      BY <1>2, <1>3, <2>1
    <2>3. \A k \in a..from : Char(k) # NewLine
      <3> TAKE k \in a..from
      <3>1. CASE k = from
        BY <2>1, <3>1
      <3>2. CASE k # from
        <4>1. k + 1 \in (a + 1)..from /\ (k + 1) - 1 = k
          BY <1>2, <1>3, <3>2
        <4> QED BY <1>3, <4>1
      <3> QED BY <3>1, <3>2
    <2>4. \A k \in from..b : Char(k) # NewLine
      <3> TAKE k \in from..b
      <3>1. CASE k = from
        BY <2>1, <3>1
      <3>2. CASE k # from
        <4>1. k - 1 \in from..(b - 1) /\ (k - 1) + 1 = k
          BY <1>1, <1>2, <1>4, <3>2
        <4> QED BY <1>4, <4>1
      <3> QED BY <3>1, <3>2
    <2>5. \A k \in a..b : Char(k) # NewLine
      BY <1>1, <1>2, <1>3, <1>4, <2>3, <2>4
    <2>6. a = 1 \/ Char(a - 1) = NewLine
      <3>1. a \in a..from
        BY <1>2, <1>3
      <3>2. Char(a) # NewLine
        BY <2>3, <3>1, Zenon
      <3>3. a > 1 => Char(a - 1) = NewLine
        BY <1>3, <3>2, Zenon
      <3>4. a > 1 \/ a = 1
        BY <1>2, <1>3, <2>2
      <3> QED BY <3>3, <3>4, Zenon
    <2>7. b = Len(text) + 1 \/ Char(b + 1) = NewLine
      <3>1. b \in from..b
        BY <1>1, <1>2, <1>4
      <3>2. Char(b) # NewLine
        BY <2>4, <3>1, Zenon
      <3>3. b <= Len(text) => Char(b + 1) = NewLine
        BY <1>4, <3>2, Zenon
      <3>4. b <= Len(text) \/ b = Len(text) + 1
        BY <1>1, <1>2, <1>4
      <3> QED BY <3>3, <3>4, Zenon
    <2>8. IsLine(a, b) /\ from \in a..b
      BY <1>1, <1>2, <1>3, <1>4, <2>5, <2>6, <2>7 DEF IsLine
    <2> QED BY <1>6, <2>8 DEF ShownRight, from, a, b
  <1> QED BY <1>5, <1>6

-----------------------------------------------------------------------------
LEMMA AlwaysRead == Spec => []IInvR
  <1>1. IInvR => IInv
    BY DEF IInvR
  <1>2. IInvR /\ [Next]_vars => IInvR'
    BY <1>1, StepIInv, StepRead
  <1> QED BY <1>2, InitRead, PTL DEF Spec

(* Whatever is in the file, of the keywords that begin where a keyword is  *)
(* read the longest is taken, although the first in the table is.          *)
THEOREM LongestTaken == Spec => []LongestKeyword
  <1>1. IInvR => LongestKeyword
    BY DEF IInvR, TokensRead, LongestKeyword
  <1> QED BY <1>1, AlwaysRead, PTL

(* Whatever is in the file, every token has as its line the number of the  *)
(* new lines before it, unless strtoll skipped some before a number.       *)
THEOREM LinesCounted == Spec => []LinesRight
  <1>1. IInvR => LinesRight
    BY DEF IInvR, TokensRead, LinesRight
  <1> QED BY <1>1, AlwaysRead, PTL

(* Whatever is in the file, an error shows the whole line of its token and *)
(* no other, from within the buffer.                                       *)
THEOREM LineOfTokenShown == Spec => []ShownLineRight
  <1>1. IInvR => ShownLineRight
    BY LineShown DEF IInvR, IInv, TokensRead, ShownLineRight
  <1> QED BY <1>1, AlwaysRead, PTL

(* Whatever is in the file, a quoted string is only lost (strchr found     *)
(* nothing) at an unended last line or at an unpaired quotation mark.      *)
THEOREM GarbageExplained == Spec => []GarbageOnlyUnended
  <1>1. IInvR => GarbageOnlyUnended
    BY DEF IInvR
  <1> QED BY <1>1, AlwaysRead, PTL

-----------------------------------------------------------------------------
(* What is written is read back: as many tokens as are read are those that *)
(* were meant, and the next of them begins where the tokenizer stands.     *)
Readable ==
    /\ Written
    /\ useNumericNumbers \/ \A i \in 1..Len(meant) : meant[i].begins => Char(meant[i].at) \notin Digits

StandsAt(n, p) ==
    IF n < Len(meant) THEN meant[n + 1].begins /\ p = meant[n + 1].at ELSE p = Len(text) + 1

MeantOK ==
    /\ Len(tokens) <= Len(meant)
    /\ \A i \in 1..Len(tokens) : tokens[i].token = meant[i].token /\ tokens[i].pos = meant[i].at
    /\ status \in {"running", "stopped"}
    /\ status = "running" => StandsAt(Len(tokens), position)
    /\ status = "stopped" => Len(tokens) = Len(meant)

IInvM == IInvR /\ (Readable => MeantOK)

(* There is only one place that is the first of its kind.                  *)
LEMMA OneFirst ==
    ASSUME NEW C, NEW i \in Int, NEW j \in Int, NEW k \in Int, i <= j, i <= k
    PROVE  /\ FirstNotIn(C, i, j) /\ FirstNotIn(C, i, k) => j = k
           /\ FirstIn(C, i, j) /\ FirstIn(C, i, k) => j = k
           /\ FirstNotIn(C, i, j) /\ Char(i) \notin C => j = i
  <1>1. j < k \/ j = k \/ k < j
    OBVIOUS
  <1>2. j < k => j \in i..(k - 1)
    OBVIOUS
  <1>3. k < j => k \in i..(j - 1)
    OBVIOUS
  <1>4. i # j => i \in i..(j - 1)
    OBVIOUS
  <1> QED BY <1>1, <1>2, <1>3, <1>4, Zenon DEF FirstNotIn, FirstIn

LEMMA WrittenIn ==
    ASSUME Written, NEW i \in 1..Len(meant), text \in Seq(STRING)
    PROVE  /\ TokenIn(i) /\ Len(meant) \in Nat /\ Len(text) \in Nat
           /\ meant[i].at \in 1..Len(text) /\ meant[i].end \in 1..(Len(text) + 1)
           /\ meant[i].begins =>
                KeywordIn(meant[i]) \/ NameIn(meant[i]) \/ NumeralIn(meant[i]) \/ StringIn(i)
           /\ ~meant[i].begins => StringIn(i - 1) \/ StringIn(i - 2)
  <1>1. TokenIn(i) /\ Len(meant) \in Nat /\ Len(text) \in Nat
    BY LenProperties DEF Written
  <1> QED BY <1>1 DEF TokenIn

(* With what each kind of token begins.                                    *)
LEMMA KeywordStart ==
    ASSUME text \in Seq(STRING), NEW k \in DOMAIN KEYWORDS, NEW i \in Nat \ {0}, MatchesAt(k, i)
    PROVE  i \in 1..Len(text) /\ Char(i) = Spellings[k][1] /\ 1 \in 1..KEYWORDS[k].length
  <1>1. KEYWORDS[k].length \in Nat \ {0} /\ Len(text) \in Nat
    BY KeywordsAssumption, LenProperties
  <1>2. i \in 1..Len(text) /\ 1 \in 1..KEYWORDS[k].length /\ i + 1 - 1 = i
    BY <1>1 DEF MatchesAt
  <1>3. text[i + 1 - 1] = Spellings[k][1]
    BY <1>2 DEF MatchesAt
  <1> QED BY <1>2, <1>3 DEF Char

LEMMA BeginningChar ==
    ASSUME text \in Seq(STRING), Written, NEW i \in 1..Len(meant), meant[i].begins
    PROVE  /\ Char(meant[i].at) \notin Blanks
           /\ NameIn(meant[i]) => Char(meant[i].at) \in ID_VALID_SYMBOLS
           /\ NumeralIn(meant[i]) => Char(meant[i].at) \in Digits
           /\ ~StringIn(i) => Char(meant[i].at) # Quote
  <1> DEFINE t == meant[i]  c == Char(t.at)
  <1>1. /\ t.at \in 1..Len(text) /\ t.end \in 1..(Len(text) + 1) /\ Len(text) \in Nat
        /\ KeywordIn(t) \/ NameIn(t) \/ NumeralIn(t) \/ StringIn(i)
    BY WrittenIn
  <1>2. ASSUME KeywordIn(t)  PROVE c \notin Blanks /\ c # Quote
    <2>1. PICK k \in DOMAIN KEYWORDS : IsKeywordOf(t, k)
      BY <1>2 DEF KeywordIn
    <2>2. MatchesAt(k, t.at) /\ KEYWORDS[k].code # "STR_QUOTE" /\ t.at \in Nat \ {0}
      BY <1>1, <2>1 DEF IsKeywordOf
    <2>3. c = Spellings[k][1] /\ 1 \in 1..KEYWORDS[k].length
      BY <2>2, KeywordStart
    <2> QED BY <2>2, <2>3, SpellingAssumption
  <1>3. ASSUME NameIn(t)  PROVE c \in ID_VALID_SYMBOLS /\ c \notin Blanks /\ c # Quote
    <2>1. FirstNotIn(ID_VALID_SYMBOLS, t.at, t.end) /\ t.at \in t.at..(t.end - 1)
      BY <1>1, <1>3 DEF NameIn
    <2>2. c \in ID_VALID_SYMBOLS
      BY <2>1 DEF FirstNotIn
    <2> QED BY <2>2, AlphabetAssumption DEF Spaces
  <1>4. ASSUME NumeralIn(t)  PROVE c \in Digits /\ c \notin Blanks /\ c # Quote
    <2>1. FirstNotIn(Digits, t.at, t.end) /\ t.at \in t.at..(t.end - 1)
      BY <1>1, <1>4 DEF NumeralIn
    <2>2. c \in Digits
      BY <2>1 DEF FirstNotIn
    <2> QED BY <2>2, AlphabetAssumption DEF Spaces
  <1>5. StringIn(i) => c = Quote
    BY DEF StringIn
  <1> QED BY <1>1, <1>2, <1>3, <1>4, <1>5, Apart

(* A token that is no string is followed by one that begins.               *)
LEMMA NextBegins ==
    ASSUME text \in Seq(STRING), Written, NEW i \in 1..Len(meant),
           \/ meant[i].begins /\ Char(meant[i].at) # Quote
           \/ StringIn(i - 2)
    PROVE  i = Len(meant) \/ meant[i + 1].begins
  <1> SUFFICES ASSUME i # Len(meant), ~meant[i + 1].begins  PROVE FALSE
    OBVIOUS
  <1>1. i + 1 \in 1..Len(meant) /\ i \in Int
    BY DEF Written
  <1>2. StringIn((i + 1) - 1) \/ StringIn((i + 1) - 2)
    BY <1>1, WrittenIn
  <1>3. (i + 1) - 1 = i /\ (i + 1) - 2 = i - 1 /\ (i - 1) + 1 = i /\ (i - 2) + 1 = i - 1 /\ (i - 2) + 2 = i
    BY <1>1
  <1>4. StringIn(i) \/ StringIn(i - 1)
    BY <1>2, <1>3
  <1>5. StringIn(i) => meant[i].begins /\ Char(meant[i].at) = Quote
    BY DEF StringIn
  <1>6. StringIn(i - 1) => meant[i - 1].begins /\ ~meant[i].begins
    <2> DEFINE m == i - 1
    <2>1. StringIn(m) => meant[m].begins /\ ~meant[m + 1].begins
      BY DEF StringIn
    <2>2. m + 1 = i
      BY <1>3
    <2> QED BY <2>1, <2>2
  <1>7. StringIn(i - 2) => ~meant[i - 1].begins /\ ~meant[i].begins
    <2> DEFINE m == i - 2
    <2>1. StringIn(m) => ~meant[m + 1].begins /\ ~meant[m + 2].begins
      BY DEF StringIn
    <2>2. m + 1 = i - 1 /\ m + 2 = i
      BY <1>3
    <2> QED BY <2>1, <2>2
  <1> QED BY <1>4, <1>5, <1>6, <1>7

(* Behind a token the blanks lead to the next one, or to the end.          *)
LEMMA BlanksLead ==
    ASSUME text \in Seq(STRING), Written, NEW n \in 0..Len(meant),
           n = Len(meant) \/ meant[n + 1].begins,
           NEW from \in 1..(Len(text) + 1), from = IF n = 0 THEN 1 ELSE meant[n].end,
           NEW p \in from..(Len(text) + 1), FirstNotIn(Blanks, from, p)
    PROVE  StandsAt(n, p)
  <1>1. Len(text) \in Nat /\ Len(meant) \in Nat \ {0}
    BY LenProperties DEF Written
  <1> DEFINE next == IF n < Len(meant) THEN meant[n + 1].at ELSE Len(text) + 1
  <1>2. next \in Int /\ Between(from, next) /\ Char(next) \notin Blanks
    <2>1. CASE n < Len(meant)
      <3>1. n + 1 \in 1..Len(meant) /\ meant[n + 1].begins /\ (n + 1 = 1 <=> n = 0) /\ (n + 1) - 1 = n
        BY <1>1, <2>1
      <3>2. TokenIn(n + 1) /\ meant[n + 1].at \in 1..Len(text)
        BY <3>1, WrittenIn
      <3>3. Between(from, meant[n + 1].at)
        BY <3>1, <3>2 DEF TokenIn
      <3> QED BY <1>1, <2>1, <3>1, <3>2, <3>3, BeginningChar
    <2>2. CASE ~(n < Len(meant))
      <3>1. n = Len(meant) /\ n # 0
        BY <1>1, <2>2
      <3> QED BY <1>1, <2>2, <3>1, Apart DEF Written, Char
    <2> QED BY <2>1, <2>2
  <1> HIDE DEF next
  <1>3. FirstNotIn(Blanks, from, next) /\ from <= next
    BY <1>2 DEF Between, FirstNotIn
  <1>4. p = next
    <2>1. from \in Int /\ p \in Int /\ from <= p
      BY <1>1
    <2> QED BY <1>2, <1>3, <2>1, OneFirst, Zenon
  <1> QED BY <1>4 DEF StandsAt, next

-----------------------------------------------------------------------------
(* A step that adds the tokens that were meant next.                       *)
LEMMA ReadsOn ==
    ASSUME IInv, Written, MeantOK, status = "running", UNCHANGED file,
           NEW T, NEW added \in Seq(T), addTokens(added), Len(added) \in Nat \ {0},
           NEW n \in Nat, n = Len(tokens) + Len(added), n <= Len(meant),
           \A m \in 1..Len(added) : /\ added[m].token = meant[Len(tokens) + m].token
                                    /\ added[m].pos = meant[Len(tokens) + m].at,
           n = Len(meant) \/ meant[n + 1].begins,
           proceedTo(meant[n].end)
    PROVE  MeantOK'
  <1> DEFINE had == Len(tokens)  S == Elements(tokens) \union T
  <1>1. /\ text' = text /\ meant' = meant /\ text \in Seq(STRING) /\ Len(text) \in Nat
        /\ had \in Nat /\ Len(meant) \in Nat /\ Len(meant) <= MAX_TOKENS_COUNT
    BY LenProperties, Elementary, SizeAssumption DEF file, IInv, Written
  <1>2. tokens' = tokens \o added /\ status' = "running"
    BY <1>1, SizeAssumption DEF addTokens
  <1>3. tokens \in Seq(S) /\ added \in Seq(S)
    BY SeqMonotonic DEF IInv
  <1>4. /\ Len(tokens') = n
        /\ \A i \in 1..n : tokens'[i] = IF i <= had THEN tokens[i] ELSE added[i - had]
    <2> HIDE DEF S
    <2> QED BY <1>2, <1>3, ConcatProperties
  <1>5. ASSUME NEW i \in 1..n
        PROVE  tokens'[i].token = meant[i].token /\ tokens'[i].pos = meant[i].at
    <2>1. CASE i <= had
      BY <1>4, <2>1 DEF MeantOK
    <2>2. CASE ~(i <= had)
      <3>1. i - had \in 1..Len(added) /\ had + (i - had) = i
        BY <1>1, <2>2
      <3>2. /\ added[i - had].token = meant[had + (i - had)].token
            /\ added[i - had].pos = meant[had + (i - had)].at
        BY <3>1
      <3> QED BY <1>4, <2>2, <3>1, <3>2
    <2> QED BY <2>1, <2>2
  <1>6. StandsAt(n, position')
    <2>1. n \in 1..Len(meant) /\ n \in 0..Len(meant) /\ n # 0
      BY <1>1
    <2>2. meant[n].end \in 1..(Len(text) + 1)
      BY <1>1, <2>1, WrittenIn
    <2>3. PICK p \in meant[n].end..(Len(text) + 1) : FirstNotIn(Blanks, meant[n].end, p) /\ position' = p
      BY DEF proceedTo
    <2> QED BY <1>1, <2>1, <2>2, <2>3, BlanksLead
  <1>7. StandsAt(Len(tokens), position)'
    BY <1>1, <1>4, <1>6 DEF StandsAt
  <1> QED BY <1>1, <1>2, <1>4, <1>5, <1>7 DEF MeantOK

LEMMA ReadsOneOn ==
    ASSUME IInv, Written, MeantOK, status = "running", UNCHANGED file,
           NEW n, n = Len(tokens) + 1, n \in 1..Len(meant),
           meant[n].begins, Char(meant[n].at) # Quote,
           NEW t, t.token = meant[n].token, t.pos = meant[n].at, addTokens(<<t>>),
           proceedTo(meant[n].end)
    PROVE  MeantOK'
  <1> DEFINE added == <<t>>
  <1>1. added \in Seq({t}) /\ Len(added) = 1 /\ added[1] = t /\ \A m \in 1..Len(added) : m = 1
    OBVIOUS
  <1>2. addTokens(added) /\ n \in Nat /\ n <= Len(meant) /\ text \in Seq(STRING)
    BY DEF Written, IInv
  <1> HIDE DEF added
  <1>3. \A m \in 1..Len(added) : /\ added[m].token = meant[Len(tokens) + m].token
                                 /\ added[m].pos = meant[Len(tokens) + m].at
    BY <1>1
  <1>4. n = Len(meant) \/ meant[n + 1].begins
    BY <1>2, NextBegins
  <1>5. n = Len(tokens) + Len(added) /\ Len(added) \in Nat \ {0}
    BY <1>1
  <1> QED BY <1>1, <1>2, <1>3, <1>4, <1>5, ReadsOn

(* The tokenizer stands before a token that begins, the n-th.              *)
Before(n) ==
    /\ status = "running" /\ n = Len(tokens) + 1 /\ n \in 1..Len(meant)
    /\ meant[n].begins /\ position = meant[n].at

LEMMA Place ==
    ASSUME IInv, Written, NEW n, Before(n)
    PROVE  /\ position \in 1..Len(text) /\ meant[n].end \in 1..(Len(text) + 1)
           /\ Len(text) \in Nat /\ text \in Seq(STRING) /\ n \in Nat /\ Len(tokens) \in Nat
           /\ KeywordIn(meant[n]) \/ NameIn(meant[n]) \/ NumeralIn(meant[n]) \/ StringIn(n)
           /\ Char(position) = text[position]
  <1>1. text \in Seq(STRING) /\ Len(text) \in Nat /\ Len(tokens) \in Nat
    BY LenProperties, Elementary DEF IInv
  <1> QED BY <1>1, WrittenIn DEF Before, Char

(* Where a number is found.                                                *)
LEMMA NumberFound ==
    ASSUME text \in Seq(STRING), NEW i \in position..Len(text), DigitsBegin(i), position \in Nat \ {0}
    PROVE  /\ BeginsNumber(position)
           /\ Char(position) \notin ID_VALID_SYMBOLS
           /\ Char(position) \in Digits => i = position
  <1>1. Len(text) \in Nat
    BY LenProperties
  <1>2. PICK s \in {i, i - 1} :
           /\ s >= position /\ FirstNotIn(Spaces, position, s)
           /\ s < i => Char(s) \in {"+", "-"}
    BY DEF DigitsBegin
  <1>3. /\ s \in position..Len(text) /\ \A k \in position..(s - 1) : Char(k) \in Spaces
        /\ Char(i) \in Digits /\ (s = i \/ (s + 1 = i /\ Char(s) \in {"+", "-"}))
    BY <1>1, <1>2 DEF FirstNotIn, DigitsBegin
  <1>4. BeginsNumber(position)
    BY <1>3 DEF BeginsNumber
  <1>5. CASE s = position
    <2>1. Char(position) \in Digits \union {"+", "-"}
      BY <1>3, <1>5
    <2>2. Char(position) \in Digits => i = position
      BY <1>3, <1>5, AlphabetAssumption
    <2> QED BY <1>4, <2>1, <2>2, AlphabetAssumption
  <1>6. CASE s # position
    <2>1. position \in position..(s - 1)
      BY <1>3, <1>6
    <2>2. Char(position) \in Spaces
      BY <1>3, <2>1
    <2> QED BY <1>4, <2>2, AlphabetAssumption
  <1> QED BY <1>5, <1>6

LEMMA NumeralMeant ==
    IInvR /\ Readable /\ MeantOK /\ Next
      => \A n : Before(n) /\ NumeralIn(meant[n]) => MeantOK'
  <1> SUFFICES ASSUME IInvR, Readable, MeantOK, Next, NEW n, Before(n), NumeralIn(meant[n])
               PROVE  MeantOK'
    OBVIOUS
  <1> DEFINE t == meant[n]
  <1>1. IInv /\ Written
    BY DEF IInvR, Readable
  <1>2. /\ position \in 1..Len(text) /\ t.end \in 1..(Len(text) + 1)
        /\ Len(text) \in Nat /\ text \in Seq(STRING) /\ n \in Nat
        /\ status = "running" /\ n = Len(tokens) + 1 /\ n \in 1..Len(meant)
        /\ t.begins /\ position = t.at
    BY <1>1, Place DEF Before
  <1>3. Char(position) \in Digits /\ Char(position) # Quote
    <2>1. Char(t.at) \in Digits
      BY <1>1, <1>2, BeginningChar
    <2> QED BY <1>2, <2>1, AlphabetAssumption
  <1>4. ~IsQuote /\ IsNumber
    <2>1. useNumericNumbers
      BY <1>2, <1>3 DEF Readable
    <2>2. Char(position) \notin Spaces
      BY <1>3, AlphabetAssumption
    <2>3. FirstNotIn(Spaces, position, position)
      BY <1>2, <2>2 DEF FirstNotIn
    <2>4. DigitsBegin(position)
      BY <1>2, <1>3, <2>3 DEF DigitsBegin
    <2>5. position \in position..Len(text)
      BY <1>2
    <2> QED BY <1>3, <2>1, <2>4, <2>5 DEF IsQuote, IsNumber
  <1>5. processNumeric
    BY <1>4 DEF Next, processQuotedString, loseQuotedString, processKeyword, processComment,
                processLastComment, CommentHere, IsKeyword, processId, IsId, stop
  <1>6. PICK i \in position..Len(text) : \E j \in i..Len(text) :
           /\ IsNumberAt(i, j)
           /\ addTokens(<<Token(Numeral(Value(i, j)), position)>>)
           /\ proceedTo(j + 1)
    BY <1>5 DEF processNumeric
  <1>7. PICK j \in i..Len(text) :
           /\ IsNumberAt(i, j)
           /\ addTokens(<<Token(Numeral(Value(i, j)), position)>>)
           /\ proceedTo(j + 1)
    BY <1>6
  <1>8. i = position
    BY <1>2, <1>3, <1>7, NumberFound DEF IsNumberAt
  <1>9. j + 1 = t.end
    <2>1. FirstNotIn(Digits, position, j + 1)
      BY <1>7, <1>8 DEF IsNumberAt
    <2>2. FirstNotIn(Digits, position, t.end) /\ position < t.end
      BY <1>2 DEF NumeralIn
    <2>3. position \in Int /\ j + 1 \in Int /\ t.end \in Int /\ position <= j + 1 /\ position <= t.end
      BY <1>2, <1>8, <2>2
    <2> QED BY <2>1, <2>2, <2>3, OneFirst, Zenon
  <1>10. Numeral(Value(i, j)) = t.token
    <2>1. j = t.end - 1 /\ ~(i > position)
      BY <1>2, <1>8, <1>9
    <2>2. Value(i, j) = IF Decimal(i, j) > LLONG_MAX THEN LLONG_MAX ELSE Decimal(i, j)
      BY <2>1 DEF Value
    <2> QED BY <1>2, <1>8, <2>1, <2>2 DEF NumeralIn
  <1> DEFINE read == Token(Numeral(Value(i, j)), position)
  <1>11. read.token = t.token /\ read.pos = t.at
    BY <1>2, <1>10 DEF Token
  <1>12. addTokens(<<read>>) /\ proceedTo(t.end) /\ UNCHANGED file /\ Char(t.at) # Quote
    BY <1>2, <1>3, <1>5, <1>7, <1>9 DEF processNumeric
  <1> HIDE DEF read
  <1> QED BY <1>1, <1>2, <1>11, <1>12, ReadsOneOn

LEMMA NameMeant ==
    IInvR /\ Readable /\ MeantOK /\ Next
      => \A n : Before(n) /\ NameIn(meant[n]) => MeantOK'
  <1> SUFFICES ASSUME IInvR, Readable, MeantOK, Next, NEW n, Before(n), NameIn(meant[n])
               PROVE  MeantOK'
    OBVIOUS
  <1> DEFINE t == meant[n]
  <1>1. IInv /\ Written
    BY DEF IInvR, Readable
  <1>2. /\ position \in 1..Len(text) /\ t.end \in 1..(Len(text) + 1)
        /\ Len(text) \in Nat /\ text \in Seq(STRING) /\ n \in Nat
        /\ status = "running" /\ n = Len(tokens) + 1 /\ n \in 1..Len(meant)
        /\ t.begins /\ position = t.at
    BY <1>1, Place DEF Before
  <1>3. Char(position) \in ID_VALID_SYMBOLS /\ Char(position) # Quote
    <2>1. Char(t.at) \in ID_VALID_SYMBOLS
      BY <1>1, <1>2, BeginningChar
    <2> QED BY <1>2, <2>1, AlphabetAssumption
  <1>4. ~IsQuote /\ ~IsNumber /\ ~IsKeyword /\ IsId
    <2>1. \A i \in position..Len(text) : ~DigitsBegin(i)
      BY <1>2, <1>3, NumberFound
    <2>2. ~IsNumber /\ ~IsQuote
      BY <1>3, <2>1 DEF IsNumber, IsQuote
    <2>3. ~IsKeyword
      BY <1>2 DEF IsKeyword, NameIn
    <2> QED BY <1>3, <2>2, <2>3 DEF IsId
  <1>5. processId
    BY <1>4 DEF Next, processQuotedString, loseQuotedString, processNumeric, processKeyword,
                processComment, processLastComment, CommentHere, stop
  <1>6. PICK end \in (position + 1)..(Len(text) + 1) :
           /\ FirstNotIn(ID_VALID_SYMBOLS, position, end)
           /\ addTokens(<<Token(Name(SubSeq(text, position, end - 1)), position)>>)
           /\ proceedTo(end)
    BY <1>5 DEF processId
  <1>7. end = t.end
    <2>1. FirstNotIn(ID_VALID_SYMBOLS, position, t.end) /\ position < t.end
      BY <1>2 DEF NameIn
    <2>2. position \in Int /\ end \in Int /\ t.end \in Int /\ position <= end /\ position <= t.end
      BY <1>2, <1>6, <2>1
    <2> QED BY <1>6, <2>1, <2>2, OneFirst, Zenon
  <1> DEFINE read == Token(Name(SubSeq(text, position, end - 1)), position)
  <1>8. read.token = t.token /\ read.pos = t.at
    BY <1>2, <1>7 DEF Token, NameIn
  <1>9. addTokens(<<read>>) /\ proceedTo(t.end) /\ UNCHANGED file /\ Char(t.at) # Quote
    BY <1>2, <1>3, <1>5, <1>6, <1>7 DEF processId
  <1> HIDE DEF read
  <1> QED BY <1>1, <1>2, <1>8, <1>9, ReadsOneOn

(* The keyword that is found first is the one that was meant.              *)
LEMMA OneKeyword ==
    ASSUME NEW k \in DOMAIN KEYWORDS, NEW l \in DOMAIN KEYWORDS, IsFirstMatch(l),
           MatchesAt(k, position),
           \A m \in DOMAIN KEYWORDS : MatchesAt(m, position) => KEYWORDS[m].length <= KEYWORDS[k].length
    PROVE  k = l
  <1> SUFFICES ASSUME k # l  PROVE FALSE
    OBVIOUS
  <1>1. KEYWORDS[k].length \in Nat /\ KEYWORDS[l].length \in Nat
    BY KeywordsAssumption
  <1>2. KEYWORDS[k].length = KEYWORDS[l].length
    BY <1>1, FirstIsLongest DEF IsFirstMatch
  <1>3. l < k
    <2>1. ~(k \in 1..(l - 1))
      BY DEF IsFirstMatch
    <2> QED BY <2>1, TableIndices
  <1>4. PICK c \in 1..KEYWORDS[l].length : Spellings[l][c] # Spellings[k][c]
    BY <1>1, <1>2, <1>3, SpellingAssumption
  <1>5. text[position + c - 1] = Spellings[l][c] /\ text[position + c - 1] = Spellings[k][c]
    BY <1>2 DEF IsFirstMatch, MatchesAt
  <1> QED BY <1>4, <1>5

LEMMA KeywordMeant ==
    IInvR /\ Readable /\ MeantOK /\ Next
      => \A n : Before(n) /\ KeywordIn(meant[n]) => MeantOK'
  <1> SUFFICES ASSUME IInvR, Readable, MeantOK, Next, NEW n, Before(n), KeywordIn(meant[n])
               PROVE  MeantOK'
    OBVIOUS
  <1> DEFINE t == meant[n]
  <1>1. IInv /\ Written
    BY DEF IInvR, Readable
  <1>2. /\ position \in 1..Len(text) /\ t.end \in 1..(Len(text) + 1)
        /\ Len(text) \in Nat /\ text \in Seq(STRING) /\ n \in Nat
        /\ status = "running" /\ n = Len(tokens) + 1 /\ n \in 1..Len(meant)
        /\ t.begins /\ position = t.at
    BY <1>1, Place DEF Before
  <1>3. PICK k \in DOMAIN KEYWORDS : IsKeywordOf(t, k)
    BY DEF KeywordIn
  <1>4. /\ MatchesAt(k, position) /\ KEYWORDS[k].code # "STR_QUOTE"
        /\ \A m \in DOMAIN KEYWORDS : MatchesAt(m, position) => KEYWORDS[m].length <= KEYWORDS[k].length
    BY <1>2, <1>3 DEF IsKeywordOf
  <1>5. Char(position) # Quote
    <2>1. Char(position) = Spellings[k][1] /\ 1 \in 1..KEYWORDS[k].length
      BY <1>2, <1>4, KeywordStart
    <2> QED BY <1>4, <2>1, SpellingAssumption
  <1>6. ~IsQuote /\ ~IsNumber /\ IsKeyword
    <2>1. \A i \in position..Len(text) : ~DigitsBegin(i)
      BY <1>2, NumberFound DEF KeywordIn
    <2>2. ~IsNumber /\ ~IsQuote
      BY <1>5, <2>1 DEF IsNumber, IsQuote
    <2> QED BY <1>4, <2>2 DEF IsKeyword
  <1>7. \A l \in DOMAIN KEYWORDS : IsFirstMatch(l) => l = k
    BY <1>4, OneKeyword
  <1>8. processKeyword \/ processComment \/ processLastComment
    BY <1>6 DEF Next, processQuotedString, loseQuotedString, processNumeric, processId, IsId, stop
  <1>9. CASE KEYWORDS[k].code # "COMMENT"
    <2>1. processKeyword
      <3>1. ~CommentHere
        BY <1>7, <1>9 DEF CommentHere
      <3> QED BY <1>8, <3>1 DEF processComment, processLastComment
    <2>2. /\ addTokens(<<Token(KeywordToken(KEYWORDS[k].code), position)>>)
          /\ proceedTo(position + KEYWORDS[k].length)
      BY <1>7, <2>1 DEF processKeyword
    <2> DEFINE read == Token(KeywordToken(KEYWORDS[k].code), position)
    <2>3. t.token = KeywordToken(KEYWORDS[k].code) /\ t.end = t.at + KEYWORDS[k].length
      BY <1>3, <1>9 DEF IsKeywordOf
    <2>4. read.token = t.token /\ read.pos = t.at
      BY <1>2, <2>3 DEF Token
    <2>5. addTokens(<<read>>) /\ proceedTo(t.end) /\ UNCHANGED file /\ Char(t.at) # Quote
      BY <1>2, <1>5, <2>1, <2>2, <2>3 DEF processKeyword
    <2> HIDE DEF read
    <2> QED BY <1>1, <1>2, <2>4, <2>5, ReadsOneOn
  <1>10. CASE KEYWORDS[k].code = "COMMENT"
    <2>1. /\ t.token = Keyword("NEW_LINE") /\ FirstIn({NewLine}, position, t.end - 1)
          /\ position < t.end
      BY <1>2, <1>3, <1>10 DEF IsKeywordOf
    <2>2. t.end - 1 \in position..Len(text) /\ text[t.end - 1] = NewLine
      BY <1>2, <2>1 DEF FirstIn, Char
    <2>3. ~processKeyword
      BY <1>7, <1>10 DEF processKeyword
    <2>4. ~processLastComment
      BY <2>2 DEF processLastComment
    <2>5. PICK end \in position..Len(text) : FirstIn({NewLine}, position, end) /\ proceedTo(end + 1)
      BY <1>8, <2>3, <2>4 DEF processComment
    <2>6. end + 1 = t.end
      <3>1. position \in Int /\ end \in Int /\ t.end - 1 \in Int /\ position <= end /\ position <= t.end - 1
        BY <1>2, <2>2, <2>5
      <3>2. end = t.end - 1
        BY <2>1, <2>5, <3>1, OneFirst, Zenon
      <3> QED BY <1>2, <3>2
    <2> DEFINE read == Token(Keyword("NEW_LINE"), position)
    <2>7. read.token = t.token /\ read.pos = t.at
      BY <1>2, <2>1 DEF Token
    <2>8. addTokens(<<read>>) /\ proceedTo(t.end) /\ UNCHANGED file /\ Char(t.at) # Quote
      BY <1>2, <1>5, <1>8, <2>3, <2>4, <2>5, <2>6 DEF processComment, CommentNewLine
    <2> HIDE DEF read
    <2> QED BY <1>1, <1>2, <2>7, <2>8, ReadsOneOn
  <1> QED BY <1>9, <1>10

LEMMA StringMeant ==
    IInvR /\ Readable /\ MeantOK /\ Next
      => \A n : Before(n) /\ StringIn(n) => MeantOK'
  <1> SUFFICES ASSUME IInvR, Readable, MeantOK, Next, NEW n, Before(n), StringIn(n)
               PROVE  MeantOK'
    OBVIOUS
  <1> DEFINE a == meant[n]  b == meant[n + 1]  c == meant[n + 2]
  <1>1. IInv /\ Written
    BY DEF IInvR, Readable
  <1>2. /\ position \in 1..Len(text)
        /\ Len(text) \in Nat /\ text \in Seq(STRING) /\ n \in Nat \ {0} /\ Len(tokens) \in Nat
        /\ status = "running" /\ n = Len(tokens) + 1 /\ position = a.at
    BY <1>1, Place DEF Before
  <1>3. n + 2 \in 1..Len(meant) /\ c.at \in 1..Len(text) /\ c.end \in 1..(Len(text) + 1)
    <2>1. n + 2 \in 1..Len(meant)
      BY <1>1, <1>2 DEF StringIn, Written
    <2> QED BY <1>1, <1>2, <2>1, WrittenIn
  <1>4. /\ Char(position) = Quote /\ b.at = position + 1 /\ b.at <= c.at
        /\ FirstIn({Quote, NewLine}, b.at, c.at) /\ Char(c.at) = Quote /\ c.end = c.at + 1
        /\ \E k \in c.end..Len(text) : Char(k) = NewLine
        /\ a.token = Keyword("STR_QUOTE") /\ c.token = Keyword("STR_QUOTE")
        /\ b.token = Quoted(SubSeq(text, b.at, c.at - 1))
    BY <1>2 DEF StringIn
  <1>5. IsQuote /\ EndsOfString
    <2>1. PICK k \in c.end..Len(text) : Char(k) = NewLine
      BY <1>4
    <2>2. c.at \in (position + 1)..Len(text) /\ k \in (position + 1)..Len(text)
      <3>1. position \in Int /\ Len(text) \in Int /\ c.at \in Int /\ c.end \in Int /\ b.at \in Int
        BY <1>2, <1>3, <1>4
      <3>2. /\ b.at = position + 1 /\ b.at <= c.at /\ c.at <= Len(text) /\ c.end = c.at + 1
            /\ k \in Int /\ c.end <= k /\ k <= Len(text)
        BY <1>2, <1>3, <1>4, <2>1
      <3> HIDE DEF a, b, c
      <3> QED BY ONLY <3>1, <3>2
    <2>3. text[c.at] = Quote /\ text[k] = NewLine
      BY <1>2, <1>4, <2>1, <2>2 DEF Char
    <2> QED BY <1>4, <2>2, <2>3 DEF IsQuote, EndsOfString
  <1>6. processQuotedString
    BY <1>5 DEF Next, loseQuotedString, processNumeric, IsNumber, processKeyword, processComment,
                processLastComment, CommentHere, IsKeyword, processId, IsId, stop
  <1>7. PICK end \in (position + 1)..Len(text) :
           /\ FirstIn({Quote, NewLine}, position + 1, end)
           /\ addTokens(QuotedTokens(end))
           /\ proceedTo(IF text[end] = Quote THEN end + 1 ELSE end)
    BY <1>6 DEF processQuotedString
  <1>8. end = c.at
    <2>1. /\ position + 1 \in Int /\ end \in Int /\ c.at \in Int
          /\ position + 1 <= end /\ position + 1 <= c.at
      BY <1>2, <1>3, <1>4, <1>7
    <2>2. FirstIn({Quote, NewLine}, position + 1, c.at)
      BY <1>4
    <2> QED BY <1>7, <2>1, <2>2, OneFirst, Zenon
  <1>9. text[end] = Quote /\ Char(end) = Quote /\ proceedTo(c.end)
    BY <1>2, <1>4, <1>7, <1>8 DEF Char
  <1> DEFINE open  == Token(Keyword("STR_QUOTE"), position)
             inner == Token(Quoted(SubSeq(text, position + 1, end - 1)), position + 1)
             close == Token(Keyword("STR_QUOTE"), end)
             T     == {open, inner, close}
             added == QuotedTokens(end)
  <1>10. /\ open.token = a.token /\ open.pos = a.at
         /\ inner.token = b.token /\ inner.pos = b.at
         /\ close.token = c.token /\ close.pos = c.at
    BY <1>2, <1>4, <1>8 DEF Token
  <1>11. added = <<open, inner, close>>
    <2>1. added = <<open, inner>> \o <<close>>
      BY <1>9 DEF QuotedTokens
    <2> HIDE DEF open, inner, close, added
    <2> QED BY <2>1, Joined
  <1>12. addTokens(added) /\ UNCHANGED file
    BY <1>6, <1>7 DEF processQuotedString
  <1> HIDE DEF open, inner, close
  <1>13. added \in Seq(T) /\ Len(added) = 3 /\ added[1] = open /\ added[2] = inner /\ added[3] = close
    BY <1>11
  <1> HIDE DEF T, added
  <1>14. \A m \in 1..Len(added) : /\ added[m].token = meant[Len(tokens) + m].token
                                  /\ added[m].pos = meant[Len(tokens) + m].at
    <2> TAKE m \in 1..Len(added)
    <2>1. m \in {1, 2, 3}
      BY <1>13
    <2>2. Len(tokens) + 1 = n /\ Len(tokens) + 2 = n + 1 /\ Len(tokens) + 3 = n + 2
      BY <1>2
    <2> QED BY <1>10, <1>13, <2>1, <2>2
  <1>15. n + 2 = Len(meant) \/ meant[(n + 2) + 1].begins
    <2>1. StringIn((n + 2) - 2)
      BY <1>2
    <2> QED BY <1>1, <1>2, <1>3, <2>1, NextBegins
  <1>16. n + 2 = Len(tokens) + Len(added) /\ n + 2 \in Nat /\ n + 2 <= Len(meant) /\ Len(added) \in Nat \ {0}
    BY <1>2, <1>13 DEF StringIn
  <1> QED BY <1>1, <1>2, <1>9, <1>12, <1>13, <1>14, <1>15, <1>16, ReadsOn

LEMMA EndMeant ==
    IInvR /\ Readable /\ MeantOK /\ Next /\ status = "running" /\ ~(Len(tokens) < Len(meant)) => MeantOK'
  <1> SUFFICES ASSUME IInvR, Readable, MeantOK, Next, status = "running", ~(Len(tokens) < Len(meant))
               PROVE  MeantOK'
    OBVIOUS
  <1>1. /\ text \in Seq(STRING) /\ Len(text) \in Nat /\ Len(tokens) \in Nat /\ Len(meant) \in Nat
        /\ position = Len(text) + 1 /\ Len(tokens) = Len(meant)
    BY LenProperties, Elementary DEF IInvR, IInv, Readable, Written, MeantOK, StandsAt
  <1>2. Char(position) = NUL
    BY <1>1 DEF Char
  <1>3. ~IsQuote /\ ~IsNumber /\ ~IsKeyword /\ ~IsId
    <2>1. ~IsQuote
      BY <1>2, Apart DEF IsQuote
    <2>2. ~IsNumber
      BY <1>1 DEF IsNumber
    <2>3. \A k \in DOMAIN KEYWORDS : ~MatchesAt(k, position)
      <3> TAKE k \in DOMAIN KEYWORDS
      <3>1. KEYWORDS[k].length \in Nat \ {0}
        BY KeywordsAssumption
      <3> QED BY <1>1, <3>1 DEF MatchesAt
    <2>4. NUL \notin ID_VALID_SYMBOLS
      BY AlphabetAssumption
    <2> QED BY <1>2, <2>1, <2>2, <2>3, <2>4 DEF IsKeyword, IsId
  <1>4. stop
    BY <1>3 DEF Next, processQuotedString, loseQuotedString, processNumeric, processKeyword,
                processComment, processLastComment, CommentHere, processId
  <1> QED BY <1>1, <1>4 DEF stop, file, MeantOK

LEMMA InitMeant == Init => IInvM
  <1> SUFFICES ASSUME Init, Readable  PROVE MeantOK
    BY InitRead DEF IInvM
  <1>1. /\ text \in Seq(STRING) /\ Len(text) \in Nat /\ Len(meant) \in Nat \ {0} /\ Written
        /\ tokens = <<>> /\ status = "running"
    BY FilesAssumption, LenProperties DEF Init, Readable, Written
  <1>2. position \in 1..(Len(text) + 1) /\ FirstNotIn(Blanks, 1, position)
    BY DEF Init
  <1>3. meant[0 + 1].begins
    <2>1. 1 \in 1..Len(meant)
      BY <1>1
    <2>2. ~StringIn(1 - 1) /\ ~StringIn(1 - 2)
      BY DEF StringIn
    <2> QED BY <1>1, <2>1, <2>2, WrittenIn
  <1>4. StandsAt(0, position)
    <2>1. 0 \in 0..Len(meant) /\ 1 \in 1..(Len(text) + 1)
      BY <1>1
    <2> QED BY <1>1, <1>2, <1>3, <2>1, BlanksLead
  <1>5. Len(tokens) = 0
    BY <1>1
  <1> QED BY <1>1, <1>4, <1>5 DEF MeantOK

LEMMA StepMeant == IInvM /\ IInvR' /\ [Next]_vars => IInvM'
  <1> SUFFICES ASSUME IInvM, IInvR', [Next]_vars  PROVE IInvM'
    OBVIOUS
  <1>1. UNCHANGED file
    BY DEF vars, file, Next, processQuotedString, loseQuotedString, processNumeric, processKeyword,
           processComment, processLastComment, processId, stop
  <1>2. Readable' <=> Readable
    BY <1>1 DEF file, Readable, Written, TokenIn, Between, KeywordIn, BeginsNumber, IsKeywordOf, MatchesAt,
                FirstIn, FirstNotIn, NameIn, NumeralIn, Decimal, StringIn, Char
  <1> SUFFICES ASSUME Readable  PROVE MeantOK'
    BY <1>2 DEF IInvM
  <1>3. IInvR /\ IInv /\ Written /\ MeantOK /\ Len(tokens) \in Nat /\ Len(meant) \in Nat /\ text \in Seq(STRING)
    BY Elementary DEF IInvM, IInvR, IInv, Readable, Written
  <1>4. CASE UNCHANGED vars
    BY <1>3, <1>4 DEF vars, file, MeantOK, StandsAt
  <1>5. CASE Next
    <2>1. status = "running"
      BY <1>5 DEF Next, processQuotedString, loseQuotedString, processNumeric, processKeyword,
                  processComment, processLastComment, CommentHere, processId, stop
    <2>2. CASE Len(tokens) < Len(meant)
      <3> DEFINE n == Len(tokens) + 1
      <3>1. Before(n)
        BY <1>3, <2>1, <2>2 DEF Before, MeantOK, StandsAt
      <3>2. KeywordIn(meant[n]) \/ NameIn(meant[n]) \/ NumeralIn(meant[n]) \/ StringIn(n)
        BY <1>3, <3>1, Place
      <3> HIDE DEF n
      <3> QED BY <1>3, <1>5, <3>1, <3>2, KeywordMeant, NameMeant, NumeralMeant, StringMeant
    <2> QED BY <1>3, <1>5, <2>1, <2>2, EndMeant
  <1> QED BY <1>4, <1>5

(* Whatever a text was written from, keywords, names, numbers (read with   *)
(* -numeric), strings and comments in any order and number, the tokenizer  *)
(* stops at its end, has read these tokens and no others and knows where   *)
(* each of them lies.                                                      *)
THEOREM ReadBack == Spec => []ReadsAsMeant
  <1>1. IInvM => ReadsAsMeant
    <2> SUFFICES ASSUME IInvM, Ended, Readable
                 PROVE  /\ status = "stopped" /\ Len(tokens) = Len(meant)
                        /\ \A i \in 1..Len(meant) :
                              tokens[i].token = meant[i].token /\ tokens[i].pos = meant[i].at
      BY DEF ReadsAsMeant, Readable
    <2> QED BY DEF IInvM, MeantOK, Ended
  <1>2. IInvM /\ [Next]_vars => IInvM'
    <2>1. IInvM => IInvR
      BY DEF IInvM
    <2>2. IInvR => IInv
      BY DEF IInvR
    <2> QED BY <2>1, <2>2, StepIInv, StepRead, StepMeant
  <1> QED BY <1>1, <1>2, InitMeant, PTL DEF Spec
=============================================================================
