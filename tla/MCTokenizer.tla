---------------------------- MODULE MCTokenizer -----------------------------
(* Texts put together from pieces that meet in any way, and texts that are *)
(* written from tokens: every pair of them, and a whole program.           *)
EXTENDS Tokenizer, SequencesExt

Chars(string) == [i \in 1..Len(string) |-> SubSeq(string, i, i)]

Joined(pieces) == FlattenSeq([i \in DOMAIN pieces |-> Chars(pieces[i])])

Pieces == {"\"", "\n", "(oNo)", "a", " ", "accio", "-bombarda", "05", "-", "less", "-equal",
           "#", "tria", "<<"}

Few == {"\"", "\n", "a ", "(oNo)"}

(* Numbers that white space of several kinds stands before.                *)
Spaced == {"\r", "\n", "05", "a"}

(* Two quotation marks are three tokens.                                   *)
Many(k) == [i \in 1..(2 * k + 1) |-> IF i <= 2 * k THEN Quote ELSE NewLine]

Mixed == {Joined(s) : s \in UNION {[1..n -> Pieces] : n \in 0..3} \union [1..5 -> Few] \union [1..4 -> Spaced]}

-----------------------------------------------------------------------------
(* Units of the language, each a sequence of tokens: a string comes with   *)
(* its quotation marks.                                                    *)
Units ==
    {<<KeywordToken(KEYWORDS[k].code)>> :
        k \in {l \in DOMAIN KEYWORDS : KEYWORDS[l].code # "STR_QUOTE"}}
      \union {<<Name(Chars("xless"))>>, <<Numeral(15)>>}
      \union {<<Keyword("STR_QUOTE"), Quoted(Chars(" accio (oNo) 5")), Keyword("STR_QUOTE")>>}

Pairs == {u[1] \o u[2] : u \in {v \in Units \X Units : v # <<<<Keyword("NEW_LINE")>>, <<Numeral(15)>>>>}}

(* The tokens of whole programs, as the grammar has them.                  *)
P == INSTANCE SourcePrograms
G == INSTANCE Grammar WITH tokens <- <<>>, BracketReads <- TRUE

InCharacters(token) ==
    CASE token.type = "ID_TOKEN_TYPE"            -> Name(Chars(token.id))
      [] token.type = "QUOTED_STRING_TOKEN_TYPE" -> Quoted(Chars(token.string))
      [] OTHER                                   -> token

Programs ==
    {[i \in DOMAIN t |-> InCharacters(t[i])] :
        t \in {G!Written(s.program) : s \in {P!Factorial, P!Strings, P!Library}}}

(* How tokens are written: with blanks between, but not inside of strings  *)
(* and not where a comma or a new line separates them.                     *)
KeywordsSpelled ==
    {<<KeywordToken(KEYWORDS[k].code), Spellings[k]>> : k \in DOMAIN KEYWORDS}

Comment == Keyword("COMMENT")

Spelled(token, spelled) ==
    CASE token.type = "ID_TOKEN_TYPE"            -> token.id
      [] token.type = "QUOTED_STRING_TOKEN_TYPE" -> token.string
      [] token.type = "NUMBER_TOKEN_TYPE" /\ token.number \notin {0, 2, 3, 6} ->
             Chars(ToString(token.number))
      [] token = Comment -> Chars("(oNo) less 5 \n")
      [] OTHER -> (CHOOSE s \in spelled : s[1] = token)[2]

(* The place of a token in its string, 0 outside of strings.               *)
InString(s, i) ==
    CASE s[i].type = "QUOTED_STRING_TOKEN_TYPE" -> 2
      [] i < Len(s) /\ s[i + 1].type = "QUOTED_STRING_TOKEN_TYPE" -> 1
      [] i > 1 /\ s[i - 1].type = "QUOTED_STRING_TOKEN_TYPE" -> 3
      [] OTHER -> 0

NoBlank(s, i) ==
    \/ InString(s, i) \in {2, 3}
    \/ s[i] \in {Keyword("NEW_LINE"), Keyword("COMMA")}
    \/ i > 1 /\ s[i - 1] \in {Keyword("COMMA"), Comment}

FileOf(s, spelled) ==
    LET own    == [i \in DOMAIN s |-> Spelled(s[i], spelled)]
        pieces == [i \in DOMAIN s |-> (IF NoBlank(s, i) THEN <<>> ELSE <<" ">>) \o own[i]]
        end[i \in 0..Len(s)] == IF i = 0 THEN 1 ELSE end[i - 1] + Len(pieces[i])
    IN [text  |-> FlattenSeq(pieces),
        meant |-> [i \in DOMAIN s |->
                      [token  |-> IF s[i] = Comment THEN Keyword("NEW_LINE") ELSE s[i],
                       at     |-> end[i] - Len(own[i]),
                       end    |-> end[i],
                       begins |-> InString(s, i) \notin {2, 3}]]]

MCFiles ==
    LET spelled == KeywordsSpelled
        written == {Append(t, Keyword("NEW_LINE")) : t \in Pairs \union Programs}
    IN {[text |-> t, meant |-> <<>>] : t \in Mixed \union {Many(k) : k \in 62..64}}
         \union {FileOf(s, spelled) : s \in written}
=============================================================================
