----------------------------- MODULE Tokenizer ------------------------------
(***************************************************************************)
(* src/parser/tokenizer.cpp: a file as a sequence of characters, read one  *)
(* token (or one quoted string) at a time into an array of fixed size.     *)
(* A step is one round of the loop of tokenizeBuffer.                      *)
(*                                                                         *)
(* Offsets count from 1.  loadFile (external) puts a NUL behind the text.  *)
(***************************************************************************)
EXTENDS Integers, Sequences, FiniteSets

CONSTANTS
    Files,              \* [text: a sequence of characters, meant: see Written]
    MAX_TOKENS_COUNT,   \* 8192
    LLONG_MAX           \* where strtoll saturates

ASSUME SizeAssumption == MAX_TOKENS_COUNT \in Nat /\ LLONG_MAX \in Nat

(* The NUL behind a text is the only one: strchr would stop at another.    *)
NUL == "NUL"

ASSUME FilesAssumption ==
    \A f \in Files : f.text \in Seq(STRING) /\ \A i \in DOMAIN f.text : f.text[i] # NUL

VARIABLES
    text, useNumericNumbers,
    meant,  \* what the text was written from, if that is known: only for ReadsAsMeant
    position, tokens, currentLine,
    status  \* running, stopped; garbage or overflow: left to undefined behaviour

file == <<text, meant, useNumericNumbers>>
vars == <<file, position, tokens, currentLine, status>>

-----------------------------------------------------------------------------
Quote   == "\""
NewLine == "\n"

KW(string, length, code) == [string |-> string, length |-> length, code |-> code]

KEYWORDS == <<
    KW("Godric's-Hollow", 15, "PROG_START"),   KW("Privet-Drive", 12, "PROG_END"),
    KW(NewLine, 1, "NEW_LINE"),                KW("(oNo)", 5, "COMMENT"),
    KW("imperio", 7, "FDECL"),                 KW("avenseguim", 10, "VDECL"),
    KW("horcrux", 7, "ZERO"),                  KW("duo", 3, "TWO"),
    KW("tria", 4, "THREE"),                    KW("maxima", 6, "SIX"),
    KW("depulso", 7, "CALL"),                  KW("reverte", 7, "RETURN"),
    KW("alohomora", 9, "OPEN_BRACE"),          KW("colloportus", 11, "CLOSE_BRACE"),
    KW("protego", 7, "BRACKET"),               KW(",", 1, "COMMA"),
    KW("-", 1, "CMD_LINE"),
    KW("revelio", 7, "IF"),                    KW("otherwise", 9, "ELSE"),
    KW("while", 5, "LOOP"),
    KW("carpe-retractum", 15, "ASSIGN"),       KW("legilimens", 10, "DEREF"),
    KW("accio-bombarda", 14, "SCAN_FLOAT"),    KW("accio", 5, "SCAN"),
    KW("flagrate-bombarda", 17, "PRINT_FLOAT"),
    KW("flagrate-s", 10, "PRINT_STRING"),      KW("flagrate", 8, "PRINT"),
    KW("crucio", 6, "SQRT"),                   KW("riddikulus", 10, "RAND_JUMP"),
    KW("epoximise", 9, "PLUS"),                KW("flipendo", 8, "MINUS"),
    KW("geminio", 7, "MUL"),                   KW("sectumsempra", 12, "DIV"),
    KW("equal", 5, "EQUAL"),                   KW("not-equal", 9, "NOT_EQUAL"),
    KW("less-equal", 10, "LESS_EQUAL"),        KW("greater-equal", 13, "GREATER_EQUAL"),
    KW("less", 4, "LESS"),                     KW("greater", 7, "GREATER"),
    KW("capacious", 9, "ADECL"),               KW("~", 1, "MEM_ACCESS"),
    KW(Quote, 1, "STR_QUOTE"),                 KW("Chapter", 7, "SDECL"),
    KW("<<", 2, "STR_ID_OPEN"),                KW(">>", 2, "STR_ID_CLOSE"),
    KW("circumrota", 10, "STR_NEW_LINE") >>

(* No keyword is empty, and none is compared in part.                      *)
ASSUME KeywordsAssumption ==
    \A k \in DOMAIN KEYWORDS : KEYWORDS[k].length \in Nat \ {0} /\ KEYWORDS[k].length = Len(KEYWORDS[k].string)

(* The first `length' characters, which is what strncmp compares.          *)
Spellings ==
    [k \in DOMAIN KEYWORDS |->
        [i \in 1..KEYWORDS[k].length |-> SubSeq(KEYWORDS[k].string, i, i)]]

KeywordNumbers == [ZERO |-> 0, TWO |-> 2, THREE |-> 3, SIX |-> 6]

CharactersOf(string) == {SubSeq(string, i, i) : i \in 1..Len(string)}

Blanks  == {" ", "\t"}
Spaces  == Blanks \union {"\n", "\f", "\r"}
ID_VALID_SYMBOLS == CharactersOf("abcdefghijklmnopqrstuvwxyzABCDEFGHIJKLMNOPQRSTUVWXYZ")
Digits           == CharactersOf("0123456789")

(* Nothing else separates what a letter, a digit and a white space begin.  *)
ASSUME AlphabetAssumption ==
    /\ ID_VALID_SYMBOLS \intersect (Digits \union Spaces \union {"+", "-", Quote, NUL}) = {}
    /\ Digits \intersect (Spaces \union {"+", "-", Quote, NUL}) = {}

(* No keyword hides a longer one that stands behind it in the table, none  *)
(* is there twice or begins with a blank, and new lines and quotation      *)
(* marks are keywords of their own.                                        *)
ASSUME SpellingAssumption ==
    /\ \A k, l \in DOMAIN KEYWORDS :
          k < l /\ KEYWORDS[k].length <= KEYWORDS[l].length
            => \E c \in 1..KEYWORDS[k].length : Spellings[k][c] # Spellings[l][c]
    /\ \A k \in DOMAIN KEYWORDS : \A c \in 1..KEYWORDS[k].length :
          /\ Spellings[k][c] = NewLine => KEYWORDS[k].code = "NEW_LINE" /\ KEYWORDS[k].length = 1
          /\ Spellings[k][c] = Quote => KEYWORDS[k].code = "STR_QUOTE" /\ KEYWORDS[k].length = 1
    /\ \E k \in DOMAIN KEYWORDS : KEYWORDS[k].code = "STR_QUOTE" /\ Spellings[k] = <<Quote>>
    /\ \A k \in DOMAIN KEYWORDS : Spellings[k][1] \notin Blanks

DigitValue == [c \in Digits |-> CHOOSE v \in 0..9 : SubSeq("0123456789", v + 1, v + 1) = c]

Char(i) == IF i \in 1..Len(text) THEN text[i] ELSE NUL

(* The first character from i on that is in C, is at j.                    *)
FirstIn(C, i, j)    == Char(j) \in C /\ \A k \in i..(j - 1) : Char(k) \notin C
FirstNotIn(C, i, j) == Char(j) \notin C /\ \A k \in i..(j - 1) : Char(k) \in C

-----------------------------------------------------------------------------
(* Tokens as in Parser, with the line and the place.                       *)
Keyword(code) == [type |-> "KEYWORD_TOKEN_TYPE", keyword |-> code]
Name(s)       == [type |-> "ID_TOKEN_TYPE", id |-> s]
Numeral(n)    == [type |-> "NUMBER_TOKEN_TYPE", number |-> n]
Quoted(s)     == [type |-> "QUOTED_STRING_TOKEN_TYPE", string |-> s]

Token(token, pos) == [token |-> token, line |-> currentLine, pos |-> pos]

(* Behind the array anything may lie.                                      *)
addTokens(added) ==
    IF Len(tokens) + Len(added) <= MAX_TOKENS_COUNT
      THEN tokens' = tokens \o added /\ status' = "running"
      ELSE tokens' = tokens /\ status' = "overflow"

(* A mutant: the blanks at the end lead out of the text.                   *)
PastBlanksBug(i) == position' = IF Char(i) \in Blanks THEN Len(text) + 2 ELSE i

proceedTo(i) ==
    \E j \in i..(Len(text) + 1) : FirstNotIn(Blanks, i, j) /\ position' = j

Init ==
    /\ \E f \in Files : text = f.text /\ meant = f.meant
    /\ useNumericNumbers \in BOOLEAN
    /\ position \in {j \in 1..(Len(text) + 1) : FirstNotIn(Blanks, 1, j)}
    /\ tokens = <<>>
    /\ currentLine = 0
    /\ status = "running"

-----------------------------------------------------------------------------
(* A quoted string: up to the next quotation mark, or to the end of the    *)
(* line.  strchr must find both of them somewhere in the file: a null      *)
(* pointer would be taken for the nearer one.                              *)
IsQuote == Char(position) = Quote

EndsOfString == {Quote, NewLine} \subseteq {text[i] : i \in (position + 1)..Len(text)}

(* A mutant: blanks behind the quotation mark are lost.                    *)
TrimmedStringBug(end) ==
    << Token(Keyword("STR_QUOTE"), position),
       Token(Quoted(SubSeq(text, position + (IF Char(position + 1) = " " THEN 2 ELSE 1), end - 1)),
             position + 1) >>
      \o (IF Char(end) = Quote THEN <<Token(Keyword("STR_QUOTE"), end)>> ELSE <<>>)

QuotedTokens(end) ==
    << Token(Keyword("STR_QUOTE"), position),
       Token(Quoted(SubSeq(text, position + 1, end - 1)), position + 1) >>
      \o (IF Char(end) = Quote THEN <<Token(Keyword("STR_QUOTE"), end)>> ELSE <<>>)

(* A mutant: the closing quotation mark is not passed.                     *)
OpeningQuoteBug ==
    /\ status = "running" /\ IsQuote /\ EndsOfString
    /\ \E end \in (position + 1)..Len(text) :
         /\ FirstIn({Quote, NewLine}, position + 1, end)
         /\ addTokens(QuotedTokens(end))
         /\ proceedTo(end)
    /\ UNCHANGED <<file, currentLine>>

processQuotedString ==
    /\ status = "running" /\ IsQuote /\ EndsOfString
    /\ \E end \in (position + 1)..Len(text) :
         /\ FirstIn({Quote, NewLine}, position + 1, end)
         /\ addTokens(QuotedTokens(end))
         /\ proceedTo(IF text[end] = Quote THEN end + 1 ELSE end)
    /\ UNCHANGED <<file, currentLine>>

(* The length of the string is then that of an address.                    *)
loseQuotedString ==
    /\ status = "running" /\ IsQuote /\ ~EndsOfString
    /\ status' = "garbage"
    /\ UNCHANGED <<file, position, tokens, currentLine>>

-----------------------------------------------------------------------------
(* strtoll: white space (new lines, too), a sign, digits from i to j.      *)
DigitsBegin(i) ==
    /\ Char(i) \in Digits
    /\ \E s \in {i, i - 1} :
         /\ s >= position /\ FirstNotIn(Spaces, position, s)
         /\ s < i => Char(s) \in {"+", "-"}

IsNumberAt(i, j) == DigitsBegin(i) /\ FirstNotIn(Digits, i, j + 1)

Decimal(i, j) ==
    LET value[k \in (i - 1)..j] == IF k < i THEN 0 ELSE 10 * value[k - 1] + DigitValue[text[k]]
    IN value[j]

Value(i, j) ==
    CASE Char(i - 1) = "-" /\ i > position ->
           IF Decimal(i, j) > LLONG_MAX THEN -LLONG_MAX - 1 ELSE -Decimal(i, j)
      [] OTHER -> IF Decimal(i, j) > LLONG_MAX THEN LLONG_MAX ELSE Decimal(i, j)

IsNumber ==
    /\ useNumericNumbers
    /\ ~IsQuote
    /\ {i \in position..Len(text) : DigitsBegin(i)} # {}

processNumeric ==
    /\ status = "running" /\ IsNumber
    /\ \E i \in position..Len(text) : \E j \in i..Len(text) :
         /\ IsNumberAt(i, j)
         /\ addTokens(<<Token(Numeral(Value(i, j)), position)>>)
         /\ proceedTo(j + 1)
    /\ UNCHANGED <<file, currentLine>>

-----------------------------------------------------------------------------
(* The first keyword of the table that begins here.                        *)
MatchesAt(k, i) ==
    /\ i + KEYWORDS[k].length <= Len(text) + 1
    /\ \A c \in 1..KEYWORDS[k].length : text[i + c - 1] = Spellings[k][c]

(* A mutant: the last one.                                                 *)
LastMatchBug(k) ==
    MatchesAt(k, position) /\ \A l \in (k + 1)..Len(KEYWORDS) : ~MatchesAt(l, position)

IsFirstMatch(k) == MatchesAt(k, position) /\ \A l \in 1..(k - 1) : ~MatchesAt(l, position)

IsKeyword == ~IsQuote /\ ~IsNumber /\ {k \in DOMAIN KEYWORDS : MatchesAt(k, position)} # {}

KeywordToken(code) ==
    IF code \in DOMAIN KeywordNumbers THEN Numeral(KeywordNumbers[code]) ELSE Keyword(code)

processKeyword ==
    /\ status = "running" /\ IsKeyword
    /\ \E k \in DOMAIN KEYWORDS :
         /\ IsFirstMatch(k)
         /\ KEYWORDS[k].code # "COMMENT"
         /\ addTokens(<<Token(KeywordToken(KEYWORDS[k].code), position)>>)
         /\ proceedTo(position + KEYWORDS[k].length)
    /\ currentLine' = currentLine + (IF Char(position) = NewLine THEN 1 ELSE 0)
    /\ UNCHANGED file

CommentHere ==
    /\ status = "running" /\ IsKeyword
    /\ "COMMENT" \in {KEYWORDS[k].code : k \in {l \in DOMAIN KEYWORDS : IsFirstMatch(l)}}

CommentNewLine == <<Token(Keyword("NEW_LINE"), position)>>

(* A mutant: the line of a comment does not count.                         *)
UncountedCommentBug ==
    /\ CommentHere
    /\ \E end \in position..Len(text) : FirstIn({NewLine}, position, end) /\ proceedTo(end + 1)
    /\ addTokens(CommentNewLine)
    /\ UNCHANGED <<file, currentLine>>

(* A comment stands for the new line at its end.                           *)
processComment ==
    /\ CommentHere
    /\ \E end \in position..Len(text) : FirstIn({NewLine}, position, end) /\ proceedTo(end + 1)
    /\ addTokens(CommentNewLine)
    /\ currentLine' = currentLine + 1
    /\ UNCHANGED file

(* A comment without an end: on by the size of the whole buffer.  Blanks   *)
(* are skipped there, outside of it, unless the comment is the whole file. *)
processLastComment ==
    /\ CommentHere
    /\ \A i \in position..Len(text) : text[i] # NewLine
    /\ position' = position + Len(text)
    /\ IF position = 1
         THEN addTokens(CommentNewLine)
         ELSE /\ tokens' = IF Len(tokens) < MAX_TOKENS_COUNT
                             THEN tokens \o CommentNewLine ELSE tokens
              /\ status' \in IF Len(tokens) < MAX_TOKENS_COUNT
                               THEN {"stopped", "garbage"} ELSE {"overflow"}
    /\ currentLine' = currentLine + 1
    /\ UNCHANGED file

-----------------------------------------------------------------------------
IsId == ~IsQuote /\ ~IsNumber /\ ~IsKeyword /\ Char(position) \in ID_VALID_SYMBOLS

processId ==
    /\ status = "running" /\ IsId
    /\ \E end \in (position + 1)..(Len(text) + 1) :
         /\ FirstNotIn(ID_VALID_SYMBOLS, position, end)
         /\ addTokens(<<Token(Name(SubSeq(text, position, end - 1)), position)>>)
         /\ proceedTo(end)
    /\ UNCHANGED <<file, currentLine>>

(* At the end, and at a character that begins nothing.                     *)
stop ==
    /\ status = "running" /\ ~IsQuote /\ ~IsNumber /\ ~IsKeyword /\ ~IsId
    /\ status' = "stopped"
    /\ UNCHANGED <<file, position, tokens, currentLine>>

Next ==
    \/ processQuotedString \/ loseQuotedString
    \/ processNumeric
    \/ processKeyword \/ processComment \/ processLastComment
    \/ processId
    \/ stop

Spec == Init /\ [][Next]_vars

-----------------------------------------------------------------------------
(* printTokenLinePos: what is shown of the line of a token at pos, from    *)
(* and to.  The loops go on until a new line is next, or the buffer ends.  *)
BeforeNewLine(pos) == IF Char(pos) = NewLine THEN pos - 1 ELSE pos

lineStart(pos) ==
    LET Goes(i) == i > 1 /\ Char(i - 1) # NewLine /\ Char(i) # NewLine
        from    == BeforeNewLine(pos)
    IN CHOOSE i \in 0..from : ~Goes(i) /\ \A k \in (i + 1)..from : Goes(k)

(* A mutant: the new line belongs to the line.                             *)
OneLineMoreBug(pos) ==
    LET Goes(i) == i <= Len(text) /\ Char(i) # NewLine
        from    == BeforeNewLine(pos)
    IN CHOOSE i \in from..(Len(text) + 1) : ~Goes(i) /\ \A k \in from..(i - 1) : Goes(k)

lineEnd(pos) ==
    LET Goes(i) == i <= Len(text) /\ Char(i + 1) # NewLine /\ Char(i) # NewLine
        from    == BeforeNewLine(pos)
    IN CHOOSE i \in from..(Len(text) + 1) : ~Goes(i) /\ \A k \in from..(i - 1) : Goes(k)

-----------------------------------------------------------------------------
(* Variables keep their types; while the tokenizer runs it is in the text, *)
(* at its NUL at most, and not at a blank.                                 *)
TypeOK ==
    /\ position \in Nat \ {0}
    /\ status = "running" => position \in 1..(Len(text) + 1) /\ Char(position) \notin Blanks
    /\ Len(tokens) <= MAX_TOKENS_COUNT
    /\ currentLine \in Nat
    /\ status \in {"running", "stopped", "garbage", "overflow"}

Ended == status # "running"

IsKeywordToken(t) ==
    \/ t.token.type = "KEYWORD_TOKEN_TYPE"
    \/ t.token.type = "NUMBER_TOKEN_TYPE" /\ Char(t.pos) \in ID_VALID_SYMBOLS

LongestAt(t) ==
    LET here == {k \in DOMAIN KEYWORDS : MatchesAt(k, t.pos)}
    IN IsKeywordToken(t) =>
         \E k \in here :
             /\ \A l \in here : KEYWORDS[l].length <= KEYWORDS[k].length
             /\ t.token = KeywordToken(IF KEYWORDS[k].code = "COMMENT"
                                         THEN "NEW_LINE" ELSE KEYWORDS[k].code)

(* Of the keywords that begin at one place (accio and accio-bombarda, less *)
(* and less-equal) the longest is taken: the order of KEYWORDS sees to it. *)
LongestKeyword == Ended => \A n \in DOMAIN tokens : LongestAt(tokens[n])

(* strtoll has skipped new lines on its way to a number.                   *)
SwallowsLines(t) ==
    /\ t.token.type = "NUMBER_TOKEN_TYPE"
    /\ \E i \in t.pos..Len(text) : Char(i) = NewLine /\ \A k \in t.pos..i : Char(k) \in Spaces

LinesBefore(i) == {k \in 1..(i - 1) : text[k] = NewLine}

LineRight(n) ==
    \/ tokens[n].line = Cardinality(LinesBefore(tokens[n].pos))
    \/ \E k \in 1..n : SwallowsLines(tokens[k])

(* Every token knows its line: so many new lines are before it, those that *)
(* end comments and strings that were not closed included.  With -numeric  *)
(* a number swallows the new lines before it; from there on lines are      *)
(* wrong.                                                                  *)
LinesRight == Ended => \A n \in DOMAIN tokens : LineRight(n)

(* The line around a place, without its new line.                          *)
IsLine(i, j) ==
    /\ i = 1 \/ Char(i - 1) = NewLine
    /\ j = Len(text) + 1 \/ Char(j + 1) = NewLine
    /\ \A k \in i..j : Char(k) # NewLine

ShownRight(pos) ==
    LET from == BeforeNewLine(pos)
    IN IF from < pos /\ Char(from) \in {NewLine, NUL}
         THEN lineStart(pos) = from /\ lineEnd(pos) = from
         ELSE /\ from \in lineStart(pos)..lineEnd(pos)
              /\ IsLine(lineStart(pos), lineEnd(pos))

(* An error or a dump shows the line of its token, whole and no other, and *)
(* reads nothing outside of the buffer.  Of an empty line it shows a       *)
(* character before it (before the buffer, if the file begins with one).   *)
ShownLineRight == Ended => \A n \in DOMAIN tokens : ShownRight(tokens[n].pos)

QuotesOfLine(i) ==
    {j \in 1..Len(text) : Char(j) = Quote /\ \A k \in (i..j) \union (j..i) : Char(k) # NewLine}

(* The null pointer of strchr is only met in a file that has no new line   *)
(* at its end, or where the last line with a quotation mark has one        *)
(* without its counterpart.                                                *)
GarbageOnlyUnended ==
    status = "garbage" =>
        \/ Char(Len(text)) # NewLine
        \/ \E i \in 1..Len(text) :
             /\ Char(i) = Quote /\ \A k \in (i + 1)..Len(text) : Char(k) # Quote
             /\ Cardinality(QuotesOfLine(i)) % 2 = 1

(* Texts that are written from tokens: t of meant lies from t.at up to     *)
(* t.end; t.begins but for the content and the end of a quoted string.     *)
(* Each token is as long as its characters allow, only blanks lie between. *)
Between(i, j) == i <= j /\ \A k \in i..(j - 1) : Char(k) \in Blanks

(* With -numeric strtoll finds a number here, be it on another line.       *)
BeginsNumber(i) ==
    \E j \in i..Len(text) :
        /\ \A k \in i..(j - 1) : Char(k) \in Spaces
        /\ Char(j) \in Digits \/ (Char(j) \in {"+", "-"} /\ Char(j + 1) \in Digits)

IsKeywordOf(t, k) ==
    /\ MatchesAt(k, t.at)
    /\ \A l \in DOMAIN KEYWORDS : MatchesAt(l, t.at) => KEYWORDS[l].length <= KEYWORDS[k].length
    /\ KEYWORDS[k].code # "STR_QUOTE"
    /\ IF KEYWORDS[k].code = "COMMENT"
         THEN t.token = Keyword("NEW_LINE") /\ FirstIn({NewLine}, t.at, t.end - 1) /\ t.at < t.end
         ELSE t.token = KeywordToken(KEYWORDS[k].code) /\ t.end = t.at + KEYWORDS[k].length

KeywordIn(t) == ~BeginsNumber(t.at) /\ \E k \in DOMAIN KEYWORDS : IsKeywordOf(t, k)

NameIn(t) ==
    /\ t.at < t.end /\ FirstNotIn(ID_VALID_SYMBOLS, t.at, t.end)
    /\ \A k \in DOMAIN KEYWORDS : ~MatchesAt(k, t.at)
    /\ t.token = Name(SubSeq(text, t.at, t.end - 1))

NumeralIn(t) ==
    LET value == Decimal(t.at, t.end - 1)
    IN /\ t.at < t.end /\ FirstNotIn(Digits, t.at, t.end)
       /\ t.token = Numeral(IF value > LLONG_MAX THEN LLONG_MAX ELSE value)

(* Three tokens; a line ends somewhere behind them.                        *)
StringIn(i) ==
    /\ i >= 1 /\ i + 2 <= Len(meant)
    /\ meant[i].begins /\ ~meant[i + 1].begins /\ ~meant[i + 2].begins
    /\ Char(meant[i].at) = Quote /\ meant[i + 1].at = meant[i].at + 1
    /\ meant[i + 1].at <= meant[i + 2].at
    /\ FirstIn({Quote, NewLine}, meant[i + 1].at, meant[i + 2].at) /\ Char(meant[i + 2].at) = Quote
    /\ meant[i + 2].end = meant[i + 2].at + 1
    /\ \E k \in meant[i + 2].end..Len(text) : Char(k) = NewLine
    /\ meant[i].token = Keyword("STR_QUOTE") /\ meant[i + 2].token = Keyword("STR_QUOTE")
    /\ meant[i + 1].token = Quoted(SubSeq(text, meant[i + 1].at, meant[i + 2].at - 1))

TokenIn(i) ==
    /\ meant[i].at \in 1..Len(text) /\ meant[i].end \in 1..(Len(text) + 1)
    /\ IF meant[i].begins
         THEN /\ Between(IF i = 1 THEN 1 ELSE meant[i - 1].end, meant[i].at)
              /\ KeywordIn(meant[i]) \/ NameIn(meant[i]) \/ NumeralIn(meant[i]) \/ StringIn(i)
         ELSE StringIn(i - 1) \/ StringIn(i - 2)

Written ==
    /\ Len(meant) \in 1..MAX_TOKENS_COUNT
    /\ \A i \in 1..Len(meant) : TokenIn(i)
    /\ Between(meant[Len(meant)].end, Len(text) + 1)

(* What was written from tokens is read as these tokens, each where it     *)
(* lies; numbers in digits only with -numeric.                             *)
ReadsAsMeant ==
    Ended /\ Written
      /\ (useNumericNumbers \/ \A i \in 1..Len(meant) : meant[i].begins => Char(meant[i].at) \notin Digits) =>
        /\ status = "stopped"
        /\ Len(tokens) = Len(meant)
        /\ \A i \in 1..Len(meant) : tokens[i].token = meant[i].token /\ tokens[i].pos = meant[i].at

(* The array suffices for every file of at most two thirds as many         *)
(* characters as it has elements, 5461: no character makes more than one   *)
(* and a half tokens on average, as two quotation marks do.                *)
TokensFit == status = "overflow" => 3 * Len(text) > 2 * MAX_TOKENS_COUNT
=============================================================================
