----------------------------- MODULE Tokenizer -----------------------------
(***************************************************************************)
(* src/client.c's prompt and src/compiler/tokenizer.c: lines are gathered  *)
(* until one holds a semicolon, and the text gathered is cut into tokens   *)
(* by maximal munch.  Text is a sequence of characters, with one character *)
(* standing for each class the scanner tells apart; the one-character      *)
(* operators and punctuation marks are all like the semicolon.  The tokens *)
(* are what module Compiler starts from.  Line numbers are left out: the   *)
(* client drops every newline, so the scanner sees a single line.          *)
(***************************************************************************)
EXTENDS Integers, Sequences, FiniteSets, SequencesExt

CONSTANTS
    Letters, Digits, Blanks,
    Strange,       \* characters that begin no token
    Punctuation,   \* characters that are a token each, the semicolon among them
    Keywords,      \* keywords and type names, as words over Letters
    ExitWord,      \* the line that ends the program
    MaxText        \* bound: the longest text one statement is gathered from

Underscore == "_"
Quote      == "'"
Semicolon  == ";"
Zero       == "0"

Chars == Letters \cup Digits \cup Blanks \cup Strange \cup Punctuation \cup {Underscore, Quote}

ASSUME CharactersTold ==
    /\ Semicolon \in Punctuation /\ Zero \in Digits
    /\ Keywords \subseteq Seq(Letters) /\ ExitWord \in Seq(Letters)
    /\ MaxText \in Nat

\* isalpha, isdigit, isspace and the lists of operators and punctuation marks
\* never agree on a character, nor on the underscore or the quote.
ASSUME ClassesApart ==
    LET classes == <<Letters, Digits, Blanks, Strange, Punctuation, {Underscore}, {Quote}>>
    IN  \A i, j \in DOMAIN classes : i # j => classes[i] \cap classes[j] = {}

VARIABLES
    mode,    \* where the program is: at the prompt, in tokenize, behind it
    text,    \* statement_buffer
    pos,     \* current_position
    tokens   \* token_stream

vars == <<mode, text, pos, tokens>>

----------------------------------------------------------------------------
IsIdentifier(w) ==
    /\ w[1] \in Letters \cup {Underscore}
    /\ \A i \in 2 .. Len(w) : w[i] \in Letters \cup Digits

IsInteger(w) ==
    /\ \A i \in DOMAIN w : w[i] \in Digits
    /\ w[1] = Zero => Len(w) = 1

\* Between the outer quotes, quotes come in runs of even length.
InnerRuns(w) ==
    {r \in (2 .. Len(w) - 1) \X (2 .. Len(w) - 1) :
        /\ r[1] <= r[2]
        /\ \A i \in r[1] .. r[2] : w[i] = Quote
        /\ r[1] > 2 => w[r[1] - 1] # Quote
        /\ r[2] < Len(w) - 1 => w[r[2] + 1] # Quote}
IsVarchar_AnyInner(w) == Len(w) >= 2 /\ w[1] = Quote /\ Last(w) = Quote
IsVarchar(w) ==
    /\ Len(w) >= 2 /\ w[1] = Quote /\ Last(w) = Quote
    /\ \A r \in InnerRuns(w) : (r[2] - r[1] + 1) % 2 = 0

\* The checks of tokenize in their order; a lone quote is a punctuation mark.
TypeOf_IdentifierFirst(w) ==
    IF IsIdentifier(w) THEN "identifier"
    ELSE IF Len(w) = 1 /\ w[1] \in Punctuation \cup {Quote} THEN "punctuation"
    ELSE IF w \in Keywords THEN "keyword"
    ELSE IF IsVarchar(w) THEN "varchar"
    ELSE IF IsInteger(w) THEN "integer"
    ELSE "unknown"
TypeOf(w) ==
    IF w \in Keywords THEN "keyword"
    ELSE IF Len(w) = 1 /\ w[1] \in Punctuation \cup {Quote} THEN "punctuation"
    ELSE IF IsIdentifier(w) THEN "identifier"
    ELSE IF IsVarchar(w) THEN "varchar"
    ELSE IF IsInteger(w) THEN "integer"
    ELSE "unknown"

\* The candidates of one round: the lengths from position p that are tokens.
Word(t, p, n)    == SubSeq(t, p, p + n - 1)
Matches_UntilUnknown(t, p) ==
    {n \in 1 .. Len(t) - p + 1 : \A k \in 1 .. n : TypeOf(Word(t, p, k)) # "unknown"}
Matches(t, p)    == {n \in 1 .. Len(t) - p + 1 : TypeOf(Word(t, p, n)) # "unknown"}
LongestMatch(t, p) == Max(Matches(t, p))
Token(t, p, n)   == [type |-> TypeOf(Word(t, p, n)), lexeme |-> Word(t, p, n), at |-> p]

----------------------------------------------------------------------------
Init == mode = "prompt" /\ text = <<>> /\ pos = 1 /\ tokens = <<>>

Lines == UNION {[1 .. n -> Chars] : n \in 0 .. MaxText - Len(text)}

\* One fgets: a line without its newline, or a piece of a line longer than the
\* buffer, which the code treats alike.  It is appended as it is.  At an empty
\* prompt "exit", and "clear" like it, is no text.
ReadLine(line) ==
    /\ mode = "prompt"
    /\ ~(text = <<>> /\ line = ExitWord)
    /\ text' = text \o line
    /\ mode' = IF Semicolon \in Range(line) THEN "tokenize" ELSE "prompt"
    /\ UNCHANGED <<pos, tokens>>

\* "exit" at an empty prompt, or the end of the input.
Leave ==
    /\ mode = "prompt"
    /\ mode' = "left"
    /\ UNCHANGED <<text, pos, tokens>>

\* One round of tokenize's loop.
TakeToken ==
    /\ mode = "tokenize" /\ pos <= Len(text)
    /\ Matches(text, pos) # {}
    /\ tokens' = Append(tokens, Token(text, pos, LongestMatch(text, pos)))
    /\ pos' = pos + LongestMatch(text, pos)
    /\ UNCHANGED <<mode, text>>

SkipBlank_Stays ==
    /\ mode = "tokenize" /\ pos <= Len(text)
    /\ Matches(text, pos) = {}
    /\ text[pos] \in Blanks
    /\ UNCHANGED vars
SkipBlank_AlsoNext ==
    /\ mode = "tokenize" /\ pos <= Len(text)
    /\ Matches(text, pos) = {}
    /\ text[pos] \in Blanks
    /\ pos' = IF pos < Len(text) THEN pos + 2 ELSE pos + 1
    /\ UNCHANGED <<mode, text, tokens>>
SkipBlank ==
    /\ mode = "tokenize" /\ pos <= Len(text)
    /\ Matches(text, pos) = {}
    /\ text[pos] \in Blanks
    /\ pos' = pos + 1
    /\ UNCHANGED <<mode, text, tokens>>

\* Any other character ends the statement with an error.
Refuse ==
    /\ mode = "tokenize" /\ pos <= Len(text)
    /\ Matches(text, pos) = {}
    /\ text[pos] \notin Blanks
    /\ mode' = "refused"
    /\ UNCHANGED <<text, pos, tokens>>

Finish ==
    /\ mode = "tokenize" /\ pos > Len(text)
    /\ mode' = "tokenized"
    /\ UNCHANGED <<text, pos, tokens>>

\* psql_prepare returns, with or without an error: the buffer starts anew.
Return_PositionKept ==
    /\ mode \in {"tokenized", "refused"}
    /\ mode' = "prompt" /\ text' = <<>> /\ tokens' = <<>>
    /\ UNCHANGED pos
Return ==
    /\ mode \in {"tokenized", "refused"}
    /\ mode' = "prompt" /\ text' = <<>> /\ pos' = 1 /\ tokens' = <<>>

Tokenize == TakeToken \/ SkipBlank \/ Refuse \/ Finish \/ Return

Next ==
    \/ \E line \in Lines : ReadLine(line)
    \/ Leave
    \/ Tokenize

\* tokenize is a loop of one thread that nothing waits for; users type or not.
Spec == Init /\ [][Next]_vars /\ WF_vars(Tokenize)

----------------------------------------------------------------------------
\* The variables have the shape of the program's: the position is in the text
\* or just behind it.
TypeOK ==
    /\ mode \in {"prompt", "tokenize", "tokenized", "refused", "left"}
    /\ text \in Seq(Chars) /\ Len(text) <= MaxText
    /\ pos \in 1 .. Len(text) + 1
    /\ \A i \in DOMAIN tokens :
          /\ tokens[i].type \in {"keyword", "punctuation", "identifier", "varchar", "integer"}
          /\ tokens[i].lexeme \in Seq(Chars)

\* The end of the text that token i covers, 0 before the first.
EndOf(i) == IF i = 0 THEN 0 ELSE tokens[i].at + Len(tokens[i].lexeme) - 1

\* Maximal munch loses and repeats nothing: the tokens are the text up to the
\* position, in order, with only blanks between and around them.
TokensCoverText ==
    /\ \A i \in DOMAIN tokens :
          /\ tokens[i].at > EndOf(i - 1)
          /\ tokens[i].lexeme = SubSeq(text, tokens[i].at, EndOf(i))
          /\ \A k \in EndOf(i - 1) + 1 .. tokens[i].at - 1 : text[k] \in Blanks
    /\ \A k \in EndOf(Len(tokens)) + 1 .. pos - 1 : text[k] \in Blanks

\* Quotes open and close in turn, so a character is in a literal when an odd
\* number of quotes stands before it and one more behind it.
QuotesIn(i, j) == Cardinality({k \in i .. j : text[k] = Quote})
InLiteral(i)   == QuotesIn(1, i - 1) % 2 = 1 /\ QuotesIn(i, Len(text)) > 0

\* tokenize's verdict, told without its longest match: a text is refused for
\* a strange character outside the literals and for nothing else.
RefusedForStrangeCharacter ==
    LET strange == \E i \in 1 .. Len(text) : text[i] \in Strange /\ ~InLiteral(i)
    IN  /\ mode = "refused" => strange
        /\ mode = "tokenized" => ~strange

\* The same for what a literal is: the characters in literals are exactly those
\* in tokens of that type, with the quotes around them.
LiteralsKept ==
    mode = "tokenized" =>
        \A i \in 1 .. Len(text) : text[i] # Quote =>
            (InLiteral(i) <=>
                \E k \in DOMAIN tokens : /\ tokens[k].type = "varchar"
                                         /\ i \in tokens[k].at .. EndOf(k))

\* Words are what stands between other things: an identifier or a keyword is
\* never followed at once by a letter or a digit, and a keyword is never taken
\* for an identifier.  (Of an underscore nothing is said: the pattern at
\* tokenizer.c:178 allows one only in front, so a name is cut at the next.)
WordsWhole ==
    \A i \in DOMAIN tokens :
        /\ tokens[i].type \in {"keyword", "identifier"} /\ EndOf(i) < Len(text)
              => text[EndOf(i) + 1] \notin Letters \cup Digits
        /\ tokens[i].lexeme \in Keywords <=> tokens[i].type = "keyword"

\* tokenize ends for every text, and the client comes back to its prompt.
AlwaysReturns == mode = "tokenize" ~> mode = "prompt"
=============================================================================
