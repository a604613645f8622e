-------------------------- MODULE Tokenizer_proofs --------------------------
(***************************************************************************)
(* What holds of the tokenizer for texts of any length, any letters,       *)
(* digits, blanks, punctuation marks and keywords: the tokens cover the    *)
(* text, words are whole, literals are kept, and a text is refused for a   *)
(* strange character outside its literals and for nothing else.            *)
(***************************************************************************)
EXTENDS Tokenizer, SeqLemmas

----------------------------------------------------------------------------
(* Characters and candidates. *)

WordChars == Letters \cup Digits \cup {Underscore}

LEMMA Apart ==
    /\ Quote \notin WordChars \cup Punctuation \cup Blanks \cup Strange
    /\ Strange \cap (WordChars \cup Punctuation \cup Blanks) = {}
    /\ Blanks \cap (WordChars \cup Punctuation) = {}
    /\ Letters \cap Digits = {} /\ Punctuation \cap WordChars = {}
<1> DEFINE classes == <<Letters, Digits, Blanks, Strange, Punctuation, {Underscore}, {Quote}>>
<1>1. DOMAIN classes = 1 .. 7
  OBVIOUS
<1>2. \A i, j \in 1 .. 7 : i # j => classes[i] \cap classes[j] = {}
  BY <1>1, ClassesApart
<1>3. /\ classes[1] = Letters /\ classes[2] = Digits /\ classes[3] = Blanks
      /\ classes[4] = Strange /\ classes[5] = Punctuation
      /\ classes[6] = {Underscore} /\ classes[7] = {Quote}
  OBVIOUS
<1> HIDE DEF classes
<1>4. \A i, j \in 1 .. 7 : i < j => classes[i] \cap classes[j] = {}
  BY <1>2
<1>5. /\ Letters \cap Digits = {} /\ Letters \cap Blanks = {} /\ Letters \cap Strange = {}
      /\ Letters \cap Punctuation = {} /\ Quote \notin Letters
  BY <1>3, <1>4
<1>6. /\ Digits \cap Blanks = {} /\ Digits \cap Strange = {} /\ Digits \cap Punctuation = {}
      /\ Quote \notin Digits
  BY <1>3, <1>4
<1>7. /\ Blanks \cap Strange = {} /\ Blanks \cap Punctuation = {} /\ Underscore \notin Blanks
      /\ Quote \notin Blanks
  BY <1>3, <1>4
<1>8. /\ Strange \cap Punctuation = {} /\ Underscore \notin Strange /\ Quote \notin Strange
      /\ Underscore \notin Punctuation /\ Quote \notin Punctuation
  BY <1>3, <1>4
<1>9. Quote # Underscore
  BY DEF Quote, Underscore
<1> QED BY <1>5, <1>6, <1>7, <1>8, <1>9 DEF WordChars

\* A candidate is a piece of the text.
LEMMA WordParts ==
    ASSUME NEW t \in Seq(Chars), NEW p \in 1 .. Len(t), NEW n \in 1 .. Len(t) - p + 1
    PROVE  /\ Word(t, p, n) \in Seq(Chars) /\ Len(Word(t, p, n)) = n
           /\ DOMAIN Word(t, p, n) = 1 .. n
           /\ \A k \in 1 .. n : Word(t, p, n)[k] = t[p + k - 1]
<1>1. Len(t) \in Nat /\ \A i \in 1 .. Len(t) : t[i] \in Chars
  BY LenProperties, ElementOfSeq
<1> DEFINE e == p + n - 1
<1>2. p \in Int /\ e \in Int /\ p <= e /\ e - p + 1 = n /\ \A i \in p .. e : t[i] \in Chars
  BY <1>1
<1>3. Word(t, p, n) = SubSeq(t, p, e)
  BY DEF Word
<1> HIDE DEF e
<1>4. /\ Word(t, p, n) \in Seq(Chars) /\ Len(Word(t, p, n)) = n
      /\ \A k \in 1 .. e - p + 1 : Word(t, p, n)[k] = t[p + k - 1]
  BY <1>2, <1>3, SubSeqProperties
<1>5. DOMAIN Word(t, p, n) = 1 .. n
  BY <1>4, LenProperties
<1> QED BY <1>2, <1>4, <1>5

LEMMA MatchesBounded ==
    ASSUME NEW t \in Seq(Chars), NEW p \in 1 .. Len(t)
    PROVE  /\ Matches(t, p) \subseteq 1 .. Len(t) - p + 1
           /\ Matches(t, p) # {} =>
                 /\ LongestMatch(t, p) \in Matches(t, p)
                 /\ \A m \in Matches(t, p) : m <= LongestMatch(t, p)
<1>1. Len(t) \in Nat
  BY LenProperties
<1>2. Matches(t, p) \subseteq 1 .. Len(t) - p + 1
  BY DEF Matches
<1>3. Matches(t, p) \subseteq 0 .. Len(t)
  BY <1>1, <1>2
<1>4. ASSUME Matches(t, p) # {}
      PROVE  /\ Max(Matches(t, p)) \in Matches(t, p)
             /\ \A m \in Matches(t, p) : m <= Max(Matches(t, p))
  <2> DEFINE T == Matches(t, p)
  <2> HIDE DEF T
  <2>1. T # {} /\ T \subseteq 0 .. Len(t)
    BY <1>3, <1>4 DEF T
  <2>2. Max(T) \in T /\ \A m \in T : m <= Max(T)
    BY <1>1, <2>1, MaxIsGreatest
  <2> QED BY <2>2 DEF T
<1> QED BY <1>2, <1>4 DEF LongestMatch

\* One character that is no blank and not strange is a token.
LEMMA OneCharacterMatches ==
    ASSUME NEW t \in Seq(Chars), NEW p \in 1 .. Len(t),
           t[p] \in WordChars \cup Punctuation \cup {Quote}
    PROVE  1 \in Matches(t, p)
<1> DEFINE w == Word(t, p, 1)
<1>1. Len(t) \in Nat /\ 1 \in 1 .. Len(t) - p + 1
  BY LenProperties
<1>2. Len(w) = 1 /\ DOMAIN w = 1 .. 1 /\ w[1] = t[p]
  <2>1. Len(w) = 1 /\ DOMAIN w = 1 .. 1 /\ \A k \in 1 .. 1 : w[k] = t[p + k - 1]
    <3> DEFINE n == 1
    <3>1. n \in 1 .. Len(t) - p + 1
      BY <1>1
    <3> HIDE DEF n
    <3>2. Len(Word(t, p, n)) = n /\ DOMAIN Word(t, p, n) = 1 .. n
          /\ \A k \in 1 .. n : Word(t, p, n)[k] = t[p + k - 1]
      BY <3>1, WordParts
    <3> QED BY <3>2 DEF n
  <2>2. p + 1 - 1 = p /\ 1 \in 1 .. 1
    BY <1>1
  <2> HIDE DEF w
  <2>3. w[1] = t[p + 1 - 1]
    BY <2>1, <2>2
  <2> QED BY <2>1, <2>2, <2>3
<1> HIDE DEF w
<1>3. TypeOf(w) # "unknown"
  <2>1. CASE t[p] \in Punctuation \cup {Quote}
    BY <1>2, <2>1 DEF TypeOf
  <2>2. CASE t[p] \in Letters \cup {Underscore}
    <3>1. IsIdentifier(w)
      BY <1>2, <2>2 DEF IsIdentifier
    <3> QED BY <3>1 DEF TypeOf
  <2>3. CASE t[p] \in Digits
    <3>1. IsInteger(w)
      BY <1>2, <2>3 DEF IsInteger
    <3> QED BY <3>1 DEF TypeOf
  <2> QED BY <2>1, <2>2, <2>3 DEF WordChars
<1> QED BY <1>1, <1>3 DEF Matches, w

\* A token that is no literal is one quote, or holds neither quotes nor
\* strange characters.
LEMMA PlainTokens ==
    ASSUME NEW w \in Seq(Chars), w # <<>>, TypeOf(w) \notin {"varchar", "unknown"}
    PROVE  \/ Len(w) = 1 /\ w[1] = Quote
           \/ \A k \in 1 .. Len(w) : w[k] \in WordChars \cup Punctuation
<1>1. Len(w) \in Nat /\ Len(w) >= 1 /\ DOMAIN w = 1 .. Len(w)
  BY LenProperties, EmptySeq
<1>2. CASE w \in Keywords
  <2>1. w \in Seq(Letters)
    BY <1>2, CharactersTold
  <2>2. \A k \in 1 .. Len(w) : w[k] \in Letters
    BY <2>1, ElementOfSeq
  <2> QED BY <2>2 DEF WordChars
<1>3. CASE Len(w) = 1 /\ w[1] \in Punctuation \cup {Quote}
  BY <1>3
<1>4. CASE IsIdentifier(w)
  <2>1. \A k \in 1 .. Len(w) : k = 1 \/ k \in 2 .. Len(w)
    BY <1>1
  <2> QED BY <1>4, <2>1 DEF IsIdentifier, WordChars
<1>5. CASE IsInteger(w)
  BY <1>1, <1>5 DEF IsInteger, WordChars
<1> QED BY <1>2, <1>3, <1>4, <1>5 DEF TypeOf

----------------------------------------------------------------------------
(* Counting quotes. *)

QuoteSet(t, i, j) == {k \in i .. j : t[k] = Quote}
Quotes(t, i, j)   == Cardinality(QuoteSet(t, i, j))
NoQuotes(t, i, j) == \A k \in i .. j : t[k] # Quote

LEMMA QuotesCounted ==
    ASSUME NEW t, NEW i \in Int, NEW j \in Int
    PROVE  /\ Quotes(t, i, j) \in Nat
           /\ Quotes(t, i, j) = 0 <=> NoQuotes(t, i, j)
           /\ IsFiniteSet(QuoteSet(t, i, j))
<1>1. IsFiniteSet(i .. j) /\ QuoteSet(t, i, j) \in SUBSET (i .. j)
  BY FS_Interval DEF QuoteSet
<1>2. QuoteSet(t, i, j) = {} <=> NoQuotes(t, i, j)
  BY DEF NoQuotes, QuoteSet
<1>3. IsFiniteSet(QuoteSet(t, i, j))
  BY <1>1, FS_Subset
<1>4. /\ Cardinality(QuoteSet(t, i, j)) \in Nat
      /\ Cardinality(QuoteSet(t, i, j)) = 0 <=> QuoteSet(t, i, j) = {}
  BY <1>3, FS_CardinalityType, FS_EmptySet
<1> QED BY <1>2, <1>3, <1>4 DEF Quotes

LEMMA QuotesNext ==
    ASSUME NEW t, NEW i \in Int, NEW j \in Int, i <= j + 1
    PROVE  Quotes(t, i, j + 1) = IF t[j + 1] = Quote THEN Quotes(t, i, j) + 1
                                                     ELSE Quotes(t, i, j)
<1>1. IsFiniteSet(QuoteSet(t, i, j)) /\ j + 1 \notin QuoteSet(t, i, j)
  <2>1. j + 1 \notin i .. j
    OBVIOUS
  <2> QED BY <2>1, QuotesCounted DEF QuoteSet
<1>2. \A k : k \in i .. j + 1 <=> k \in i .. j \/ k = j + 1
  OBVIOUS
<1>3. CASE t[j + 1] = Quote
  <2>1. QuoteSet(t, i, j + 1) = QuoteSet(t, i, j) \cup {j + 1}
    BY <1>2, <1>3 DEF QuoteSet
  <2>2. Cardinality(QuoteSet(t, i, j) \cup {j + 1}) = Cardinality(QuoteSet(t, i, j)) + 1
    BY <1>1, FS_AddElement
  <2> QED BY <1>3, <2>1, <2>2 DEF Quotes
<1>4. CASE t[j + 1] # Quote
  <2>1. QuoteSet(t, i, j + 1) = QuoteSet(t, i, j)
    BY <1>2, <1>4 DEF QuoteSet
  <2> QED BY <1>4, <2>1 DEF Quotes
<1> QED BY <1>3, <1>4

LEMMA QuotesSplit ==
    ASSUME NEW t, NEW i \in Int, NEW j \in Int, NEW k \in Int, i <= j + 1, j <= k
    PROVE  Quotes(t, i, k) = Quotes(t, i, j) + Quotes(t, j + 1, k)
<1> DEFINE P == QuoteSet(t, i, j)
           Q == QuoteSet(t, j + 1, k)
<1>1. IsFiniteSet(P) /\ IsFiniteSet(Q)
  BY QuotesCounted
<1>2. P \cap Q = {} /\ QuoteSet(t, i, k) = P \cup Q
  BY DEF QuoteSet
<1> HIDE DEF P, Q
<1>3. Cardinality(P \cup Q) = Cardinality(P) + Cardinality(Q) - Cardinality(P \cap Q)
  BY <1>1, FS_Union
<1>4. Cardinality(P \cap Q) = 0 /\ Cardinality(P) \in Nat /\ Cardinality(Q) \in Nat
  BY <1>1, <1>2, FS_EmptySet, FS_CardinalityType
<1>5. Cardinality(P \cup Q) = Cardinality(P) + Cardinality(Q)
  BY <1>3, <1>4
<1> QED BY <1>2, <1>5 DEF Quotes, P, Q

\* Inside a literal quotes come in runs of even length: up to a character that
\* is no quote, and up to the last, it holds an even number of them.
LEMMA RunsInLiteral ==
    ASSUME NEW t \in Seq(Chars), NEW p \in 1 .. Len(t), NEW n \in 1 .. Len(t) - p + 1,
           IsVarchar(Word(t, p, n))
    PROVE  /\ n >= 2 /\ t[p] = Quote /\ t[p + n - 1] = Quote
           /\ \A k \in 1 .. n - 1 : k = n - 1 \/ t[p + k] # Quote =>
                 Quotes(t, p + 1, p + k - 1) % 2 = 0
<1> DEFINE w == Word(t, p, n)
<1>1. Len(t) \in Nat /\ p \in Nat /\ n \in Nat /\ p + n - 1 <= Len(t)
  BY LenProperties
<1>2. Len(w) = n /\ \A k \in 1 .. n : w[k] = t[p + k - 1]
  BY WordParts
<1>3. n >= 2 /\ w[1] = Quote /\ w[n] = Quote
      /\ \A r \in InnerRuns(w) : (r[2] - r[1] + 1) % 2 = 0
  BY <1>2 DEF IsVarchar, Last
<1>4. t[p] = Quote /\ t[p + n - 1] = Quote
  <2>1. w[1] = t[p + 1 - 1] /\ w[n] = t[p + n - 1] /\ p + 1 - 1 = p
    BY <1>1, <1>2, <1>3
  <2> QED BY <1>3, <2>1
\* After k characters the run of quotes that began at the a-th is still open.
<1> DEFINE Open(k, a) == /\ a = 2 \/ t[p + a - 2] # Quote
                         /\ \A i \in a .. k : t[p + i - 1] = Quote
                         /\ (Quotes(t, p + 1, p + k - 1) + k - a + 1) % 2 = 0
           Reached(k) == \E a \in 2 .. k + 1 : Open(k, a)
           S == {m \in Nat : m <= n - 2 => Reached(m + 1)}
\* A run that has come to its end is even.
<1>5. ASSUME NEW k \in 1 .. n - 1, NEW a \in 2 .. k + 1, Open(k, a),
             k = n - 1 \/ t[p + k] # Quote
      PROVE  Quotes(t, p + 1, p + k - 1) % 2 = 0
  <2> DEFINE q == Quotes(t, p + 1, p + k - 1)
  <2>1. q \in Nat
    BY <1>1, QuotesCounted
  <2>2. CASE a = k + 1
    <3>1. (q + k - a + 1) % 2 = 0
      BY <1>5
    <3> HIDE DEF q
    <3>2. q + k - a + 1 = q
      BY <2>1, <2>2
    <3> QED BY <3>1, <3>2 DEF q
  <2>3. CASE a <= k
    <3>1. <<a, k>> \in (2 .. n - 1) \X (2 .. n - 1)
      BY <1>1, <2>3
    <3>2. \A i \in a .. k : w[i] = Quote
      <4>1. \A i \in a .. k : i \in 1 .. n
        BY <1>1, <2>3
      <4> QED BY <1>2, <1>5, <4>1
    <3>3. a > 2 => w[a - 1] # Quote
      <4>1. a - 1 \in 1 .. n /\ p + (a - 1) - 1 = p + a - 2
        BY <1>1, <2>3
      <4>2. w[a - 1] = t[p + a - 2]
        BY <1>2, <4>1
      <4> QED BY <1>5, <4>2
    <3>4. k < n - 1 => w[k + 1] # Quote
      <4>1. k + 1 \in 1 .. n /\ p + (k + 1) - 1 = p + k
        BY <1>1
      <4>2. w[k + 1] = t[p + k]
        BY <1>2, <4>1
      <4> QED BY <1>5, <4>2
    <3>5. <<a, k>> \in InnerRuns(w)
      BY <1>2, <2>3, <3>1, <3>2, <3>3, <3>4 DEF InnerRuns
    <3>6. (k - a + 1) % 2 = 0
      BY <1>3, <3>5
    <3>7. (q + k - a + 1) % 2 = 0
      BY <1>5
    <3> HIDE DEF q
    <3> QED BY <1>1, <2>1, <3>6, <3>7 DEF q
  <2> QED BY <2>2, <2>3
<1>6. 0 \in S
  <2>1. 2 \in 2 .. 2 /\ 1 .. 0 = {} /\ p + 1 - 1 = p /\ p + 1 > p
    BY <1>1
  <2>2. Quotes(t, p + 1, p + 1 - 1) = 0
    <3>1. NoQuotes(t, p + 1, p + 1 - 1)
      BY <1>1 DEF NoQuotes
    <3> QED BY <1>1, <3>1, QuotesCounted
  <2>3. (Quotes(t, p + 1, p + 1 - 1) + 1 - 2 + 1) % 2 = 0
    BY <2>2
  <2>4. \A i \in 2 .. 1 : t[p + i - 1] = Quote
    OBVIOUS
  <2>5. Open(1, 2)
    BY <2>3, <2>4
  <2> HIDE DEF Open
  <2>6. 2 \in 2 .. 1 + 1 /\ 0 + 1 = 1
    OBVIOUS
  <2>7. Reached(0 + 1)
    BY <2>5, <2>6
  <2> QED BY <2>7
<1>7. ASSUME NEW m \in Nat, m + 1 <= n - 2, Reached(m + 1) PROVE Reached(m + 2)
  <2>1. (m + 1) + 1 = m + 2 /\ (m + 2) + 1 = m + 3
    OBVIOUS
  <2>2. PICK a \in 2 .. m + 2 : Open(m + 1, a)
    BY <1>7, <2>1
  <2> DEFINE q == Quotes(t, p + 1, p + m)
  <2>3. q \in Nat /\ p + (m + 1) - 1 = p + m /\ p + (m + 2) - 1 = p + m + 1
    BY <1>1, QuotesCounted
  <2>4. Quotes(t, p + 1, p + m + 1) = IF t[p + m + 1] = Quote THEN q + 1 ELSE q
    BY <1>1, QuotesNext
  <2>5. (q + (m + 1) - a + 1) % 2 = 0
    BY <2>2, <2>3
  <2>6. CASE t[p + m + 1] = Quote
    <3>1. \A i \in a .. m + 2 : t[p + i - 1] = Quote
      <4>1. \A i \in a .. m + 2 : i \in a .. m + 1 \/ i = m + 2
        BY <2>3
      <4> QED BY <2>2, <2>3, <2>6, <4>1
    <3>2. (q + 1 + (m + 2) - a + 1) % 2 = 0
      <4> HIDE DEF q
      <4> QED BY <2>3, <2>5
    <3>3. Open(m + 2, a)
      BY <2>2, <2>3, <2>4, <2>6, <3>1, <3>2
    <3>4. a \in 2 .. (m + 2) + 1
      BY <2>1
    <3> HIDE DEF Open
    <3> QED BY <3>3, <3>4
  <2>7. CASE t[p + m + 1] # Quote
    <3>1. /\ m + 1 \in 1 .. n - 1 /\ a \in 2 .. (m + 1) + 1 /\ p + (m + 1) = p + m + 1
          /\ p + (m + 1) - 1 = p + m
      BY <1>1, <1>7, <2>1
    <3>2. q % 2 = 0
      <4> HIDE DEF Open
      <4>1. t[p + (m + 1)] # Quote
        BY <2>7, <3>1
      <4>2. Quotes(t, p + 1, p + (m + 1) - 1) % 2 = 0
        BY <1>5, <2>2, <3>1, <4>1
      <4> QED BY <3>1, <4>2
    <3>3. (q + (m + 2) - (m + 3) + 1) % 2 = 0
      <4> HIDE DEF q
      <4> QED BY <2>3, <3>2
    <3>4. p + (m + 3) - 2 = p + m + 1 /\ \A i \in m + 3 .. m + 2 : t[p + i - 1] = Quote
      BY <1>1
    <3>5. Open(m + 2, m + 3)
      BY <2>3, <2>4, <2>7, <3>3, <3>4
    <3>6. m + 3 \in 2 .. (m + 2) + 1
      OBVIOUS
    <3> HIDE DEF Open
    <3> QED BY <3>5, <3>6
  <2> QED BY <2>6, <2>7
<1>8. Nat \subseteq S
  <2> HIDE DEF Reached
  <2>1. ASSUME NEW m \in Nat, m \in S PROVE m + 1 \in S
    <3>1. (m + 1) + 1 = m + 2
      OBVIOUS
    <3>2. m + 1 <= n - 2 => m <= n - 2
      BY <1>1
    <3> QED BY <1>7, <2>1, <3>1, <3>2
  <2> HIDE DEF S
  <2> QED BY <1>6, <2>1, Induction
<1>9. ASSUME NEW k \in 1 .. n - 1 PROVE Reached(k)
  <2> HIDE DEF Reached
  <2>1. k - 1 \in Nat /\ k - 1 <= n - 2 /\ (k - 1) + 1 = k
    BY <1>1
  <2>2. Reached((k - 1) + 1)
    BY <1>8, <2>1
  <2> QED BY <2>1, <2>2
<1>10. ASSUME NEW k \in 1 .. n - 1, k = n - 1 \/ t[p + k] # Quote
       PROVE  Quotes(t, p + 1, p + k - 1) % 2 = 0
  <2>1. PICK a \in 2 .. k + 1 : Open(k, a)
    BY <1>9
  <2> HIDE DEF Open
  <2> QED BY <1>5, <1>10, <2>1
<1> HIDE DEF w
<1> QED BY <1>3, <1>4, <1>10

LEMMA Parity ==
    ASSUME NEW x \in Nat, NEW y \in Nat
    PROVE  /\ x % 2 = 0 \/ x % 2 = 1
           /\ (x + y) % 2 = 0 <=> x % 2 = y % 2
           /\ (x + y) % 2 = 1 <=> x % 2 # y % 2
           /\ (x + 1) % 2 = 0 <=> x % 2 = 1
           /\ (1 + x) % 2 = 1 <=> x % 2 = 0
OBVIOUS

LEMMA SumParity ==
    ASSUME NEW x \in Nat, NEW y \in Nat, NEW z, z = x + y, x % 2 = 0
    PROVE  z % 2 = y % 2
BY Parity

\* The quotes of a literal are an even number, and before each character in it
\* that is no quote stands an odd number of them.
LEMMA LiteralQuotes ==
    ASSUME NEW t \in Seq(Chars), NEW p \in 1 .. Len(t), NEW n \in 1 .. Len(t) - p + 1,
           IsVarchar(Word(t, p, n))
    PROVE  /\ n >= 2 /\ t[p] = Quote /\ t[p + n - 1] = Quote
           /\ Quotes(t, p, p + n - 1) % 2 = 0
           /\ \A i \in p .. p + n - 1 : t[i] # Quote => Quotes(t, p, i - 1) % 2 = 1
<1>1. Len(t) \in Nat /\ p \in Nat /\ n \in Nat /\ n >= 2
  BY LenProperties, RunsInLiteral
<1>2. t[p] = Quote /\ t[p + n - 1] = Quote
  BY RunsInLiteral
<1>3. Quotes(t, p, p) = 1
  <2>1. Quotes(t, p, p - 1) = 0
    <3>1. NoQuotes(t, p, p - 1)
      BY <1>1 DEF NoQuotes
    <3> QED BY <1>1, <3>1, QuotesCounted
  <2>2. (p - 1) + 1 = p /\ p - 1 \in Int
    BY <1>1
  <2>3. Quotes(t, p, (p - 1) + 1) = Quotes(t, p, p - 1) + 1
    BY <1>1, <1>2, <2>2, QuotesNext
  <2> QED BY <2>1, <2>2, <2>3
<1>4. ASSUME NEW k \in 1 .. n - 1, k = n - 1 \/ t[p + k] # Quote
      PROVE  Quotes(t, p, p + k - 1) % 2 = 1
  <2>1. Quotes(t, p + 1, p + k - 1) % 2 = 0 /\ Quotes(t, p + 1, p + k - 1) \in Nat
    <3>1. \A m \in 1 .. n - 1 : m = n - 1 \/ t[p + m] # Quote =>
             Quotes(t, p + 1, p + m - 1) % 2 = 0
      BY RunsInLiteral
    <3>2. p + 1 \in Int /\ p + k - 1 \in Int
      BY <1>1
    <3> QED BY <1>4, <3>1, <3>2, QuotesCounted
  <2>2. Quotes(t, p, p + k - 1) = Quotes(t, p, p) + Quotes(t, p + 1, p + k - 1)
    <3> DEFINE e == p + k - 1
    <3>1. e \in Int /\ p \in Int /\ p <= p + 1 /\ p <= e
      BY <1>1
    <3> HIDE DEF e
    <3>2. Quotes(t, p, e) = Quotes(t, p, p) + Quotes(t, p + 1, e)
      BY <3>1, QuotesSplit
    <3> QED BY <3>2 DEF e
  <2> DEFINE x == Quotes(t, p + 1, p + k - 1)
  <2>3. Quotes(t, p, p + k - 1) = 1 + x
    BY <1>3, <2>2
  <2>4. x \in Nat /\ x % 2 = 0
    BY <2>1
  <2> HIDE DEF x
  <2>5. (1 + x) % 2 = 1
    BY <2>4, Parity
  <2> QED BY <2>3, <2>5
<1>5. Quotes(t, p, p + n - 1) % 2 = 0
  <2>1. n - 1 \in 1 .. n - 1 /\ p + (n - 1) - 1 = p + n - 2 /\ (p + n - 2) + 1 = p + n - 1
    BY <1>1
  <2>2. Quotes(t, p, p + n - 2) % 2 = 1
    BY <1>4, <2>1
  <2>3. Quotes(t, p, (p + n - 2) + 1) = Quotes(t, p, p + n - 2) + 1
    BY <1>1, <1>2, <2>1, QuotesNext
  <2>4. Quotes(t, p, p + n - 2) \in Nat
    BY <1>1, QuotesCounted
  <2> QED BY <2>1, <2>2, <2>3, <2>4, Parity
<1>6. ASSUME NEW i \in p .. p + n - 1, t[i] # Quote
      PROVE  Quotes(t, p, i - 1) % 2 = 1
  <2>1. i - p \in 1 .. n - 1 /\ p + (i - p) = i /\ p + (i - p) - 1 = i - 1
    BY <1>1, <1>2, <1>6
  <2> QED BY <1>4, <1>6, <2>1
<1> QED BY <1>1, <1>2, <1>5, <1>6

\* A quote that opens no literal, because maximal munch takes it alone, has no
\* quote behind it.
LEMMA LoneQuoteIsLast ==
    ASSUME NEW t \in Seq(Chars), NEW p \in 1 .. Len(t), t[p] = Quote,
           \A m \in Matches(t, p) : m <= 1
    PROVE  NoQuotes(t, p + 1, Len(t))
<1> DEFINE later == {k \in p + 1 .. Len(t) : t[k] = Quote}
<1> SUFFICES ASSUME later # {} PROVE FALSE
  BY DEF NoQuotes
<1>1. Len(t) \in Nat
  BY LenProperties
<1>2. PICK r \in later : \A k \in later : r <= k
  <2>1. later \subseteq Nat
    BY <1>1
  <2> HIDE DEF later
  <2> QED BY <2>1, LeastExists
<1> DEFINE n == r - p + 1
           w == Word(t, p, n)
<1>3. n \in 1 .. Len(t) - p + 1 /\ n >= 2 /\ p + n - 1 = r
  BY <1>1, <1>2
<1>4. Len(w) = n /\ \A k \in 1 .. n : w[k] = t[p + k - 1]
  <2> HIDE DEF n
  <2> QED BY <1>3, WordParts
<1>5. w[1] = Quote /\ w[n] = Quote
  <2>1. p + 1 - 1 = p /\ 1 \in 1 .. n /\ n \in 1 .. n
    BY <1>1, <1>3
  <2> HIDE DEF n, w
  <2>2. w[1] = t[p + 1 - 1] /\ w[n] = t[p + n - 1]
    BY <1>4, <2>1
  <2> QED BY <1>2, <1>3, <2>1, <2>2
<1>6. ASSUME NEW k \in 2 .. n - 1 PROVE w[k] # Quote
  <2>1. k \in 1 .. n /\ p + k - 1 \in p + 1 .. Len(t) /\ p + k - 1 < r
    BY <1>1, <1>2, <1>3
  <2>2. p + k - 1 \notin later
    <3>1. r \in Nat
      BY <1>1
    <3> HIDE DEF later
    <3> QED BY <1>1, <1>2, <2>1, <3>1
  <2>3. w[k] = t[p + k - 1]
    <3> HIDE DEF w
    <3> QED BY <1>4, <2>1
  <2> QED BY <2>1, <2>2, <2>3
<1> HIDE DEF n, w, later
<1>7. InnerRuns(w) = {}
  <2> SUFFICES ASSUME NEW x \in InnerRuns(w) PROVE FALSE
    OBVIOUS
  <2>1. x[1] \in 2 .. n - 1 /\ x[2] \in 2 .. n - 1 /\ x[1] <= x[2]
        /\ \A i \in x[1] .. x[2] : w[i] = Quote
    BY <1>4 DEF InnerRuns
  <2>2. w[x[1]] = Quote
    BY <1>3, <2>1
  <2> QED BY <1>6, <2>1, <2>2
<1>8. IsVarchar(w)
  BY <1>3, <1>4, <1>5, <1>7 DEF IsVarchar, Last
<1>9. TypeOf(w) # "unknown"
  BY <1>8 DEF TypeOf
<1>10. n \in Matches(t, p)
  BY <1>3, <1>9 DEF Matches, w
<1> QED BY <1>3, <1>10

----------------------------------------------------------------------------
(* The tokens taken so far, as a property of the text t, the position p and *)
(* the tokens s.                                                            *)

Types  == {"keyword", "punctuation", "identifier", "varchar", "integer"}
Tokens == [type : Types, lexeme : Seq(Chars), at : Nat]

EndAt(s, i) == IF i = 0 THEN 0 ELSE s[i].at + Len(s[i].lexeme) - 1

\* Token k is the longest there is at its place.
Fits(t, k) ==
    /\ k.at \in 1 .. Len(t)
    /\ \E n \in Matches(t, k.at) : /\ \A m \in Matches(t, k.at) : m <= n
                                   /\ k = Token(t, k.at, n)

InLit(t, i)     == Quotes(t, 1, i - 1) % 2 = 1 /\ Quotes(t, i, Len(t)) > 0
InVarchar(s, i) == \E k \in DOMAIN s : s[k].type = "varchar" /\ i \in s[k].at .. EndAt(s, k)

Covered(t, p, s) ==
    /\ \A i \in DOMAIN s :
          /\ s[i].at > EndAt(s, i - 1)
          /\ \A k \in EndAt(s, i - 1) + 1 .. s[i].at - 1 : t[k] \in Blanks
    /\ \A k \in EndAt(s, Len(s)) + 1 .. p - 1 : t[k] \in Blanks

Taken(t, p, s) == \A i \in DOMAIN s : Fits(t, s[i]) /\ EndAt(s, i) < p

\* No literal is open at p: a quote left open has no quote behind it.
Balanced(t, p) == Quotes(t, 1, p - 1) % 2 = 0 \/ NoQuotes(t, p, Len(t))

LiteralsSoFar(t, p, s) ==
    \A i \in 1 .. p - 1 :
        /\ t[i] # Quote => (InLit(t, i) <=> InVarchar(s, i))
        /\ t[i] \in Strange => InVarchar(s, i)

Good(t, p, s) ==
    /\ s \in Seq(Tokens) /\ p \in 1 .. Len(t) + 1
    /\ Taken(t, p, s) /\ Covered(t, p, s) /\ Balanced(t, p) /\ LiteralsSoFar(t, p, s)

\* No character at a balanced position is in a literal.
LEMMA BalancedOutside ==
    ASSUME NEW t \in Seq(Chars), NEW p \in 1 .. Len(t), Balanced(t, p)
    PROVE  ~InLit(t, p)
<1>1. Len(t) \in Nat /\ p - 1 \in Int /\ p \in Int
  BY LenProperties
<1>2. NoQuotes(t, p, Len(t)) => Quotes(t, p, Len(t)) = 0
  BY <1>1, QuotesCounted
<1> QED BY <1>2 DEF Balanced, InLit

\* The token taken at p.
LEMMA TokenTaken ==
    ASSUME NEW t \in Seq(Chars), NEW p \in 1 .. Len(t), NEW n \in Matches(t, p),
           \A m \in Matches(t, p) : m <= n
    PROVE  /\ Token(t, p, n) \in Tokens /\ Fits(t, Token(t, p, n))
           /\ Token(t, p, n).at = p /\ Len(Token(t, p, n).lexeme) = n
           /\ n \in 1 .. Len(t) - p + 1 /\ p + n \in 1 .. Len(t) + 1
<1>1. Len(t) \in Nat /\ n \in 1 .. Len(t) - p + 1 /\ TypeOf(Word(t, p, n)) # "unknown"
  BY LenProperties DEF Matches
<1>2. Word(t, p, n) \in Seq(Chars) /\ Len(Word(t, p, n)) = n
  BY <1>1, WordParts
<1>3. TypeOf(Word(t, p, n)) \in Types
  BY <1>1 DEF TypeOf, Types
<1>4. Token(t, p, n) \in Tokens
  BY <1>1, <1>2, <1>3 DEF Token, Tokens
<1>5. Token(t, p, n).at = p /\ Token(t, p, n).lexeme = Word(t, p, n)
  BY DEF Token
<1>6. Fits(t, Token(t, p, n))
  BY <1>5 DEF Fits
<1> QED BY <1>1, <1>2, <1>4, <1>5, <1>6

\* One more token at the end of the list.
LEMMA OneMore ==
    ASSUME NEW s \in Seq(Tokens), NEW k \in Tokens
    PROVE  /\ Append(s, k) \in Seq(Tokens) /\ Len(Append(s, k)) = Len(s) + 1
           /\ Len(s) \in Nat /\ DOMAIN s = 1 .. Len(s) /\ DOMAIN Append(s, k) = 1 .. Len(s) + 1
           /\ \A i \in DOMAIN s : Append(s, k)[i] = s[i]
           /\ Append(s, k)[Len(s) + 1] = k
           /\ \A i \in 0 .. Len(s) : EndAt(Append(s, k), i) = EndAt(s, i)
           /\ EndAt(Append(s, k), Len(s) + 1) = k.at + Len(k.lexeme) - 1
           /\ \A i \in 0 .. Len(s) : EndAt(s, i) \in Int
<1>1. /\ Append(s, k) \in Seq(Tokens) /\ Len(Append(s, k)) = Len(s) + 1
      /\ Len(s) \in Nat /\ DOMAIN s = 1 .. Len(s) /\ DOMAIN Append(s, k) = 1 .. Len(s) + 1
      /\ \A i \in 1 .. Len(s) : Append(s, k)[i] = s[i]
      /\ Append(s, k)[Len(s) + 1] = k
  BY AppendProperties, LenProperties
<1>2. \A i \in 1 .. Len(s) : s[i] \in Tokens
  BY ElementOfSeq
<1>3. \A i \in 1 .. Len(s) : s[i].at \in Nat /\ Len(s[i].lexeme) \in Nat
  BY <1>2, LenProperties DEF Tokens
<1>4. \A i \in 0 .. Len(s) : EndAt(s, i) \in Int
  BY <1>3 DEF EndAt
<1>5. \A i \in 0 .. Len(s) : EndAt(Append(s, k), i) = EndAt(s, i)
  BY <1>1 DEF EndAt
<1>6. EndAt(Append(s, k), Len(s) + 1) = k.at + Len(k.lexeme) - 1
  BY <1>1 DEF EndAt
<1> QED BY <1>1, <1>4, <1>5, <1>6

\* A literal, a quote that stays alone, and everything else.
LEMMA ThreeKinds ==
    ASSUME NEW t \in Seq(Chars), NEW p \in 1 .. Len(t), NEW n \in Matches(t, p),
           \A m \in Matches(t, p) : m <= n
    PROVE  \/ Token(t, p, n).type = "varchar" /\ IsVarchar(Word(t, p, n))
           \/ /\ Token(t, p, n).type # "varchar"
              /\ n = 1 /\ t[p] = Quote /\ NoQuotes(t, p + 1, Len(t))
           \/ /\ Token(t, p, n).type # "varchar"
              /\ \A i \in p .. p + n - 1 : t[i] # Quote /\ t[i] \notin Strange
<1> DEFINE w == Word(t, p, n)
<1>1. Len(t) \in Nat /\ n \in 1 .. Len(t) - p + 1 /\ TypeOf(w) # "unknown"
  BY LenProperties DEF Matches
<1>2. w \in Seq(Chars) /\ Len(w) = n /\ \A k \in 1 .. n : w[k] = t[p + k - 1]
  BY <1>1, WordParts
<1>3. Token(t, p, n).type = TypeOf(w)
  BY DEF Token
<1> HIDE DEF w
<1>4. CASE TypeOf(w) = "varchar"
  <2>1. IsVarchar(w)
    BY <1>4 DEF TypeOf
  <2> QED BY <1>3, <1>4, <2>1 DEF w
<1>5. CASE TypeOf(w) # "varchar"
  <2>1. w # <<>>
    BY <1>1, <1>2
  <2>2. \/ n = 1 /\ w[1] = Quote
        \/ \A k \in 1 .. n : w[k] \in WordChars \cup Punctuation
    BY <1>1, <1>2, <1>5, <2>1, PlainTokens
  <2>3. CASE n = 1 /\ w[1] = Quote
    <3>1. p + 1 - 1 = p
      BY <1>1
    <3>2. t[p] = Quote
      BY <1>2, <2>3, <3>1
    <3>3. NoQuotes(t, p + 1, Len(t))
      BY <2>3, <3>2, LoneQuoteIsLast
    <3> QED BY <1>3, <1>5, <2>3, <3>2, <3>3
  <2>4. CASE \A k \in 1 .. n : w[k] \in WordChars \cup Punctuation
    <3>1. ASSUME NEW i \in p .. p + n - 1 PROVE t[i] \in WordChars \cup Punctuation
      <4>1. i - p + 1 \in 1 .. n /\ p + (i - p + 1) - 1 = i
        BY <1>1
      <4> QED BY <1>2, <2>4, <4>1
    <3>2. \A i \in p .. p + n - 1 : t[i] # Quote /\ t[i] \notin Strange
      BY <3>1, Apart
    <3> QED BY <1>3, <1>5, <3>2
  <2> QED BY <2>2, <2>3, <2>4
<1> QED BY <1>4, <1>5

\* Skipping a blank keeps the state good.
LEMMA AfterBlank ==
    ASSUME NEW t \in Seq(Chars), NEW p \in 1 .. Len(t), NEW s, Good(t, p, s), t[p] \in Blanks
    PROVE  Good(t, p + 1, s)
<1>1. Len(t) \in Nat /\ s \in Seq(Tokens) /\ Len(s) \in Nat /\ DOMAIN s = 1 .. Len(s)
      /\ \A i \in 0 .. Len(s) : EndAt(s, i) \in Int
  <2>1. Len(t) \in Nat /\ s \in Seq(Tokens)
    BY LenProperties DEF Good
  <2>2. Len(s) \in Nat /\ DOMAIN s = 1 .. Len(s)
    BY <2>1, LenProperties
  <2>3. \A i \in 1 .. Len(s) : s[i] \in Tokens
    BY <2>1, ElementOfSeq
  <2>4. \A i \in 1 .. Len(s) : s[i].at \in Nat /\ Len(s[i].lexeme) \in Nat
    BY <2>3, LenProperties DEF Tokens
  <2>5. \A i \in 0 .. Len(s) : EndAt(s, i) \in Int
    BY <2>4 DEF EndAt
  <2> QED BY <2>1, <2>2, <2>5
<1>2. t[p] # Quote /\ t[p] \notin Strange
  BY Apart
<1>3. Taken(t, p + 1, s)
  <2>1. \A i \in DOMAIN s : i \in 0 .. Len(s)
    BY <1>1
  <2> QED BY <1>1, <2>1 DEF Good, Taken
<1>4. Covered(t, p + 1, s)
  <2>1. \A k \in EndAt(s, Len(s)) + 1 .. (p + 1) - 1 : k = p \/ k \in EndAt(s, Len(s)) + 1 .. p - 1
    BY <1>1
  <2> QED BY <2>1 DEF Good, Covered
<1>5. Balanced(t, p + 1)
  <2>1. p - 1 \in Int /\ (p - 1) + 1 = p /\ (p + 1) - 1 = p
    BY <1>1
  <2>2. Quotes(t, 1, p) = Quotes(t, 1, p - 1)
    <3>1. Quotes(t, 1, (p - 1) + 1) = Quotes(t, 1, p - 1)
      BY <1>1, <1>2, <2>1, QuotesNext
    <3> QED BY <2>1, <3>1
  <2>3. NoQuotes(t, p, Len(t)) => NoQuotes(t, p + 1, Len(t))
    BY <1>1 DEF NoQuotes
  <2> QED BY <2>1, <2>2, <2>3 DEF Good, Balanced
<1>6. LiteralsSoFar(t, p + 1, s)
  <2>1. ~InLit(t, p)
    BY BalancedOutside DEF Good
  <2>2. ~InVarchar(s, p)
    <3>1. \A k \in DOMAIN s : EndAt(s, k) < p /\ EndAt(s, k) \in Int
      BY <1>1 DEF Good, Taken
    <3> QED BY <3>1 DEF InVarchar
  <2>3. \A i \in 1 .. (p + 1) - 1 : i = p \/ i \in 1 .. p - 1
    BY <1>1
  <2> QED BY <1>2, <2>1, <2>2, <2>3 DEF Good, LiteralsSoFar
<1> QED BY <1>1, <1>3, <1>4, <1>5, <1>6 DEF Good

\* So does taking the longest token.
LEMMA AfterToken ==
    ASSUME NEW t \in Seq(Chars), NEW p \in 1 .. Len(t), NEW s, Good(t, p, s),
           NEW n \in Matches(t, p), \A m \in Matches(t, p) : m <= n
    PROVE  Good(t, p + n, Append(s, Token(t, p, n)))
<1> DEFINE k == Token(t, p, n)
           u == Append(s, k)
<1> SUFFICES Good(t, p + n, u)
  OBVIOUS
<1>1. /\ Len(t) \in Nat /\ s \in Seq(Tokens) /\ k \in Tokens /\ Fits(t, k) /\ k.at = p
      /\ Len(k.lexeme) = n /\ n \in 1 .. Len(t) - p + 1 /\ p + n \in 1 .. Len(t) + 1
  BY LenProperties, TokenTaken DEF Good
<1>2. \/ k.type = "varchar" /\ IsVarchar(Word(t, p, n))
      \/ /\ k.type # "varchar"
         /\ n = 1 /\ t[p] = Quote /\ NoQuotes(t, p + 1, Len(t))
      \/ /\ k.type # "varchar"
         /\ \A i \in p .. p + n - 1 : t[i] # Quote /\ t[i] \notin Strange
  BY ThreeKinds
<1> HIDE DEF k
<1>3. /\ u \in Seq(Tokens) /\ Len(u) = Len(s) + 1 /\ Len(s) \in Nat
      /\ DOMAIN s = 1 .. Len(s) /\ DOMAIN u = 1 .. Len(s) + 1
      /\ \A i \in DOMAIN s : u[i] = s[i]
      /\ u[Len(s) + 1] = k
      /\ \A i \in 0 .. Len(s) : EndAt(u, i) = EndAt(s, i)
      /\ EndAt(u, Len(s) + 1) = p + n - 1
      /\ \A i \in 0 .. Len(s) : EndAt(s, i) \in Int
  BY <1>1, OneMore
<1> HIDE DEF u
<1>4. \A i \in DOMAIN u : i = Len(s) + 1 \/ (i \in DOMAIN s /\ i \in 0 .. Len(s) /\ i - 1 \in 0 .. Len(s))
  BY <1>3
<1>5. \A i \in DOMAIN s : EndAt(u, i) < p /\ EndAt(u, i) \in Int /\ u[i] = s[i] /\ i \in DOMAIN u
  BY <1>3 DEF Good, Taken
<1>6. Taken(t, p + n, u)
  <2>1. Fits(t, u[Len(s) + 1]) /\ EndAt(u, Len(s) + 1) < p + n
    BY <1>1, <1>3
  <2>2. ASSUME NEW i \in DOMAIN s PROVE Fits(t, u[i]) /\ EndAt(u, i) < p + n
    BY <1>1, <1>5 DEF Good, Taken
  <2> QED BY <1>4, <2>1, <2>2 DEF Taken
<1>7. Covered(t, p + n, u)
  <2>1. EndAt(u, Len(s)) < p /\ EndAt(u, Len(s)) = EndAt(s, Len(s)) /\ EndAt(s, Len(s)) \in Int
    <3>1. CASE Len(s) = 0
      BY <1>1, <1>3, <3>1 DEF EndAt
    <3>2. CASE Len(s) # 0
      BY <1>3, <1>5, <3>2
    <3> QED BY <3>1, <3>2
  <2>2. \A j \in EndAt(u, Len(s)) + 1 .. p - 1 : t[j] \in Blanks
    BY <2>1 DEF Good, Covered
  <2>3. (Len(s) + 1) - 1 = Len(s)
    BY <1>3
  <2>4. /\ u[Len(s) + 1].at > EndAt(u, (Len(s) + 1) - 1)
        /\ \A j \in EndAt(u, (Len(s) + 1) - 1) + 1 .. u[Len(s) + 1].at - 1 : t[j] \in Blanks
    BY <1>1, <1>3, <2>1, <2>2, <2>3
  <2>5. ASSUME NEW i \in DOMAIN s
        PROVE  /\ u[i].at > EndAt(u, i - 1)
               /\ \A j \in EndAt(u, i - 1) + 1 .. u[i].at - 1 : t[j] \in Blanks
    <3>1. EndAt(u, i - 1) = EndAt(s, i - 1) /\ u[i] = s[i]
      BY <1>3
    <3> QED BY <3>1 DEF Good, Covered
  <2>6. \A j \in EndAt(u, Len(u)) + 1 .. (p + n) - 1 : t[j] \in Blanks
    BY <1>1, <1>3
  <2> QED BY <1>4, <2>4, <2>5, <2>6 DEF Covered
<1>8. p - 1 \in Int /\ (p + n) - 1 \in Int /\ (p - 1) + 1 = p /\ p <= p + n - 1
  BY <1>1
\* Quotes before a place in the token are those before it and those in it.
<1>9. ASSUME NEW j \in p - 1 .. p + n - 1
      PROVE  /\ Quotes(t, 1, j) = Quotes(t, 1, p - 1) + Quotes(t, p, j)
             /\ Quotes(t, 1, p - 1) \in Nat /\ Quotes(t, p, j) \in Nat
  <2>1. j \in Int /\ 1 <= (p - 1) + 1 /\ p - 1 <= j
    BY <1>1
  <2>2. Quotes(t, 1, j) = Quotes(t, 1, p - 1) + Quotes(t, (p - 1) + 1, j)
    BY <1>8, <2>1, QuotesSplit
  <2> QED BY <1>8, <2>1, <2>2, QuotesCounted
<1>10. ~InVarchar(s, p) /\ \A i \in p .. p + n - 1 : ~InVarchar(s, i)
  <2>1. \A i \in DOMAIN s : EndAt(s, i) < p /\ EndAt(s, i) \in Int
    BY <1>3 DEF Good, Taken
  <2> QED BY <1>1, <2>1 DEF InVarchar
<1>11. \A i \in 1 .. p - 1 : InVarchar(u, i) <=> InVarchar(s, i)
  <2> TAKE i \in 1 .. p - 1
  <2>1. i \notin u[Len(s) + 1].at .. EndAt(u, Len(s) + 1)
    BY <1>1, <1>3
  <2>2. \A j \in DOMAIN s : EndAt(u, j) = EndAt(s, j) /\ u[j] = s[j] /\ j \in DOMAIN u
    BY <1>3
  <2> QED BY <1>4, <2>1, <2>2 DEF InVarchar
<1>12. \A i \in p .. p + n - 1 : InVarchar(u, i) <=> k.type = "varchar"
  <2> TAKE i \in p .. p + n - 1
  <2>1. i \in u[Len(s) + 1].at .. EndAt(u, Len(s) + 1) /\ Len(s) + 1 \in DOMAIN u
    BY <1>1, <1>3
  <2>2. \A j \in DOMAIN s : i \notin u[j].at .. EndAt(u, j)
    BY <1>1, <1>5
  <2> QED BY <1>3, <1>4, <2>1, <2>2 DEF InVarchar
<1>13. \A i \in 1 .. (p + n) - 1 : i \in 1 .. p - 1 \/ i \in p .. p + n - 1
  BY <1>1
<1>14. CASE k.type = "varchar" /\ IsVarchar(Word(t, p, n))
  <2>1. /\ n >= 2 /\ t[p] = Quote /\ t[p + n - 1] = Quote
        /\ Quotes(t, p, p + n - 1) % 2 = 0
        /\ \A i \in p .. p + n - 1 : t[i] # Quote => Quotes(t, p, i - 1) % 2 = 1
    BY <1>1, <1>14, LiteralQuotes
  <2>2. Quotes(t, 1, p - 1) % 2 = 0
    <3>1. ~NoQuotes(t, p, Len(t))
      BY <1>1, <2>1 DEF NoQuotes
    <3> QED BY <3>1 DEF Good, Balanced
  <2>3. Quotes(t, 1, p + n - 1) % 2 = 0
    <3>1. p + n - 1 \in p - 1 .. p + n - 1
      BY <1>1
    <3>2. /\ Quotes(t, 1, p + n - 1) = Quotes(t, 1, p - 1) + Quotes(t, p, p + n - 1)
          /\ Quotes(t, 1, p - 1) \in Nat /\ Quotes(t, p, p + n - 1) \in Nat
      BY <1>9, <3>1
    <3> QED BY <2>1, <2>2, <3>2, SumParity
  <2>4. ASSUME NEW i \in p .. p + n - 1, t[i] # Quote PROVE InLit(t, i)
    <3>1. i - 1 \in p - 1 .. p + n - 1
      BY <1>1
    <3>2. Quotes(t, 1, i - 1) % 2 = 1
      <4>1. /\ Quotes(t, 1, i - 1) = Quotes(t, 1, p - 1) + Quotes(t, p, i - 1)
            /\ Quotes(t, 1, p - 1) \in Nat /\ Quotes(t, p, i - 1) \in Nat
        BY <1>9, <3>1
      <4>2. Quotes(t, p, i - 1) % 2 = 1
        BY <2>1, <2>4
      <4> QED BY <2>2, <4>1, <4>2, SumParity
    <3>3. i \in Int /\ p + n - 1 \in i .. Len(t)
      BY <1>1
    <3>4. ~NoQuotes(t, i, Len(t))
      BY <2>1, <3>3 DEF NoQuotes
    <3>5. Quotes(t, i, Len(t)) > 0
      BY <1>1, <3>3, <3>4, QuotesCounted
    <3> QED BY <3>2, <3>5 DEF InLit
  <2>5. LiteralsSoFar(t, p + n, u)
    BY <1>11, <1>12, <1>13, <1>14, <2>4 DEF Good, LiteralsSoFar
  <2> QED BY <1>1, <1>3, <1>6, <1>7, <2>3, <2>5 DEF Good, Balanced
<1>15. CASE k.type # "varchar" /\ n = 1 /\ t[p] = Quote /\ NoQuotes(t, p + 1, Len(t))
  <2>1. \A i \in p .. p + n - 1 : t[i] = Quote /\ t[i] \notin Strange
    BY <1>1, <1>15, Apart
  <2>2. LiteralsSoFar(t, p + n, u)
    BY <1>11, <1>13, <2>1 DEF Good, LiteralsSoFar
  <2> QED BY <1>1, <1>3, <1>6, <1>7, <1>15, <2>2 DEF Good, Balanced
<1>16. CASE /\ k.type # "varchar"
            /\ \A i \in p .. p + n - 1 : t[i] # Quote /\ t[i] \notin Strange
  <2>1. \A j \in p - 1 .. p + n - 1 : Quotes(t, 1, j) = Quotes(t, 1, p - 1)
    <3> TAKE j \in p - 1 .. p + n - 1
    <3>1. NoQuotes(t, p, j) /\ j \in Int /\ p \in Int
      BY <1>1, <1>16 DEF NoQuotes
    <3>2. Quotes(t, p, j) = 0
      BY <3>1, QuotesCounted
    <3> QED BY <1>9, <3>2
  <2>2. Balanced(t, p + n)
    <3>1. Quotes(t, 1, (p + n) - 1) = Quotes(t, 1, p - 1)
      BY <1>1, <2>1
    <3>2. NoQuotes(t, p, Len(t)) => NoQuotes(t, p + n, Len(t))
      BY <1>1 DEF NoQuotes
    <3> QED BY <3>1, <3>2 DEF Good, Balanced
  <2>3. ASSUME NEW i \in p .. p + n - 1 PROVE ~InLit(t, i)
    <3>1. Quotes(t, 1, i - 1) = Quotes(t, 1, p - 1)
      BY <1>1, <2>1
    <3>2. NoQuotes(t, p, Len(t)) => NoQuotes(t, i, Len(t))
      BY <1>1 DEF NoQuotes
    <3>3. NoQuotes(t, i, Len(t)) => Quotes(t, i, Len(t)) = 0
      BY <1>1, QuotesCounted
    <3>4. Quotes(t, 1, i - 1) % 2 = 0 \/ Quotes(t, i, Len(t)) = 0
      BY <3>1, <3>2, <3>3 DEF Good, Balanced
    <3> QED BY <3>4 DEF InLit
  <2>4. LiteralsSoFar(t, p + n, u)
    BY <1>11, <1>12, <1>13, <1>16, <2>3 DEF Good, LiteralsSoFar
  <2> QED BY <1>1, <1>3, <1>6, <1>7, <2>2, <2>4 DEF Good
<1> QED BY <1>2, <1>14, <1>15, <1>16

\* Before the first token.
LEMMA GoodAtStart ==
    ASSUME NEW t \in Seq(Chars)
    PROVE  Good(t, 1, <<>>)
<1>1. Len(t) \in Nat /\ <<>> \in Seq(Tokens) /\ Len(<<>>) = 0 /\ DOMAIN <<>> = 1 .. 0
  BY LenProperties, EmptySeq
<1>2. Taken(t, 1, <<>>)
  BY <1>1 DEF Taken
<1>3. Covered(t, 1, <<>>)
  BY <1>1 DEF Covered, EndAt
<1>4. Balanced(t, 1)
  <2>1. NoQuotes(t, 1, 0)
    BY DEF NoQuotes
  <2>2. Quotes(t, 1, 0) = 0
    BY <2>1, QuotesCounted
  <2> QED BY <2>2 DEF Balanced
<1>5. LiteralsSoFar(t, 1, <<>>)
  BY DEF LiteralsSoFar
<1> QED BY <1>1, <1>2, <1>3, <1>4, <1>5 DEF Good

\* A word is as long as can be: a letter or a digit behind it would make it longer.
LEMMA WordEnds ==
    ASSUME NEW t \in Seq(Chars), NEW k, Fits(t, k)
    PROVE  /\ k.lexeme = SubSeq(t, k.at, k.at + Len(k.lexeme) - 1)
           /\ k.lexeme \in Keywords <=> k.type = "keyword"
           /\ k.type \in {"keyword", "identifier"} /\ k.at + Len(k.lexeme) - 1 < Len(t)
                 => t[k.at + Len(k.lexeme)] \notin Letters \cup Digits
<1> DEFINE p == k.at
<1>1. p \in 1 .. Len(t)
  BY DEF Fits
<1>2. PICK n \in Matches(t, p) : /\ \A m \in Matches(t, p) : m <= n
                                 /\ k = Token(t, p, n)
  BY DEF Fits
<1> DEFINE w == Word(t, p, n)
           v == Word(t, p, n + 1)
<1>3. Len(t) \in Nat /\ n \in 1 .. Len(t) - p + 1 /\ TypeOf(w) # "unknown"
  BY LenProperties DEF Matches
<1>4. k.type = TypeOf(w) /\ k.lexeme = w
  BY <1>2 DEF Token
<1>5. Len(w) = n /\ \A i \in 1 .. n : w[i] = t[p + i - 1]
  <2> HIDE DEF p
  <2> QED BY <1>1, <1>3, WordParts
<1>6. w = SubSeq(t, p, p + n - 1)
  BY DEF Word
<1> HIDE DEF p, w
<1>7. w \in Keywords <=> TypeOf(w) = "keyword"
  BY DEF TypeOf
<1>8. ASSUME TypeOf(w) \in {"keyword", "identifier"}, p + n - 1 < Len(t),
             t[p + n] \in Letters \cup Digits
      PROVE  FALSE
  <2>1. n + 1 \in 1 .. Len(t) - p + 1
    BY <1>1, <1>3, <1>8
  <2>2. Len(v) = n + 1 /\ \A i \in 1 .. n + 1 : v[i] = t[p + i - 1]
    BY <1>1, <2>1, WordParts
  <2>3. \A i \in 1 .. n : v[i] = w[i]
    <3> HIDE DEF v
    <3>1. \A i \in 1 .. n : i \in 1 .. n + 1
      BY <1>3
    <3> QED BY <1>5, <2>2, <3>1
  <2>4. v[n + 1] \in Letters \cup Digits
    <3>1. p + (n + 1) - 1 = p + n /\ n + 1 \in 1 .. n + 1
      BY <1>1, <1>3
    <3> HIDE DEF v
    <3> QED BY <1>8, <2>2, <3>1
  <2>5. IsIdentifier(w)
    <3>1. CASE w \in Keywords
      <4>1. w \in Seq(Letters)
        BY <3>1, CharactersTold
      <4>2. \A i \in 1 .. n : w[i] \in Letters
        BY <1>5, <4>1, ElementOfSeq
      <4> QED BY <1>3, <1>5, <4>2 DEF IsIdentifier
    <3>2. CASE w \notin Keywords
      BY <1>8, <3>2 DEF TypeOf
    <3> QED BY <3>1, <3>2
  <2> HIDE DEF v
  <2>6. IsIdentifier(v)
    <3>1. v[1] \in Letters \cup {Underscore}
      BY <1>3, <2>3, <2>5 DEF IsIdentifier
    <3>2. ASSUME NEW i \in 2 .. n + 1 PROVE v[i] \in Letters \cup Digits
      <4>1. CASE i = n + 1
        BY <2>4, <4>1
      <4>2. CASE i # n + 1
        <5>1. i \in 1 .. n /\ i \in 2 .. Len(w)
          BY <1>3, <1>5, <4>2
        <5> QED BY <2>3, <2>5, <5>1 DEF IsIdentifier
      <4> QED BY <4>1, <4>2
    <3> QED BY <2>2, <3>1, <3>2 DEF IsIdentifier
  <2>7. TypeOf(v) # "unknown"
    BY <2>6 DEF TypeOf
  <2>8. n + 1 \in Matches(t, p)
    BY <2>1, <2>7 DEF Matches, v
  <2> QED BY <1>2, <1>3, <2>8
<1>9. p + n - 1 < Len(t) => t[p + n] = t[p + Len(w)]
  BY <1>5
<1> QED BY <1>4, <1>5, <1>6, <1>7, <1>8, <1>9 DEF p

----------------------------------------------------------------------------
(* The invariant: the tokens taken are good ones, and where the program is *)
(* says how far it has come.                                               *)

Where ==
    /\ mode \in {"prompt", "tokenize", "tokenized", "refused", "left"}
    /\ mode \in {"prompt", "left"} => pos = 1 /\ tokens = <<>>
    /\ mode = "tokenized" => pos = Len(text) + 1
    /\ mode = "refused" => /\ pos <= Len(text) /\ Matches(text, pos) = {}
                           /\ text[pos] \notin Blanks

IInv == Where /\ text \in Seq(Chars) /\ Len(text) <= MaxText /\ Good(text, pos, tokens)

LEMMA LineRead ==
    ASSUME IInv, NEW line \in Lines
    PROVE  text \o line \in Seq(Chars) /\ Len(text \o line) <= MaxText
<1>1. Len(text) \in Nat /\ MaxText \in Nat /\ text \in Seq(Chars)
  BY LenProperties, CharactersTold DEF IInv
<1>2. PICK n \in 0 .. MaxText - Len(text) : line \in [1 .. n -> Chars]
  BY DEF Lines
<1>3. line \in Seq(Chars) /\ Len(line) = n
  <2>1. n \in Nat
    BY <1>1
  <2>2. line \in Seq(Chars)
    BY <1>2, <2>1, SeqDef
  <2> QED BY <1>2, <2>1, <2>2, LenProperties
<1> QED BY <1>1, <1>2, <1>3, ConcatProperties

LEMMA InitHolds == Init => IInv
<1> SUFFICES ASSUME Init PROVE IInv
  OBVIOUS
<1>1. text \in Seq(Chars) /\ Len(text) = 0 /\ MaxText \in Nat
  BY CharactersTold, EmptySeq DEF Init
<1>2. Good(text, pos, tokens)
  BY <1>1, GoodAtStart DEF Init
<1> QED BY <1>1, <1>2 DEF Init, IInv, Where

LEMMA NextHolds == IInv /\ [Next]_vars => IInv'
<1> SUFFICES ASSUME IInv, [Next]_vars PROVE IInv'
  OBVIOUS
<1>1. Len(text) \in Nat /\ MaxText \in Nat /\ text \in Seq(Chars) /\ pos \in 1 .. Len(text) + 1
  BY LenProperties, CharactersTold DEF IInv, Good
<1>2. ASSUME NEW line \in Lines, ReadLine(line) PROVE IInv'
  <2>1. text' \in Seq(Chars) /\ Len(text') <= MaxText
    BY <1>2, LineRead DEF ReadLine
  <2>2. pos' = 1 /\ tokens' = <<>> /\ mode' \in {"prompt", "tokenize"}
    BY <1>2 DEF ReadLine, IInv, Where
  <2>3. Good(text', pos', tokens')
    BY <2>1, <2>2, GoodAtStart
  <2> QED BY <2>1, <2>2, <2>3 DEF IInv, Where
<1>3. CASE Leave
  BY <1>3 DEF Leave, IInv, Where
<1>4. CASE TakeToken
  <2>1. pos \in 1 .. Len(text)
    BY <1>1, <1>4 DEF TakeToken
  <2>2. /\ LongestMatch(text, pos) \in Matches(text, pos)
        /\ \A m \in Matches(text, pos) : m <= LongestMatch(text, pos)
    BY <1>1, <1>4, <2>1, MatchesBounded DEF TakeToken
  <2>3. Good(text, pos + LongestMatch(text, pos),
             Append(tokens, Token(text, pos, LongestMatch(text, pos))))
    BY <1>1, <2>1, <2>2, AfterToken DEF IInv
  <2> QED BY <1>4, <2>3 DEF TakeToken, IInv, Where
<1>5. CASE SkipBlank
  <2>1. pos \in 1 .. Len(text)
    BY <1>1, <1>5 DEF SkipBlank
  <2>2. Good(text, pos + 1, tokens)
    BY <1>1, <1>5, <2>1, AfterBlank DEF SkipBlank, IInv
  <2> QED BY <1>5, <2>2 DEF SkipBlank, IInv, Where
<1>6. CASE Refuse
  BY <1>6 DEF Refuse, IInv, Where
<1>7. CASE Finish
  BY <1>1, <1>7 DEF Finish, IInv, Where
<1>8. CASE Return
  <2>1. text' \in Seq(Chars) /\ Len(text') = 0
    BY <1>8, EmptySeq DEF Return
  <2>2. Good(text', pos', tokens')
    BY <1>8, <2>1, GoodAtStart DEF Return
  <2> QED BY <1>1, <1>8, <2>1, <2>2 DEF Return, IInv, Where
<1>9. CASE UNCHANGED vars
  BY <1>9 DEF vars, IInv, Where
<1> QED BY <1>2, <1>3, <1>4, <1>5, <1>6, <1>7, <1>8, <1>9 DEF Next, Tokenize

LEMMA Invariance == Spec => []IInv
<1>1. Init => IInv
  BY InitHolds
<1>2. IInv /\ [Next]_vars => IInv'
  BY NextHolds
<1> QED BY <1>1, <1>2, PTL DEF Spec

LEMMA TokensTyped ==
    ASSUME IInv
    PROVE  /\ tokens \in Seq(Tokens) /\ DOMAIN tokens = 1 .. Len(tokens)
           /\ \A i \in DOMAIN tokens : tokens[i] \in Tokens /\ Fits(text, tokens[i])
           /\ \A i : EndOf(i) = EndAt(tokens, i)
           /\ text \in Seq(Chars) /\ Len(text) \in Nat /\ pos \in 1 .. Len(text) + 1
<1>1. tokens \in Seq(Tokens) /\ text \in Seq(Chars) /\ pos \in 1 .. Len(text) + 1
  BY DEF IInv, Good
<1>2. DOMAIN tokens = 1 .. Len(tokens) /\ Len(text) \in Nat
  BY <1>1, LenProperties
<1>3. \A i \in DOMAIN tokens : tokens[i] \in Tokens
  BY <1>1, <1>2, ElementOfSeq
<1>4. \A i \in DOMAIN tokens : Fits(text, tokens[i])
  BY DEF IInv, Good, Taken
<1>5. \A i : EndOf(i) = EndAt(tokens, i)
  BY DEF EndOf, EndAt
<1> QED BY <1>1, <1>2, <1>3, <1>4, <1>5

----------------------------------------------------------------------------
\* The position stays in the text or just behind it, and every token has one of
\* the five types.
THEOREM TypesHold == Spec => []TypeOK
<1>1. IInv => TypeOK
  <2> SUFFICES ASSUME IInv PROVE TypeOK
    OBVIOUS
  <2>1. pos \in 1 .. Len(text) + 1 /\ text \in Seq(Chars)
    BY TokensTyped
  <2>2. \A i \in DOMAIN tokens : /\ tokens[i].type \in Types
                                 /\ tokens[i].lexeme \in Seq(Chars)
    BY TokensTyped DEF Tokens
  <2> QED BY <2>1, <2>2 DEF IInv, Where, TypeOK, Types
<1> QED BY <1>1, Invariance, PTL

\* tokenize's rounds lose and repeat nothing: the tokens are the text up to the
\* position, in order, with only blanks between them.
THEOREM TextCovered == Spec => []TokensCoverText
<1>1. IInv => TokensCoverText
  <2> SUFFICES ASSUME IInv PROVE TokensCoverText
    OBVIOUS
  <2>1. ASSUME NEW i \in DOMAIN tokens
        PROVE  tokens[i].lexeme = SubSeq(text, tokens[i].at, EndOf(i))
    <3>1. i # 0
      BY TokensTyped
    <3>2. EndOf(i) = tokens[i].at + Len(tokens[i].lexeme) - 1
      BY <3>1 DEF EndOf
    <3> QED BY <3>2, TokensTyped, WordEnds
  <2>2. Covered(text, pos, tokens)
    BY DEF IInv, Good
  <2> QED BY <2>1, <2>2, TokensTyped DEF Covered, TokensCoverText
<1> QED BY <1>1, Invariance, PTL

\* The longest match never ends a word before a letter or a digit, and never
\* takes a keyword for an identifier.
THEOREM WordsStayWhole == Spec => []WordsWhole
<1>1. IInv => WordsWhole
  <2> SUFFICES ASSUME IInv, NEW i \in DOMAIN tokens
               PROVE  /\ tokens[i].type \in {"keyword", "identifier"} /\ EndOf(i) < Len(text)
                            => text[EndOf(i) + 1] \notin Letters \cup Digits
                      /\ tokens[i].lexeme \in Keywords <=> tokens[i].type = "keyword"
    BY DEF WordsWhole
  <2>1. i # 0 /\ tokens[i].at \in Nat /\ Len(tokens[i].lexeme) \in Nat
    BY TokensTyped, LenProperties DEF Tokens
  <2>2. EndOf(i) = tokens[i].at + Len(tokens[i].lexeme) - 1
    BY <2>1 DEF EndOf
  <2>3. EndOf(i) + 1 = tokens[i].at + Len(tokens[i].lexeme)
    BY <2>1, <2>2
  <2> QED BY <2>2, <2>3, TokensTyped, WordEnds
<1> QED BY <1>1, Invariance, PTL

\* tokenize refuses a text for a strange character outside its literals, told
\* by counting quotes, and for nothing else.
THEOREM RefusalExplained == Spec => []RefusedForStrangeCharacter
<1>1. IInv => RefusedForStrangeCharacter
  <2> SUFFICES ASSUME IInv PROVE RefusedForStrangeCharacter
    OBVIOUS
  <2>1. \A i : InLiteral(i) <=> InLit(text, i)
    BY DEF InLiteral, QuotesIn, InLit, Quotes, QuoteSet
  <2>2. ASSUME mode = "refused" PROVE pos \in 1 .. Len(text) /\ text[pos] \in Strange /\ ~InLit(text, pos)
    <3>1. pos \in 1 .. Len(text) /\ Matches(text, pos) = {} /\ text[pos] \notin Blanks
      BY <2>2, TokensTyped DEF IInv, Where
    <3>2. text[pos] \in Chars
      BY <3>1, TokensTyped, ElementOfSeq
    <3>3. text[pos] \in Strange
      BY <3>1, <3>2, TokensTyped, OneCharacterMatches DEF Chars, WordChars
    <3> QED BY <3>1, <3>3, TokensTyped, BalancedOutside DEF IInv, Good
  <2>3. ASSUME mode = "tokenized", NEW i \in 1 .. Len(text), text[i] \in Strange PROVE InLit(text, i)
    <3>1. i \in 1 .. pos - 1
      BY <2>3, TokensTyped DEF IInv, Where
    <3>2. text[i] # Quote
      BY <2>3, Apart
    <3> QED BY <2>3, <3>1, <3>2 DEF IInv, Good, LiteralsSoFar
  <2> QED BY <2>1, <2>2, <2>3 DEF RefusedForStrangeCharacter
<1> QED BY <1>1, Invariance, PTL

\* The characters between a quote that opens and the quote that closes it are
\* exactly those of the varchar tokens.
THEOREM LiteralsAreKept == Spec => []LiteralsKept
<1>1. IInv => LiteralsKept
  <2> SUFFICES ASSUME IInv, mode = "tokenized", NEW i \in 1 .. Len(text), text[i] # Quote
               PROVE  InLiteral(i) <=>
                        \E k \in DOMAIN tokens : /\ tokens[k].type = "varchar"
                                                 /\ i \in tokens[k].at .. EndOf(k)
    BY DEF LiteralsKept
  <2>1. InLiteral(i) <=> InLit(text, i)
    BY DEF InLiteral, QuotesIn, InLit, Quotes, QuoteSet
  <2>2. i \in 1 .. pos - 1
    BY TokensTyped DEF IInv, Where
  <2>3. InLit(text, i) <=> InVarchar(tokens, i)
    BY <2>2 DEF IInv, Good, LiteralsSoFar
  <2> QED BY <2>1, <2>3, TokensTyped DEF InVarchar
<1> QED BY <1>1, Invariance, PTL
=============================================================================
