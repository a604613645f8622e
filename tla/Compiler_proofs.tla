-------------------------- MODULE Compiler_proofs --------------------------
(***************************************************************************)
(* What holds of the parser and the generator for names, literals and      *)
(* lists of any number: the types, that the statement accepted is the one  *)
(* written, that a stream is refused at its first wrong token and not      *)
(* before, and what a program tells of its statement.                      *)
(***************************************************************************)
EXTENDS Compiler, SeqLemmas

----------------------------------------------------------------------------
(* Token streams. *)

Streams == Seq(Tokens)

LEMMA TokenKinds ==
    /\ \A w \in Words : Word(w) \in Tokens /\ Word(w).type = w
    /\ \A n \in Names : Name(n) \in Tokens /\ Name(n).type = "name" /\ Name(n).lexeme = n
    /\ \A n \in Numbers : Number(n) \in Tokens /\ Number(n).type = "number" /\ Number(n).lexeme = n
    /\ \A x \in Texts : Text(x) \in Tokens /\ Text(x).type = "text" /\ Text(x).lexeme = x
BY DEF Tokens, Word, Name, Number, Text

\* The type of a token tells what it is made of.
LEMMA TokenOfType ==
    ASSUME NEW t \in Tokens
    PROVE  /\ t.type = "name" => t.lexeme \in Names /\ t = Name(t.lexeme)
           /\ t.type = "number" => t.lexeme \in Numbers /\ t = Number(t.lexeme)
           /\ t.type = "text" => t.lexeme \in Texts /\ t = Text(t.lexeme)
           /\ t.type \in Words => t = Word(t.type)
           /\ t.type \in Words \cup {"name", "number", "text"}
<1>1. CASE \E w \in Words : t = Word(w)
  <2>1. PICK w \in Words : t = Word(w)
    BY <1>1
  <2>2. t.type = w
    BY <2>1 DEF Word
  <2>3. "name" \notin Words /\ "number" \notin Words /\ "text" \notin Words
    BY DEF Words
  <2> QED BY <2>1, <2>2, <2>3
<1>2. CASE \E n \in Names : t = Name(n)
  BY <1>2 DEF Name, Words
<1>3. CASE \E n \in Numbers : t = Number(n)
  BY <1>3 DEF Number, Words
<1>4. CASE \E x \in Texts : t = Text(x)
  BY <1>4 DEF Text, Words
<1> QED BY <1>1, <1>2, <1>3, <1>4 DEF Tokens

LEMMA OneToken ==
    ASSUME NEW w \in Streams, NEW t \in Tokens
    PROVE  /\ <<t>> \in Streams /\ Append(w, t) \in Streams /\ w \o <<t>> = Append(w, t)
           /\ <<>> \in Streams /\ <<t>> # <<>> /\ Len(<<t>>) = 1 /\ <<t>>[1] = t
           /\ Append(<<>>, t) = <<t>>
<1>1. <<t>> \in Seq(Tokens) /\ <<>> \in Seq(Tokens)
  BY EmptySeq
<1>2. Append(w, t) \in Seq(Tokens) /\ Append(w, t) = w \o <<t>>
  BY AppendProperties, AppendIsConcat DEF Streams
<1>3. Append(<<>>, t) = <<t>>
  OBVIOUS
<1> QED BY <1>1, <1>2, <1>3 DEF Streams

LEMMA JoinStreams ==
    ASSUME NEW a \in Streams, NEW b \in Streams
    PROVE  a \o b \in Streams /\ a \o <<>> = a /\ <<>> \o a = a
BY ConcatProperties, ConcatEmptySeq DEF Streams

LEMMA JoinsAssociate ==
    ASSUME NEW a \in Streams, NEW b \in Streams, NEW c \in Streams
    PROVE  (a \o b) \o c = a \o (b \o c)
BY ConcatAssociative DEF Streams

\* The same for three given streams among many.
Associate(a, b, c) == (a \o b) \o c = a \o (b \o c)

LEMMA StreamsAssociate == \A a, b, c \in Streams : Associate(a, b, c)
BY JoinsAssociate DEF Associate

LEMMA TuplesGrow ==
    /\ \A a, b \in Tokens : Append(<<a>>, b) = <<a, b>>
    /\ \A a, b, c \in Tokens : Append(<<a, b>>, c) = <<a, b, c>>
    /\ \A a, b, c, d \in Tokens : Append(<<a, b, c>>, d) = <<a, b, c, d>>
    /\ \A a, b, c, d, e \in Tokens : Append(<<a, b, c, d>>, e) = <<a, b, c, d, e>>
<1>1. ASSUME NEW a \in Tokens, NEW b \in Tokens PROVE Append(<<a>>, b) = <<a, b>>
  <2>1. <<a>> \in Seq(Tokens) /\ <<a, b>> \in Seq(Tokens) /\ Len(<<a>>) = 1 /\ Len(<<a, b>>) = 2
    OBVIOUS
  <2>2. /\ Append(<<a>>, b) \in Seq(Tokens) /\ Len(Append(<<a>>, b)) = 2
        /\ \A i \in 1 .. 2 : Append(<<a>>, b)[i] = <<a, b>>[i]
    <3>1. \A i \in 1 .. 2 : i \in 1 .. 1 \/ i = 2
      OBVIOUS
    <3>2. \A i \in 1 .. 1 : <<a>>[i] = <<a, b>>[i]
      OBVIOUS
    <3>3. /\ Append(<<a>>, b) \in Seq(Tokens) /\ Len(Append(<<a>>, b)) = 2
          /\ \A i \in 1 .. 1 : Append(<<a>>, b)[i] = <<a>>[i]
          /\ Append(<<a>>, b)[2] = b
      BY <2>1, AppendProperties
    <3> QED BY <3>1, <3>2, <3>3
  <2> QED BY <2>1, <2>2, SeqEqual
<1>2. ASSUME NEW a \in Tokens, NEW b \in Tokens, NEW c \in Tokens
      PROVE  Append(<<a, b>>, c) = <<a, b, c>>
  <2>1. /\ <<a, b>> \in Seq(Tokens)
        /\ <<a, b, c>> \in Seq(Tokens)
        /\ Len(<<a, b>>) = 2
        /\ Len(<<a, b, c>>) = 3
    OBVIOUS
  <2>2. /\ Append(<<a, b>>, c) \in Seq(Tokens) /\ Len(Append(<<a, b>>, c)) = 3
        /\ \A i \in 1 .. 3 : Append(<<a, b>>, c)[i] = <<a, b, c>>[i]
    <3>1. \A i \in 1 .. 3 : i \in 1 .. 2 \/ i = 3
      OBVIOUS
    <3>2. \A i \in 1 .. 2 : <<a, b>>[i] = <<a, b, c>>[i]
      OBVIOUS
    <3>3. /\ Append(<<a, b>>, c) \in Seq(Tokens) /\ Len(Append(<<a, b>>, c)) = 3
          /\ \A i \in 1 .. 2 : Append(<<a, b>>, c)[i] = <<a, b>>[i]
          /\ Append(<<a, b>>, c)[3] = c
      BY <2>1, AppendProperties
    <3> QED BY <3>1, <3>2, <3>3
  <2> QED BY <2>1, <2>2, SeqEqual
<1>3. ASSUME NEW a \in Tokens, NEW b \in Tokens, NEW c \in Tokens, NEW d \in Tokens
      PROVE  Append(<<a, b, c>>, d) = <<a, b, c, d>>
  <2>1. /\ <<a, b, c>> \in Seq(Tokens)
        /\ <<a, b, c, d>> \in Seq(Tokens)
        /\ Len(<<a, b, c>>) = 3
        /\ Len(<<a, b, c, d>>) = 4
    OBVIOUS
  <2>2. /\ Append(<<a, b, c>>, d) \in Seq(Tokens) /\ Len(Append(<<a, b, c>>, d)) = 4
        /\ \A i \in 1 .. 4 : Append(<<a, b, c>>, d)[i] = <<a, b, c, d>>[i]
    <3>1. \A i \in 1 .. 4 : i \in 1 .. 3 \/ i = 4
      OBVIOUS
    <3>2. \A i \in 1 .. 3 : <<a, b, c>>[i] = <<a, b, c, d>>[i]
      OBVIOUS
    <3>3. /\ Append(<<a, b, c>>, d) \in Seq(Tokens) /\ Len(Append(<<a, b, c>>, d)) = 4
          /\ \A i \in 1 .. 3 : Append(<<a, b, c>>, d)[i] = <<a, b, c>>[i]
          /\ Append(<<a, b, c>>, d)[4] = d
      BY <2>1, AppendProperties
    <3> QED BY <3>1, <3>2, <3>3
  <2> QED BY <2>1, <2>2, SeqEqual
<1>4. ASSUME NEW a \in Tokens, NEW b \in Tokens, NEW c \in Tokens, NEW d \in Tokens, NEW e \in Tokens
      PROVE  Append(<<a, b, c, d>>, e) = <<a, b, c, d, e>>
  <2>1. /\ <<a, b, c, d>> \in Seq(Tokens)
        /\ <<a, b, c, d, e>> \in Seq(Tokens)
        /\ Len(<<a, b, c, d>>) = 4
        /\ Len(<<a, b, c, d, e>>) = 5
    OBVIOUS
  <2>2. /\ Append(<<a, b, c, d>>, e) \in Seq(Tokens) /\ Len(Append(<<a, b, c, d>>, e)) = 5
        /\ \A i \in 1 .. 5 : Append(<<a, b, c, d>>, e)[i] = <<a, b, c, d, e>>[i]
    <3>1. \A i \in 1 .. 5 : i \in 1 .. 4 \/ i = 5
      OBVIOUS
    <3>2. \A i \in 1 .. 4 : <<a, b, c, d>>[i] = <<a, b, c, d, e>>[i]
      OBVIOUS
    <3>3. /\ Append(<<a, b, c, d>>, e) \in Seq(Tokens) /\ Len(Append(<<a, b, c, d>>, e)) = 5
          /\ \A i \in 1 .. 4 : Append(<<a, b, c, d>>, e)[i] = <<a, b, c, d>>[i]
          /\ Append(<<a, b, c, d>>, e)[5] = e
      BY <2>1, AppendProperties
    <3> QED BY <3>1, <3>2, <3>3
  <2> QED BY <2>1, <2>2, SeqEqual
<1> QED BY <1>1, <1>2, <1>3, <1>4

LEMMA JoinAppended ==
    ASSUME NEW a \in Streams, NEW b \in Streams, NEW t \in Tokens
    PROVE  a \o Append(b, t) = Append(a \o b, t)
<1> DEFINE c == <<t>>
<1>1. c \in Streams /\ Append(b, t) = b \o c
  BY OneToken
<1>2. a \o b \in Streams /\ Append(a \o b, t) = (a \o b) \o c
  <2>1. a \o b \in Streams
    BY JoinStreams
  <2> QED BY <2>1, OneToken
<1> HIDE DEF c
<1>3. (a \o b) \o c = a \o (b \o c)
  BY <1>1, JoinsAssociate
<1> QED BY <1>1, <1>2, <1>3

LEMMA WrittenWords ==
    /\ \A a \in Words : Written(<<a>>) = <<Word(a)>>
    /\ \A a, b \in Words : Written(<<a, b>>) = <<Word(a), Word(b)>>
<1>1. \A a \in Words : DOMAIN <<a>> = {1}
  OBVIOUS
<1>2. \A a, b \in Words : DOMAIN <<a, b>> = {1, 2}
  OBVIOUS
<1>3. ASSUME NEW a \in Words PROVE Written(<<a>>) = <<Word(a)>>
  <2>1. Written(<<a>>) = [i \in {1} |-> Word(a)]
    BY <1>1 DEF Written
  <2> QED BY <2>1
<1>4. ASSUME NEW a \in Words, NEW b \in Words PROVE Written(<<a, b>>) = <<Word(a), Word(b)>>
  <2>1. Written(<<a, b>>) = [i \in {1, 2} |-> Word(<<a, b>>[i])]
    BY <1>2 DEF Written
  <2> QED BY <2>1
<1> QED BY <1>3, <1>4

----------------------------------------------------------------------------
(* Lists joined by commas. *)

LEMMA FlattenAppended ==
    ASSUME NEW A, NEW ss \in Seq(Seq(A)), NEW x \in Seq(A)
    PROVE  FlattenSeq(ss) \in Seq(A) /\ FlattenSeq(Append(ss, x)) = FlattenSeq(ss) \o x
<1> DEFINE n  == Len(ss)
           tt == Append(ss, x)
<1>1. n \in Nat /\ tt \in Seq(Seq(A)) /\ Len(tt) = n + 1 /\ tt[n + 1] = x
      /\ \A i \in 1 .. n : tt[i] = ss[i]
  BY AppendProperties, LenProperties
<1>2. PICK f \in [0 .. n -> Seq(A)] :
         /\ f[0] = <<>> /\ f[n] = FlattenSeq(ss)
         /\ \A i \in 1 .. n : f[i] = f[i - 1] \o ss[i]
  BY Flattened
<1> HIDE DEF tt
<1>3. PICK g \in [0 .. Len(tt) -> Seq(A)] :
         /\ g[0] = <<>> /\ g[Len(tt)] = FlattenSeq(tt)
         /\ \A i \in 1 .. Len(tt) : g[i] = g[i - 1] \o tt[i]
  BY <1>1, Flattened
<1> HIDE DEF n
<1>4. 0 .. n \subseteq {i \in 0 .. n : g[i] = f[i]}
  <2> DEFINE S == {i \in 0 .. n : g[i] = f[i]}
  <2>1. 0 \in S
    BY <1>1, <1>2, <1>3
  <2>2. \A i \in 0 .. n - 1 : i \in S => i + 1 \in S
    <3>1. ASSUME NEW i \in 0 .. n - 1, i \in S PROVE i + 1 \in S
      <4>1. i + 1 \in 1 .. n /\ i + 1 \in 1 .. Len(tt) /\ (i + 1) - 1 = i /\ i + 1 \in 0 .. n
        BY <1>1
      <4>2. g[i + 1] = g[i] \o tt[i + 1] /\ f[i + 1] = f[i] \o ss[i + 1]
        BY <1>2, <1>3, <4>1
      <4> QED BY <1>1, <3>1, <4>1, <4>2
    <3> QED BY <3>1
  <2> HIDE DEF S
  <2>3. 0 .. n \subseteq S
    BY <1>1, <2>1, <2>2, InductionUpTo
  <2> QED BY <2>3 DEF S
<1>5. g[n] = f[n] /\ g[n + 1] = g[n] \o tt[n + 1]
  <2>1. n + 1 \in 1 .. Len(tt) /\ (n + 1) - 1 = n /\ n \in 0 .. n
    BY <1>1
  <2> QED BY <1>3, <1>4, <2>1
<1>6. FlattenSeq(ss) \in Seq(A)
  <2>1. n \in 0 .. n
    BY <1>1
  <2> QED BY <1>2, <2>1
<1> QED BY <1>1, <1>2, <1>3, <1>5, <1>6 DEF tt

LEMMA FlattenNothing == FlattenSeq(<<>>) = <<>>
<1>1. <<>> \in Seq(Seq({})) /\ Len(<<>>) = 0
  BY EmptySeq
<1>2. PICK f \in [0 .. Len(<<>>) -> Seq({})] : f[0] = <<>> /\ f[Len(<<>>)] = FlattenSeq(<<>>)
  BY <1>1, Flattened
<1> QED BY <1>1, <1>2

LEMMA FlattenOne ==
    ASSUME NEW A, NEW x \in Seq(A)
    PROVE  FlattenSeq(<<x>>) = x
<1>1. <<>> \in Seq(Seq(A)) /\ Append(<<>>, x) = <<x>>
  BY EmptySeq
<1>2. FlattenSeq(Append(<<>>, x)) = FlattenSeq(<<>>) \o x
  BY <1>1, FlattenAppended
<1> QED BY <1>1, <1>2, FlattenNothing, ConcatEmptySeq

Comma == Word("COMMA")

LEMMA CommaIsToken == Comma \in Tokens /\ <<Comma>> \in Streams
<1>1. Comma \in Tokens
  BY TokenKinds DEF Comma, Words
<1> QED BY <1>1, EmptySeq, OneToken DEF Streams

\* The pieces that Joined flattens.
WithCommas(items) ==
    [i \in DOMAIN items |-> IF i = 1 THEN items[i] ELSE <<Word("COMMA")>> \o items[i]]

LEMMA CommasAreStreams ==
    ASSUME NEW items \in Seq(Streams)
    PROVE  WithCommas(items) \in Seq(Streams) /\ Joined(items) \in Streams
           /\ Joined(items) = FlattenSeq(WithCommas(items))
<1>1. Len(items) \in Nat /\ DOMAIN items = 1 .. Len(items)
      /\ \A i \in 1 .. Len(items) : items[i] \in Streams
  BY LenProperties, ElementOfSeq
<1>2. <<Comma>> \in Streams
  BY CommaIsToken
<1>3. \A i \in 1 .. Len(items) : <<Comma>> \o items[i] \in Streams
  BY <1>1, <1>2, JoinStreams
<1>4. WithCommas(items) \in Seq(Streams)
  <2>1. WithCommas(items) = [i \in 1 .. Len(items) |->
                               IF i = 1 THEN items[i] ELSE <<Comma>> \o items[i]]
    BY <1>1 DEF WithCommas, Comma
  <2>2. \A i \in 1 .. Len(items) :
           (IF i = 1 THEN items[i] ELSE <<Comma>> \o items[i]) \in Streams
    BY <1>1, <1>3
  <2> QED BY <1>1, <2>1, <2>2, IsASeq
<1>5. FlattenSeq(WithCommas(items)) \in Streams
  BY <1>4, FlattenAppended, EmptySeq DEF Streams
<1> QED BY <1>4, <1>5 DEF Joined, WithCommas

LEMMA JoinedLists ==
    /\ Joined(<<>>) = <<>>
    /\ \A x \in Streams : Joined(<<x>>) = x
    /\ \A items \in Seq(Streams), x \in Streams :
          items # <<>> => Joined(Append(items, x)) = Joined(items) \o (<<Comma>> \o x)
<1>1. Joined(<<>>) = <<>>
  <2>1. DOMAIN <<>> = {}
    OBVIOUS
  <2>2. WithCommas(<<>>) = <<>>
    BY <2>1 DEF WithCommas
  <2> QED BY <2>2, FlattenNothing DEF Joined, WithCommas
<1>2. ASSUME NEW x \in Streams PROVE Joined(<<x>>) = x
  <2>1. DOMAIN <<x>> = {1}
    OBVIOUS
  <2>2. WithCommas(<<x>>) = [i \in {1} |-> x]
    BY <2>1 DEF WithCommas
  <2>3. [i \in {1} |-> x] = <<x>>
    OBVIOUS
  <2> QED BY <2>2, <2>3, FlattenOne DEF Joined, WithCommas, Streams
<1>3. ASSUME NEW items \in Seq(Streams), NEW x \in Streams, items # <<>>
      PROVE  Joined(Append(items, x)) = Joined(items) \o (<<Comma>> \o x)
  <2> DEFINE more == Append(items, x)
             n    == Len(items)
             last == <<Comma>> \o x
  <2>1. /\ more \in Seq(Streams) /\ Len(more) = n + 1 /\ n \in Nat /\ n >= 1
        /\ \A i \in 1 .. n : more[i] = items[i]
        /\ more[n + 1] = x /\ DOMAIN more = 1 .. n + 1 /\ DOMAIN items = 1 .. n
    BY <1>3, AppendProperties, LenProperties, EmptySeq
  <2>2. last \in Streams
    BY CommaIsToken, JoinStreams
  <2> HIDE DEF more, n, last
  <2>3. WithCommas(items) \in Seq(Streams) /\ WithCommas(more) \in Seq(Streams)
    BY <2>1, CommasAreStreams
  <2>4. Append(WithCommas(items), last) \in Seq(Streams)
        /\ Len(WithCommas(items)) = n /\ Len(WithCommas(more)) = n + 1
        /\ Len(Append(WithCommas(items), last)) = n + 1
    <3>1. DOMAIN WithCommas(items) = 1 .. n /\ DOMAIN WithCommas(more) = 1 .. n + 1
      BY <2>1 DEF WithCommas
    <3>2. Len(WithCommas(items)) = n /\ Len(WithCommas(more)) = n + 1
      BY <2>1, <2>3, <3>1, LenProperties
    <3> QED BY <2>2, <2>3, <3>2, AppendProperties
  <2>5. /\ \A i \in 1 .. n + 1 :
              WithCommas(more)[i] = IF i = 1 THEN more[i] ELSE <<Comma>> \o more[i]
        /\ \A i \in 1 .. n :
              WithCommas(items)[i] = IF i = 1 THEN items[i] ELSE <<Comma>> \o items[i]
    BY <2>1 DEF WithCommas, Comma
  <2>6. /\ \A i \in 1 .. n : Append(WithCommas(items), last)[i] = WithCommas(items)[i]
        /\ Append(WithCommas(items), last)[n + 1] = last
    BY <2>2, <2>3, <2>4, AppendProperties
  <2>7. ASSUME NEW i \in 1 .. n + 1
        PROVE  WithCommas(more)[i] = Append(WithCommas(items), last)[i]
    <3>1. CASE i = n + 1
      <4>1. i # 1
        BY <2>1, <3>1
      <4>2. WithCommas(more)[i] = <<Comma>> \o more[i]
        BY <2>5, <4>1
      <4> QED BY <2>1, <2>6, <3>1, <4>2 DEF last
    <3>2. CASE i \in 1 .. n
      <4>1. more[i] = items[i]
        BY <2>1, <3>2
      <4>2. WithCommas(more)[i] = IF i = 1 THEN items[i] ELSE <<Comma>> \o items[i]
        BY <2>5, <4>1
      <4> QED BY <2>5, <2>6, <3>2, <4>2
    <3>3. n \in Nat
      BY <2>1
    <3>4. i = n + 1 \/ i \in 1 .. n
      BY <3>3
    <3> QED BY <3>1, <3>2, <3>4
  <2>8. WithCommas(more) = Append(WithCommas(items), last)
    BY <2>3, <2>4, <2>7, SeqEqual
  <2>9. FlattenSeq(Append(WithCommas(items), last)) = FlattenSeq(WithCommas(items)) \o last
    BY <2>2, <2>3, FlattenAppended DEF Streams
  <2> QED BY <2>1, <2>8, <2>9, CommasAreStreams DEF more, last
<1> QED BY <1>1, <1>2, <1>3

----------------------------------------------------------------------------
(* The list the parser is in: what comes before its next item, and its end. *)

Before(open, items) ==
    IF items = <<>> THEN open ELSE Append(open \o Joined(items), Comma)

Opened(head) == Append(head, Word("OPEN_PAREN"))

LEMMA ItemRead ==
    ASSUME NEW open \in Streams, NEW items \in Seq(Streams), NEW x \in Streams
    PROVE  /\ Before(open, items) \in Streams
           /\ Before(open, items) \o x = open \o Joined(Append(items, x))
           /\ open \o Joined(Append(items, x)) \in Streams
<1>1. Joined(items) \in Streams /\ Append(items, x) \in Seq(Streams)
  BY CommasAreStreams, AppendProperties
<1>2. open \o Joined(Append(items, x)) \in Streams
  BY <1>1, CommasAreStreams, JoinStreams
<1>3. CASE items = <<>>
  <2>1. Append(items, x) = <<x>>
    BY <1>3
  <2> QED BY <1>2, <1>3, <2>1, JoinedLists DEF Before
<1>4. CASE items # <<>>
  <2>1. Joined(Append(items, x)) = Joined(items) \o (<<Comma>> \o x)
    BY <1>4, JoinedLists
  <2> DEFINE list  == Joined(items)
             read  == open \o list
             comma == <<Comma>>
  <2>2. list \in Streams /\ read \in Streams /\ comma \in Streams
    BY <1>1, JoinStreams, CommaIsToken
  <2>3. Before(open, items) = Append(read, Comma) /\ Append(read, Comma) = read \o comma
    BY <1>4, <2>2, CommaIsToken, OneToken DEF Before
  <2> HIDE DEF list, read, comma
  <2>4. read \o comma \in Streams /\ comma \o x \in Streams
    BY <2>2, JoinStreams
  <2>5. (read \o comma) \o x = read \o (comma \o x)
    <3>1. Associate(read, comma, x)
      BY <2>2, StreamsAssociate, Zenon
    <3> QED BY <3>1 DEF Associate
  <2>6. read \o (comma \o x) = open \o (list \o (comma \o x))
    <3> DEFINE item == comma \o x
    <3> HIDE DEF item
    <3>1. item \in Streams
      BY <2>4 DEF item
    <3>2. Associate(open, list, item)
      BY <2>2, <3>1, StreamsAssociate, Zenon
    <3> QED BY <3>2 DEF Associate, read, item
  <2> QED BY <1>2, <2>1, <2>3, <2>4, <2>5, <2>6 DEF list, comma
<1> QED BY <1>3, <1>4

LEMMA ListClosed ==
    ASSUME NEW head \in Streams, NEW list \in Streams
    PROVE  /\ Opened(head) \in Streams /\ InParens(list) \in Streams
           /\ Append(Opened(head) \o list, Word("CLOSE_PAREN")) = head \o InParens(list)
<1>1. Word("OPEN_PAREN") \in Tokens /\ Word("CLOSE_PAREN") \in Tokens
  BY TokenKinds DEF Words
<1>2. /\ Written(<<"OPEN_PAREN">>) = <<Word("OPEN_PAREN")>>
      /\ Written(<<"CLOSE_PAREN">>) = <<Word("CLOSE_PAREN")>>
  BY WrittenWords DEF Words
<1>3. <<Word("OPEN_PAREN")>> \in Streams /\ <<Word("CLOSE_PAREN")>> \in Streams
  BY <1>1, OneToken
<1>4. Opened(head) \in Streams /\ Opened(head) = head \o <<Word("OPEN_PAREN")>>
  BY <1>1, OneToken DEF Opened
<1> DEFINE left  == <<Word("OPEN_PAREN")>>
           right == <<Word("CLOSE_PAREN")>>
           begun == left \o list
<1>5. InParens(list) = begun \o right /\ left \in Streams /\ right \in Streams
      /\ Opened(head) = head \o left
  BY <1>2, <1>3, <1>4 DEF InParens
<1> HIDE DEF left, right
<1>6. begun \in Streams
  BY <1>5, JoinStreams
<1>7. head \o begun = Opened(head) \o list
  <2>1. Associate(head, left, list)
    BY <1>5, StreamsAssociate, Zenon
  <2> QED BY <1>5, <2>1 DEF Associate
<1> HIDE DEF begun
<1>8. (head \o begun) \o right = head \o InParens(list)
  <2>1. Associate(head, begun, right)
    BY <1>5, <1>6, StreamsAssociate, Zenon
  <2> QED BY <1>5, <2>1 DEF Associate
<1>9. InParens(list) \in Streams
  BY <1>5, <1>6, JoinStreams
<1>10. Append(Opened(head) \o list, Word("CLOSE_PAREN")) = (head \o begun) \o right
  <2>1. Opened(head) \o list \in Streams
    BY <1>4, JoinStreams
  <2>2. Append(Opened(head) \o list, Word("CLOSE_PAREN")) = (Opened(head) \o list) \o right
    BY <1>1, <2>1, OneToken DEF right
  <2> QED BY <1>7, <2>2
<1> QED BY <1>4, <1>8, <1>10, <1>9

LEMMA MapAppended ==
    ASSUME NEW S, NEW T, NEW F \in [S -> T], NEW s \in Seq(S), NEW e \in S
    PROVE  /\ [i \in DOMAIN s |-> F[s[i]]] \in Seq(T)
           /\ Len([i \in DOMAIN s |-> F[s[i]]]) = Len(s)
           /\ [i \in DOMAIN Append(s, e) |-> F[Append(s, e)[i]]]
                  = Append([i \in DOMAIN s |-> F[s[i]]], F[e])
<1> DEFINE n   == Len(s)
           map == [i \in DOMAIN s |-> F[s[i]]]
           new == Append(s, e)
           end == [i \in DOMAIN new |-> F[new[i]]]
<1>1. /\ n \in Nat /\ DOMAIN s = 1 .. n /\ \A i \in 1 .. n : s[i] \in S
      /\ new \in Seq(S) /\ Len(new) = n + 1 /\ new[n + 1] = e /\ \A i \in 1 .. n : new[i] = s[i]
  BY LenProperties, ElementOfSeq, AppendProperties
<1>2. DOMAIN new = 1 .. n + 1 /\ \A i \in 1 .. n + 1 : new[i] \in S
  BY <1>1, LenProperties, ElementOfSeq
<1> HIDE DEF n, new
<1>3. map \in Seq(T) /\ Len(map) = n /\ \A i \in 1 .. n : map[i] = F[s[i]]
  <2>1. map = [i \in 1 .. n |-> F[s[i]]]
    BY <1>1
  <2>2. \A i \in 1 .. n : F[s[i]] \in T
    BY <1>1
  <2>3. map \in Seq(T) /\ DOMAIN map = 1 .. n
    BY <1>1, <2>1, <2>2, IsASeq
  <2> QED BY <1>1, <2>1, <2>3, LenProperties
<1>4. end \in Seq(T) /\ Len(end) = n + 1 /\ \A i \in 1 .. n + 1 : end[i] = F[new[i]]
  <2>1. end = [i \in 1 .. n + 1 |-> F[new[i]]]
    BY <1>2
  <2>2. \A i \in 1 .. n + 1 : F[new[i]] \in T
    BY <1>2
  <2>3. end \in Seq(T) /\ DOMAIN end = 1 .. n + 1
    BY <1>1, <2>1, <2>2, IsASeq
  <2> QED BY <1>1, <2>1, <2>3, LenProperties
<1> HIDE DEF map, end
<1>5. /\ Append(map, F[e]) \in Seq(T) /\ Len(Append(map, F[e])) = n + 1
      /\ \A i \in 1 .. n : Append(map, F[e])[i] = map[i]
      /\ Append(map, F[e])[n + 1] = F[e]
  BY <1>3, AppendProperties
<1>6. ASSUME NEW i \in 1 .. n + 1 PROVE end[i] = Append(map, F[e])[i]
  <2>1. i = n + 1 \/ i \in 1 .. n
    BY <1>1
  <2>2. CASE i = n + 1
    BY <1>1, <1>4, <1>5, <2>2
  <2>3. CASE i \in 1 .. n
    <3>1. end[i] = F[s[i]]
      BY <1>1, <1>4, <2>3
    <3> QED BY <1>3, <1>5, <2>3, <3>1
  <2> QED BY <2>1, <2>2, <2>3
<1>7. end = Append(map, F[e])
  BY <1>4, <1>5, <1>6, SeqEqual
<1> QED BY <1>3, <1>7 DEF map, end, new, n

Mapped(F, T, s, e) ==
    /\ [i \in DOMAIN s |-> F[s[i]]] \in Seq(T)
    /\ Len([i \in DOMAIN s |-> F[s[i]]]) = Len(s)
    /\ [i \in DOMAIN Append(s, e) |-> F[Append(s, e)[i]]] = Append([i \in DOMAIN s |-> F[s[i]]], F[e])

LEMMA MapGrows ==
    \A S, T : \A F \in [S -> T], s \in Seq(S), e \in S : Mapped(F, T, s, e)
BY MapAppended DEF Mapped

LEMMA ListsAre ==
    ASSUME NEW S, NEW lo \in Nat, NEW q
    PROVE  q \in Lists(S, lo) <=> q \in Seq(S) /\ Len(q) \in lo .. MaxColumns
<1>1. MaxColumns \in Nat
  BY CompilerAssumption
<1>2. ASSUME q \in Lists(S, lo) PROVE q \in Seq(S) /\ Len(q) \in lo .. MaxColumns
  <2>1. PICK n \in lo .. MaxColumns : q \in [1 .. n -> S]
    BY <1>2 DEF Lists
  <2>2. n \in Nat
    BY <1>1, <2>1
  <2>3. q = [i \in 1 .. n |-> q[i]] /\ \A i \in 1 .. n : q[i] \in S
    BY <2>1
  <2>4. [i \in 1 .. n |-> q[i]] \in Seq(S)
    BY <2>2, <2>3, IsASeq
  <2>5. q \in Seq(S) /\ DOMAIN q = 1 .. n
    BY <2>1, <2>3, <2>4
  <2>6. Len(q) = n
    BY <2>2, <2>5, LenProperties
  <2> QED BY <2>1, <2>5, <2>6
<1>3. ASSUME q \in Seq(S), Len(q) \in lo .. MaxColumns PROVE q \in Lists(S, lo)
  BY <1>3, LenProperties DEF Lists
<1> QED BY <1>2, <1>3

LEMMA ListGrows ==
    ASSUME NEW S, NEW lo \in {0, 1}, NEW q \in Lists(S, lo)
    PROVE  /\ q \in Seq(S) /\ Len(q) \in Nat /\ (q # <<>> <=> q \in Lists(S, 1)) /\ q \in Lists(S, 0)
           /\ Len(q) < MaxColumns => \A e \in S : Append(q, e) \in Lists(S, 1)
<1>1. q \in Seq(S) /\ Len(q) \in lo .. MaxColumns /\ MaxColumns \in Nat
  BY ListsAre, CompilerAssumption
<1>2. Len(q) \in Nat /\ Len(q) \in 0 .. MaxColumns
  BY <1>1
<1>3. q # <<>> <=> Len(q) \in 1 .. MaxColumns
  BY <1>1, <1>2, EmptySeq
<1>4. ASSUME Len(q) < MaxColumns, NEW e \in S PROVE Append(q, e) \in Lists(S, 1)
  <2>1. Append(q, e) \in Seq(S) /\ Len(Append(q, e)) = Len(q) + 1
    BY <1>1, AppendProperties
  <2>2. Len(q) + 1 \in 1 .. MaxColumns
    BY <1>1, <1>2, <1>4
  <2> QED BY <2>1, <2>2, ListsAre
<1> QED BY <1>1, <1>2, <1>3, <1>4, ListsAre

LEMMA EmptyList == ASSUME NEW S PROVE <<>> \in Lists(S, 0) /\ Len(<<>>) = 0 /\ 0 < MaxColumns
<1>1. <<>> \in Seq(S) /\ Len(<<>>) = 0 /\ MaxColumns \in Nat \ {0}
  BY EmptySeq, CompilerAssumption
<1>2. 0 \in 0 .. MaxColumns /\ 0 < MaxColumns
  BY <1>1
<1>3. <<>> \in Lists(S, 0)
  BY <1>1, <1>2, ListsAre
<1> QED BY <1>1, <1>2, <1>3

----------------------------------------------------------------------------
(* The items of the lists. *)

\* The columns of a sentence: names, the star, and those of a CREATE.
Plain(n)            == [name |-> n, type |-> "none", length |-> "none"]
IntColumn(n)        == [name |-> n, type |-> "INT", length |-> "none"]
VarcharColumn(n, l) == [name |-> n, type |-> "VARCHAR", length |-> l]

NameColumns    == PlainColumns("none")
AnyColumn      == NameColumns \cup {Plain("OP_STAR")}
WrittenColumns == TypedColumns("none", Numbers \cup {"none"})

NameItem(c)      == IF c.name = "OP_STAR" THEN Written(<<"OP_STAR">>) ELSE <<Name(c.name)>>
NameItems(cols)  ==
    [i \in DOMAIN cols |-> IF cols[i].name = "OP_STAR" THEN Written(<<"OP_STAR">>) ELSE <<Name(cols[i].name)>>]
ValueItems(vals) == [i \in DOMAIN vals |-> <<vals[i]>>]
DefItems(cols)   == [i \in DOMAIN cols |-> Definition(cols[i])]

LEMMA ItemsOfNothing ==
    NameItems(<<>>) = <<>> /\ ValueItems(<<>>) = <<>> /\ DefItems(<<>>) = <<>>
<1>1. DOMAIN <<>> = {}
  OBVIOUS
<1> QED BY <1>1 DEF NameItems, ValueItems, DefItems

LEMMA NameItemIs ==
    /\ \A n \in Names : /\ Plain(n) \in NameColumns /\ Plain(n).name = n
                        /\ NameItem(Plain(n)) = <<Name(n)>>
    /\ NameItem(Plain("OP_STAR")) = <<Word("OP_STAR")>>
    /\ \A c \in AnyColumn : NameItem(c) \in Streams
<1>1. \A n \in Names : Plain(n) \in NameColumns /\ Plain(n).name = n /\ n # "OP_STAR"
  BY CompilerAssumption DEF NameColumns, PlainColumns, Plain
<1>2. \A n \in Names : NameItem(Plain(n)) = <<Name(n)>>
  BY <1>1 DEF NameItem
<1>3. NameItem(Plain("OP_STAR")) = <<Word("OP_STAR")>>
  BY WrittenWords DEF NameItem, Plain, Words
<1>4. ASSUME NEW c \in AnyColumn PROVE NameItem(c) \in Streams
  <2>1. Word("OP_STAR") \in Tokens /\ \A n \in Names : Name(n) \in Tokens
    BY TokenKinds DEF Words
  <2>2. <<Word("OP_STAR")>> \in Streams /\ \A n \in Names : <<Name(n)>> \in Streams
    BY <2>1, OneToken, EmptySeq DEF Streams
  <2> QED BY <1>2, <1>3, <2>2 DEF AnyColumn, NameColumns, PlainColumns, Plain
<1> QED BY <1>1, <1>2, <1>3, <1>4

LEMMA NameItemsGrow ==
    ASSUME NEW cols \in Seq(AnyColumn), NEW c \in AnyColumn
    PROVE  /\ NameItems(cols) \in Seq(Streams) /\ Len(NameItems(cols)) = Len(cols)
           /\ NameItem(c) \in Streams
           /\ NameItems(Append(cols, c)) = Append(NameItems(cols), NameItem(c))
<1> DEFINE F == [x \in AnyColumn |-> NameItem(x)]
<1>1. F \in [AnyColumn -> Streams] /\ \A x \in AnyColumn : F[x] = NameItem(x)
  BY NameItemIs
<1>2. /\ \A i \in DOMAIN cols : cols[i] \in AnyColumn
      /\ \A i \in DOMAIN Append(cols, c) : Append(cols, c)[i] \in AnyColumn
  <2>1. Append(cols, c) \in Seq(AnyColumn)
    BY AppendProperties
  <2> QED BY <2>1, ElementOfSeq, LenProperties
<1> HIDE DEF F
<1>3. /\ [i \in DOMAIN cols |-> F[cols[i]]] \in Seq(Streams)
      /\ Len([i \in DOMAIN cols |-> F[cols[i]]]) = Len(cols)
      /\ [i \in DOMAIN Append(cols, c) |-> F[Append(cols, c)[i]]]
             = Append([i \in DOMAIN cols |-> F[cols[i]]], F[c])
  BY <1>1, MapAppended
<1>4. NameItems(cols) = [i \in DOMAIN cols |-> F[cols[i]]]
  BY <1>1, <1>2 DEF NameItems, NameItem
<1>5. NameItems(Append(cols, c)) = [i \in DOMAIN Append(cols, c) |-> F[Append(cols, c)[i]]]
  BY <1>1, <1>2 DEF NameItems, NameItem
<1> QED BY <1>1, <1>3, <1>4, <1>5, NameItemIs

LEMMA ValueItemsGrow ==
    ASSUME NEW vals \in Seq(Literals), NEW v \in Literals
    PROVE  /\ ValueItems(vals) \in Seq(Streams) /\ Len(ValueItems(vals)) = Len(vals)
           /\ <<v>> \in Streams
           /\ ValueItems(Append(vals, v)) = Append(ValueItems(vals), <<v>>)
<1> DEFINE F == [x \in Literals |-> <<x>>]
<1>1. Literals \subseteq Tokens
  BY DEF Literals, Tokens
<1>2. F \in [Literals -> Streams] /\ \A x \in Literals : F[x] = <<x>>
  <2>1. \A x \in Literals : <<x>> \in Streams
    BY <1>1, OneToken, EmptySeq DEF Streams
  <2> QED BY <2>1
<1>3. /\ \A i \in DOMAIN vals : vals[i] \in Literals
      /\ \A i \in DOMAIN Append(vals, v) : Append(vals, v)[i] \in Literals
  <2>1. Append(vals, v) \in Seq(Literals)
    BY AppendProperties
  <2> QED BY <2>1, ElementOfSeq, LenProperties
<1> HIDE DEF F
<1>4. /\ [i \in DOMAIN vals |-> F[vals[i]]] \in Seq(Streams)
      /\ Len([i \in DOMAIN vals |-> F[vals[i]]]) = Len(vals)
      /\ [i \in DOMAIN Append(vals, v) |-> F[Append(vals, v)[i]]]
             = Append([i \in DOMAIN vals |-> F[vals[i]]], F[v])
  BY <1>2, MapAppended
<1>5. ValueItems(vals) = [i \in DOMAIN vals |-> F[vals[i]]]
  BY <1>2, <1>3 DEF ValueItems
<1>6. ValueItems(Append(vals, v)) = [i \in DOMAIN Append(vals, v) |-> F[Append(vals, v)[i]]]
  BY <1>2, <1>3 DEF ValueItems
<1> QED BY <1>2, <1>4, <1>5, <1>6

LEMMA TypedColumnIs ==
    /\ \A n \in Names : IntColumn(n) \in WrittenColumns
    /\ \A n \in Names, l \in Numbers \cup {"none"} : VarcharColumn(n, l) \in WrittenColumns
    /\ \A c \in WrittenColumns : \E n \in Names :
          \/ c = IntColumn(n) \/ c = VarcharColumn(n, "none")
          \/ \E l \in Numbers : c = VarcharColumn(n, l)
<1>1. \A n \in Names : IntColumn(n) \in WrittenColumns
  BY DEF IntColumn, WrittenColumns, TypedColumns
<1>2. \A n \in Names, l \in Numbers \cup {"none"} : VarcharColumn(n, l) \in WrittenColumns
  BY DEF VarcharColumn, WrittenColumns, TypedColumns
<1>3. ASSUME NEW c \in WrittenColumns
      PROVE  \E n \in Names : \/ c = IntColumn(n) \/ c = VarcharColumn(n, "none")
                              \/ \E l \in Numbers : c = VarcharColumn(n, l)
  <2>1. CASE c \in [name : Names, type : {"INT"}, length : {"none"}]
    BY <2>1 DEF IntColumn
  <2>2. CASE c \in [name : Names, type : {"VARCHAR"}, length : Numbers \cup {"none"}]
    BY <2>2 DEF VarcharColumn
  <2> QED BY <2>1, <2>2 DEF WrittenColumns, TypedColumns
<1> QED BY <1>1, <1>2, <1>3

LEMMA TokensOfColumns ==
    /\ \A n \in Names : Name(n) \in Tokens
    /\ \A l \in Numbers : Number(l) \in Tokens
    /\ Word("INT") \in Tokens /\ Word("VARCHAR") \in Tokens
    /\ Word("OPEN_PAREN") \in Tokens /\ Word("CLOSE_PAREN") \in Tokens
BY TokenKinds DEF Words

LEMMA DefinitionIs ==
    ASSUME NEW n \in Names
    PROVE  /\ Definition(IntColumn(n)) = <<Name(n), Word("INT")>>
           /\ Definition(VarcharColumn(n, "none")) = <<Name(n), Word("VARCHAR")>>
           /\ \A l \in Numbers :
                 Definition(VarcharColumn(n, l))
                     = <<Name(n), Word("VARCHAR"), Word("OPEN_PAREN"), Number(l), Word("CLOSE_PAREN")>>
<1>1. <<Name(n), Word("INT")>> \in Streams /\ <<Name(n), Word("VARCHAR")>> \in Streams
  BY TokensOfColumns DEF Streams
<1>2. Definition(IntColumn(n)) = <<Name(n), Word("INT")>>
  <2>1. Definition(IntColumn(n)) = <<Name(n), Word("INT")>> \o <<>>
    BY DEF Definition, IntColumn
  <2> QED BY <1>1, <2>1, ConcatEmptySeq DEF Streams
<1>3. Definition(VarcharColumn(n, "none")) = <<Name(n), Word("VARCHAR")>>
  <2>1. Definition(VarcharColumn(n, "none")) = <<Name(n), Word("VARCHAR")>> \o <<>>
    BY DEF Definition, VarcharColumn
  <2> QED BY <1>1, <2>1, ConcatEmptySeq DEF Streams
<1>4. ASSUME NEW l \in Numbers
      PROVE  Definition(VarcharColumn(n, l))
                 = <<Name(n), Word("VARCHAR"), Word("OPEN_PAREN"), Number(l), Word("CLOSE_PAREN")>>
  <2>1. Definition(VarcharColumn(n, l)) = <<Name(n), Word("VARCHAR")>> \o InParens(<<Number(l)>>)
    BY CompilerAssumption DEF Definition, VarcharColumn
  <2>2. /\ Written(<<"OPEN_PAREN">>) = <<Word("OPEN_PAREN")>>
        /\ Written(<<"CLOSE_PAREN">>) = <<Word("CLOSE_PAREN")>>
    BY WrittenWords DEF Words
  <2> DEFINE name  == Name(n)
             type  == Word("VARCHAR")
             left  == Word("OPEN_PAREN")
             num   == Number(l)
             right == Word("CLOSE_PAREN")
  <2>3. name \in Tokens /\ type \in Tokens /\ left \in Tokens /\ num \in Tokens /\ right \in Tokens
    BY TokensOfColumns
  <2>4. Definition(VarcharColumn(n, l)) = <<name, type>> \o ((<<left>> \o <<num>>) \o <<right>>)
    BY <2>1, <2>2 DEF InParens
  <2> HIDE DEF name, type, left, num, right
  <2>5. /\ <<left>> \o <<num>> = <<left, num>>
        /\ <<left, num>> \o <<right>> = Append(<<left, num>>, right)
        /\ <<left, num>> \in Streams /\ <<left>> \in Streams /\ <<name, type>> \in Streams
    <3>1. <<left>> \in Streams /\ <<left, num>> \in Streams /\ <<name, type>> \in Streams
      BY <2>3 DEF Streams
    <3>2. <<left>> \o <<num>> = Append(<<left>>, num)
      BY <2>3, <3>1, OneToken
    <3>3. Append(<<left>>, num) = <<left, num>>
      BY <2>3, TuplesGrow
    <3>4. <<left, num>> \o <<right>> = Append(<<left, num>>, right)
      BY <2>3, <3>1, OneToken
    <3> QED BY <3>1, <3>2, <3>3, <3>4
  <2>6. <<name, type>> \o Append(<<left, num>>, right) = Append(<<name, type>> \o <<left, num>>, right)
    BY <2>3, <2>5, JoinAppended
  <2>7. <<left, num>> = Append(<<left>>, num)
    BY <2>3, TuplesGrow
  <2>8. <<name, type>> \o Append(<<left>>, num) = Append(<<name, type>> \o <<left>>, num)
    BY <2>3, <2>5, JoinAppended
  <2>9. <<name, type>> \o <<left>> = Append(<<name, type>>, left)
    BY <2>3, <2>5, OneToken
  <2>10. Append(Append(Append(<<name, type>>, left), num), right) = <<name, type, left, num, right>>
    <3>1. Append(<<name, type>>, left) = <<name, type, left>>
      BY <2>3, TuplesGrow
    <3>2. Append(<<name, type, left>>, num) = <<name, type, left, num>>
      BY <2>3, TuplesGrow
    <3>3. Append(<<name, type, left, num>>, right) = <<name, type, left, num, right>>
      BY <2>3, TuplesGrow
    <3> QED BY <3>1, <3>2, <3>3
  <2> QED BY <2>4, <2>5, <2>6, <2>7, <2>8, <2>9, <2>10 DEF name, type, left, num, right
<1> QED BY <1>2, <1>3, <1>4

LEMMA DefinitionsAreStreams == \A c \in WrittenColumns : Definition(c) \in Streams
<1> SUFFICES ASSUME NEW c \in WrittenColumns PROVE Definition(c) \in Streams
  OBVIOUS
<1>1. PICK n \in Names : \/ c = IntColumn(n) \/ c = VarcharColumn(n, "none")
                         \/ \E l \in Numbers : c = VarcharColumn(n, l)
  BY TypedColumnIs
<1>2. CASE c = IntColumn(n)
  <2>1. <<Name(n), Word("INT")>> \in Streams
    BY TokensOfColumns DEF Streams
  <2> QED BY <1>2, <2>1, DefinitionIs
<1>3. CASE c = VarcharColumn(n, "none")
  <2>1. <<Name(n), Word("VARCHAR")>> \in Streams
    BY TokensOfColumns DEF Streams
  <2> QED BY <1>3, <2>1, DefinitionIs
<1>4. CASE \E l \in Numbers : c = VarcharColumn(n, l)
  <2>1. PICK l \in Numbers : c = VarcharColumn(n, l)
    BY <1>4
  <2>2. <<Name(n), Word("VARCHAR"), Word("OPEN_PAREN"), Number(l), Word("CLOSE_PAREN")>> \in Streams
    BY TokensOfColumns DEF Streams
  <2> QED BY <2>1, <2>2, DefinitionIs
<1> QED BY <1>1, <1>2, <1>3, <1>4

LEMMA DefItemsGrow ==
    ASSUME NEW cols \in Seq(WrittenColumns), NEW c \in WrittenColumns
    PROVE  /\ DefItems(cols) \in Seq(Streams) /\ Len(DefItems(cols)) = Len(cols)
           /\ Definition(c) \in Streams
           /\ DefItems(Append(cols, c)) = Append(DefItems(cols), Definition(c))
<1> DEFINE F == [x \in WrittenColumns |-> Definition(x)]
<1>1. F \in [WrittenColumns -> Streams] /\ \A x \in WrittenColumns : F[x] = Definition(x)
  BY DefinitionsAreStreams
<1>2. /\ \A i \in DOMAIN cols : cols[i] \in WrittenColumns
      /\ \A i \in DOMAIN Append(cols, c) : Append(cols, c)[i] \in WrittenColumns
  <2>1. Append(cols, c) \in Seq(WrittenColumns)
    BY AppendProperties
  <2> QED BY <2>1, ElementOfSeq, LenProperties
<1> HIDE DEF F
<1>3. /\ [i \in DOMAIN cols |-> F[cols[i]]] \in Seq(Streams)
      /\ Len([i \in DOMAIN cols |-> F[cols[i]]]) = Len(cols)
      /\ [i \in DOMAIN Append(cols, c) |-> F[Append(cols, c)[i]]]
             = Append([i \in DOMAIN cols |-> F[cols[i]]], F[c])
  BY <1>1, MapAppended
<1>4. DefItems(cols) = [i \in DOMAIN cols |-> F[cols[i]]]
  BY <1>1, <1>2 DEF DefItems
<1>5. DefItems(Append(cols, c)) = [i \in DOMAIN Append(cols, c) |-> F[Append(cols, c)[i]]]
  BY <1>1, <1>2 DEF DefItems
<1> QED BY <1>1, <1>3, <1>4, <1>5, DefinitionsAreStreams

----------------------------------------------------------------------------
(* The moves of the parser and what they note. *)

LEMMA MoveOf ==
    ASSUME NEW place, NEW t, NEW next
    PROVE  next \in Goes(place, t) <=> \E m \in Moves : m[1] = place /\ m[2] = t.type /\ m[3] = next
BY DEF Goes

\* The places of each production.
SelectPlaces ==
    {"selectList", "selectNext", "selectColumn", "selectFrom", "selectTable", "selectEnd"}
InsertPlaces ==
    {"insertInto", "insertTable", "insertShape", "insertColumn", "insertNext",
     "insertValues", "insertOpen", "value", "valueNext", "insertEnd"}
CreatePlaces ==
    {"createWord", "createTable", "createOpen", "createColumn", "columnType",
     "varcharNext", "length", "lengthEnd", "createNext", "createEnd"}
ControlPlaces ==
    {"beginWord", "controlEnd"}

LEMMA PlacesOfMoves ==
    /\ \A m \in SelectMoves : m[1] \in SelectPlaces \cup {"statement"}
    /\ \A m \in InsertMoves : m[1] \in InsertPlaces \cup {"statement"}
    /\ \A m \in CreateMoves : m[1] \in CreatePlaces \cup {"statement"}
    /\ \A m \in ControlMoves : m[1] \in ControlPlaces \cup {"statement"}
<1>1. \A m \in SelectMoves : m[1] \in SelectPlaces \cup {"statement"}
  BY DEF SelectMoves, SelectPlaces
<1>2. \A m \in InsertMoves : m[1] \in InsertPlaces \cup {"statement"}
  BY DEF InsertMoves, InsertPlaces
<1>3. \A m \in CreateMoves : m[1] \in CreatePlaces \cup {"statement"}
  BY DEF CreateMoves, CreatePlaces
<1>4. \A m \in ControlMoves : m[1] \in ControlPlaces \cup {"statement"}
  BY DEF ControlMoves, ControlPlaces
<1> QED BY <1>1, <1>2, <1>3, <1>4

LEMMA PlacesApart ==
    /\ SelectPlaces \cap (InsertPlaces \cup CreatePlaces \cup ControlPlaces) = {}
    /\ InsertPlaces \cap (CreatePlaces \cup ControlPlaces) = {}
    /\ CreatePlaces \cap ControlPlaces = {}
    /\ "statement" \notin SelectPlaces \cup InsertPlaces \cup CreatePlaces \cup ControlPlaces
    /\ Outcomes \cap (SelectPlaces \cup InsertPlaces \cup CreatePlaces \cup ControlPlaces
                         \cup {"statement"}) = {}
BY DEF SelectPlaces, InsertPlaces, CreatePlaces, ControlPlaces, Outcomes

LEMMA PlaceOfMove ==
    ASSUME NEW place, NEW t, NEW next \in Goes(place, t)
    PROVE  /\ place \in {"statement"} \cup SelectPlaces \cup InsertPlaces
                          \cup CreatePlaces \cup ControlPlaces
           /\ \A S \in {SelectMoves, InsertMoves, CreateMoves, ControlMoves} :
                 (\A m \in (Moves \ S) : m[1] # place)
                    => \E m \in S : m[1] = place /\ m[2] = t.type /\ m[3] = next
<1>1. PICK m \in Moves : m[1] = place /\ m[2] = t.type /\ m[3] = next
  BY MoveOf
<1>2. place \in {"statement"} \cup SelectPlaces \cup InsertPlaces \cup CreatePlaces \cup ControlPlaces
  BY <1>1, PlacesOfMoves DEF Moves
<1> QED BY <1>1, <1>2

LEMMA SelectGoes ==
    ASSUME NEW place \in SelectPlaces, NEW t, NEW next \in Goes(place, t)
    PROVE  /\ place = "selectList" =>
                 \/ t.type = "OP_STAR" /\ next = "selectFrom"
                 \/ t.type = "name" /\ next = "selectNext"
           /\ place = "selectNext" =>
                 \/ t.type = "COMMA" /\ next = "selectColumn"
                 \/ t.type = "FROM" /\ next = "selectTable"
           /\ place = "selectColumn" => t.type = "name" /\ next = "selectNext"
           /\ place = "selectFrom" => t.type = "FROM" /\ next = "selectTable"
           /\ place = "selectTable" => t.type = "name" /\ next = "selectEnd"
           /\ place = "selectEnd" => next = "accepted"
<1>1. PICK m \in SelectMoves : m[1] = place /\ m[2] = t.type /\ m[3] = next
  <2>1. \A m \in (Moves \ SelectMoves) : m[1] # place
    BY PlacesOfMoves, PlacesApart DEF Moves
  <2> QED BY <2>1, PlaceOfMove
<1>2. CASE m \in {<<"selectEnd", x.type, "accepted">> : x \in Tokens}
  <2>1. place = "selectEnd" /\ next = "accepted"
    BY <1>1, <1>2
  <2> QED BY <2>1
<1>3. CASE m \notin {<<"selectEnd", x.type, "accepted">> : x \in Tokens}
  <2>1. place = "selectList" =>
           \/ t.type = "OP_STAR" /\ next = "selectFrom"
           \/ t.type = "name" /\ next = "selectNext"
    <3>1. m[1] = "selectList" =>
             m = <<"selectList", "OP_STAR", "selectFrom">> \/ m = <<"selectList", "name", "selectNext">>
      BY <1>1, <1>3 DEF SelectMoves
    <3> QED BY <1>1, <3>1
  <2>2. place = "selectNext" =>
           \/ t.type = "COMMA" /\ next = "selectColumn"
           \/ t.type = "FROM" /\ next = "selectTable"
    <3>1. m[1] = "selectNext" =>
             m = <<"selectNext", "COMMA", "selectColumn">> \/ m = <<"selectNext", "FROM", "selectTable">>
      BY <1>1, <1>3 DEF SelectMoves
    <3> QED BY <1>1, <3>1
  <2>3. place = "selectColumn" =>
           t.type = "name" /\ next = "selectNext"
    BY <1>1, <1>3 DEF SelectMoves
  <2>4. place = "selectFrom" =>
           t.type = "FROM" /\ next = "selectTable"
    BY <1>1, <1>3 DEF SelectMoves
  <2>5. place = "selectTable" =>
           t.type = "name" /\ next = "selectEnd"
    BY <1>1, <1>3 DEF SelectMoves
  <2>6. place = "selectEnd" =>
           next = "accepted"
    BY <1>1, <1>3 DEF SelectMoves
  <2> QED BY <2>1, <2>2, <2>3, <2>4, <2>5, <2>6
<1> QED BY <1>2, <1>3

LEMMA InsertGoes ==
    ASSUME NEW place \in InsertPlaces, NEW t, NEW next \in Goes(place, t)
    PROVE  /\ place = "insertInto" => t.type = "INTO" /\ next = "insertTable"
           /\ place = "insertTable" => t.type = "name" /\ next = "insertShape"
           /\ place = "insertShape" =>
                 \/ t.type = "OPEN_PAREN" /\ next = "insertColumn"
                 \/ t.type = "VALUES" /\ next = "insertOpen"
           /\ place = "insertColumn" => t.type = "name" /\ next = "insertNext"
           /\ place = "insertNext" =>
                 \/ t.type = "COMMA" /\ next = "insertColumn"
                 \/ t.type = "CLOSE_PAREN" /\ next = "insertValues"
           /\ place = "insertValues" => t.type = "VALUES" /\ next = "insertOpen"
           /\ place = "insertOpen" => t.type = "OPEN_PAREN" /\ next = "value"
           /\ place = "value" => t.type \in {"number", "text"} /\ next = "valueNext"
           /\ place = "valueNext" =>
                 \/ t.type = "COMMA" /\ next = "value"
                 \/ t.type = "CLOSE_PAREN" /\ next = "insertEnd"
           /\ place = "insertEnd" => t.type = "END_OF_LINE" /\ next = "accepted"
<1>1. PICK m \in InsertMoves : m[1] = place /\ m[2] = t.type /\ m[3] = next
  <2>1. \A m \in (Moves \ InsertMoves) : m[1] # place
    BY PlacesOfMoves, PlacesApart DEF Moves
  <2> QED BY <2>1, PlaceOfMove
<1>2. place = "insertInto" =>
         t.type = "INTO" /\ next = "insertTable"
  BY <1>1 DEF InsertMoves
<1>3. place = "insertTable" =>
         t.type = "name" /\ next = "insertShape"
  BY <1>1 DEF InsertMoves
<1>4. place = "insertShape" =>
         \/ t.type = "OPEN_PAREN" /\ next = "insertColumn"
         \/ t.type = "VALUES" /\ next = "insertOpen"
  BY <1>1 DEF InsertMoves
<1>5. place = "insertColumn" =>
         t.type = "name" /\ next = "insertNext"
  BY <1>1 DEF InsertMoves
<1>6. place = "insertNext" =>
         \/ t.type = "COMMA" /\ next = "insertColumn"
         \/ t.type = "CLOSE_PAREN" /\ next = "insertValues"
  BY <1>1 DEF InsertMoves
<1>7. place = "insertValues" =>
         t.type = "VALUES" /\ next = "insertOpen"
  BY <1>1 DEF InsertMoves
<1>8. place = "insertOpen" =>
         t.type = "OPEN_PAREN" /\ next = "value"
  BY <1>1 DEF InsertMoves
<1>9. place = "value" =>
         t.type \in {"number", "text"} /\ next = "valueNext"
  BY <1>1 DEF InsertMoves
<1>10. place = "valueNext" =>
         \/ t.type = "COMMA" /\ next = "value"
         \/ t.type = "CLOSE_PAREN" /\ next = "insertEnd"
  BY <1>1 DEF InsertMoves
<1>11. place = "insertEnd" =>
         t.type = "END_OF_LINE" /\ next = "accepted"
  BY <1>1 DEF InsertMoves
<1> QED BY <1>2, <1>3, <1>4, <1>5, <1>6, <1>7, <1>8, <1>9, <1>10, <1>11

LEMMA CreateGoes ==
    ASSUME NEW place \in CreatePlaces, NEW t, NEW next \in Goes(place, t)
    PROVE  /\ place = "createWord" => t.type = "TABLE" /\ next = "createTable"
           /\ place = "createTable" => t.type = "name" /\ next = "createOpen"
           /\ place = "createOpen" => t.type = "OPEN_PAREN" /\ next = "createColumn"
           /\ place = "createColumn" => t.type = "name" /\ next = "columnType"
           /\ place = "columnType" =>
                 \/ t.type = "INT" /\ next = "createNext"
                 \/ t.type = "VARCHAR" /\ next = "varcharNext"
           /\ place = "varcharNext" =>
                 \/ t.type = "OPEN_PAREN" /\ next = "length"
                 \/ t.type = "COMMA" /\ next = "createColumn"
                 \/ t.type = "CLOSE_PAREN" /\ next = "createEnd"
           /\ place = "length" => t.type = "number" /\ next = "lengthEnd"
           /\ place = "lengthEnd" => t.type = "CLOSE_PAREN" /\ next = "createNext"
           /\ place = "createNext" =>
                 \/ t.type = "COMMA" /\ next = "createColumn"
                 \/ t.type = "CLOSE_PAREN" /\ next = "createEnd"
           /\ place = "createEnd" => t.type = "END_OF_LINE" /\ next = "accepted"
<1>1. PICK m \in CreateMoves : m[1] = place /\ m[2] = t.type /\ m[3] = next
  <2>1. \A m \in (Moves \ CreateMoves) : m[1] # place
    BY PlacesOfMoves, PlacesApart DEF Moves
  <2> QED BY <2>1, PlaceOfMove
<1>2. place = "createWord" =>
         t.type = "TABLE" /\ next = "createTable"
  BY <1>1 DEF CreateMoves
<1>3. place = "createTable" =>
         t.type = "name" /\ next = "createOpen"
  BY <1>1 DEF CreateMoves
<1>4. place = "createOpen" =>
         t.type = "OPEN_PAREN" /\ next = "createColumn"
  BY <1>1 DEF CreateMoves
<1>5. place = "createColumn" =>
         t.type = "name" /\ next = "columnType"
  BY <1>1 DEF CreateMoves
<1>6. place = "columnType" =>
         \/ t.type = "INT" /\ next = "createNext"
         \/ t.type = "VARCHAR" /\ next = "varcharNext"
  <2>1. m[1] = "columnType" =>
           m = <<"columnType", "INT", "createNext">> \/ m = <<"columnType", "VARCHAR", "varcharNext">>
    BY <1>1 DEF CreateMoves
  <2> QED BY <1>1, <2>1
<1>7. place = "varcharNext" =>
         \/ t.type = "OPEN_PAREN" /\ next = "length"
         \/ t.type = "COMMA" /\ next = "createColumn"
         \/ t.type = "CLOSE_PAREN" /\ next = "createEnd"
  BY <1>1 DEF CreateMoves
<1>8. place = "length" =>
         t.type = "number" /\ next = "lengthEnd"
  BY <1>1 DEF CreateMoves
<1>9. place = "lengthEnd" =>
         t.type = "CLOSE_PAREN" /\ next = "createNext"
  BY <1>1 DEF CreateMoves
<1>10. place = "createNext" =>
         \/ t.type = "COMMA" /\ next = "createColumn"
         \/ t.type = "CLOSE_PAREN" /\ next = "createEnd"
  BY <1>1 DEF CreateMoves
<1>11. place = "createEnd" =>
         t.type = "END_OF_LINE" /\ next = "accepted"
  BY <1>1 DEF CreateMoves
<1> QED BY <1>2, <1>3, <1>4, <1>5, <1>6, <1>7, <1>8, <1>9, <1>10, <1>11

LEMMA ControlGoes ==
    ASSUME NEW place \in ControlPlaces, NEW t, NEW next \in Goes(place, t)
    PROVE  /\ place = "beginWord" => t.type = "TRANSACTION" /\ next = "controlEnd"
           /\ place = "controlEnd" => t.type = "END_OF_LINE" /\ next = "accepted"
<1>1. PICK m \in ControlMoves : m[1] = place /\ m[2] = t.type /\ m[3] = next
  <2>1. \A m \in (Moves \ ControlMoves) : m[1] # place
    BY PlacesOfMoves, PlacesApart DEF Moves
  <2> QED BY <2>1, PlaceOfMove
<1>2. place = "beginWord" =>
         t.type = "TRANSACTION" /\ next = "controlEnd"
  BY <1>1 DEF ControlMoves
<1>3. place = "controlEnd" =>
         t.type = "END_OF_LINE" /\ next = "accepted"
  BY <1>1 DEF ControlMoves
<1> QED BY <1>2, <1>3

LEMMA StatementGoes ==
    ASSUME NEW t, NEW next \in Goes("statement", t)
    PROVE  \/ t.type = "SELECT" /\ next = "selectList"
           \/ t.type = "INSERT" /\ next = "insertInto"
           \/ t.type = "CREATE" /\ next = "createWord"
           \/ t.type = "BEGIN" /\ next = "beginWord"
           \/ t.type = "COMMIT" /\ next = "controlEnd"
<1>1. PICK m \in Moves : m[1] = "statement" /\ m[2] = t.type /\ m[3] = next
  BY MoveOf
<1>2. CASE m \in SelectMoves
  <2>1. m \notin {<<"selectEnd", x.type, "accepted">> : x \in Tokens}
    BY <1>1
  <2>2. m = <<"statement", "SELECT", "selectList">>
    BY <1>1, <1>2, <2>1 DEF SelectMoves
  <2> QED BY <1>1, <2>2
<1>3. CASE m \in InsertMoves
  BY <1>1, <1>3 DEF InsertMoves
<1>4. CASE m \in CreateMoves
  <2>1. m = <<"statement", "CREATE", "createWord">>
    BY <1>1, <1>4 DEF CreateMoves
  <2> QED BY <1>1, <2>1
<1>5. CASE m \in ControlMoves
  BY <1>1, <1>5 DEF ControlMoves
<1> QED BY <1>2, <1>3, <1>4, <1>5 DEF Moves

\* The changes a token makes to the sentence.
OfKind(s, k)     == [s EXCEPT !.kind = k]
OfTable(s, n)    == [s EXCEPT !.table = n]
WithColumn(s, c) == [s EXCEPT !.columns = Append(@, c)]
WithValue(s, v)  == [s EXCEPT !.values = Append(@, v)]

\* The sentence with what token t at a place adds to it: Noted, of lexemes.
Worded(s, place, t) ==
    CASE place = "statement" -> OfKind(s, t.type)
      [] place \in {"selectTable", "insertTable", "createTable"} -> OfTable(s, t.lexeme)
      [] place \in {"selectList", "selectColumn", "insertColumn", "createColumn"} ->
           WithColumn(s, Plain(t.lexeme))
      [] place = "value" -> WithValue(s, t)
      [] place = "columnType" -> LastColumn(s, t.type, "none")
      [] place = "length" -> LastColumn(s, "VARCHAR", t.lexeme)
      [] OTHER -> s

LEMMA WordedIs ==
    ASSUME NEW s, NEW t
    PROVE  /\ Worded(s, "statement", t) = OfKind(s, t.type)
           /\ \A p \in {"selectTable", "insertTable", "createTable"} :
                 Worded(s, p, t) = OfTable(s, t.lexeme)
           /\ \A p \in {"selectList", "selectColumn", "insertColumn", "createColumn"} :
                 Worded(s, p, t) = WithColumn(s, Plain(t.lexeme))
           /\ Worded(s, "value", t) = WithValue(s, t)
           /\ Worded(s, "columnType", t) = LastColumn(s, t.type, "none")
           /\ Worded(s, "length", t) = LastColumn(s, "VARCHAR", t.lexeme)
           /\ \A p \in {"selectNext", "selectFrom", "selectEnd", "insertInto", "insertShape",
                        "insertNext", "insertValues", "insertOpen", "valueNext", "insertEnd",
                        "createWord", "createOpen", "varcharNext", "lengthEnd", "createNext",
                        "createEnd", "beginWord", "controlEnd"} :
                 Worded(s, p, t) = s
BY DEF Worded

----------------------------------------------------------------------------
(* What the parser has of a sentence at each of its places. *)

Stmt(kind, table, columns, values) ==
    [kind |-> kind, table |-> table, columns |-> columns, values |-> values]

SelectLists == Lists(NameColumns, 1) \cup {<<Plain("OP_STAR")>>}

\* The beginnings of spellings.
SelectOpen            == <<Word("SELECT")>>
SelectFrom(cols)      == Append(SelectOpen \o Joined(NameItems(cols)), Word("FROM"))
InsertHead(n)         == <<Word("INSERT"), Word("INTO"), Name(n)>>
InsertTo(n, cols)     == IF cols = <<>> THEN InsertHead(n)
                         ELSE InsertHead(n) \o InParens(Joined(NameItems(cols)))
InsertValues(n, cols) == Append(InsertTo(n, cols), Word("VALUES"))
CreateHead(n)         == <<Word("CREATE"), Word("TABLE"), Name(n)>>

SelectShape(place, s, w) ==
    \/ /\ place \in {"selectList", "selectColumn"}
       /\ \E cols \in Lists(NameColumns, 0) :
             /\ Len(cols) < MaxColumns /\ (place = "selectList" => cols = <<>>)
             /\ s = Stmt("SELECT", "none", cols, <<>>)
             /\ w = Before(SelectOpen, NameItems(cols))
    \/ /\ place = "selectNext"
       /\ \E cols \in Lists(NameColumns, 1) :
             /\ s = Stmt("SELECT", "none", cols, <<>>)
             /\ w = SelectOpen \o Joined(NameItems(cols))
    \/ /\ place = "selectFrom"
       /\ s = Stmt("SELECT", "none", <<Plain("OP_STAR")>>, <<>>)
       /\ w = SelectOpen \o Joined(NameItems(<<Plain("OP_STAR")>>))
    \/ /\ place = "selectTable"
       /\ \E cols \in SelectLists : s = Stmt("SELECT", "none", cols, <<>>) /\ w = SelectFrom(cols)
    \/ /\ place = "selectEnd"
       /\ \E cols \in SelectLists, n \in Names :
             s = Stmt("SELECT", n, cols, <<>>) /\ w = Append(SelectFrom(cols), Name(n))

InsertShape(place, s, w) ==
    \/ /\ place = "insertInto"
       /\ s = Stmt("INSERT", "none", <<>>, <<>>) /\ w = <<Word("INSERT")>>
    \/ /\ place = "insertTable"
       /\ s = Stmt("INSERT", "none", <<>>, <<>>) /\ w = <<Word("INSERT"), Word("INTO")>>
    \/ /\ place = "insertShape"
       /\ \E n \in Names : s = Stmt("INSERT", n, <<>>, <<>>) /\ w = InsertHead(n)
    \/ /\ place = "insertColumn"
       /\ \E n \in Names, cols \in Lists(NameColumns, 0) :
             /\ Len(cols) < MaxColumns
             /\ s = Stmt("INSERT", n, cols, <<>>)
             /\ w = Before(Opened(InsertHead(n)), NameItems(cols))
    \/ /\ place = "insertNext"
       /\ \E n \in Names, cols \in Lists(NameColumns, 1) :
             /\ s = Stmt("INSERT", n, cols, <<>>)
             /\ w = Opened(InsertHead(n)) \o Joined(NameItems(cols))
    \/ /\ place = "insertValues"
       /\ \E n \in Names, cols \in Lists(NameColumns, 1) :
             s = Stmt("INSERT", n, cols, <<>>) /\ w = InsertTo(n, cols)
    \/ /\ place = "insertOpen"
       /\ \E n \in Names, cols \in Lists(NameColumns, 0) :
             s = Stmt("INSERT", n, cols, <<>>) /\ w = InsertValues(n, cols)
    \/ /\ place = "value"
       /\ \E n \in Names, cols \in Lists(NameColumns, 0), vals \in Lists(Literals, 0) :
             /\ Len(vals) < MaxColumns
             /\ s = Stmt("INSERT", n, cols, vals)
             /\ w = Before(Opened(InsertValues(n, cols)), ValueItems(vals))
    \/ /\ place = "valueNext"
       /\ \E n \in Names, cols \in Lists(NameColumns, 0), vals \in Lists(Literals, 1) :
             /\ s = Stmt("INSERT", n, cols, vals)
             /\ w = Opened(InsertValues(n, cols)) \o Joined(ValueItems(vals))
    \/ /\ place = "insertEnd"
       /\ \E n \in Names, cols \in Lists(NameColumns, 0), vals \in Lists(Literals, 1) :
             /\ s = Stmt("INSERT", n, cols, vals)
             /\ w = InsertValues(n, cols) \o InParens(Joined(ValueItems(vals)))

\* The column definitions written so far, the last one perhaps not in full.
Defining(n, cols) == Before(Opened(CreateHead(n)), DefItems(cols))

CreateShape(place, s, w) ==
    \/ /\ place = "createWord"
       /\ s = Stmt("CREATE", "none", <<>>, <<>>) /\ w = <<Word("CREATE")>>
    \/ /\ place = "createTable"
       /\ s = Stmt("CREATE", "none", <<>>, <<>>) /\ w = <<Word("CREATE"), Word("TABLE")>>
    \/ /\ place = "createOpen"
       /\ \E n \in Names : s = Stmt("CREATE", n, <<>>, <<>>) /\ w = CreateHead(n)
    \/ /\ place = "createColumn"
       /\ \E n \in Names, cols \in Lists(WrittenColumns, 0) :
             /\ Len(cols) < MaxColumns
             /\ s = Stmt("CREATE", n, cols, <<>>) /\ w = Defining(n, cols)
    \/ /\ place \in {"columnType", "varcharNext", "length", "lengthEnd"}
       /\ \E n \in Names, cols \in Lists(WrittenColumns, 0), m \in Names :
             /\ Len(cols) < MaxColumns
             /\ \/ /\ place = "columnType"
                   /\ s = Stmt("CREATE", n, Append(cols, Plain(m)), <<>>)
                   /\ w = Append(Defining(n, cols), Name(m))
                \/ /\ place = "varcharNext"
                   /\ s = Stmt("CREATE", n, Append(cols, VarcharColumn(m, "none")), <<>>)
                   /\ w = Defining(n, cols) \o <<Name(m), Word("VARCHAR")>>
                \/ /\ place = "length"
                   /\ s = Stmt("CREATE", n, Append(cols, VarcharColumn(m, "none")), <<>>)
                   /\ w = Defining(n, cols) \o <<Name(m), Word("VARCHAR"), Word("OPEN_PAREN")>>
                \/ /\ place = "lengthEnd"
                   /\ \E l \in Numbers :
                         /\ s = Stmt("CREATE", n, Append(cols, VarcharColumn(m, l)), <<>>)
                         /\ w = Defining(n, cols)
                                  \o <<Name(m), Word("VARCHAR"), Word("OPEN_PAREN"), Number(l)>>
    \/ /\ place = "createNext"
       /\ \E n \in Names, cols \in Lists(WrittenColumns, 1) :
             /\ s = Stmt("CREATE", n, cols, <<>>)
             /\ w = Opened(CreateHead(n)) \o Joined(DefItems(cols))
    \/ /\ place = "createEnd"
       /\ \E n \in Names, cols \in Lists(WrittenColumns, 1) :
             /\ s = Stmt("CREATE", n, cols, <<>>)
             /\ w = CreateHead(n) \o InParens(Joined(DefItems(cols)))

ControlShape(place, s, w) ==
    \/ /\ place = "beginWord"
       /\ s = Stmt("BEGIN", "none", <<>>, <<>>) /\ w = <<Word("BEGIN")>>
    \/ /\ place = "controlEnd"
       /\ \/ /\ s = Stmt("BEGIN", "none", <<>>, <<>>)
             /\ w = <<Word("BEGIN"), Word("TRANSACTION")>>
          \/ s = Stmt("COMMIT", "none", <<>>, <<>>) /\ w = <<Word("COMMIT")>>

\* The sentence of a stream that was accepted.
WholeShape(s, w) == s \in Sentences /\ \E c \in Closers(s) : w = Append(Spelling(s), c)

Shape(place, s, w) ==
    \/ place = "statement" /\ s = NoStatement /\ w = <<>>
    \/ SelectShape(place, s, w)
    \/ InsertShape(place, s, w)
    \/ CreateShape(place, s, w)
    \/ ControlShape(place, s, w)
    \/ place = "accepted" /\ WholeShape(s, w)

\* The stream read so far is that of a sentence, and the statement its meaning.
Read == at # "rejected" => \E s : Shape(at, s, tokens) /\ stmt = Meaning(s)

----------------------------------------------------------------------------
(* The statements, the sentences and their spellings. *)

OneOf(none, lengths, literals, s) ==
    \/ \E n \in Names, cols \in Lists(PlainColumns(none), 1) \cup {<<StarColumn(none)>>} :
          s = Stmt("SELECT", n, cols, <<>>)
    \/ \E n \in Names, cols \in Lists(PlainColumns(none), 0), vals \in Lists(literals, 1) :
          s = Stmt("INSERT", n, cols, vals)
    \/ \E n \in Names, cols \in Lists(TypedColumns(none, lengths), 1) : s = Stmt("CREATE", n, cols, <<>>)
    \/ \E k \in {"BEGIN", "COMMIT"} : s = Stmt(k, "none", <<>>, <<>>)

LEMMA StatementsAre ==
    \A none, lengths, literals : \A s \in StatementsOf(none, lengths, literals) : OneOf(none, lengths, literals, s)
<1> SUFFICES ASSUME NEW none, NEW lengths, NEW literals, NEW s \in StatementsOf(none, lengths, literals)
             PROVE  OneOf(none, lengths, literals, s)
  BY Zenon
<1> DEFINE named == Lists(PlainColumns(none), 1) \cup {<<StarColumn(none)>>}
           plain == Lists(PlainColumns(none), 0)
           typed == Lists(TypedColumns(none, lengths), 1)
           vals  == Lists(literals, 1)
<1>1. \/ s \in [kind : {"SELECT"}, table : Names, values : {<<>>}, columns : named]
      \/ s \in [kind : {"INSERT"}, table : Names, columns : plain, values : vals]
      \/ s \in [kind : {"CREATE"}, table : Names, columns : typed, values : {<<>>}]
      \/ s \in [kind : {"BEGIN", "COMMIT"}, table : {"none"}, columns : {<<>>}, values : {<<>>}]
  BY DEF StatementsOf
<1> HIDE DEF named, plain, typed, vals
<1>2. CASE s \in [kind : {"SELECT"}, table : Names, values : {<<>>}, columns : named]
  <2>1. s = Stmt("SELECT", s.table, s.columns, <<>>) /\ s.table \in Names /\ s.columns \in named
    BY <1>2 DEF Stmt
  <2> QED BY <2>1 DEF named, OneOf
<1>3. CASE s \in [kind : {"INSERT"}, table : Names, columns : plain, values : vals]
  <2>1. /\ s = Stmt("INSERT", s.table, s.columns, s.values) /\ s.table \in Names
        /\ s.columns \in plain /\ s.values \in vals
    BY <1>3 DEF Stmt
  <2> QED BY <2>1 DEF plain, vals, OneOf
<1>4. CASE s \in [kind : {"CREATE"}, table : Names, columns : typed, values : {<<>>}]
  <2>1. s = Stmt("CREATE", s.table, s.columns, <<>>) /\ s.table \in Names /\ s.columns \in typed
    BY <1>4 DEF Stmt
  <2> QED BY <2>1 DEF typed, OneOf
<1>5. CASE s \in [kind : {"BEGIN", "COMMIT"}, table : {"none"}, columns : {<<>>}, values : {<<>>}]
  <2>1. s = Stmt(s.kind, "none", <<>>, <<>>) /\ s.kind \in {"BEGIN", "COMMIT"}
    BY <1>5 DEF Stmt
  <2> QED BY <2>1 DEF OneOf
<1> QED BY <1>1, <1>2, <1>3, <1>4, <1>5

LEMMA StatementsMade ==
    ASSUME NEW none, NEW lengths, NEW literals
    PROVE  /\ \A n \in Names, cols \in Lists(PlainColumns(none), 1) \cup {<<StarColumn(none)>>} :
                 Stmt("SELECT", n, cols, <<>>) \in StatementsOf(none, lengths, literals)
           /\ \A n \in Names, cols \in Lists(PlainColumns(none), 0), vals \in Lists(literals, 1) :
                 Stmt("INSERT", n, cols, vals) \in StatementsOf(none, lengths, literals)
           /\ \A n \in Names, cols \in Lists(TypedColumns(none, lengths), 1) :
                 Stmt("CREATE", n, cols, <<>>) \in StatementsOf(none, lengths, literals)
           /\ \A k \in {"BEGIN", "COMMIT"} :
                 Stmt(k, "none", <<>>, <<>>) \in StatementsOf(none, lengths, literals)
<1> DEFINE named == Lists(PlainColumns(none), 1) \cup {<<StarColumn(none)>>}
           plain == Lists(PlainColumns(none), 0)
           typed == Lists(TypedColumns(none, lengths), 1)
           lists == Lists(literals, 1)
           all   == StatementsOf(none, lengths, literals)
<1>1. /\ [kind : {"SELECT"}, table : Names, values : {<<>>}, columns : named] \subseteq all
      /\ [kind : {"INSERT"}, table : Names, columns : plain, values : lists] \subseteq all
      /\ [kind : {"CREATE"}, table : Names, columns : typed, values : {<<>>}] \subseteq all
      /\ [kind : {"BEGIN", "COMMIT"}, table : {"none"}, columns : {<<>>}, values : {<<>>}] \subseteq all
  BY DEF StatementsOf
<1> HIDE DEF named, plain, typed, lists, all
<1>2. \A n \in Names, cols \in named : Stmt("SELECT", n, cols, <<>>) \in all
  BY <1>1 DEF Stmt
<1>3. \A n \in Names, cols \in plain, vals \in lists : Stmt("INSERT", n, cols, vals) \in all
  BY <1>1 DEF Stmt
<1>4. \A n \in Names, cols \in typed : Stmt("CREATE", n, cols, <<>>) \in all
  BY <1>1 DEF Stmt
<1>5. \A k \in {"BEGIN", "COMMIT"} : Stmt(k, "none", <<>>, <<>>) \in all
  BY <1>1 DEF Stmt
<1> QED BY <1>2, <1>3, <1>4, <1>5 DEF named, plain, typed, lists, all

LEMMA SentencesMade ==
    /\ \A n \in Names, cols \in SelectLists : Stmt("SELECT", n, cols, <<>>) \in Sentences
    /\ \A n \in Names, cols \in Lists(NameColumns, 0), vals \in Lists(Literals, 1) :
          Stmt("INSERT", n, cols, vals) \in Sentences
    /\ \A n \in Names, cols \in Lists(WrittenColumns, 1) : Stmt("CREATE", n, cols, <<>>) \in Sentences
    /\ \A k \in {"BEGIN", "COMMIT"} : Stmt(k, "none", <<>>, <<>>) \in Sentences
BY StatementsMade, Zenon DEF Sentences, SelectLists, NameColumns, WrittenColumns, StarColumn, Plain

LEMMA SentencesAre ==
    ASSUME NEW s \in Sentences
    PROVE  \/ \E n \in Names, cols \in SelectLists : s = Stmt("SELECT", n, cols, <<>>)
           \/ \E n \in Names, cols \in Lists(NameColumns, 0), vals \in Lists(Literals, 1) :
                 s = Stmt("INSERT", n, cols, vals)
           \/ \E n \in Names, cols \in Lists(WrittenColumns, 1) : s = Stmt("CREATE", n, cols, <<>>)
           \/ \E k \in {"BEGIN", "COMMIT"} : s = Stmt(k, "none", <<>>, <<>>)
<1>1. s \in StatementsOf("none", Numbers \cup {"none"}, Literals)
  BY DEF Sentences
<1>2. OneOf("none", Numbers \cup {"none"}, Literals, s)
  BY <1>1, StatementsAre, Zenon
<1> QED BY <1>2 DEF OneOf, SelectLists, NameColumns, WrittenColumns, StarColumn, Plain

LEMMA WordTokens == \A w \in Words : Word(w) \in Tokens /\ <<Word(w)>> \in Streams
<1>1. ASSUME NEW w \in Words PROVE Word(w) \in Tokens /\ <<Word(w)>> \in Streams
  <2>1. Word(w) \in Tokens
    BY TokenKinds
  <2> QED BY <2>1, OneToken, EmptySeq DEF Streams
<1> QED BY <1>1

LEMMA HeadsAre ==
    ASSUME NEW n \in Names
    PROVE  /\ SelectOpen \in Streams /\ InsertHead(n) \in Streams /\ CreateHead(n) \in Streams
           /\ <<Word("INSERT"), Word("INTO")>> \in Streams
           /\ <<Word("CREATE"), Word("TABLE")>> \in Streams
           /\ Name(n) \in Tokens /\ <<Name(n)>> \in Streams
           /\ InsertHead(n) = Append(<<Word("INSERT"), Word("INTO")>>, Name(n))
           /\ CreateHead(n) = Append(<<Word("CREATE"), Word("TABLE")>>, Name(n))
           /\ InsertHead(n) = Written(<<"INSERT", "INTO">>) \o <<Name(n)>>
           /\ CreateHead(n) = Written(<<"CREATE", "TABLE">>) \o <<Name(n)>>
           /\ SelectOpen = Written(<<"SELECT">>)
<1>1. /\ "INSERT" \in Words
      /\ "INTO" \in Words
      /\ "CREATE" \in Words
      /\ "TABLE" \in Words
      /\ "SELECT" \in Words
  BY DEF Words
<1>2. Name(n) \in Tokens
  BY TokensOfColumns
<1>3. ASSUME NEW a \in Words, NEW b \in Words
      PROVE  /\ Word(a) \in Tokens /\ Word(b) \in Tokens
             /\ <<Word(a), Word(b)>> \in Streams /\ <<Word(a), Word(b), Name(n)>> \in Streams
             /\ <<Word(a), Word(b), Name(n)>> = Append(<<Word(a), Word(b)>>, Name(n))
             /\ <<Word(a), Word(b), Name(n)>> = Written(<<a, b>>) \o <<Name(n)>>
  <2> DEFINE x == Word(a)
             y == Word(b)
             z == Name(n)
  <2>1. x \in Tokens /\ y \in Tokens /\ z \in Tokens
    BY <1>2, WordTokens
  <2>2. Written(<<a, b>>) = <<x, y>>
    BY WrittenWords
  <2> HIDE DEF x, y, z
  <2>3. <<x, y>> \in Streams /\ <<x, y, z>> \in Streams /\ <<x, y, z>> = Append(<<x, y>>, z)
    BY <2>1, TuplesGrow DEF Streams
  <2>4. <<x, y>> \o <<z>> = Append(<<x, y>>, z)
    BY <2>1, <2>3, OneToken
  <2> QED BY <2>1, <2>2, <2>3, <2>4 DEF x, y, z
<1>4. SelectOpen \in Streams /\ SelectOpen = Written(<<"SELECT">>)
  BY <1>1, WordTokens, WrittenWords DEF SelectOpen
<1>5. <<Name(n)>> \in Streams
  BY <1>2 DEF Streams
<1> QED BY <1>1, <1>2, <1>3, <1>4, <1>5 DEF InsertHead, CreateHead

LEMMA ListsAreStreams ==
    /\ \A cols \in SelectLists \cup Lists(NameColumns, 0) :
          /\ cols \in Seq(AnyColumn) /\ NameItems(cols) \in Seq(Streams)
          /\ Joined(NameItems(cols)) \in Streams
    /\ \A vals \in Lists(Literals, 0) :
          /\ vals \in Seq(Literals) /\ ValueItems(vals) \in Seq(Streams)
          /\ Joined(ValueItems(vals)) \in Streams
    /\ \A cols \in Lists(WrittenColumns, 0) :
          /\ cols \in Seq(WrittenColumns) /\ DefItems(cols) \in Seq(Streams)
          /\ Joined(DefItems(cols)) \in Streams
<1>1. ASSUME NEW cols \in SelectLists \cup Lists(NameColumns, 0)
      PROVE  /\ cols \in Seq(AnyColumn) /\ NameItems(cols) \in Seq(Streams)
             /\ Joined(NameItems(cols)) \in Streams
  <2>1. cols \in Seq(AnyColumn)
    <3>1. CASE cols \in Lists(NameColumns, 0) \cup Lists(NameColumns, 1)
      <4>1. cols \in Seq(NameColumns)
        BY <3>1, ListsAre
      <4>2. NameColumns \subseteq AnyColumn
        BY DEF AnyColumn
      <4> QED BY <4>1, <4>2
    <3>2. CASE cols = <<Plain("OP_STAR")>>
      <4>1. Plain("OP_STAR") \in AnyColumn
        BY DEF AnyColumn
      <4> QED BY <3>2, <4>1
    <3> QED BY <3>1, <3>2 DEF SelectLists
  <2>2. Plain("OP_STAR") \in AnyColumn
    BY DEF AnyColumn
  <2>3. NameItems(cols) \in Seq(Streams)
    BY <2>1, <2>2, NameItemsGrow
  <2> QED BY <2>1, <2>3, CommasAreStreams
<1>2. ASSUME NEW vals \in Lists(Literals, 0)
      PROVE  /\ vals \in Seq(Literals) /\ ValueItems(vals) \in Seq(Streams)
             /\ Joined(ValueItems(vals)) \in Streams
  <2>1. vals \in Seq(Literals)
    BY ListsAre
  <2>2. PICK m \in Numbers : Number(m) \in Literals
    BY CompilerAssumption DEF Literals
  <2>3. ValueItems(vals) \in Seq(Streams)
    BY <2>1, <2>2, ValueItemsGrow
  <2> QED BY <2>1, <2>3, CommasAreStreams
<1>3. ASSUME NEW cols \in Lists(WrittenColumns, 0)
      PROVE  /\ cols \in Seq(WrittenColumns) /\ DefItems(cols) \in Seq(Streams)
             /\ Joined(DefItems(cols)) \in Streams
  <2>1. cols \in Seq(WrittenColumns)
    BY ListsAre
  <2>2. PICK n \in Names : IntColumn(n) \in WrittenColumns
    BY CompilerAssumption, TypedColumnIs
  <2>3. DefItems(cols) \in Seq(Streams)
    BY <2>1, <2>2, DefItemsGrow
  <2> QED BY <2>1, <2>3, CommasAreStreams
<1> QED BY <1>1, <1>2, <1>3

LEMMA HeadsAreStreams ==
    ASSUME NEW n \in Names
    PROVE  /\ \A cols \in SelectLists : SelectFrom(cols) \in Streams
           /\ \A cols \in Lists(NameColumns, 0) :
                 /\ InsertTo(n, cols) \in Streams /\ InsertValues(n, cols) \in Streams
                 /\ Opened(InsertValues(n, cols)) \in Streams
           /\ Opened(InsertHead(n)) \in Streams /\ Opened(CreateHead(n)) \in Streams
           /\ \A cols \in Lists(WrittenColumns, 0) :
                 Defining(n, cols) \in Streams
<1>1. Word("FROM") \in Tokens /\ Word("VALUES") \in Tokens
  BY WordTokens DEF Words
<1>2. ASSUME NEW cols \in SelectLists PROVE SelectFrom(cols) \in Streams
  <2>1. SelectOpen \o Joined(NameItems(cols)) \in Streams
    BY HeadsAre, ListsAreStreams, JoinStreams
  <2> QED BY <1>1, <2>1, OneToken DEF SelectFrom
<1>3. ASSUME NEW cols \in Lists(NameColumns, 0)
      PROVE  /\ InsertTo(n, cols) \in Streams /\ InsertValues(n, cols) \in Streams
             /\ Opened(InsertValues(n, cols)) \in Streams
  <2>1. Joined(NameItems(cols)) \in Streams /\ InsertHead(n) \in Streams
    BY HeadsAre, ListsAreStreams
  <2>2. InParens(Joined(NameItems(cols))) \in Streams
    BY <2>1, ListClosed
  <2>3. InsertHead(n) \o InParens(Joined(NameItems(cols))) \in Streams
    BY <2>1, <2>2, JoinStreams
  <2>4. InsertTo(n, cols) \in Streams
    BY <2>1, <2>3 DEF InsertTo
  <2>5. InsertValues(n, cols) \in Streams
    BY <1>1, <2>4, OneToken DEF InsertValues
  <2>6. Opened(InsertValues(n, cols)) \in Streams
    BY <2>5, ListClosed
  <2> QED BY <2>4, <2>5, <2>6
<1>4. Opened(InsertHead(n)) \in Streams /\ Opened(CreateHead(n)) \in Streams
  BY HeadsAre, ListClosed
<1>5. ASSUME NEW cols \in Lists(WrittenColumns, 0)
      PROVE  Defining(n, cols) \in Streams
  <2>1. DefItems(cols) \in Seq(Streams) /\ SelectOpen \in Streams
    BY ListsAreStreams, HeadsAre
  <2> QED BY <1>4, <2>1, ItemRead DEF Defining
<1> QED BY <1>2, <1>3, <1>4, <1>5

\* A spelling, as the parser builds it up.
LEMMA SpellingsAre ==
    /\ \A n \in Names, cols \in SelectLists :
          Spelling(Stmt("SELECT", n, cols, <<>>)) = Append(SelectFrom(cols), Name(n))
    /\ \A n \in Names, cols \in Lists(NameColumns, 0), vals \in Lists(Literals, 1) :
          Spelling(Stmt("INSERT", n, cols, vals))
              = InsertValues(n, cols) \o InParens(Joined(ValueItems(vals)))
    /\ \A n \in Names, cols \in Lists(WrittenColumns, 1) :
          Spelling(Stmt("CREATE", n, cols, <<>>))
              = CreateHead(n) \o InParens(Joined(DefItems(cols)))
    /\ Spelling(Stmt("BEGIN", "none", <<>>, <<>>)) = <<Word("BEGIN"), Word("TRANSACTION")>>
    /\ Spelling(Stmt("COMMIT", "none", <<>>, <<>>)) = <<Word("COMMIT")>>
<1>1. ASSUME NEW n \in Names, NEW cols \in SelectLists
      PROVE  Spelling(Stmt("SELECT", n, cols, <<>>)) = Append(SelectFrom(cols), Name(n))
  <2> DEFINE names == Joined(NameItems(cols))
             from  == Word("FROM")
             begun == SelectOpen \o names
  <2>1. Spelling(Stmt("SELECT", n, cols, <<>>))
            = ((Written(<<"SELECT">>) \o names) \o Written(<<"FROM">>)) \o <<Name(n)>>
    BY DEF Spelling, Stmt, NameItems
  <2>2. Written(<<"SELECT">>) = SelectOpen /\ Written(<<"FROM">>) = <<from>> /\ from \in Tokens
        /\ Name(n) \in Tokens /\ begun \in Streams
    <3>1. Written(<<"FROM">>) = <<from>> /\ from \in Tokens
      BY WrittenWords, WordTokens DEF Words
    <3>2. names \in Streams
      BY ListsAreStreams
    <3> QED BY <3>1, <3>2, HeadsAre, JoinStreams
  <2>3. SelectFrom(cols) = Append(begun, from)
    BY DEF SelectFrom
  <2> HIDE DEF from, begun
  <2>4. begun \o <<from>> = Append(begun, from) /\ Append(begun, from) \in Streams
    BY <2>2, OneToken
  <2>5. Append(begun, from) \o <<Name(n)>> = Append(Append(begun, from), Name(n))
    BY <2>2, <2>4, OneToken
  <2> QED BY <2>1, <2>2, <2>3, <2>4, <2>5 DEF begun
<1>2. ASSUME NEW n \in Names, NEW cols \in Lists(NameColumns, 0), NEW vals \in Lists(Literals, 1)
      PROVE  Spelling(Stmt("INSERT", n, cols, vals))
                 = InsertValues(n, cols) \o InParens(Joined(ValueItems(vals)))
  <2> DEFINE names == InParens(Joined(NameItems(cols)))
             list  == InParens(Joined(ValueItems(vals)))
             word  == Word("VALUES")
  <2>1. Spelling(Stmt("INSERT", n, cols, vals))
            = (((Written(<<"INSERT", "INTO">>) \o <<Name(n)>>)
                  \o (IF cols = <<>> THEN <<>> ELSE names)) \o Written(<<"VALUES">>)) \o list
    BY DEF Spelling, Stmt, NameItems, ValueItems
  <2>2. Written(<<"INSERT", "INTO">>) \o <<Name(n)>> = InsertHead(n) /\ InsertHead(n) \in Streams
        /\ Written(<<"VALUES">>) = <<word>> /\ word \in Tokens
    BY HeadsAre, WrittenWords, WordTokens DEF Words
  <2>3. InsertHead(n) \o (IF cols = <<>> THEN <<>> ELSE names) = InsertTo(n, cols)
    BY <2>2, JoinStreams DEF InsertTo
  <2>4. InsertTo(n, cols) \o <<word>> = InsertValues(n, cols)
    BY <2>2, HeadsAreStreams, OneToken DEF InsertValues
  <2> QED BY <2>1, <2>2, <2>3, <2>4
<1>3. ASSUME NEW n \in Names, NEW cols \in Lists(WrittenColumns, 1)
      PROVE  Spelling(Stmt("CREATE", n, cols, <<>>))
                 = CreateHead(n) \o InParens(Joined(DefItems(cols)))
  <2>1. Spelling(Stmt("CREATE", n, cols, <<>>))
            = (Written(<<"CREATE", "TABLE">>) \o <<Name(n)>>)
                  \o InParens(Joined(DefItems(cols)))
    BY DEF Spelling, Stmt, DefItems
  <2>2. Written(<<"CREATE", "TABLE">>) \o <<Name(n)>> = CreateHead(n)
    BY HeadsAre
  <2> QED BY <2>1, <2>2
<1>4. /\ Spelling(Stmt("BEGIN", "none", <<>>, <<>>)) = <<Word("BEGIN"), Word("TRANSACTION")>>
      /\ Spelling(Stmt("COMMIT", "none", <<>>, <<>>)) = <<Word("COMMIT")>>
  <2>1. /\ Spelling(Stmt("BEGIN", "none", <<>>, <<>>)) = Written(<<"BEGIN", "TRANSACTION">>)
        /\ Spelling(Stmt("COMMIT", "none", <<>>, <<>>)) = Written(<<"COMMIT">>)
    BY DEF Spelling, Stmt
  <2> QED BY <2>1, WrittenWords DEF Words
<1> QED BY <1>1, <1>2, <1>3, <1>4

----------------------------------------------------------------------------
(* A token read: the statement and the stream keep their shape. *)

LEMMA StmtGrows ==
    ASSUME NEW k, NEW n, NEW c, NEW v, NEW x
    PROVE  /\ OfTable(Stmt(k, n, c, v), x) = Stmt(k, x, c, v)
           /\ WithColumn(Stmt(k, n, c, v), x) = Stmt(k, n, Append(c, x), v)
           /\ WithValue(Stmt(k, n, c, v), x) = Stmt(k, n, c, Append(v, x))
           /\ Stmt(k, n, c, v).columns = c /\ Stmt(k, n, c, v).values = v
           /\ Stmt(k, n, c, v).kind = k /\ Stmt(k, n, c, v).table = n
<1>1. OfTable(Stmt(k, n, c, v), x) = Stmt(k, x, c, v)
  BY DEF Stmt, OfTable
<1>2. WithColumn(Stmt(k, n, c, v), x) = Stmt(k, n, Append(c, x), v)
  <2> DEFINE s == Stmt(k, n, c, v)
             d == Append(c, x)
  <2>1. s.columns = c /\ s = [kind |-> k, table |-> n, columns |-> c, values |-> v]
    BY DEF Stmt
  <2>2. WithColumn(s, x) = [s EXCEPT !.columns = d]
    BY <2>1, Zenon DEF WithColumn
  <2> HIDE DEF d, s
  <2>3. [s EXCEPT !.columns = d] = Stmt(k, n, d, v)
    BY <2>1 DEF Stmt
  <2> QED BY <2>2, <2>3 DEF d, s
<1>3. WithValue(Stmt(k, n, c, v), x) = Stmt(k, n, c, Append(v, x))
  <2> DEFINE s == Stmt(k, n, c, v)
             d == Append(v, x)
  <2>1. s.values = v /\ s = [kind |-> k, table |-> n, columns |-> c, values |-> v]
    BY DEF Stmt
  <2>2. WithValue(s, x) = [s EXCEPT !.values = d]
    BY <2>1, Zenon DEF WithValue
  <2> HIDE DEF d, s
  <2>3. [s EXCEPT !.values = d] = Stmt(k, n, c, d)
    BY <2>1 DEF Stmt
  <2> QED BY <2>2, <2>3 DEF d, s
<1>4. /\ Stmt(k, n, c, v).columns = c /\ Stmt(k, n, c, v).values = v
      /\ Stmt(k, n, c, v).kind = k /\ Stmt(k, n, c, v).table = n
  BY DEF Stmt
<1> QED BY <1>1, <1>2, <1>3, <1>4

LEMMA NameRead ==
    ASSUME NEW open \in Streams, NEW cols \in Lists(NameColumns, 0), Len(cols) < MaxColumns,
           NEW t \in Tokens, t.type = "name"
    PROVE  /\ Append(cols, Plain(t.lexeme)) \in Lists(NameColumns, 1)
           /\ Append(Before(open, NameItems(cols)), t)
                  = open \o Joined(NameItems(Append(cols, Plain(t.lexeme))))
<1>1. t.lexeme \in Names /\ t = Name(t.lexeme) /\ t \in Tokens
  BY TokenOfType
<1> DEFINE c == Plain(t.lexeme)
<1>2. c \in NameColumns /\ c \in AnyColumn /\ NameItem(c) = <<t>>
  BY <1>1, NameItemIs DEF AnyColumn
<1>3. cols \in Seq(AnyColumn) /\ NameItems(cols) \in Seq(Streams) /\ <<t>> \in Streams
  BY <1>1, ListsAreStreams, OneToken, HeadsAre
<1>4. NameItems(Append(cols, c)) = Append(NameItems(cols), <<t>>)
  BY <1>2, <1>3, NameItemsGrow
<1>5. /\ Before(open, NameItems(cols)) \in Streams
      /\ Before(open, NameItems(cols)) \o <<t>> = open \o Joined(Append(NameItems(cols), <<t>>))
  BY <1>3, ItemRead
<1>6. Append(Before(open, NameItems(cols)), t) = Before(open, NameItems(cols)) \o <<t>>
  BY <1>1, <1>5, OneToken
<1>7. Append(cols, c) \in Lists(NameColumns, 1)
  BY <1>2, ListGrows
<1> QED BY <1>4, <1>5, <1>6, <1>7

LEMMA CommaRead ==
    ASSUME NEW open, NEW items \in Seq(Streams), Len(items) # 0, NEW t \in Tokens, t.type = "COMMA"
    PROVE  Append(open \o Joined(items), t) = Before(open, items)
<1>1. t = Comma
  BY TokenOfType DEF Comma, Words
<1>2. items # <<>>
  BY EmptySeq
<1> QED BY <1>1, <1>2 DEF Before

LEMMA NamesListed ==
    ASSUME NEW cols \in Lists(NameColumns, 1)
    PROVE  /\ cols \in Lists(NameColumns, 0) /\ cols \in SelectLists /\ cols # <<>>
           /\ NameItems(cols) \in Seq(Streams) /\ Len(NameItems(cols)) # 0
<1>1. cols \in Lists(NameColumns, 0) /\ cols # <<>> /\ Len(cols) # 0
  BY ListGrows, ListsAre
<1>2. cols \in Seq(AnyColumn) /\ NameItems(cols) \in Seq(Streams)
  BY <1>1, ListsAreStreams
<1>3. Len(NameItems(cols)) = Len(cols)
  BY <1>2, NameItemsGrow DEF AnyColumn
<1> QED BY <1>1, <1>2, <1>3 DEF SelectLists

LEMMA StarRead ==
    ASSUME NEW t \in Tokens, t.type = "OP_STAR"
    PROVE  /\ Plain(t.lexeme) = Plain("OP_STAR")
           /\ Append(SelectOpen, t) = SelectOpen \o Joined(NameItems(<<Plain("OP_STAR")>>))
<1>1. t = Word("OP_STAR") /\ t \in Tokens /\ <<t>> \in Streams
  BY TokenOfType, WordTokens DEF Words
<1>2. t.lexeme = "OP_STAR"
  BY <1>1 DEF Word
<1> DEFINE c == Plain("OP_STAR")
<1>3. c \in AnyColumn /\ NameItem(c) = <<t>> /\ <<>> \in Seq(AnyColumn)
  BY <1>1, NameItemIs, EmptySeq DEF AnyColumn
<1> HIDE DEF c
<1>4. NameItems(Append(<<>>, c)) = Append(NameItems(<<>>), <<t>>)
  BY <1>3, NameItemsGrow
<1>5. Append(<<>>, c) = <<c>> /\ Append(<<>>, <<t>>) = <<<<t>>>>
  OBVIOUS
<1>6. NameItems(<<c>>) = <<<<t>>>>
  BY <1>4, <1>5, ItemsOfNothing
<1>7. Joined(<<<<t>>>>) = <<t>>
  BY <1>1, JoinedLists
<1>8. SelectOpen \in Streams
  BY WordTokens DEF SelectOpen, Words
<1>9. Append(SelectOpen, t) = SelectOpen \o <<t>>
  BY <1>1, <1>8, OneToken
<1> QED BY <1>2, <1>6, <1>7, <1>9 DEF c

LEMMA SelectGrows ==
    ASSUME NEW place \in SelectPlaces, NEW s, NEW w, SelectShape(place, s, w),
           NEW t \in Tokens, NEW next \in Goes(place, t),
           t.type = "COMMA" => Len(s.columns) < MaxColumns
    PROVE  Shape(next, Worded(s, place, t), Append(w, t))
<1>1. CASE place \in {"selectList", "selectColumn"}
  <2>1. PICK cols \in Lists(NameColumns, 0) :
           /\ Len(cols) < MaxColumns /\ (place = "selectList" => cols = <<>>)
           /\ s = Stmt("SELECT", "none", cols, <<>>)
           /\ w = Before(SelectOpen, NameItems(cols))
    BY <1>1 DEF SelectShape
  <2>2. Worded(s, place, t) = Stmt("SELECT", "none", Append(cols, Plain(t.lexeme)), <<>>)
    BY <1>1, <2>1, WordedIs, StmtGrows
  <2>3. CASE t.type = "name" /\ next = "selectNext"
    <3>1. SelectOpen \in Streams
      BY WordTokens DEF SelectOpen, Words
    <3>2. /\ Append(cols, Plain(t.lexeme)) \in Lists(NameColumns, 1)
          /\ Append(w, t) = SelectOpen \o Joined(NameItems(Append(cols, Plain(t.lexeme))))
      BY <2>1, <2>3, <3>1, NameRead
    <3>3. SelectShape("selectNext", Worded(s, place, t), Append(w, t))
      BY <2>2, <3>2 DEF SelectShape
    <3> QED BY <2>3, <3>3 DEF Shape
  <2>4. CASE place = "selectList" /\ t.type = "OP_STAR" /\ next = "selectFrom"
    <3>1. cols = <<>> /\ w = SelectOpen
      BY <2>1, <2>4, ItemsOfNothing DEF Before
    <3>2. Append(cols, Plain(t.lexeme)) = <<Plain("OP_STAR")>>
      BY <2>4, <3>1, StarRead
    <3>3. Append(w, t) = SelectOpen \o Joined(NameItems(<<Plain("OP_STAR")>>))
      BY <2>4, <3>1, StarRead
    <3>4. SelectShape("selectFrom", Worded(s, place, t), Append(w, t))
      BY <2>2, <3>2, <3>3 DEF SelectShape
    <3> QED BY <2>4, <3>4 DEF Shape
  <2> QED BY <1>1, <2>3, <2>4, SelectGoes
<1>2. CASE place = "selectNext"
  <2>1. PICK cols \in Lists(NameColumns, 1) :
           /\ s = Stmt("SELECT", "none", cols, <<>>)
           /\ w = SelectOpen \o Joined(NameItems(cols))
    BY <1>2 DEF SelectShape
  <2>2. Worded(s, place, t) = s /\ s.columns = cols
    BY <1>2, <2>1, WordedIs, StmtGrows
  <2>3. CASE t.type = "COMMA" /\ next = "selectColumn"
    <3>1. Append(w, t) = Before(SelectOpen, NameItems(cols))
      BY <2>1, <2>3, NamesListed, CommaRead
    <3>2. Len(cols) < MaxColumns /\ cols \in Lists(NameColumns, 0)
      BY <2>2, <2>3, NamesListed
    <3>3. SelectShape("selectColumn", s, Append(w, t))
      BY <2>1, <3>1, <3>2 DEF SelectShape
    <3> QED BY <2>2, <2>3, <3>3 DEF Shape
  <2>4. CASE t.type = "FROM" /\ next = "selectTable"
    <3>1. t = Word("FROM")
      BY <2>4, TokenOfType DEF Words
    <3>2. SelectShape("selectTable", s, Append(w, t))
      BY <2>1, <3>1, NamesListed DEF SelectShape, SelectFrom
    <3> QED BY <2>2, <2>4, <3>2 DEF Shape
  <2> QED BY <1>2, <2>3, <2>4, SelectGoes
<1>3. CASE place = "selectFrom"
  <2>1. /\ s = Stmt("SELECT", "none", <<Plain("OP_STAR")>>, <<>>)
        /\ w = SelectOpen \o Joined(NameItems(<<Plain("OP_STAR")>>))
    BY <1>3 DEF SelectShape
  <2>2. t.type = "FROM" /\ next = "selectTable" /\ Worded(s, place, t) = s
    BY <1>3, SelectGoes, WordedIs
  <2>3. t = Word("FROM")
    BY <2>2, TokenOfType DEF Words
  <2>4. <<Plain("OP_STAR")>> \in SelectLists
    BY DEF SelectLists
  <2>5. SelectShape("selectTable", s, Append(w, t))
    BY <2>1, <2>3, <2>4 DEF SelectShape, SelectFrom
  <2> QED BY <2>2, <2>5 DEF Shape
<1>4. CASE place = "selectTable"
  <2>1. PICK cols \in SelectLists : s = Stmt("SELECT", "none", cols, <<>>) /\ w = SelectFrom(cols)
    BY <1>4 DEF SelectShape
  <2>2. t.type = "name" /\ next = "selectEnd"
    BY <1>4, SelectGoes
  <2>3. t.lexeme \in Names /\ t = Name(t.lexeme)
    BY <2>2, TokenOfType
  <2>4. Worded(s, place, t) = Stmt("SELECT", t.lexeme, cols, <<>>)
    BY <1>4, <2>1, WordedIs, StmtGrows
  <2>5. Append(w, t) = Append(SelectFrom(cols), Name(t.lexeme))
    BY <2>1, <2>3
  <2>6. SelectShape("selectEnd", Worded(s, place, t), Append(w, t))
    BY <2>3, <2>4, <2>5 DEF SelectShape
  <2> QED BY <2>2, <2>6 DEF Shape
<1>5. CASE place = "selectEnd"
  <2>1. PICK cols \in SelectLists, n \in Names :
           s = Stmt("SELECT", n, cols, <<>>) /\ w = Append(SelectFrom(cols), Name(n))
    BY <1>5 DEF SelectShape
  <2>2. next = "accepted" /\ Worded(s, place, t) = s
    BY <1>5, SelectGoes, WordedIs
  <2>3. s \in Sentences /\ s.kind = "SELECT"
    <3>1. s \in Sentences
      BY <2>1, SentencesMade
    <3> QED BY <2>1, <3>1 DEF Stmt
  <2>4. Spelling(s) = Append(SelectFrom(cols), Name(n))
    BY <2>1, SpellingsAre
  <2>5. w = Spelling(s) /\ t \in Closers(s)
    BY <2>1, <2>3, <2>4 DEF Closers
  <2> QED BY <2>2, <2>3, <2>5 DEF Shape, WholeShape
<1> QED BY <1>1, <1>2, <1>3, <1>4, <1>5 DEF SelectPlaces

LEMMA ValueRead ==
    ASSUME NEW open \in Streams, NEW vals \in Lists(Literals, 0), Len(vals) < MaxColumns,
           NEW t \in Tokens, t.type \in {"number", "text"}
    PROVE  /\ Append(vals, t) \in Lists(Literals, 1)
           /\ Append(Before(open, ValueItems(vals)), t) = open \o Joined(ValueItems(Append(vals, t)))
<1>1. t \in Literals /\ t \in Tokens
  BY TokenOfType DEF Literals
<1>2. vals \in Seq(Literals) /\ ValueItems(vals) \in Seq(Streams)
  BY ListsAreStreams
<1>3. <<t>> \in Streams /\ ValueItems(Append(vals, t)) = Append(ValueItems(vals), <<t>>)
  BY <1>1, <1>2, ValueItemsGrow
<1>4. /\ Before(open, ValueItems(vals)) \in Streams
      /\ Before(open, ValueItems(vals)) \o <<t>> = open \o Joined(Append(ValueItems(vals), <<t>>))
  BY <1>2, <1>3, ItemRead
<1>5. Append(Before(open, ValueItems(vals)), t) = Before(open, ValueItems(vals)) \o <<t>>
  BY <1>1, <1>4, OneToken
<1>6. Append(vals, t) \in Lists(Literals, 1)
  BY <1>1, ListGrows
<1> QED BY <1>3, <1>4, <1>5, <1>6

LEMMA ValuesListed ==
    ASSUME NEW vals \in Lists(Literals, 1)
    PROVE  /\ vals \in Lists(Literals, 0)
           /\ ValueItems(vals) \in Seq(Streams) /\ Len(ValueItems(vals)) # 0
<1>1. vals \in Lists(Literals, 0) /\ vals # <<>> /\ Len(vals) # 0
  BY ListGrows, ListsAre
<1>2. vals \in Seq(Literals) /\ ValueItems(vals) \in Seq(Streams)
  BY <1>1, ListsAreStreams
<1>3. PICK m \in Numbers : Number(m) \in Literals
  BY CompilerAssumption DEF Literals
<1>4. Len(ValueItems(vals)) = Len(vals)
  BY <1>2, <1>3, ValueItemsGrow
<1> QED BY <1>1, <1>2, <1>4

LEMMA EmptyListRead ==
    ASSUME NEW head \in Streams, NEW t \in Tokens, t.type = "OPEN_PAREN"
    PROVE  Append(head, t) = Before(Opened(head), <<>>)
<1>1. t = Word("OPEN_PAREN")
  BY TokenOfType DEF Words
<1> QED BY <1>1 DEF Before, Opened

LEMMA EndRead ==
    ASSUME NEW head \in Streams, NEW list \in Streams, NEW t \in Tokens, t.type = "CLOSE_PAREN"
    PROVE  Append(Opened(head) \o list, t) = head \o InParens(list)
<1>1. t = Word("CLOSE_PAREN")
  BY TokenOfType DEF Words
<1> QED BY <1>1, ListClosed

LEMMA InsertGrows ==
    ASSUME NEW place \in InsertPlaces, NEW s, NEW w, InsertShape(place, s, w),
           NEW t \in Tokens, NEW next \in Goes(place, t),
           t.type = "COMMA" => Len(IF place = "valueNext" THEN s.values ELSE s.columns) < MaxColumns
    PROVE  Shape(next, Worded(s, place, t), Append(w, t))
<1>1. t \in Tokens /\ (t.type \in Words => t = Word(t.type))
  BY TokenOfType
<1>2. CASE place = "insertInto"
  <2>1. s = Stmt("INSERT", "none", <<>>, <<>>) /\ w = <<Word("INSERT")>>
    BY <1>2 DEF InsertShape
  <2>2. t.type = "INTO" /\ next = "insertTable" /\ Worded(s, place, t) = s
    BY <1>2, InsertGoes, WordedIs
  <2>3. t = Word("INTO") /\ Word("INSERT") \in Tokens
    BY <1>1, <2>2, WordTokens DEF Words
  <2>4. Append(w, t) = <<Word("INSERT"), Word("INTO")>>
    BY <1>1, <2>1, <2>3, TuplesGrow
  <2>5. InsertShape("insertTable", s, Append(w, t))
    BY <2>1, <2>4 DEF InsertShape
  <2> QED BY <2>2, <2>5 DEF Shape
<1>3. CASE place = "insertTable"
  <2>1. s = Stmt("INSERT", "none", <<>>, <<>>) /\ w = <<Word("INSERT"), Word("INTO")>>
    BY <1>3 DEF InsertShape
  <2>2. t.type = "name" /\ next = "insertShape"
    BY <1>3, InsertGoes
  <2>3. t.lexeme \in Names /\ t = Name(t.lexeme)
    BY <2>2, TokenOfType
  <2>4. Worded(s, place, t) = Stmt("INSERT", t.lexeme, <<>>, <<>>)
    BY <1>3, <2>1, WordedIs, StmtGrows
  <2>5. Append(w, t) = InsertHead(t.lexeme)
    BY <2>1, <2>3, HeadsAre
  <2>6. InsertShape("insertShape", Worded(s, place, t), Append(w, t))
    BY <2>3, <2>4, <2>5 DEF InsertShape
  <2> QED BY <2>2, <2>6 DEF Shape
<1>4. CASE place = "insertShape"
  <2>1. PICK n \in Names : s = Stmt("INSERT", n, <<>>, <<>>) /\ w = InsertHead(n)
    BY <1>4 DEF InsertShape
  <2>2. Worded(s, place, t) = s /\ <<>> \in Lists(NameColumns, 0) /\ Len(<<>>) < MaxColumns
    BY <1>4, WordedIs, EmptyList
  <2>3. CASE t.type = "OPEN_PAREN" /\ next = "insertColumn"
    <3>1. Append(w, t) = Before(Opened(InsertHead(n)), NameItems(<<>>))
      BY <2>1, <2>3, HeadsAre, EmptyListRead, ItemsOfNothing
    <3>2. InsertShape("insertColumn", s, Append(w, t))
      BY <2>1, <2>2, <3>1 DEF InsertShape
    <3> QED BY <2>2, <2>3, <3>2 DEF Shape
  <2>4. CASE t.type = "VALUES" /\ next = "insertOpen"
    <3>1. Append(w, t) = InsertValues(n, <<>>)
      BY <1>1, <2>1, <2>4 DEF InsertValues, InsertTo, Words
    <3>2. InsertShape("insertOpen", s, Append(w, t))
      BY <2>1, <2>2, <3>1 DEF InsertShape
    <3> QED BY <2>2, <2>4, <3>2 DEF Shape
  <2> QED BY <1>4, <2>3, <2>4, InsertGoes
<1>5. CASE place = "insertColumn"
  <2>1. PICK n \in Names, cols \in Lists(NameColumns, 0) :
           /\ Len(cols) < MaxColumns
           /\ s = Stmt("INSERT", n, cols, <<>>)
           /\ w = Before(Opened(InsertHead(n)), NameItems(cols))
    BY <1>5 DEF InsertShape
  <2>2. t.type = "name" /\ next = "insertNext"
    BY <1>5, InsertGoes
  <2> DEFINE more == Append(cols, Plain(t.lexeme))
  <2>3. Worded(s, place, t) = Stmt("INSERT", n, more, <<>>)
    BY <1>5, <2>1, WordedIs, StmtGrows
  <2>4. /\ more \in Lists(NameColumns, 1)
        /\ Append(w, t) = Opened(InsertHead(n)) \o Joined(NameItems(more))
    BY <2>1, <2>2, HeadsAreStreams, NameRead
  <2> HIDE DEF more
  <2>5. InsertShape("insertNext", Worded(s, place, t), Append(w, t))
    BY <2>3, <2>4 DEF InsertShape
  <2> QED BY <2>2, <2>5 DEF Shape
<1>6. CASE place = "insertNext"
  <2>1. PICK n \in Names, cols \in Lists(NameColumns, 1) :
           /\ s = Stmt("INSERT", n, cols, <<>>)
           /\ w = Opened(InsertHead(n)) \o Joined(NameItems(cols))
    BY <1>6 DEF InsertShape
  <2>2. Worded(s, place, t) = s /\ s.columns = cols
    BY <1>6, <2>1, WordedIs, StmtGrows
  <2>3. CASE t.type = "COMMA" /\ next = "insertColumn"
    <3>1. Append(w, t) = Before(Opened(InsertHead(n)), NameItems(cols))
      BY <2>1, <2>3, NamesListed, CommaRead
    <3>2. Len(cols) < MaxColumns /\ cols \in Lists(NameColumns, 0)
      BY <1>6, <2>2, <2>3, NamesListed
    <3>3. InsertShape("insertColumn", s, Append(w, t))
      BY <2>1, <3>1, <3>2 DEF InsertShape
    <3> QED BY <2>2, <2>3, <3>3 DEF Shape
  <2>4. CASE t.type = "CLOSE_PAREN" /\ next = "insertValues"
    <3>1. Append(w, t) = InsertHead(n) \o InParens(Joined(NameItems(cols)))
      BY <2>1, <2>4, HeadsAre, NamesListed, ListsAreStreams, EndRead
    <3>2. Append(w, t) = InsertTo(n, cols)
      BY <3>1, NamesListed DEF InsertTo
    <3>3. InsertShape("insertValues", s, Append(w, t))
      BY <2>1, <3>2 DEF InsertShape
    <3> QED BY <2>2, <2>4, <3>3 DEF Shape
  <2> QED BY <1>6, <2>3, <2>4, InsertGoes
<1>7. CASE place = "insertValues"
  <2>1. PICK n \in Names, cols \in Lists(NameColumns, 1) :
           s = Stmt("INSERT", n, cols, <<>>) /\ w = InsertTo(n, cols)
    BY <1>7 DEF InsertShape
  <2>2. t.type = "VALUES" /\ next = "insertOpen" /\ Worded(s, place, t) = s
    BY <1>7, InsertGoes, WordedIs
  <2>3. Append(w, t) = InsertValues(n, cols)
    BY <1>1, <2>1, <2>2 DEF InsertValues, Words
  <2>4. InsertShape("insertOpen", s, Append(w, t))
    BY <2>1, <2>3, NamesListed DEF InsertShape
  <2> QED BY <2>2, <2>4 DEF Shape
<1>8. CASE place = "insertOpen"
  <2>1. PICK n \in Names, cols \in Lists(NameColumns, 0) :
           s = Stmt("INSERT", n, cols, <<>>) /\ w = InsertValues(n, cols)
    BY <1>8 DEF InsertShape
  <2>2. t.type = "OPEN_PAREN" /\ next = "value" /\ Worded(s, place, t) = s
    BY <1>8, InsertGoes, WordedIs
  <2>3. Append(w, t) = Before(Opened(InsertValues(n, cols)), ValueItems(<<>>))
    BY <2>1, <2>2, HeadsAreStreams, EmptyListRead, ItemsOfNothing
  <2>4. <<>> \in Lists(Literals, 0) /\ Len(<<>>) < MaxColumns
    BY EmptyList
  <2>5. InsertShape("value", s, Append(w, t))
    BY <2>1, <2>3, <2>4 DEF InsertShape
  <2> QED BY <2>2, <2>5 DEF Shape
<1>9. CASE place = "value"
  <2>1. PICK n \in Names, cols \in Lists(NameColumns, 0), vals \in Lists(Literals, 0) :
           /\ Len(vals) < MaxColumns
           /\ s = Stmt("INSERT", n, cols, vals)
           /\ w = Before(Opened(InsertValues(n, cols)), ValueItems(vals))
    BY <1>9 DEF InsertShape
  <2>2. t.type \in {"number", "text"} /\ next = "valueNext"
    BY <1>9, InsertGoes
  <2> DEFINE more == Append(vals, t)
  <2>3. Worded(s, place, t) = Stmt("INSERT", n, cols, more)
    BY <1>9, <2>1, WordedIs, StmtGrows
  <2>4. more \in Lists(Literals, 1)
        /\ Append(w, t) = Opened(InsertValues(n, cols)) \o Joined(ValueItems(more))
    BY <2>1, <2>2, HeadsAreStreams, ValueRead
  <2> HIDE DEF more
  <2>5. InsertShape("valueNext", Worded(s, place, t), Append(w, t))
    BY <2>1, <2>3, <2>4 DEF InsertShape
  <2> QED BY <2>2, <2>5 DEF Shape
<1>10. CASE place = "valueNext"
  <2>1. PICK n \in Names, cols \in Lists(NameColumns, 0), vals \in Lists(Literals, 1) :
           /\ s = Stmt("INSERT", n, cols, vals)
           /\ w = Opened(InsertValues(n, cols)) \o Joined(ValueItems(vals))
    BY <1>10 DEF InsertShape
  <2>2. Worded(s, place, t) = s /\ s.values = vals
    BY <1>10, <2>1, WordedIs, StmtGrows
  <2>3. CASE t.type = "COMMA" /\ next = "value"
    <3>1. Append(w, t) = Before(Opened(InsertValues(n, cols)), ValueItems(vals))
      BY <2>1, <2>3, ValuesListed, CommaRead
    <3>2. Len(vals) < MaxColumns /\ vals \in Lists(Literals, 0)
      BY <1>10, <2>2, <2>3, ValuesListed
    <3>3. InsertShape("value", s, Append(w, t))
      BY <2>1, <3>1, <3>2 DEF InsertShape
    <3> QED BY <2>2, <2>3, <3>3 DEF Shape
  <2>4. CASE t.type = "CLOSE_PAREN" /\ next = "insertEnd"
    <3>1. Append(w, t) = InsertValues(n, cols) \o InParens(Joined(ValueItems(vals)))
      BY <2>1, <2>4, HeadsAreStreams, ValuesListed, ListsAreStreams, EndRead
    <3>2. InsertShape("insertEnd", s, Append(w, t))
      BY <2>1, <3>1 DEF InsertShape
    <3> QED BY <2>2, <2>4, <3>2 DEF Shape
  <2> QED BY <1>10, <2>3, <2>4, InsertGoes
<1>11. CASE place = "insertEnd"
  <2>1. PICK n \in Names, cols \in Lists(NameColumns, 0), vals \in Lists(Literals, 1) :
           /\ s = Stmt("INSERT", n, cols, vals)
           /\ w = InsertValues(n, cols) \o InParens(Joined(ValueItems(vals)))
    BY <1>11 DEF InsertShape
  <2>2. t.type = "END_OF_LINE" /\ next = "accepted" /\ Worded(s, place, t) = s
    BY <1>11, InsertGoes, WordedIs
  <2>3. s \in Sentences /\ s.kind = "INSERT"
    <3>1. s \in Sentences
      BY <2>1, SentencesMade
    <3> QED BY <2>1, <3>1 DEF Stmt
  <2>4. Spelling(s) = InsertValues(n, cols) \o InParens(Joined(ValueItems(vals)))
    BY <2>1, SpellingsAre
  <2>5. w = Spelling(s) /\ t \in Closers(s)
    BY <1>1, <2>1, <2>2, <2>3, <2>4 DEF Closers, Words
  <2> QED BY <2>2, <2>3, <2>5 DEF Shape, WholeShape
<1> QED BY <1>2, <1>3, <1>4, <1>5, <1>6, <1>7, <1>8, <1>9, <1>10, <1>11 DEF InsertPlaces

LEMMA ColumnTyped ==
    ASSUME NEW m, NEW a, NEW b, NEW x
    PROVE  /\ [[name |-> m, type |-> a, length |-> b] EXCEPT !.type = x] = [name |-> m, type |-> x, length |-> b]
           /\ [[name |-> m, type |-> a, length |-> b] EXCEPT !.length = x] = [name |-> m, type |-> a, length |-> x]
<1>1. [[name |-> m, type |-> a, length |-> b] EXCEPT !.type = x] = [name |-> m, type |-> x, length |-> b]
  OBVIOUS
<1>2. [[name |-> m, type |-> a, length |-> b] EXCEPT !.length = x] = [name |-> m, type |-> a, length |-> x]
  OBVIOUS
<1> QED BY <1>1, <1>2

LEMMA LastColumnIs ==
    ASSUME NEW k, NEW n, NEW v, NEW C, NEW cols \in Seq(C), NEW m, NEW a, NEW b, NEW type, NEW length
    PROVE  LastColumn(Stmt(k, n, Append(cols, [name |-> m, type |-> a, length |-> b]), v), type, length)
               = Stmt(k, n, Append(cols, [name |-> m, type |-> type, length |-> length]), v)
<1> DEFINE old == [name |-> m, type |-> a, length |-> b]
           new == [name |-> m, type |-> type, length |-> length]
           q   == Append(cols, old)
           p   == Len(cols) + 1
           D   == C \cup {old, new}
<1>1. new = [[old EXCEPT !.type = type] EXCEPT !.length = length]
  <2>1. [old EXCEPT !.type = type] = [name |-> m, type |-> type, length |-> b]
    BY ColumnTyped
  <2>2. [[name |-> m, type |-> type, length |-> b] EXCEPT !.length = length] = new
    BY ColumnTyped
  <2> QED BY <2>1, <2>2
<1>2. cols \in Seq(D) /\ old \in D /\ new \in D
  OBVIOUS
<1> HIDE DEF old, new, D
<1>3. /\ q \in Seq(D) /\ Len(q) = p /\ p \in Nat /\ q[p] = old /\ \A i \in 1 .. Len(cols) : q[i] = cols[i]
      /\ DOMAIN q = 1 .. p /\ Len(cols) \in Nat
  BY <1>2, AppendProperties, LenProperties
<1>4. /\ Append(cols, new) \in Seq(D) /\ Len(Append(cols, new)) = p
      /\ Append(cols, new)[p] = new
      /\ \A i \in 1 .. Len(cols) : Append(cols, new)[i] = cols[i]
  BY <1>2, AppendProperties
<1> HIDE DEF q, p
<1>5. LastColumn(Stmt(k, n, q, v), type, length)
          = Stmt(k, n, [[q EXCEPT ![p].type = type] EXCEPT ![p].length = length], v)
  <2> DEFINE s == Stmt(k, n, q, v)
             t == Stmt(k, n, [q EXCEPT ![p].type = type], v)
  <2>1. s.columns = q
    BY DEF Stmt
  <2>2. LastColumn(s, type, length)
           = [[s EXCEPT !.columns[p].type = type] EXCEPT !.columns[p].length = length]
    BY <1>3, <2>1 DEF LastColumn
  <2>3. [s EXCEPT !.columns[p].type = type] = t
    BY DEF Stmt
  <2>4. [t EXCEPT !.columns[p].length = length]
           = Stmt(k, n, [[q EXCEPT ![p].type = type] EXCEPT ![p].length = length], v)
    BY DEF Stmt
  <2> QED BY <2>2, <2>3, <2>4
<1>6. [[q EXCEPT ![p].type = type] EXCEPT ![p].length = length] = [q EXCEPT ![p] = new]
  <2>1. p \in DOMAIN q
    BY <1>3 DEF p
  <2>2. [[q EXCEPT ![p] = [q[p] EXCEPT !.type = type]] EXCEPT ![p] = [@ EXCEPT !.length = length]]
            = [q EXCEPT ![p] = [[q[p] EXCEPT !.type = type] EXCEPT !.length = length]]
    BY <2>1
  <2> QED BY <1>1, <1>3, <2>2
<1>7. [q EXCEPT ![p] = new] = Append(cols, new)
  <2> DEFINE r == [q EXCEPT ![p] = new]
  <2>1. /\ r \in Seq(D) /\ Len(r) = p
        /\ r[p] = new /\ \A i \in 1 .. Len(cols) : r[i] = cols[i]
    <3>1. p \notin 1 .. Len(cols) /\ 1 .. Len(cols) \subseteq 1 .. p /\ p \in 1 .. p
      BY <1>3 DEF p
    <3>2. p \in 1 .. Len(q)
      BY <1>3, <3>1
    <3> QED BY <1>2, <1>3, <3>1, <3>2, ExceptSeq
  <2> HIDE DEF r
  <2>2. \A i \in 1 .. p : r[i] = Append(cols, new)[i]
    <3>1. \A i \in 1 .. p : i = p \/ i \in 1 .. Len(cols)
      BY <1>3 DEF p
    <3> QED BY <1>4, <2>1, <3>1
  <2>3. r = Append(cols, new)
    BY <1>4, <2>1, <2>2, SeqEqual
  <2> QED BY <2>3 DEF r
<1> QED BY <1>5, <1>6, <1>7 DEF q, old, new

LEMMA TailGrows ==
    ASSUME NEW w \in Streams
    PROVE  /\ \A a, b \in Tokens : Append(Append(w, a), b) = w \o <<a, b>>
           /\ \A a, b, c \in Tokens : Append(w \o <<a, b>>, c) = w \o <<a, b, c>>
           /\ \A a, b, c, d \in Tokens : Append(w \o <<a, b, c>>, d) = w \o <<a, b, c, d>>
           /\ \A a, b, c, d, e \in Tokens : Append(w \o <<a, b, c, d>>, e) = w \o <<a, b, c, d, e>>
<1>1. ASSUME NEW a \in Tokens, NEW b \in Tokens PROVE Append(Append(w, a), b) = w \o <<a, b>>
  <2>1. <<a>> \in Streams /\ Append(w, a) = w \o <<a>>
    BY OneToken
  <2>2. w \o Append(<<a>>, b) = Append(w \o <<a>>, b)
    BY <2>1, JoinAppended
  <2> QED BY <2>1, <2>2, TuplesGrow
<1>2. ASSUME NEW a \in Tokens, NEW b \in Tokens, NEW c \in Tokens
      PROVE  Append(w \o <<a, b>>, c) = w \o <<a, b, c>>
  <2>1. <<a, b>> \in Streams
    BY DEF Streams
  <2>2. w \o Append(<<a, b>>, c) = Append(w \o <<a, b>>, c)
    BY <2>1, JoinAppended
  <2> QED BY <2>2, TuplesGrow
<1>3. ASSUME NEW a \in Tokens, NEW b \in Tokens, NEW c \in Tokens, NEW d \in Tokens
      PROVE  Append(w \o <<a, b, c>>, d) = w \o <<a, b, c, d>>
  <2>1. <<a, b, c>> \in Streams
    BY DEF Streams
  <2>2. w \o Append(<<a, b, c>>, d) = Append(w \o <<a, b, c>>, d)
    BY <2>1, JoinAppended
  <2> QED BY <2>2, TuplesGrow
<1>4. ASSUME NEW a \in Tokens, NEW b \in Tokens, NEW c \in Tokens, NEW d \in Tokens, NEW e \in Tokens
      PROVE  Append(w \o <<a, b, c, d>>, e) = w \o <<a, b, c, d, e>>
  <2>1. <<a, b, c, d>> \in Streams
    BY DEF Streams
  <2>2. w \o Append(<<a, b, c, d>>, e) = Append(w \o <<a, b, c, d>>, e)
    BY <2>1, JoinAppended
  <2> QED BY <2>2, TuplesGrow
<1> QED BY <1>1, <1>2, <1>3, <1>4

LEMMA DefinitionRead ==
    ASSUME NEW n \in Names, NEW cols \in Lists(WrittenColumns, 0),
           Len(cols) < MaxColumns, NEW c \in WrittenColumns
    PROVE  /\ Append(cols, c) \in Lists(WrittenColumns, 1)
           /\ Defining(n, cols) \o Definition(c)
                  = Opened(CreateHead(n)) \o Joined(DefItems(Append(cols, c)))
<1>1. cols \in Seq(WrittenColumns) /\ DefItems(cols) \in Seq(Streams)
      /\ Definition(c) \in Streams /\ Opened(CreateHead(n)) \in Streams
  BY ListsAreStreams, DefinitionsAreStreams, HeadsAreStreams
<1>2. DefItems(Append(cols, c)) = Append(DefItems(cols), Definition(c))
  BY <1>1, DefItemsGrow
<1>3. Before(Opened(CreateHead(n)), DefItems(cols)) \o Definition(c)
          = Opened(CreateHead(n)) \o Joined(Append(DefItems(cols), Definition(c)))
  BY <1>1, ItemRead
<1>4. Append(cols, c) \in Lists(WrittenColumns, 1)
  BY ListGrows
<1> QED BY <1>2, <1>3, <1>4 DEF Defining

LEMMA DefinitionsListed ==
    ASSUME NEW cols \in Lists(WrittenColumns, 1)
    PROVE  /\ cols \in Lists(WrittenColumns, 0)
           /\ DefItems(cols) \in Seq(Streams) /\ Len(DefItems(cols)) # 0
<1>1. cols \in Lists(WrittenColumns, 0) /\ cols # <<>> /\ Len(cols) # 0
  BY ListGrows, ListsAre
<1>2. cols \in Seq(WrittenColumns) /\ DefItems(cols) \in Seq(Streams)
  BY <1>1, ListsAreStreams
<1>3. PICK n \in Names : IntColumn(n) \in WrittenColumns
  BY CompilerAssumption, TypedColumnIs
<1>4. Len(DefItems(cols)) = Len(cols)
  BY <1>2, <1>3, DefItemsGrow
<1> QED BY <1>1, <1>2, <1>4

LEMMA ColumnNoted ==
    ASSUME NEW n, NEW cols \in Seq(WrittenColumns), NEW m, NEW l
    PROVE  /\ LastColumn(Stmt("CREATE", n, Append(cols, Plain(m)), <<>>), "INT", "none")
                  = Stmt("CREATE", n, Append(cols, IntColumn(m)), <<>>)
           /\ LastColumn(Stmt("CREATE", n, Append(cols, Plain(m)), <<>>), "VARCHAR", "none")
                  = Stmt("CREATE", n, Append(cols, VarcharColumn(m, "none")), <<>>)
           /\ LastColumn(Stmt("CREATE", n, Append(cols, VarcharColumn(m, "none")), <<>>), "VARCHAR", l)
                  = Stmt("CREATE", n, Append(cols, VarcharColumn(m, l)), <<>>)
<1>1. ASSUME NEW a, NEW b, NEW type, NEW length
      PROVE  LastColumn(Stmt("CREATE", n, Append(cols, [name |-> m, type |-> a, length |-> b]), <<>>), type, length)
               = Stmt("CREATE", n, Append(cols, [name |-> m, type |-> type, length |-> length]), <<>>)
  BY LastColumnIs
<1>2. LastColumn(Stmt("CREATE", n, Append(cols, Plain(m)), <<>>), "INT", "none")
          = Stmt("CREATE", n, Append(cols, IntColumn(m)), <<>>)
  BY <1>1 DEF Plain, IntColumn
<1>3. LastColumn(Stmt("CREATE", n, Append(cols, Plain(m)), <<>>), "VARCHAR", "none")
          = Stmt("CREATE", n, Append(cols, VarcharColumn(m, "none")), <<>>)
  BY <1>1 DEF Plain, VarcharColumn
<1>4. LastColumn(Stmt("CREATE", n, Append(cols, VarcharColumn(m, "none")), <<>>), "VARCHAR", l)
          = Stmt("CREATE", n, Append(cols, VarcharColumn(m, l)), <<>>)
  BY <1>1 DEF VarcharColumn
<1> QED BY <1>2, <1>3, <1>4

LEMMA ColumnRead ==
    ASSUME NEW n \in Names, NEW cols \in Lists(WrittenColumns, 0),
           Len(cols) < MaxColumns, NEW c \in WrittenColumns, NEW w,
           w = Defining(n, cols) \o Definition(c)
    PROVE  CreateShape("createNext", Stmt("CREATE", n, Append(cols, c), <<>>), w)
<1> DEFINE more == Append(cols, c)
<1>1. more \in Lists(WrittenColumns, 1) /\ w = Opened(CreateHead(n)) \o Joined(DefItems(more))
  BY DefinitionRead
<1> HIDE DEF more
<1>2. CreateShape("createNext", Stmt("CREATE", n, more, <<>>), w)
  BY <1>1 DEF CreateShape
<1> QED BY <1>2 DEF more

LEMMA ListEnds ==
    ASSUME NEW n \in Names, NEW cols \in Lists(WrittenColumns, 1),
           NEW t \in Tokens, t.type \in {"COMMA", "CLOSE_PAREN"},
           t.type = "COMMA" => Len(cols) < MaxColumns, NEW s, s = Stmt("CREATE", n, cols, <<>>),
           NEW w, w = Opened(CreateHead(n)) \o Joined(DefItems(cols))
    PROVE  /\ t.type = "COMMA" => CreateShape("createColumn", s, Append(w, t))
           /\ t.type = "CLOSE_PAREN" => CreateShape("createEnd", s, Append(w, t))
<1>1. ASSUME t.type = "COMMA" PROVE CreateShape("createColumn", s, Append(w, t))
  <2>1. Append(w, t) = Defining(n, cols)
    BY <1>1, DefinitionsListed, CommaRead DEF Defining
  <2> QED BY <1>1, <2>1, DefinitionsListed DEF CreateShape
<1>2. ASSUME t.type = "CLOSE_PAREN" PROVE CreateShape("createEnd", s, Append(w, t))
  <2>1. Append(w, t) = CreateHead(n) \o InParens(Joined(DefItems(cols)))
    BY <1>2, HeadsAre, DefinitionsListed, ListsAreStreams, EndRead
  <2> QED BY <2>1 DEF CreateShape
<1> QED BY <1>1, <1>2

LEMMA CreateGrows ==
    ASSUME NEW place \in CreatePlaces, NEW s, NEW w, CreateShape(place, s, w),
           NEW t \in Tokens, NEW next \in Goes(place, t),
           t.type = "COMMA" => Len(s.columns) < MaxColumns
    PROVE  Shape(next, Worded(s, place, t), Append(w, t))
<1>1. t \in Tokens /\ (t.type \in Words => t = Word(t.type))
  BY TokenOfType
<1>2. CASE place = "createWord"
  <2>1. s = Stmt("CREATE", "none", <<>>, <<>>) /\ w = <<Word("CREATE")>>
    BY <1>2 DEF CreateShape
  <2>2. t.type = "TABLE" /\ next = "createTable" /\ Worded(s, place, t) = s
    BY <1>2, CreateGoes, WordedIs
  <2>3. t = Word("TABLE") /\ Word("CREATE") \in Tokens
    BY <1>1, <2>2, WordTokens DEF Words
  <2>4. Append(w, t) = <<Word("CREATE"), Word("TABLE")>>
    BY <1>1, <2>1, <2>3, TuplesGrow
  <2>5. CreateShape("createTable", s, Append(w, t))
    BY <2>1, <2>4 DEF CreateShape
  <2> QED BY <2>2, <2>5 DEF Shape
<1>3. CASE place = "createTable"
  <2>1. s = Stmt("CREATE", "none", <<>>, <<>>) /\ w = <<Word("CREATE"), Word("TABLE")>>
    BY <1>3 DEF CreateShape
  <2>2. t.type = "name" /\ next = "createOpen"
    BY <1>3, CreateGoes
  <2>3. t.lexeme \in Names /\ t = Name(t.lexeme)
    BY <2>2, TokenOfType
  <2>4. Worded(s, place, t) = Stmt("CREATE", t.lexeme, <<>>, <<>>)
    BY <1>3, <2>1, WordedIs, StmtGrows
  <2>5. Append(w, t) = CreateHead(t.lexeme)
    BY <2>1, <2>3, HeadsAre
  <2>6. CreateShape("createOpen", Worded(s, place, t), Append(w, t))
    BY <2>3, <2>4, <2>5 DEF CreateShape
  <2> QED BY <2>2, <2>6 DEF Shape
<1>4. CASE place = "createOpen"
  <2>1. PICK n \in Names : s = Stmt("CREATE", n, <<>>, <<>>) /\ w = CreateHead(n)
    BY <1>4 DEF CreateShape
  <2>2. t.type = "OPEN_PAREN" /\ next = "createColumn" /\ Worded(s, place, t) = s
    BY <1>4, CreateGoes, WordedIs
  <2>3. <<>> \in Lists(WrittenColumns, 0) /\ Len(<<>>) < MaxColumns
    BY EmptyList
  <2>4. Append(w, t) = Before(Opened(CreateHead(n)), <<>>)
    BY <2>1, <2>2, HeadsAre, EmptyListRead
  <2>5. Append(w, t) = Defining(n, <<>>)
    BY <2>4, ItemsOfNothing DEF Defining
  <2>6. CreateShape("createColumn", s, Append(w, t))
    BY <2>1, <2>3, <2>5 DEF CreateShape
  <2> QED BY <2>2, <2>6 DEF Shape
<1>5. CASE place = "createColumn"
  <2>1. PICK n \in Names, cols \in Lists(WrittenColumns, 0) :
           /\ Len(cols) < MaxColumns
           /\ s = Stmt("CREATE", n, cols, <<>>) /\ w = Defining(n, cols)
    BY <1>5 DEF CreateShape
  <2>2. t.type = "name" /\ next = "columnType"
    BY <1>5, CreateGoes
  <2>3. t.lexeme \in Names /\ t = Name(t.lexeme)
    BY <2>2, TokenOfType
  <2>4. Worded(s, place, t) = Stmt("CREATE", n, Append(cols, Plain(t.lexeme)), <<>>)
    BY <1>5, <2>1, WordedIs, StmtGrows
  <2>5. Append(w, t) = Append(Defining(n, cols), Name(t.lexeme))
    BY <2>1, <2>3
  <2>6. CreateShape("columnType", Worded(s, place, t), Append(w, t))
    BY <2>1, <2>3, <2>4, <2>5 DEF CreateShape
  <2> QED BY <2>2, <2>6 DEF Shape
<1>6. CASE place \in {"columnType", "varcharNext", "length", "lengthEnd"}
  <2>1. PICK n \in Names, cols \in Lists(WrittenColumns, 0), m \in Names :
           /\ Len(cols) < MaxColumns
           /\ \/ /\ place = "columnType"
                 /\ s = Stmt("CREATE", n, Append(cols, Plain(m)), <<>>)
                 /\ w = Append(Defining(n, cols), Name(m))
              \/ /\ place = "varcharNext"
                 /\ s = Stmt("CREATE", n, Append(cols, VarcharColumn(m, "none")), <<>>)
                 /\ w = Defining(n, cols) \o <<Name(m), Word("VARCHAR")>>
              \/ /\ place = "length"
                 /\ s = Stmt("CREATE", n, Append(cols, VarcharColumn(m, "none")), <<>>)
                 /\ w = Defining(n, cols) \o <<Name(m), Word("VARCHAR"), Word("OPEN_PAREN")>>
              \/ /\ place = "lengthEnd"
                 /\ \E l \in Numbers :
                       /\ s = Stmt("CREATE", n, Append(cols, VarcharColumn(m, l)), <<>>)
                       /\ w = Defining(n, cols)
                                \o <<Name(m), Word("VARCHAR"), Word("OPEN_PAREN"), Number(l)>>
    BY <1>6 DEF CreateShape
  <2> DEFINE base == Defining(n, cols)
  <2>2. /\ base \in Streams /\ Name(m) \in Tokens /\ Word("VARCHAR") \in Tokens /\ Word("INT") \in Tokens
        /\ Word("OPEN_PAREN") \in Tokens /\ Word("CLOSE_PAREN") \in Tokens
        /\ \A l \in Numbers : Number(l) \in Tokens
    BY HeadsAreStreams, TokensOfColumns
  <2>3. cols \in Seq(WrittenColumns)
    BY ListsAre
  <2>4. CASE place = "columnType"
    <3>1. s = Stmt("CREATE", n, Append(cols, Plain(m)), <<>>) /\ w = Append(base, Name(m))
      BY <2>1, <2>4
    <3>2. Worded(s, place, t) = LastColumn(s, t.type, "none")
      BY <2>4, WordedIs
    <3>3. CASE t.type = "INT" /\ next = "createNext"
      <4>1. Worded(s, place, t) = LastColumn(s, "INT", "none")
        BY <3>2, <3>3
      <4>2. Worded(s, place, t) = Stmt("CREATE", n, Append(cols, IntColumn(m)), <<>>)
        BY <2>3, <3>1, <4>1, ColumnNoted
      <4>3. t = Word("INT")
        BY <1>1, <3>3 DEF Words
      <4>4. Append(w, t) = base \o <<Name(m), Word("INT")>>
        BY <2>2, <3>1, <4>3, TailGrows
      <4>5. Append(w, t) = base \o Definition(IntColumn(m))
        BY <4>4, DefinitionIs
      <4>6. CreateShape("createNext", Worded(s, place, t), Append(w, t))
        <5>1. IntColumn(m) \in WrittenColumns
          BY TypedColumnIs
        <5> QED BY <2>1, <4>2, <4>5, <5>1, ColumnRead
      <4> QED BY <3>3, <4>6 DEF Shape
    <3>4. CASE t.type = "VARCHAR" /\ next = "varcharNext"
      <4>1. Worded(s, place, t) = LastColumn(s, "VARCHAR", "none")
        BY <3>2, <3>4
      <4>2. Worded(s, place, t) = Stmt("CREATE", n, Append(cols, VarcharColumn(m, "none")), <<>>)
        BY <2>3, <3>1, <4>1, ColumnNoted
      <4>3. t = Word("VARCHAR")
        BY <1>1, <3>4 DEF Words
      <4>4. Append(w, t) = base \o <<Name(m), Word("VARCHAR")>>
        BY <2>2, <3>1, <4>3, TailGrows
      <4>5. CreateShape("varcharNext", Worded(s, place, t), Append(w, t))
        BY <2>1, <4>2, <4>4 DEF CreateShape
      <4> QED BY <3>4, <4>5 DEF Shape
    <3> QED BY <2>4, <3>3, <3>4, CreateGoes
  <2>5. CASE place = "varcharNext"
    <3>1. /\ s = Stmt("CREATE", n, Append(cols, VarcharColumn(m, "none")), <<>>)
          /\ w = base \o <<Name(m), Word("VARCHAR")>>
      BY <2>1, <2>5
    <3>2. Worded(s, place, t) = s
      BY <2>5, WordedIs
    <3>3. CASE t.type = "OPEN_PAREN" /\ next = "length"
      <4>1. t = Word("OPEN_PAREN")
        BY <1>1, <3>3 DEF Words
      <4>2. Append(w, t) = base \o <<Name(m), Word("VARCHAR"), Word("OPEN_PAREN")>>
        BY <2>2, <3>1, <4>1, TailGrows
      <4>3. CreateShape("length", s, Append(w, t))
        BY <2>1, <3>1, <4>2 DEF CreateShape
      <4> QED BY <3>2, <3>3, <4>3 DEF Shape
    <3>4. CASE t.type \in {"COMMA", "CLOSE_PAREN"}
      <4> DEFINE more == Append(cols, VarcharColumn(m, "none"))
      <4>1. VarcharColumn(m, "none") \in WrittenColumns
        BY TypedColumnIs
      <4>2. w = base \o Definition(VarcharColumn(m, "none"))
        BY <3>1, DefinitionIs
      <4>3. w = Opened(CreateHead(n)) \o Joined(DefItems(more))
        BY <2>1, <4>1, <4>2, DefinitionRead
      <4>4. more \in Lists(WrittenColumns, 1)
        BY <2>1, <4>1, DefinitionRead
      <4>5. s = Stmt("CREATE", n, more, <<>>) /\ s.columns = more
        <5>1. s = Stmt("CREATE", n, more, <<>>)
          BY <3>1
        <5> HIDE DEF more
        <5> QED BY <5>1 DEF Stmt
      <4> HIDE DEF more
      <4>6. /\ t.type = "COMMA" => CreateShape("createColumn", s, Append(w, t))
            /\ t.type = "CLOSE_PAREN" => CreateShape("createEnd", s, Append(w, t))
        BY <3>4, <4>3, <4>4, <4>5, ListEnds
      <4>7. \/ t.type = "COMMA" /\ next = "createColumn"
            \/ t.type = "CLOSE_PAREN" /\ next = "createEnd"
        BY <2>5, <3>4, CreateGoes
      <4> QED BY <3>2, <4>6, <4>7 DEF Shape
    <3> QED BY <2>5, <3>3, <3>4, CreateGoes
  <2>6. CASE place = "length"
    <3>1. /\ s = Stmt("CREATE", n, Append(cols, VarcharColumn(m, "none")), <<>>)
          /\ w = base \o <<Name(m), Word("VARCHAR"), Word("OPEN_PAREN")>>
      BY <2>1, <2>6
    <3>2. t.type = "number" /\ next = "lengthEnd"
      BY <2>6, CreateGoes
    <3>3. t.lexeme \in Numbers /\ t = Number(t.lexeme)
      BY <3>2, TokenOfType
    <3>4. Worded(s, place, t) = LastColumn(s, "VARCHAR", t.lexeme)
      BY <2>6, WordedIs
    <3>5. Worded(s, place, t) = Stmt("CREATE", n, Append(cols, VarcharColumn(m, t.lexeme)), <<>>)
      BY <2>3, <3>1, <3>4, ColumnNoted
    <3>6. Append(w, t) = base \o <<Name(m), Word("VARCHAR"), Word("OPEN_PAREN"), Number(t.lexeme)>>
      <4>1. base \in Streams /\ Name(m) \in Tokens /\ Word("VARCHAR") \in Tokens /\ Word("OPEN_PAREN") \in Tokens
            /\ Number(t.lexeme) \in Tokens
        BY <2>2, <3>3
      <4> HIDE DEF base
      <4>2. Append(base \o <<Name(m), Word("VARCHAR"), Word("OPEN_PAREN")>>, Number(t.lexeme))
              = base \o <<Name(m), Word("VARCHAR"), Word("OPEN_PAREN"), Number(t.lexeme)>>
        BY <4>1, TailGrows
      <4> QED BY <3>1, <3>3, <4>2, Zenon
    <3>7. CreateShape("lengthEnd", Worded(s, place, t), Append(w, t))
      BY <2>1, <3>3, <3>5, <3>6 DEF CreateShape
    <3> QED BY <3>2, <3>7 DEF Shape
  <2>7. CASE place = "lengthEnd"
    <3>1. PICK l \in Numbers :
             /\ s = Stmt("CREATE", n, Append(cols, VarcharColumn(m, l)), <<>>)
             /\ w = base \o <<Name(m), Word("VARCHAR"), Word("OPEN_PAREN"), Number(l)>>
      BY <2>1, <2>7
    <3>2. t.type = "CLOSE_PAREN" /\ next = "createNext" /\ Worded(s, place, t) = s
      BY <2>7, CreateGoes, WordedIs
    <3>3. t = Word("CLOSE_PAREN")
      BY <1>1, <3>2 DEF Words
    <3>4. Append(w, t) = base \o <<Name(m), Word("VARCHAR"), Word("OPEN_PAREN"), Number(l), Word("CLOSE_PAREN")>>
      <4>1. base \in Streams /\ Name(m) \in Tokens /\ Word("VARCHAR") \in Tokens /\ Word("OPEN_PAREN") \in Tokens
            /\ Number(l) \in Tokens /\ Word("CLOSE_PAREN") \in Tokens
        BY <2>2
      <4> HIDE DEF base
      <4>2. Append(base \o <<Name(m), Word("VARCHAR"), Word("OPEN_PAREN"), Number(l)>>, Word("CLOSE_PAREN"))
              = base \o <<Name(m), Word("VARCHAR"), Word("OPEN_PAREN"), Number(l), Word("CLOSE_PAREN")>>
        BY <4>1, TailGrows
      <4> QED BY <3>1, <3>3, <4>2, Zenon
    <3>5. Append(w, t) = base \o Definition(VarcharColumn(m, l))
      BY <3>4, DefinitionIs
    <3>6. CreateShape("createNext", s, Append(w, t))
      BY <2>1, <3>1, <3>5, TypedColumnIs, ColumnRead
    <3> QED BY <3>2, <3>6 DEF Shape
  <2> QED BY <1>6, <2>4, <2>5, <2>6, <2>7
<1>7. CASE place = "createNext"
  <2>1. PICK n \in Names, cols \in Lists(WrittenColumns, 1) :
           /\ s = Stmt("CREATE", n, cols, <<>>)
           /\ w = Opened(CreateHead(n)) \o Joined(DefItems(cols))
    BY <1>7 DEF CreateShape
  <2>2. s = Stmt("CREATE", n, cols, <<>>) /\ s.columns = cols /\ Worded(s, place, t) = s
    BY <1>7, <2>1, WordedIs, StmtGrows
  <2>3. \/ t.type = "COMMA" /\ next = "createColumn"
        \/ t.type = "CLOSE_PAREN" /\ next = "createEnd"
    BY <1>7, CreateGoes
  <2>4. /\ t.type = "COMMA" => CreateShape("createColumn", s, Append(w, t))
        /\ t.type = "CLOSE_PAREN" => CreateShape("createEnd", s, Append(w, t))
    BY <2>1, <2>2, <2>3, ListEnds
  <2> QED BY <2>2, <2>3, <2>4 DEF Shape
<1>8. CASE place = "createEnd"
  <2>1. PICK n \in Names, cols \in Lists(WrittenColumns, 1) :
           /\ s = Stmt("CREATE", n, cols, <<>>)
           /\ w = CreateHead(n) \o InParens(Joined(DefItems(cols)))
    BY <1>8 DEF CreateShape
  <2>2. t.type = "END_OF_LINE" /\ next = "accepted" /\ Worded(s, place, t) = s
    BY <1>8, CreateGoes, WordedIs
  <2>3. s \in Sentences /\ s.kind = "CREATE"
    <3>1. s \in Sentences
      BY <2>1, SentencesMade
    <3> QED BY <2>1, <3>1 DEF Stmt
  <2>4. Spelling(s) = CreateHead(n) \o InParens(Joined(DefItems(cols)))
    BY <2>1, SpellingsAre
  <2>5. w = Spelling(s) /\ t \in Closers(s)
    BY <1>1, <2>1, <2>2, <2>3, <2>4 DEF Closers, Words
  <2> QED BY <2>2, <2>3, <2>5 DEF Shape, WholeShape
<1> QED BY <1>2, <1>3, <1>4, <1>5, <1>6, <1>7, <1>8 DEF CreatePlaces

LEMMA ControlGrows ==
    ASSUME NEW place \in ControlPlaces, NEW s, NEW w, ControlShape(place, s, w),
           NEW t \in Tokens, NEW next \in Goes(place, t)
    PROVE  Shape(next, Worded(s, place, t), Append(w, t))
<1>1. t \in Tokens /\ (t.type \in Words => t = Word(t.type))
  BY TokenOfType
<1>2. CASE place = "beginWord"
  <2>1. s = Stmt("BEGIN", "none", <<>>, <<>>) /\ w = <<Word("BEGIN")>>
    BY <1>2 DEF ControlShape
  <2>2. t.type = "TRANSACTION" /\ next = "controlEnd" /\ Worded(s, place, t) = s
    BY <1>2, ControlGoes, WordedIs
  <2>3. t = Word("TRANSACTION") /\ Word("BEGIN") \in Tokens
    BY <1>1, <2>2, WordTokens DEF Words
  <2>4. Append(w, t) = <<Word("BEGIN"), Word("TRANSACTION")>>
    BY <1>1, <2>1, <2>3, TuplesGrow
  <2>5. ControlShape("controlEnd", s, Append(w, t))
    BY <2>1, <2>4 DEF ControlShape
  <2> QED BY <2>2, <2>5 DEF Shape
<1>3. CASE place = "controlEnd"
  <2>1. \/ /\ s = Stmt("BEGIN", "none", <<>>, <<>>)
           /\ w = <<Word("BEGIN"), Word("TRANSACTION")>>
        \/ s = Stmt("COMMIT", "none", <<>>, <<>>) /\ w = <<Word("COMMIT")>>
    BY <1>3 DEF ControlShape
  <2>2. t.type = "END_OF_LINE" /\ next = "accepted" /\ Worded(s, place, t) = s
    BY <1>3, ControlGoes, WordedIs
  <2>3. s \in Sentences /\ w = Spelling(s)
    BY <2>1, SentencesMade, SpellingsAre
  <2>4. s.kind # "SELECT"
    BY <2>1 DEF Stmt
  <2>5. t \in Closers(s)
    BY <1>1, <2>2, <2>4 DEF Closers, Words
  <2> QED BY <2>2, <2>3, <2>5 DEF Shape, WholeShape
<1> QED BY <1>2, <1>3 DEF ControlPlaces

LEMMA FirstRead ==
    ASSUME NEW t \in Tokens, NEW next \in Goes("statement", t)
    PROVE  Shape(next, Worded(NoStatement, "statement", t), Append(<<>>, t))
<1>1. t \in Tokens /\ (t.type \in Words => t = Word(t.type))
  BY TokenOfType
<1>2. /\ Append(<<>>, t) = <<t>>
      /\ Worded(NoStatement, "statement", t) = Stmt(t.type, "none", <<>>, <<>>)
  <2>1. OfKind(NoStatement, t.type) = Stmt(t.type, "none", <<>>, <<>>)
    BY DEF Stmt, OfKind, NoStatement
  <2> QED BY <1>1, <2>1, WordedIs
<1>3. CASE t.type = "SELECT" /\ next = "selectList"
  <2>1. <<>> \in Lists(NameColumns, 0) /\ Len(<<>>) < MaxColumns
    BY EmptyList
  <2>2. <<t>> = Before(SelectOpen, NameItems(<<>>))
    BY <1>1, <1>3, ItemsOfNothing DEF Before, SelectOpen, Words
  <2>3. SelectShape("selectList", Stmt("SELECT", "none", <<>>, <<>>), <<t>>)
    BY <2>1, <2>2 DEF SelectShape
  <2> QED BY <1>2, <1>3, <2>3 DEF Shape
<1>4. CASE t.type = "INSERT" /\ next = "insertInto"
  <2>1. InsertShape("insertInto", Stmt("INSERT", "none", <<>>, <<>>), <<t>>)
    BY <1>1, <1>4 DEF InsertShape, Words
  <2> QED BY <1>2, <1>4, <2>1 DEF Shape
<1>5. CASE t.type = "CREATE" /\ next = "createWord"
  <2>1. CreateShape("createWord", Stmt("CREATE", "none", <<>>, <<>>), <<t>>)
    BY <1>1, <1>5 DEF CreateShape, Words
  <2> QED BY <1>2, <1>5, <2>1 DEF Shape
<1>6. CASE t.type = "BEGIN" /\ next = "beginWord"
  <2>1. ControlShape("beginWord", Stmt("BEGIN", "none", <<>>, <<>>), <<t>>)
    BY <1>1, <1>6 DEF ControlShape, Words
  <2> QED BY <1>2, <1>6, <2>1 DEF Shape
<1>7. CASE t.type = "COMMIT" /\ next = "controlEnd"
  <2>1. ControlShape("controlEnd", Stmt("COMMIT", "none", <<>>, <<>>), <<t>>)
    BY <1>1, <1>7 DEF ControlShape, Words
  <2> QED BY <1>2, <1>7, <2>1 DEF Shape
<1> QED BY <1>3, <1>4, <1>5, <1>6, <1>7, StatementGoes

LEMMA ShapesApart ==
    ASSUME NEW place, NEW s, NEW w, Shape(place, s, w)
    PROVE  /\ place = "statement" => s = NoStatement /\ w = <<>>
           /\ place \in SelectPlaces => SelectShape(place, s, w)
           /\ place \in InsertPlaces => InsertShape(place, s, w)
           /\ place \in CreatePlaces => CreateShape(place, s, w)
           /\ place \in ControlPlaces => ControlShape(place, s, w)
           /\ place = "accepted" => WholeShape(s, w)
<1>1. SelectShape(place, s, w) => place \in SelectPlaces
  <2>1. SelectShape(place, s, w) =>
           place \in {"selectList", "selectColumn", "selectNext", "selectFrom", "selectTable", "selectEnd"}
    BY DEF SelectShape
  <2> QED BY <2>1 DEF SelectPlaces
<1>2. InsertShape(place, s, w) => place \in InsertPlaces
  <2>1. InsertShape(place, s, w) =>
           place \in {"insertInto", "insertTable", "insertShape", "insertColumn", "insertNext",
                      "insertValues", "insertOpen", "value", "valueNext", "insertEnd"}
    BY DEF InsertShape
  <2> QED BY <2>1 DEF InsertPlaces
<1>3. CreateShape(place, s, w) => place \in CreatePlaces
  <2>1. CreateShape(place, s, w) =>
           place \in {"createWord", "createTable", "createOpen", "createColumn", "columnType",
                      "varcharNext", "length", "lengthEnd", "createNext", "createEnd"}
    BY DEF CreateShape
  <2> QED BY <2>1 DEF CreatePlaces
<1>4. ControlShape(place, s, w) => place \in ControlPlaces
  BY DEF ControlShape, ControlPlaces
<1>5. "accepted" \in Outcomes /\ "accepted" # "statement"
  BY DEF Outcomes
<1> QED BY <1>1, <1>2, <1>3, <1>4, <1>5, PlacesApart DEF Shape

\* Whatever token the parser takes, and wherever, the shape stays.
LEMMA ShapeGrows ==
    ASSUME NEW place, NEW s, NEW w, Shape(place, s, w), NEW t \in Tokens, NEW next \in Goes(place, t),
           t.type = "COMMA" => Len(IF place = "valueNext" THEN s.values ELSE s.columns) < MaxColumns
    PROVE  Shape(next, Worded(s, place, t), Append(w, t))
<1>1. place \in {"statement"} \cup SelectPlaces \cup InsertPlaces \cup CreatePlaces \cup ControlPlaces
  BY PlaceOfMove
<1>2. CASE place = "statement"
  <2>1. s = NoStatement /\ w = <<>> /\ next \in Goes("statement", t)
    BY <1>2, ShapesApart
  <2>2. Shape(next, Worded(NoStatement, "statement", t), Append(<<>>, t))
    BY <2>1, FirstRead
  <2> QED BY <1>2, <2>1, <2>2
<1>3. CASE place \in SelectPlaces
  <2>1. place # "valueNext"
    BY <1>3 DEF SelectPlaces
  <2> QED BY <1>3, <2>1, ShapesApart, SelectGrows
<1>4. CASE place \in InsertPlaces
  BY <1>4, ShapesApart, InsertGrows
<1>5. CASE place \in CreatePlaces
  <2>1. place # "valueNext"
    BY <1>5 DEF CreatePlaces
  <2> QED BY <1>5, <2>1, ShapesApart, CreateGrows
<1>6. CASE place \in ControlPlaces
  BY <1>6, ShapesApart, ControlGrows
<1> QED BY <1>1, <1>2, <1>3, <1>4, <1>5, <1>6

----------------------------------------------------------------------------
(* The streams read and the statements accepted. *)

LEMMA SpellingsAreStreams ==
    ASSUME NEW s \in Sentences, NEW v, v = Spelling(s)
    PROVE  v \in Streams
<1>1. CASE \E n \in Names, cols \in SelectLists : s = Stmt("SELECT", n, cols, <<>>)
  <2>1. PICK n \in Names, cols \in SelectLists : s = Stmt("SELECT", n, cols, <<>>)
    BY <1>1
  <2>2. v = Append(SelectFrom(cols), Name(n))
    BY <2>1, SpellingsAre
  <2> QED BY <2>2, HeadsAreStreams, HeadsAre, OneToken
<1>2. CASE \E n \in Names, cols \in Lists(NameColumns, 0), vals \in Lists(Literals, 1) :
              s = Stmt("INSERT", n, cols, vals)
  <2>1. PICK n \in Names, cols \in Lists(NameColumns, 0), vals \in Lists(Literals, 1) :
           s = Stmt("INSERT", n, cols, vals)
    BY <1>2
  <2>2. v = InsertValues(n, cols) \o InParens(Joined(ValueItems(vals)))
    BY <2>1, SpellingsAre
  <2>3. Joined(ValueItems(vals)) \in Streams
    BY ValuesListed, ListsAreStreams
  <2>4. InsertValues(n, cols) \in Streams
    BY HeadsAreStreams
  <2>5. InParens(Joined(ValueItems(vals))) \in Streams
    BY <2>3, <2>4, ListClosed
  <2> QED BY <2>2, <2>4, <2>5, JoinStreams
<1>3. CASE \E n \in Names, cols \in Lists(WrittenColumns, 1) : s = Stmt("CREATE", n, cols, <<>>)
  <2>1. PICK n \in Names, cols \in Lists(WrittenColumns, 1) : s = Stmt("CREATE", n, cols, <<>>)
    BY <1>3
  <2>2. v = CreateHead(n) \o InParens(Joined(DefItems(cols)))
    BY <2>1, SpellingsAre
  <2>3. Joined(DefItems(cols)) \in Streams /\ CreateHead(n) \in Streams
    BY DefinitionsListed, ListsAreStreams, HeadsAre
  <2>4. InParens(Joined(DefItems(cols))) \in Streams
    BY <2>3, ListClosed
  <2> QED BY <2>2, <2>3, <2>4, JoinStreams
<1>4. CASE \E k \in {"BEGIN", "COMMIT"} : s = Stmt(k, "none", <<>>, <<>>)
  <2>1. Word("BEGIN") \in Tokens /\ Word("TRANSACTION") \in Tokens /\ Word("COMMIT") \in Tokens
    BY WordTokens DEF Words
  <2>2. <<Word("BEGIN"), Word("TRANSACTION")>> \in Streams /\ <<Word("COMMIT")>> \in Streams
    BY <2>1 DEF Streams
  <2> QED BY <1>4, <2>2, SpellingsAre
<1> QED BY <1>1, <1>2, <1>3, <1>4, SentencesAre

LEMMA ClosersAreTokens == \A s : Closers(s) \subseteq Tokens
BY TokenKinds DEF Closers, Words

LEMMA FrontOfAppended ==
    ASSUME NEW w \in Streams, NEW t \in Tokens
    PROVE  Front(Append(w, t)) = w /\ Last(Append(w, t)) = t
<1> DEFINE v == Append(w, t)
<1>1. /\ v \in Seq(Tokens) /\ Len(v) = Len(w) + 1 /\ v[Len(w) + 1] = t
      /\ \A i \in 1 .. Len(w) : v[i] = w[i]
      /\ w \in Seq(Tokens) /\ Len(w) \in Nat
  BY AppendProperties, LenProperties DEF Streams
<1> HIDE DEF v
<1>2. v # <<>>
  BY <1>1, EmptySeq
<1>3. /\ Front(v) \in Seq(Tokens) /\ Len(Front(v)) = Len(v) - 1
      /\ \A i \in 1 .. Len(v) - 1 : Front(v)[i] = v[i]
      /\ Last(v) = v[Len(v)]
  BY <1>1, <1>2, FrontAndLast
<1>4. Front(v) = w
  BY <1>1, <1>3, SeqEqual
<1> QED BY <1>1, <1>3, <1>4 DEF v

LEMMA PlacesAre ==
    /\ Places = {"statement"} \cup SelectPlaces \cup InsertPlaces \cup CreatePlaces
                  \cup ControlPlaces \cup Outcomes
    /\ \A place, t : Goes(place, t) \subseteq Places
<1> DEFINE All == {"statement"} \cup SelectPlaces \cup InsertPlaces \cup CreatePlaces \cup ControlPlaces
<1>1. \A m \in Moves : m[1] \in All
  BY PlacesOfMoves DEF Moves
<1>2. SelectPlaces \cup {"statement"} \subseteq {m[1] : m \in SelectMoves}
  <2>1. PICK t \in Tokens : TRUE
    BY TokenKinds DEF Words
  <2>2. <<"selectEnd", t.type, "accepted">> \in SelectMoves
    BY DEF SelectMoves
  <2>3. \A m \in {<<"statement", "SELECT", "selectList">>, <<"selectList", "OP_STAR", "selectFrom">>,
                  <<"selectNext", "COMMA", "selectColumn">>, <<"selectColumn", "name", "selectNext">>,
                  <<"selectFrom", "FROM", "selectTable">>, <<"selectTable", "name", "selectEnd">>} :
           m \in SelectMoves
    BY DEF SelectMoves
  <2> QED BY <2>2, <2>3 DEF SelectPlaces
<1>3. InsertPlaces \subseteq {m[1] : m \in InsertMoves}
  BY DEF InsertPlaces, InsertMoves
<1>4. CreatePlaces \subseteq {m[1] : m \in CreateMoves}
  BY DEF CreatePlaces, CreateMoves
<1>5. ControlPlaces \subseteq {m[1] : m \in ControlMoves}
  BY DEF ControlPlaces, ControlMoves
<1>6. Places = All \cup Outcomes
  BY <1>1, <1>2, <1>3, <1>4, <1>5 DEF Places, Moves
<1>7. ASSUME NEW m \in Moves PROVE m[3] \in Places
  <2>1. m[3] \in All \cup Outcomes
    BY <1>7 DEF Moves, SelectMoves, InsertMoves, CreateMoves, ControlMoves, SelectPlaces, InsertPlaces,
                CreatePlaces, ControlPlaces, Outcomes
  <2> QED BY <1>6, <2>1
<1>8. \A place, t : Goes(place, t) \subseteq Places
  BY <1>7 DEF Goes
<1> QED BY <1>6, <1>8

----------------------------------------------------------------------------
(* The programs. *)

\* The columns of a statement as it is parsed.
ParsedNames == PlainColumns(-1)
AnyParsed   == ParsedNames \cup {Column("OP_STAR")}
ParsedLists == Lists(ParsedNames, 1) \cup {<<Column("OP_STAR")>>}
ParsedTyped == TypedColumns(-1, {atoi[n] : n \in Numbers} \cup {DefaultLength})

LEMMA ParsedAre ==
    ASSUME NEW s \in Statements
    PROVE  \/ \E n \in Names, cols \in ParsedLists : s = Stmt("SELECT", n, cols, <<>>)
           \/ \E n \in Names, cols \in Lists(ParsedNames, 0), vals \in Lists(Values, 1) :
                 s = Stmt("INSERT", n, cols, vals)
           \/ \E n \in Names, cols \in Lists(ParsedTyped, 1) : s = Stmt("CREATE", n, cols, <<>>)
           \/ \E k \in {"BEGIN", "COMMIT"} : s = Stmt(k, "none", <<>>, <<>>)
<1>1. s \in StatementsOf(-1, {atoi[n] : n \in Numbers} \cup {DefaultLength}, Values)
  BY DEF Statements
<1>2. OneOf(-1, {atoi[n] : n \in Numbers} \cup {DefaultLength}, Values, s)
  BY <1>1, StatementsAre, Zenon
<1> QED BY <1>2 DEF OneOf, ParsedLists, ParsedNames, ParsedTyped, StarColumn, Column

\* What is in a literal and in a column definition.
LEMMA ParsedParts ==
    /\ \A v \in Values : /\ v.type = "integer" => v.int_value \in Ints
                         /\ v.type # "integer" => v.text_value \in Texts
    /\ \A c \in ParsedTyped : c.name \in Names /\ c.length \in Ints
<1>1. ASSUME NEW v \in Values
      PROVE  /\ v.type = "integer" => v.int_value \in Ints
             /\ v.type # "integer" => v.text_value \in Texts
  <2>1. PICK t \in Literals : v = Value(t)
    BY DEF Values
  <2>2. CASE \E n \in Numbers : t = Number(n)
    <3>1. PICK n \in Numbers : t = Number(n)
      BY <2>2
    <3>2. v = [type |-> "integer", int_value |-> atoi[n]] /\ atoi[n] \in Ints
      BY <2>1, <3>1, CompilerAssumption DEF Value, Number
    <3> QED BY <3>2
  <2>3. CASE \E x \in Texts : t = Text(x)
    <3>1. PICK x \in Texts : t = Text(x)
      BY <2>3
    <3>2. v = [type |-> "text", text_value |-> x]
      BY <2>1, <3>1 DEF Value, Text
    <3> QED BY <3>2
  <2> QED BY <2>2, <2>3 DEF Literals
<1>2. ASSUME NEW c \in ParsedTyped PROVE c.name \in Names /\ c.length \in Ints
  <2>1. \A n \in Numbers : atoi[n] \in Ints
    BY CompilerAssumption
  <2>2. c.length \in {-1, 255} \cup {atoi[n] : n \in Numbers} /\ c.name \in Names
    BY DEF ParsedTyped, TypedColumns, DefaultLength
  <2> QED BY <2>1, <2>2, CompilerAssumption
<1> QED BY <1>1, <1>2

\* a program's length and its instructions
IsProgram(p) == p \in Seq(Instructions) /\ Len(p) \in 2 .. 4 + MaxColumns

LEMMA InstructionIs ==
    ASSUME NEW op \in {"OPEN_TABLE", "SEARCH", "RETURN_ROW", "HALT", "COMMIT", "BEGIN_TXN", "INSERT",
                       "CREATE_TABLE", "DEFINE_SCHEMA"},
           NEW p1 \in {-1, 1, 2} \cup 0 .. (MaxColumns - 1),
           NEW p2 \in Ints,
           NEW str \in Names \cup Texts \cup {"NULL", "garbage"}
    PROVE  Instr(op, p1, p2, str) \in Instructions
BY DEF Instr, Instructions

LEMMA FixedInstructions ==
    /\ Halt \in Instructions /\ Commit \in Instructions /\ Begin \in Instructions
    /\ Instr("RETURN_ROW", 0, 0, "NULL") \in Instructions
    /\ \A n \in Names : Instr("OPEN_TABLE", 0, 0, n) \in Instructions
                        /\ Instr("CREATE_TABLE", 0, 0, n) \in Instructions
<1>1. 0 \in {-1, 1, 2} \cup 0 .. (MaxColumns - 1) /\ 0 \in Ints
  BY CompilerAssumption
<1> QED BY <1>1, InstructionIs DEF Halt, Commit, Begin

\* A program of a head, one instruction for each column, and a tail.
LEMMA HeadListTail ==
    ASSUME NEW A, NEW a \in Seq(A), NEW b \in Seq(A), NEW c \in Seq(A)
    PROVE  /\ (a \o b) \o c \in Seq(A) /\ Len((a \o b) \o c) = Len(a) + Len(b) + Len(c)
           /\ \A i \in 1 .. Len(a) : ((a \o b) \o c)[i] = a[i]
           /\ \A i \in 1 .. Len(b) : ((a \o b) \o c)[Len(a) + i] = b[i]
<1> DEFINE d == a \o b
<1>1. /\ d \in Seq(A) /\ Len(d) = Len(a) + Len(b)
      /\ \A i \in 1 .. Len(a) + Len(b) : d[i] = IF i <= Len(a) THEN a[i] ELSE b[i - Len(a)]
  BY ConcatProperties
<1>2. Len(a) \in Nat /\ Len(b) \in Nat /\ Len(c) \in Nat
  BY LenProperties
<1> HIDE DEF d
<1>3. /\ d \o c \in Seq(A) /\ Len(d \o c) = Len(d) + Len(c)
      /\ \A i \in 1 .. Len(d) + Len(c) : (d \o c)[i] = IF i <= Len(d) THEN d[i] ELSE c[i - Len(d)]
  <2>1. d \in Seq(A)
    BY <1>1
  <2> QED BY <2>1, ConcatProperties
<1>4. ASSUME NEW i \in 1 .. Len(a) PROVE (d \o c)[i] = a[i]
  <2>1. i \in 1 .. Len(a) + Len(b) /\ i <= Len(a) /\ i \in 1 .. Len(d) + Len(c) /\ i <= Len(d)
    BY <1>1, <1>2
  <2> QED BY <1>1, <1>3, <2>1
<1>5. ASSUME NEW i \in 1 .. Len(b) PROVE (d \o c)[Len(a) + i] = b[i]
  <2>1. /\ Len(a) + i \in 1 .. Len(a) + Len(b) /\ ~ (Len(a) + i <= Len(a)) /\ (Len(a) + i) - Len(a) = i
        /\ Len(a) + i \in 1 .. Len(d) + Len(c) /\ Len(a) + i <= Len(d)
    BY <1>1, <1>2
  <2> QED BY <1>1, <1>3, <2>1
<1> QED BY <1>1, <1>2, <1>3, <1>4, <1>5 DEF d

\* what a SELECT searches and a CREATE defines for column i
SearchOf(i, c) == IF c.name = "OP_STAR" THEN Instr("SEARCH", -1, 0, "NULL")
                                        ELSE Instr("SEARCH", i - 1, 0, c.name)
DefineOf(c)    == Instr("DEFINE_SCHEMA", IF c.type = "INT" THEN 1 ELSE 2, c.length, c.name)

LEMMA ColumnPositions ==
    ASSUME NEW S, NEW cols \in Lists(S, 0)
    PROVE  /\ Len(cols) \in 0 .. MaxColumns /\ DOMAIN cols = 1 .. Len(cols) /\ MaxColumns \in Nat
           /\ \A i \in 1 .. Len(cols) : cols[i] \in S /\ i - 1 \in 0 .. (MaxColumns - 1)
<1>1. cols \in Seq(S) /\ Len(cols) \in 0 .. MaxColumns /\ MaxColumns \in Nat
  BY ListsAre, CompilerAssumption
<1>2. DOMAIN cols = 1 .. Len(cols) /\ \A i \in 1 .. Len(cols) : cols[i] \in S
  BY <1>1, LenProperties, ElementOfSeq
<1>3. \A i \in 1 .. Len(cols) : i - 1 \in 0 .. (MaxColumns - 1)
  BY <1>1
<1> QED BY <1>1, <1>2, <1>3

LEMMA SelectColumns ==
    ASSUME NEW cols \in ParsedLists
    PROVE  /\ Len(cols) \in 1 .. MaxColumns /\ DOMAIN cols = 1 .. Len(cols) /\ MaxColumns \in Nat
           /\ \A i \in 1 .. Len(cols) : /\ i - 1 \in 0 .. (MaxColumns - 1)
                                        /\ cols[i] \in AnyParsed /\ cols[i] = Column(cols[i].name)
                                        /\ cols[i].name \in Names \cup {"OP_STAR"}
           /\ cols \in Seq(AnyParsed)
<1>1. \A c \in AnyParsed : c = Column(c.name) /\ c.name \in Names \cup {"OP_STAR"}
  BY DEF AnyParsed, ParsedNames, PlainColumns, Column
<1>2. CASE cols \in Lists(ParsedNames, 1)
  <2>1. cols \in Lists(ParsedNames, 0) /\ Len(cols) \in 1 .. MaxColumns
    BY <1>2, ListGrows, ListsAre
  <2>2. \A c \in ParsedNames : c \in AnyParsed
    BY DEF AnyParsed
  <2>3. cols \in Seq(ParsedNames)
    BY <1>2, ListsAre
  <2> QED BY <1>1, <2>1, <2>2, <2>3, ColumnPositions
<1>3. CASE cols = <<Column("OP_STAR")>>
  <2>1. Column("OP_STAR") \in AnyParsed /\ MaxColumns \in Nat \ {0}
    BY CompilerAssumption DEF AnyParsed
  <2>2. Len(cols) = 1 /\ DOMAIN cols = 1 .. 1 /\ cols[1] = Column("OP_STAR") /\ cols \in Seq(AnyParsed)
    BY <1>3, <2>1
  <2>3. 1 \in 1 .. MaxColumns /\ 0 \in 0 .. (MaxColumns - 1) /\ \A i \in 1 .. 1 : i = 1
    BY <2>1
  <2> QED BY <1>1, <2>1, <2>2, <2>3
<1> QED BY <1>2, <1>3 DEF ParsedLists

LEMMA SelectProgram ==
    ASSUME NEW n \in Names, NEW cols \in ParsedLists, NEW p,
           p \in Programs(Stmt("SELECT", n, cols, <<>>))
    PROVE  /\ IsProgram(p) /\ Len(p) = Len(cols) + 3
           /\ p[1] = Instr("OPEN_TABLE", 0, 0, n)
           /\ \A i \in 1 .. Len(cols) : p[1 + i] = SearchOf(i, cols[i])
<1> DEFINE head == <<Instr("OPEN_TABLE", 0, 0, n)>>
           list == [i \in DOMAIN cols |-> SearchOf(i, cols[i])]
           tail == <<Instr("RETURN_ROW", 0, 0, "NULL"), Halt>>
<1>1. p = (head \o list) \o tail
  BY DEF Programs, Stmt, GenerateSelect, SearchOf
<1>2. /\ Len(cols) \in 1 .. MaxColumns /\ DOMAIN cols = 1 .. Len(cols) /\ MaxColumns \in Nat
      /\ \A i \in 1 .. Len(cols) : /\ i - 1 \in 0 .. (MaxColumns - 1)
                                   /\ cols[i].name \in Names \cup {"OP_STAR"}
  BY SelectColumns
<1>3. \A i \in 1 .. Len(cols) : SearchOf(i, cols[i]) \in Instructions
  BY <1>2, InstructionIs, CompilerAssumption DEF SearchOf
<1>4. /\ list \in Seq(Instructions)
      /\ Len(list) = Len(cols)
      /\ \A i \in 1 .. Len(cols) : list[i] = SearchOf(i, cols[i])
  <2>1. list = [i \in 1 .. Len(cols) |-> SearchOf(i, cols[i])]
    BY <1>2
  <2>2. list \in Seq(Instructions) /\ DOMAIN list = 1 .. Len(cols)
    BY <1>2, <1>3, <2>1, IsASeq
  <2> QED BY <1>2, <2>1, <2>2, LenProperties
<1>5. head \in Seq(Instructions) /\ tail \in Seq(Instructions) /\ Len(head) = 1 /\ Len(tail) = 2
      /\ head[1] = Instr("OPEN_TABLE", 0, 0, n)
  <2>1. /\ Instr("OPEN_TABLE", 0, 0, n) \in Instructions
        /\ Instr("RETURN_ROW", 0, 0, "NULL") \in Instructions
        /\ Halt \in Instructions
    BY FixedInstructions
  <2> QED BY <2>1
<1> HIDE DEF head, list, tail
<1>6. /\ p \in Seq(Instructions) /\ Len(p) = Len(cols) + 3
      /\ \A i \in 1 .. 1 : p[i] = head[i]
      /\ \A i \in 1 .. Len(cols) : p[1 + i] = list[i]
  <2>1. head \in Seq(Instructions) /\ list \in Seq(Instructions) /\ tail \in Seq(Instructions)
    BY <1>4, <1>5
  <2>2. /\ (head \o list) \o tail \in Seq(Instructions)
        /\ Len((head \o list) \o tail) = Len(head) + Len(list) + Len(tail)
        /\ \A i \in 1 .. Len(head) : ((head \o list) \o tail)[i] = head[i]
        /\ \A i \in 1 .. Len(list) : ((head \o list) \o tail)[Len(head) + i] = list[i]
    BY <2>1, HeadListTail
  <2>3. /\ p \in Seq(Instructions) /\ Len(p) = 1 + Len(cols) + 2
        /\ \A i \in 1 .. 1 : p[i] = head[i]
        /\ \A i \in 1 .. Len(cols) : p[1 + i] = list[i]
    BY <1>1, <1>4, <1>5, <2>2
  <2> QED BY <1>2, <2>3
<1>7. Len(cols) + 3 \in 2 .. 4 + MaxColumns
  BY <1>2
<1>8. IsProgram(p)
  BY <1>6, <1>7 DEF IsProgram
<1>9. p[1] = head[1]
  BY <1>6
<1>10. \A i \in 1 .. Len(cols) : p[1 + i] = SearchOf(i, cols[i])
  BY <1>4, <1>6
<1> QED BY <1>5, <1>6, <1>8, <1>9, <1>10

LEMMA CreateProgram ==
    ASSUME NEW n \in Names, NEW cols \in Lists(ParsedTyped, 1), NEW p,
           p \in Programs(Stmt("CREATE", n, cols, <<>>))
    PROVE  /\ IsProgram(p) /\ Len(p) = Len(cols) + 3
           /\ p[1] = Instr("CREATE_TABLE", 0, 0, n)
           /\ \A i \in 1 .. Len(cols) : p[1 + i] = DefineOf(cols[i])
<1> DEFINE head == <<Instr("CREATE_TABLE", 0, 0, n)>>
           list == [i \in DOMAIN cols |-> DefineOf(cols[i])]
           tail == <<Commit, Halt>>
<1>1. p = (head \o list) \o tail
  BY DEF Programs, Stmt, GenerateCreate, DefineOf
<1>2. /\ Len(cols) \in 0 .. MaxColumns /\ DOMAIN cols = 1 .. Len(cols) /\ MaxColumns \in Nat
      /\ \A i \in 1 .. Len(cols) : cols[i] \in ParsedTyped
  <2>1. cols \in Lists(ParsedTyped, 0)
    BY ListGrows
  <2> QED BY <2>1, ColumnPositions
<1>3. \A i \in 1 .. Len(cols) : DefineOf(cols[i]) \in Instructions
  <2>1. \A c \in ParsedTyped : /\ c.name \in Names \cup Texts \cup {"NULL", "garbage"}
                               /\ c.length \in Ints
    BY ParsedParts
  <2> QED BY <1>2, <2>1, InstructionIs DEF DefineOf
<1>4. /\ list \in Seq(Instructions)
      /\ Len(list) = Len(cols)
      /\ \A i \in 1 .. Len(cols) : list[i] = DefineOf(cols[i])
  <2>1. list = [i \in 1 .. Len(cols) |-> DefineOf(cols[i])]
    BY <1>2
  <2>2. list \in Seq(Instructions) /\ DOMAIN list = 1 .. Len(cols)
    BY <1>2, <1>3, <2>1, IsASeq
  <2> QED BY <1>2, <2>1, <2>2, LenProperties
<1>5. head \in Seq(Instructions) /\ tail \in Seq(Instructions) /\ Len(head) = 1 /\ Len(tail) = 2
      /\ head[1] = Instr("CREATE_TABLE", 0, 0, n)
  <2>1. /\ Instr("CREATE_TABLE", 0, 0, n) \in Instructions
        /\ Commit \in Instructions
        /\ Halt \in Instructions
    BY FixedInstructions
  <2> QED BY <2>1
<1> HIDE DEF head, list, tail
<1>6. /\ p \in Seq(Instructions) /\ Len(p) = Len(cols) + 3
      /\ \A i \in 1 .. 1 : p[i] = head[i]
      /\ \A i \in 1 .. Len(cols) : p[1 + i] = list[i]
  <2>1. head \in Seq(Instructions) /\ list \in Seq(Instructions) /\ tail \in Seq(Instructions)
    BY <1>4, <1>5
  <2>2. /\ (head \o list) \o tail \in Seq(Instructions)
        /\ Len((head \o list) \o tail) = Len(head) + Len(list) + Len(tail)
        /\ \A i \in 1 .. Len(head) : ((head \o list) \o tail)[i] = head[i]
        /\ \A i \in 1 .. Len(list) : ((head \o list) \o tail)[Len(head) + i] = list[i]
    BY <2>1, HeadListTail
  <2>3. /\ p \in Seq(Instructions) /\ Len(p) = 1 + Len(cols) + 2
        /\ \A i \in 1 .. 1 : p[i] = head[i]
        /\ \A i \in 1 .. Len(cols) : p[1 + i] = list[i]
    BY <1>1, <1>4, <1>5, <2>2
  <2> QED BY <1>2, <2>3
<1>7. Len(cols) + 3 \in 2 .. 4 + MaxColumns
  BY <1>2
<1>8. IsProgram(p)
  BY <1>6, <1>7 DEF IsProgram
<1>9. p[1] = head[1]
  BY <1>6
<1>10. \A i \in 1 .. Len(cols) : p[1 + i] = DefineOf(cols[i])
  BY <1>4, <1>6
<1> QED BY <1>5, <1>6, <1>8, <1>9, <1>10

LEMMA FlattenedLength ==
    ASSUME NEW A, NEW ss \in Seq(Seq(A)), \A i \in 1 .. Len(ss) : Len(ss[i]) <= 1
    PROVE  FlattenSeq(ss) \in Seq(A) /\ Len(FlattenSeq(ss)) \in 0 .. Len(ss)
<1> DEFINE n == Len(ss)
<1>1. PICK f \in [0 .. n -> Seq(A)] :
         /\ f[0] = <<>> /\ f[n] = FlattenSeq(ss)
         /\ \A i \in 1 .. n : f[i] = f[i - 1] \o ss[i]
  BY Flattened
<1>2. n \in Nat /\ \A i \in 1 .. n : ss[i] \in Seq(A) /\ Len(ss[i]) <= 1
  BY LenProperties, ElementOfSeq
<1> HIDE DEF n
<1> DEFINE S == {i \in 0 .. n : Len(f[i]) <= i}
<1>3. 0 \in S
  BY <1>1, <1>2, EmptySeq
<1>4. ASSUME NEW i \in 0 .. n - 1, i \in S PROVE i + 1 \in S
  <2>1. i + 1 \in 1 .. n /\ (i + 1) - 1 = i /\ i + 1 \in 0 .. n
    BY <1>2
  <2>2. f[i + 1] = f[i] \o ss[i + 1] /\ ss[i + 1] \in Seq(A) /\ Len(ss[i + 1]) <= 1
    BY <1>1, <1>2, <2>1
  <2>3. f[i] \in Seq(A) /\ Len(f[i]) <= i
    BY <1>1, <1>4
  <2>4. Len(f[i] \o ss[i + 1]) = Len(f[i]) + Len(ss[i + 1])
    BY <2>2, <2>3, ConcatProperties
  <2>5. Len(f[i]) \in Nat /\ Len(ss[i + 1]) \in Nat
    BY <2>2, <2>3, LenProperties
  <2>6. Len(f[i + 1]) <= i + 1
    <3>1. Len(f[i + 1]) = Len(f[i]) + Len(ss[i + 1]) /\ i \in Nat
      BY <1>2, <2>2, <2>4
    <3> DEFINE x == Len(f[i])
               y == Len(ss[i + 1])
    <3>2. x \in Nat /\ y \in Nat /\ x <= i /\ y <= 1 /\ Len(f[i + 1]) = x + y /\ i \in Nat
      BY <2>2, <2>3, <2>5, <3>1
    <3> HIDE DEF x, y
    <3>3. x + y <= i + 1
      BY <3>2
    <3> QED BY <3>2, <3>3
  <2> QED BY <2>1, <2>6
<1> HIDE DEF S
<1>5. 0 .. n \subseteq S
  BY <1>2, <1>3, <1>4, InductionUpTo
<1>6. f[n] \in Seq(A) /\ Len(f[n]) <= n
  BY <1>1, <1>2, <1>5 DEF S
<1>7. Len(f[n]) \in Nat
  BY <1>6, LenProperties
<1> QED BY <1>1, <1>2, <1>6, <1>7 DEF n

LEMMA AtMostOne ==
    ASSUME NEW A, NEW a \in A, NEW b \in A, NEW q, q = <<a>> \/ q = <<b>> \/ q = <<>>
    PROVE  q \in Seq(A) /\ Len(q) <= 1
<1>1. CASE q = <<a>>
  BY <1>1
<1>2. CASE q = <<b>>
  BY <1>2
<1>3. CASE q = <<>>
  <2>1. q \in Seq(A) /\ Len(q) = 0
    BY <1>3, EmptySeq
  <2> QED BY <2>1
<1> QED BY <1>1, <1>2, <1>3

LEMMA InsertProgram ==
    ASSUME NEW n \in Names, NEW cols \in Lists(ParsedNames, 0), NEW vals \in Lists(Values, 1), NEW p,
           p \in Programs(Stmt("INSERT", n, cols, vals))
    PROVE  IsProgram(p) /\ p[1] = Begin /\ p[2] = Instr("OPEN_TABLE", 0, 0, n)
<1> DEFINE s    == Stmt("INSERT", n, cols, vals)
           head == <<Begin, Instr("OPEN_TABLE", 0, 0, n)>>
           tail == <<Commit, Halt>>
<1>1. s.columns = cols /\ s.values = vals /\ s.table = n /\ s.kind = "INSERT"
  BY DEF Stmt
<1> HIDE DEF s
<1>2. PICK f \in [DOMAIN cols -> UNION {InsertChoices(s, i) : i \in DOMAIN cols}] :
         /\ \A i \in DOMAIN cols : f[i] \in InsertChoices(s, i)
         /\ p = (head \o FlattenSeq(f)) \o tail
  <2>1. p \in InsertPrograms(s)
    BY <1>1 DEF Programs, s
  <2> QED BY <1>1, <2>1 DEF InsertPrograms
<1>3. /\ Len(cols) \in 0 .. MaxColumns /\ DOMAIN cols = 1 .. Len(cols) /\ MaxColumns \in Nat
      /\ \A i \in 1 .. Len(cols) : cols[i] \in ParsedNames /\ i - 1 \in 0 .. (MaxColumns - 1)
  BY ColumnPositions
<1>4. /\ vals \in Seq(Values) /\ Len(vals) \in Nat
      /\ \A i \in 1 .. Len(vals) : vals[i] \in Values
  <2>1. vals \in Seq(Values)
    BY ListsAre
  <2> QED BY <2>1, LenProperties, ElementOfSeq
<1>5. ASSUME NEW i \in 1 .. Len(cols)
      PROVE  f[i] \in Seq(Instructions) /\ Len(f[i]) <= 1
  <2>1. f[i] \in InsertChoices(s, i) /\ i - 1 \in 0 .. (MaxColumns - 1) /\ cols[i].name \in Names
    BY <1>2, <1>3 DEF ParsedNames, PlainColumns
  <2>2. CASE i <= Len(vals)
    <3>1. f[i] = <<InsertOf(i, cols[i].name, vals[i])>>
      BY <1>1, <2>1, <2>2 DEF InsertChoices
    <3>2. vals[i] \in Values
      BY <1>3, <1>4, <2>2
    <3>3. /\ vals[i].type = "integer" => vals[i].int_value \in Ints
          /\ vals[i].type # "integer" => vals[i].text_value \in Texts
      BY <3>2, ParsedParts
    <3>4. 0 \in Ints
      BY CompilerAssumption
    <3>5. InsertOf(i, cols[i].name, vals[i]) \in Instructions
      BY <2>1, <3>3, <3>4, InstructionIs DEF InsertOf
    <3> QED BY <3>1, <3>5
  <2>3. CASE ~ (i <= Len(vals))
    <3>1. f[i] \in Overread(i, cols[i].name)
      BY <1>1, <2>1, <2>3 DEF InsertChoices
    <3>2. PICK read \in Ints : f[i] = <<Instr("INSERT", i - 1, read, cols[i].name)>>
                             \/ f[i] = <<Instr("INSERT", i - 1, 0, "garbage")>> \/ f[i] = <<>>
      BY <3>1, CompilerAssumption DEF Overread
    <3> DEFINE a == Instr("INSERT", i - 1, read, cols[i].name)
               b == Instr("INSERT", i - 1, 0, "garbage")
    <3>3. f[i] = <<a>> \/ f[i] = <<b>> \/ f[i] = <<>>
      BY <3>2
    <3> HIDE DEF a, b
    <3>4. a \in Instructions /\ b \in Instructions
      <4>1. 0 \in Ints /\ i - 1 \in {-1, 1, 2} \cup 0 .. (MaxColumns - 1)
        BY <2>1, CompilerAssumption
      <4> QED BY <2>1, <4>1, InstructionIs DEF a, b
    <3> QED BY <3>3, <3>4, AtMostOne
  <2> QED BY <2>2, <2>3
<1>6. f \in Seq(Seq(Instructions)) /\ Len(f) = Len(cols)
  <2>1. f = [i \in 1 .. Len(cols) |-> f[i]]
    BY <1>2, <1>3
  <2>2. [i \in 1 .. Len(cols) |-> f[i]] \in Seq(Seq(Instructions))
    BY <1>3, <1>5, IsASeq
  <2>3. f \in Seq(Seq(Instructions)) /\ DOMAIN f = 1 .. Len(cols)
    BY <1>2, <1>3, <2>1, <2>2
  <2> QED BY <1>3, <2>3, LenProperties
<1>7. FlattenSeq(f) \in Seq(Instructions) /\ Len(FlattenSeq(f)) \in 0 .. Len(cols)
  BY <1>5, <1>6, FlattenedLength
<1>8. /\ head \in Seq(Instructions) /\ tail \in Seq(Instructions) /\ Len(head) = 2 /\ Len(tail) = 2
      /\ head[1] = Begin /\ head[2] = Instr("OPEN_TABLE", 0, 0, n)
  <2>1. /\ Begin \in Instructions /\ Instr("OPEN_TABLE", 0, 0, n) \in Instructions
        /\ Commit \in Instructions /\ Halt \in Instructions
    BY FixedInstructions
  <2> QED BY <2>1
<1> DEFINE list == FlattenSeq(f)
<1> HIDE DEF head, tail, list
<1>9. /\ (head \o list) \o tail \in Seq(Instructions)
      /\ Len((head \o list) \o tail) = Len(head) + Len(list) + Len(tail)
      /\ \A i \in 1 .. Len(head) : ((head \o list) \o tail)[i] = head[i]
  <2>1. list \in Seq(Instructions) /\ head \in Seq(Instructions) /\ tail \in Seq(Instructions)
    BY <1>7, <1>8 DEF list
  <2> QED BY <2>1, HeadListTail
<1>10. p = (head \o list) \o tail
  BY <1>2 DEF list, head, tail
<1>11. Len(p) \in 2 .. 4 + MaxColumns
  <2>1. Len(p) = 2 + Len(list) + 2 /\ Len(list) \in 0 .. Len(cols)
    BY <1>7, <1>8, <1>9, <1>10 DEF list
  <2> QED BY <1>3, <2>1
<1>12. p[1] = head[1] /\ p[2] = head[2]
  BY <1>8, <1>9, <1>10
<1> QED BY <1>8, <1>9, <1>10, <1>11, <1>12 DEF IsProgram

LEMMA ControlProgram ==
    ASSUME NEW k \in {"BEGIN", "COMMIT"}, NEW p, p \in Programs(Stmt(k, "none", <<>>, <<>>))
    PROVE  IsProgram(p) /\ p = <<IF k = "BEGIN" THEN Begin ELSE Commit, Halt>>
<1>1. p = <<IF k = "BEGIN" THEN Begin ELSE Commit, Halt>>
  BY DEF Programs, Stmt, GenerateControl
<1>2. /\ Begin \in Instructions
      /\ Commit \in Instructions
      /\ Halt \in Instructions
      /\ MaxColumns \in Nat
  BY FixedInstructions, CompilerAssumption
<1>3. p \in Seq(Instructions) /\ Len(p) = 2
  BY <1>1, <1>2
<1> QED BY <1>1, <1>2, <1>3 DEF IsProgram

LEMMA ProgramsAre ==
    ASSUME NEW s \in Statements, NEW p \in Programs(s)
    PROVE  IsProgram(p)
BY ParsedAre, SelectProgram, InsertProgram, CreateProgram, ControlProgram

----------------------------------------------------------------------------
(* What a sentence means, and how the meaning grows with it. *)

MeantColumns(cols) == [i \in DOMAIN cols |-> ColumnMeant(cols[i])]
MeantValues(vals)  == [i \in DOMAIN vals |-> Value(vals[i])]

\* The record of a sentence, whole or not.
Wording(s) ==
    \E k, n, C, V : \E cols \in Seq(C), vals \in Seq(V) : s = Stmt(k, n, cols, vals)

LEMMA ColumnMeantIs ==
    /\ \A n : ColumnMeant(Plain(n)) = Column(n)
    /\ \A n : ColumnMeant(IntColumn(n)) = [name |-> n, type |-> "INT", length |-> -1]
    /\ \A n : ColumnMeant(VarcharColumn(n, "none")) = [name |-> n, type |-> "VARCHAR", length |-> DefaultLength]
    /\ \A n, l : l \in Numbers => ColumnMeant(VarcharColumn(n, l)) = [name |-> n, type |-> "VARCHAR", length |-> atoi[l]]
<1>1. ASSUME NEW n, NEW type, NEW l, NEW c, c = [name |-> n, type |-> type, length |-> l]
      PROVE  ColumnMeant(c) = [name |-> n, type |-> type, length |-> LengthMeant(c)]
  BY <1>1 DEF ColumnMeant
<1>2. ASSUME NEW n PROVE ColumnMeant(Plain(n)) = Column(n)
  BY <1>1 DEF Plain, Column, LengthMeant
<1>3. ASSUME NEW n PROVE ColumnMeant(IntColumn(n)) = [name |-> n, type |-> "INT", length |-> -1]
  BY <1>1 DEF IntColumn, LengthMeant
<1>4. ASSUME NEW n
      PROVE  ColumnMeant(VarcharColumn(n, "none")) = [name |-> n, type |-> "VARCHAR", length |-> DefaultLength]
  BY <1>1 DEF VarcharColumn, LengthMeant
<1>5. ASSUME NEW n, NEW l \in Numbers
      PROVE  ColumnMeant(VarcharColumn(n, l)) = [name |-> n, type |-> "VARCHAR", length |-> atoi[l]]
  <2>1. l # "none"
    BY CompilerAssumption
  <2> QED BY <1>1, <2>1 DEF VarcharColumn, LengthMeant
<1> QED BY <1>2, <1>3, <1>4, <1>5

LEMMA MeaningOf ==
    ASSUME NEW k, NEW n, NEW cols, NEW vals
    PROVE  Meaning(Stmt(k, n, cols, vals)) = Stmt(k, n, MeantColumns(cols), MeantValues(vals))
<1> DEFINE w == Stmt(k, n, cols, vals)
<1>1. w.columns = cols /\ w.values = vals
  BY DEF Stmt
<1>2. Meaning(w) = [w EXCEPT !.columns = MeantColumns(w.columns), !.values = MeantValues(w.values)]
  BY Zenon DEF Meaning, MeantColumns, MeantValues
<1>3. ASSUME NEW x, NEW y PROVE [w EXCEPT !.columns = x, !.values = y] = Stmt(k, n, x, y)
  <2>1. [w EXCEPT !.columns = x] = Stmt(k, n, x, vals)
    BY DEF Stmt
  <2>2. [Stmt(k, n, x, vals) EXCEPT !.values = y] = Stmt(k, n, x, y)
    BY DEF Stmt
  <2> QED BY <2>1, <2>2, Zenon
<1>4. Meaning(w) = Stmt(k, n, MeantColumns(w.columns), MeantValues(w.values))
  BY <1>2, <1>3, Zenon
<1> HIDE DEF w
<1>5. Meaning(w) = Stmt(k, n, MeantColumns(cols), MeantValues(vals))
  BY <1>1, <1>4
<1> QED BY <1>5 DEF w

LEMMA NothingMeant ==
    /\ MeantColumns(<<>>) = <<>> /\ MeantValues(<<>>) = <<>>
    /\ NoStatement = Meaning(NoStatement)
<1>1. DOMAIN <<>> = {}
  OBVIOUS
<1>2. MeantColumns(<<>>) = <<>> /\ MeantValues(<<>>) = <<>>
  BY <1>1 DEF MeantColumns, MeantValues
<1>3. NoStatement = Stmt("none", "none", <<>>, <<>>)
  BY DEF NoStatement, Stmt
<1> QED BY <1>2, <1>3, MeaningOf

LEMMA ColumnsMeant ==
    ASSUME NEW S, NEW cols \in Seq(S), NEW c
    PROVE  /\ MeantColumns(cols) \in Seq({ColumnMeant(x) : x \in S \cup {c}})
           /\ Len(MeantColumns(cols)) = Len(cols)
           /\ MeantColumns(Append(cols, c)) = Append(MeantColumns(cols), ColumnMeant(c))
<1> DEFINE D == S \cup {c}
           T == {ColumnMeant(x) : x \in D}
           F == [x \in D |-> ColumnMeant(x)]
<1>1. F \in [D -> T] /\ \A x \in D : F[x] = ColumnMeant(x)
  OBVIOUS
<1>2. cols \in Seq(D) /\ c \in D
  OBVIOUS
<1> HIDE DEF F, D
<1>3. /\ \A i \in DOMAIN cols : cols[i] \in D
      /\ \A i \in DOMAIN Append(cols, c) : Append(cols, c)[i] \in D
  <2>1. Append(cols, c) \in Seq(D)
    BY <1>2, AppendProperties
  <2> QED BY <1>2, <2>1, ElementOfSeq, LenProperties
<1> HIDE DEF T
<1>4. Mapped(F, T, cols, c)
  BY <1>1, <1>2, MapGrows, Zenon
<1>5. MeantColumns(cols) = [i \in DOMAIN cols |-> F[cols[i]]]
  BY <1>1, <1>3 DEF MeantColumns
<1>6. MeantColumns(Append(cols, c)) = [i \in DOMAIN Append(cols, c) |-> F[Append(cols, c)[i]]]
  BY <1>1, <1>3 DEF MeantColumns
<1> QED BY <1>1, <1>2, <1>4, <1>5, <1>6 DEF T, D, Mapped

LEMMA ValuesMeant ==
    ASSUME NEW S, NEW vals \in Seq(S), NEW v
    PROVE  /\ MeantValues(vals) \in Seq({Value(x) : x \in S \cup {v}})
           /\ Len(MeantValues(vals)) = Len(vals)
           /\ MeantValues(Append(vals, v)) = Append(MeantValues(vals), Value(v))
<1> DEFINE D == S \cup {v}
           T == {Value(x) : x \in D}
           F == [x \in D |-> Value(x)]
<1>1. F \in [D -> T] /\ \A x \in D : F[x] = Value(x)
  OBVIOUS
<1>2. vals \in Seq(D) /\ v \in D
  OBVIOUS
<1> HIDE DEF F, D
<1>3. /\ \A i \in DOMAIN vals : vals[i] \in D
      /\ \A i \in DOMAIN Append(vals, v) : Append(vals, v)[i] \in D
  <2>1. Append(vals, v) \in Seq(D)
    BY <1>2, AppendProperties
  <2> QED BY <1>2, <2>1, ElementOfSeq, LenProperties
<1> HIDE DEF T
<1>4. Mapped(F, T, vals, v)
  BY <1>1, <1>2, MapGrows, Zenon
<1>5. MeantValues(vals) = [i \in DOMAIN vals |-> F[vals[i]]]
  BY <1>1, <1>3 DEF MeantValues
<1>6. MeantValues(Append(vals, v)) = [i \in DOMAIN Append(vals, v) |-> F[Append(vals, v)[i]]]
  BY <1>1, <1>3 DEF MeantValues
<1> QED BY <1>1, <1>2, <1>4, <1>5, <1>6 DEF T, D, Mapped

LEMMA ShapesAreWordings ==
    ASSUME NEW place, NEW s, NEW w, Shape(place, s, w)
    PROVE  Wording(s)
<1>1. \A k, n, C, V : \A cols \in Seq(C), vals \in Seq(V) : Wording(Stmt(k, n, cols, vals))
  BY DEF Wording
<1>2. /\ \A lo \in {0, 1} : /\ Lists(NameColumns, lo) \subseteq Seq(AnyColumn)
                            /\ Lists(WrittenColumns, lo) \subseteq Seq(WrittenColumns)
                            /\ Lists(Literals, lo) \subseteq Seq(Literals)
      /\ <<Plain("OP_STAR")>> \in Seq(AnyColumn) /\ <<>> \in Seq(Literals) /\ <<>> \in Seq(AnyColumn)
  <2>1. ASSUME NEW S, NEW lo \in {0, 1} PROVE Lists(S, lo) \subseteq Seq(S)
    BY ListsAre
  <2>2. NameColumns \subseteq AnyColumn /\ Plain("OP_STAR") \in AnyColumn
    BY DEF AnyColumn
  <2>3. Seq(NameColumns) \subseteq Seq(AnyColumn)
    BY <2>2
  <2>4. <<Plain("OP_STAR")>> \in Seq(AnyColumn) /\ <<>> \in Seq(Literals) /\ <<>> \in Seq(AnyColumn)
    BY <2>2, EmptySeq
  <2> QED BY <2>1, <2>3, <2>4
<1>3. ASSUME NEW k, NEW n, NEW cols \in SelectLists \cup Lists(NameColumns, 0),
             NEW vals \in {<<>>} \cup Lists(Literals, 0) \cup Lists(Literals, 1)
      PROVE  Wording(Stmt(k, n, cols, vals))
  <2>1. cols \in Seq(AnyColumn) /\ vals \in Seq(Literals)
    BY <1>2 DEF SelectLists
  <2> QED BY <1>1, <2>1
<1>4. <<>> \in Lists(NameColumns, 0)
  BY EmptyList
<1>5. CASE place = "statement" /\ s = NoStatement
  BY <1>3, <1>4, <1>5 DEF NoStatement, Stmt
<1>6. CASE SelectShape(place, s, w)
  <2>1. \E n, cols : cols \in SelectLists \cup Lists(NameColumns, 0) /\ s = Stmt("SELECT", n, cols, <<>>)
    BY <1>6 DEF SelectShape, SelectLists
  <2> QED BY <1>3, <2>1
<1>7. CASE InsertShape(place, s, w)
  <2>1. \E n, cols, vals : /\ cols \in SelectLists \cup Lists(NameColumns, 0)
                           /\ vals \in {<<>>} \cup Lists(Literals, 0) \cup Lists(Literals, 1)
                           /\ s = Stmt("INSERT", n, cols, vals)
    BY <1>4, <1>7 DEF InsertShape, SelectLists
  <2> QED BY <1>3, <2>1
<1>8. CASE CreateShape(place, s, w)
  <2>1. \/ s = Stmt("CREATE", "none", <<>>, <<>>) \/ \E n : s = Stmt("CREATE", n, <<>>, <<>>)
        \/ \E n : \E cols \in Lists(WrittenColumns, 0) \cup Lists(WrittenColumns, 1) :
              s = Stmt("CREATE", n, cols, <<>>)
        \/ \E n, c : \E cols \in Lists(WrittenColumns, 0) : s = Stmt("CREATE", n, Append(cols, c), <<>>)
    BY <1>8 DEF CreateShape
  <2>2. ASSUME NEW n, NEW c, NEW cols \in Lists(WrittenColumns, 0)
        PROVE  Wording(Stmt("CREATE", n, Append(cols, c), <<>>))
    <3>1. Append(cols, c) \in Seq(WrittenColumns \cup {c})
      <4>1. cols \in Seq(WrittenColumns \cup {c})
        BY <1>2
      <4> QED BY <4>1, AppendProperties
    <3> QED BY <1>1, <1>2, <3>1
  <2>3. ASSUME NEW n, NEW cols \in Lists(WrittenColumns, 0) \cup Lists(WrittenColumns, 1)
        PROVE  Wording(Stmt("CREATE", n, cols, <<>>))
    BY <1>1, <1>2
  <2> QED BY <1>3, <1>4, <2>1, <2>2, <2>3
<1>9. CASE ControlShape(place, s, w)
  <2>1. \E k : s = Stmt(k, "none", <<>>, <<>>)
    BY <1>9 DEF ControlShape
  <2> QED BY <1>3, <1>4, <2>1
<1>10. CASE WholeShape(s, w)
  <2>1. s \in Sentences
    BY <1>10 DEF WholeShape
  <2>2. \/ \E n \in Names, cols \in SelectLists : s = Stmt("SELECT", n, cols, <<>>)
        \/ \E n \in Names, cols \in Lists(NameColumns, 0), vals \in Lists(Literals, 1) :
              s = Stmt("INSERT", n, cols, vals)
        \/ \E n \in Names, cols \in Lists(WrittenColumns, 1) : s = Stmt("CREATE", n, cols, <<>>)
        \/ \E k \in {"BEGIN", "COMMIT"} : s = Stmt(k, "none", <<>>, <<>>)
    BY <2>1, SentencesAre
  <2>3. \A n, cols : cols \in Lists(WrittenColumns, 1) => Wording(Stmt("CREATE", n, cols, <<>>))
    BY <1>1, <1>2
  <2> QED BY <1>3, <1>4, <2>2, <2>3
<1> QED BY <1>5, <1>6, <1>7, <1>8, <1>9, <1>10 DEF Shape

\* The lists of a statement are as long as those of its sentence.
LEMMA MeaningIs ==
    ASSUME NEW s, Wording(s)
    PROVE  Len(Meaning(s).columns) = Len(s.columns) /\ Len(Meaning(s).values) = Len(s.values)
<1>1. PICK k, n, C, V : \E cols \in Seq(C), vals \in Seq(V) : s = Stmt(k, n, cols, vals)
  BY DEF Wording
<1>2. PICK cols \in Seq(C), vals \in Seq(V) : s = Stmt(k, n, cols, vals)
  BY <1>1
<1>3. Len(MeantColumns(cols)) = Len(cols) /\ Len(MeantValues(vals)) = Len(vals)
  BY ColumnsMeant, ValuesMeant
<1>4. Meaning(s) = Stmt(k, n, MeantColumns(cols), MeantValues(vals))
  BY <1>2, MeaningOf
<1>5. /\ Meaning(s).columns = MeantColumns(cols) /\ Meaning(s).values = MeantValues(vals)
      /\ s.columns = cols /\ s.values = vals
  BY <1>2, <1>4 DEF Stmt
<1> QED BY <1>3, <1>5

LEMMA NotedIs ==
    ASSUME NEW s, NEW t
    PROVE  /\ Noted(s, "statement", t) = OfKind(s, t.type)
           /\ \A p \in {"selectTable", "insertTable", "createTable"} :
                 Noted(s, p, t) = OfTable(s, t.lexeme)
           /\ \A p \in {"selectList", "selectColumn", "insertColumn", "createColumn"} :
                 Noted(s, p, t) = WithColumn(s, Column(t.lexeme))
           /\ Noted(s, "value", t) = WithValue(s, Value(t))
           /\ Noted(s, "columnType", t) = LastColumn(s, t.type, IF t.type = "INT" THEN -1 ELSE DefaultLength)
           /\ Noted(s, "length", t) = LastColumn(s, "VARCHAR", atoi[t.lexeme])
           /\ \A p \in {"selectNext", "selectFrom", "selectEnd", "insertInto", "insertShape",
                        "insertNext", "insertValues", "insertOpen", "valueNext", "insertEnd",
                        "createWord", "createOpen", "varcharNext", "lengthEnd", "createNext",
                        "createEnd", "beginWord", "controlEnd"} :
                 Noted(s, p, t) = s
BY DEF Noted, OfKind, OfTable, WithColumn, WithValue

\* What the two productions that read a column's type do to its meaning.
LEMMA ColumnTypeMeant ==
    ASSUME NEW n, NEW C, NEW cols \in Seq(C), NEW m, NEW old, NEW type, NEW length, NEW meant,
           NEW a, NEW b, NEW c, old = [name |-> m, type |-> a, length |-> b],
           ColumnMeant(old) = [name |-> m, type |-> a, length |-> c],
           ColumnMeant([name |-> m, type |-> type, length |-> length])
               = [name |-> m, type |-> type, length |-> meant]
    PROVE  LastColumn(Meaning(Stmt("CREATE", n, Append(cols, old), <<>>)), type, meant)
               = Meaning(LastColumn(Stmt("CREATE", n, Append(cols, old), <<>>), type, length))
<1> DEFINE new  == [name |-> m, type |-> type, length |-> length]
           list == MeantColumns(cols)
<1>1. LastColumn(Stmt("CREATE", n, Append(cols, old), <<>>), type, length)
          = Stmt("CREATE", n, Append(cols, new), <<>>)
  BY LastColumnIs
<1>2. PICK S : list \in Seq(S)
  BY ColumnsMeant
<1>3. Meaning(Stmt("CREATE", n, Append(cols, old), <<>>))
          = Stmt("CREATE", n, Append(list, ColumnMeant(old)), <<>>)
  <2>1. MeantColumns(Append(cols, old)) = Append(list, ColumnMeant(old))
    BY ColumnsMeant
  <2>2. Meaning(Stmt("CREATE", n, Append(cols, old), <<>>))
            = Stmt("CREATE", n, MeantColumns(Append(cols, old)), MeantValues(<<>>))
    BY MeaningOf
  <2> QED BY <2>1, <2>2, NothingMeant
<1>4. Meaning(Stmt("CREATE", n, Append(cols, new), <<>>))
          = Stmt("CREATE", n, Append(list, ColumnMeant(new)), <<>>)
  <2>1. MeantColumns(Append(cols, new)) = Append(list, ColumnMeant(new))
    BY ColumnsMeant
  <2>2. Meaning(Stmt("CREATE", n, Append(cols, new), <<>>))
            = Stmt("CREATE", n, MeantColumns(Append(cols, new)), MeantValues(<<>>))
    BY MeaningOf
  <2> QED BY <2>1, <2>2, NothingMeant
<1> HIDE DEF list
<1>5. LastColumn(Stmt("CREATE", n, Append(list, ColumnMeant(old)), <<>>), type, meant)
          = Stmt("CREATE", n, Append(list, ColumnMeant(new)), <<>>)
  BY <1>2, LastColumnIs
<1> QED BY <1>1, <1>3, <1>4, <1>5

LEMMA PlainPlacesMeant ==
    ASSUME NEW s, Wording(s), NEW t
    PROVE  /\ OfKind(Meaning(s), t.type) = Meaning(OfKind(s, t.type))
           /\ OfTable(Meaning(s), t.lexeme) = Meaning(OfTable(s, t.lexeme))
           /\ WithColumn(Meaning(s), Column(t.lexeme)) = Meaning(WithColumn(s, Plain(t.lexeme)))
           /\ WithValue(Meaning(s), Value(t)) = Meaning(WithValue(s, t))
<1>1. PICK k, n, C, V : \E cols \in Seq(C), vals \in Seq(V) : s = Stmt(k, n, cols, vals)
  BY DEF Wording
<1>2. PICK cols \in Seq(C), vals \in Seq(V) : s = Stmt(k, n, cols, vals)
  BY <1>1
<1>3. ASSUME NEW x, NEW y, NEW q, NEW v, NEW z
      PROVE  /\ OfKind(Stmt(x, y, q, v), z) = Stmt(z, y, q, v)
             /\ OfTable(Stmt(x, y, q, v), z) = Stmt(x, z, q, v)
             /\ WithColumn(Stmt(x, y, q, v), z) = Stmt(x, y, Append(q, z), v)
             /\ WithValue(Stmt(x, y, q, v), z) = Stmt(x, y, q, Append(v, z))
  <2>1. OfKind(Stmt(x, y, q, v), z) = Stmt(z, y, q, v)
    BY DEF OfKind, Stmt
  <2> QED BY <2>1, StmtGrows
<1>4. /\ MeantColumns(Append(cols, Plain(t.lexeme))) = Append(MeantColumns(cols), Column(t.lexeme))
      /\ MeantValues(Append(vals, t)) = Append(MeantValues(vals), Value(t))
  <2>1. ColumnMeant(Plain(t.lexeme)) = Column(t.lexeme)
    BY ColumnMeantIs
  <2>2. MeantColumns(Append(cols, Plain(t.lexeme))) = Append(MeantColumns(cols), ColumnMeant(Plain(t.lexeme)))
    BY ColumnsMeant
  <2>3. MeantValues(Append(vals, t)) = Append(MeantValues(vals), Value(t))
    BY ValuesMeant
  <2> QED BY <2>1, <2>2, <2>3
<1>5. Meaning(s) = Stmt(k, n, MeantColumns(cols), MeantValues(vals))
  BY <1>2, MeaningOf
<1>6. OfKind(Meaning(s), t.type) = Meaning(OfKind(s, t.type))
  <2>1. Meaning(Stmt(t.type, n, cols, vals)) = Stmt(t.type, n, MeantColumns(cols), MeantValues(vals))
    BY MeaningOf
  <2> QED BY <1>2, <1>3, <1>5, <2>1
<1>7. OfTable(Meaning(s), t.lexeme) = Meaning(OfTable(s, t.lexeme))
  <2>1. Meaning(Stmt(k, t.lexeme, cols, vals)) = Stmt(k, t.lexeme, MeantColumns(cols), MeantValues(vals))
    BY MeaningOf
  <2> QED BY <1>2, <1>3, <1>5, <2>1
<1>8. WithColumn(Meaning(s), Column(t.lexeme)) = Meaning(WithColumn(s, Plain(t.lexeme)))
  <2> DEFINE more == Append(cols, Plain(t.lexeme))
  <2>1. Meaning(Stmt(k, n, more, vals)) = Stmt(k, n, MeantColumns(more), MeantValues(vals))
    BY MeaningOf
  <2> QED BY <1>2, <1>3, <1>4, <1>5, <2>1
<1>9. WithValue(Meaning(s), Value(t)) = Meaning(WithValue(s, t))
  <2> DEFINE more == Append(vals, t)
  <2>1. Meaning(Stmt(k, n, cols, more)) = Stmt(k, n, MeantColumns(cols), MeantValues(more))
    BY MeaningOf
  <2> QED BY <1>2, <1>3, <1>4, <1>5, <2>1
<1> QED BY <1>6, <1>7, <1>8, <1>9

\* What a token adds to the statement is what it adds to the sentence, in ints.
LEMMA NotedIsMeant ==
    ASSUME NEW place, NEW s, NEW w, Shape(place, s, w), NEW t \in Tokens, NEW next \in Goes(place, t)
    PROVE  Noted(Meaning(s), place, t) = Meaning(Worded(s, place, t))
<1>1. place \in {"statement"} \cup SelectPlaces \cup InsertPlaces \cup CreatePlaces \cup ControlPlaces
  BY PlaceOfMove
<1>2. /\ OfKind(Meaning(s), t.type) = Meaning(OfKind(s, t.type))
      /\ OfTable(Meaning(s), t.lexeme) = Meaning(OfTable(s, t.lexeme))
      /\ WithColumn(Meaning(s), Column(t.lexeme)) = Meaning(WithColumn(s, Plain(t.lexeme)))
      /\ WithValue(Meaning(s), Value(t)) = Meaning(WithValue(s, t))
  BY ShapesAreWordings, PlainPlacesMeant
<1>3. CASE place = "columnType"
  <2>1. CreateShape(place, s, w)
    BY <1>3, ShapesApart DEF CreatePlaces
  <2>2. PICK n \in Names, cols \in Lists(WrittenColumns, 0), m \in Names :
           s = Stmt("CREATE", n, Append(cols, Plain(m)), <<>>)
    BY <1>3, <2>1 DEF CreateShape
  <2>3. t.type \in {"INT", "VARCHAR"}
    BY <1>3, CreateGoes DEF CreatePlaces
  <2> DEFINE length == IF t.type = "INT" THEN -1 ELSE DefaultLength
  <2>4. /\ ColumnMeant(Plain(m)) = [name |-> m, type |-> "none", length |-> -1]
        /\ ColumnMeant([name |-> m, type |-> t.type, length |-> "none"])
               = [name |-> m, type |-> t.type, length |-> length]
    BY <2>3, ColumnMeantIs DEF Column, IntColumn, VarcharColumn
  <2>5. cols \in Seq(WrittenColumns)
    BY ListGrows
  <2> HIDE DEF length
  <2>6. LastColumn(Meaning(s), t.type, length) = Meaning(LastColumn(s, t.type, "none"))
    BY <2>2, <2>4, <2>5, ColumnTypeMeant DEF Plain
  <2> QED BY <1>3, <2>6, NotedIs, WordedIs DEF length
<1>4. CASE place = "length"
  <2>1. CreateShape(place, s, w)
    BY <1>4, ShapesApart DEF CreatePlaces
  <2>2. PICK n \in Names, cols \in Lists(WrittenColumns, 0), m \in Names :
           s = Stmt("CREATE", n, Append(cols, VarcharColumn(m, "none")), <<>>)
    BY <1>4, <2>1 DEF CreateShape
  <2>3. t.lexeme \in Numbers
    BY <1>4, CreateGoes, TokenOfType DEF CreatePlaces
  <2>4. /\ ColumnMeant(VarcharColumn(m, "none")) = [name |-> m, type |-> "VARCHAR", length |-> DefaultLength]
        /\ ColumnMeant([name |-> m, type |-> "VARCHAR", length |-> t.lexeme])
               = [name |-> m, type |-> "VARCHAR", length |-> atoi[t.lexeme]]
    BY <2>3, ColumnMeantIs DEF VarcharColumn
  <2>5. cols \in Seq(WrittenColumns)
    BY ListGrows
  <2>6. LastColumn(Meaning(s), "VARCHAR", atoi[t.lexeme]) = Meaning(LastColumn(s, "VARCHAR", t.lexeme))
    BY <2>2, <2>4, <2>5, ColumnTypeMeant DEF VarcharColumn
  <2> QED BY <1>4, <2>6, NotedIs, WordedIs
<1>5. CASE place \in {"statement", "selectTable", "insertTable", "createTable", "selectList", "selectColumn",
                      "insertColumn", "createColumn", "value"}
  BY <1>2, <1>5, NotedIs, WordedIs
<1>6. CASE place \in {"selectNext", "selectFrom", "selectEnd", "insertInto", "insertShape",
                      "insertNext", "insertValues", "insertOpen", "valueNext", "insertEnd",
                      "createWord", "createOpen", "varcharNext", "lengthEnd", "createNext",
                      "createEnd", "beginWord", "controlEnd"}
  BY <1>6, NotedIs, WordedIs
<1> QED BY <1>1, <1>3, <1>4, <1>5, <1>6 DEF SelectPlaces, InsertPlaces, CreatePlaces, ControlPlaces

LEMMA ListMeant ==
    ASSUME NEW S, NEW T, NEW lo \in Nat
    PROVE  /\ \A q \in Lists(S, lo) :
                 (\A x \in S : ColumnMeant(x) \in T) => MeantColumns(q) \in Lists(T, lo)
           /\ \A q \in Lists(S, lo) :
                 (\A x \in S : Value(x) \in T) => MeantValues(q) \in Lists(T, lo)
<1>1. ASSUME NEW q \in Lists(S, lo), \A x \in S : ColumnMeant(x) \in T
      PROVE  MeantColumns(q) \in Lists(T, lo)
  <2>1. PICK n \in lo .. MaxColumns : q \in [1 .. n -> S]
    BY DEF Lists
  <2>2. MeantColumns(q) \in [1 .. n -> T]
    BY <1>1, <2>1 DEF MeantColumns
  <2> QED BY <2>2 DEF Lists
<1>2. ASSUME NEW q \in Lists(S, lo), \A x \in S : Value(x) \in T
      PROVE  MeantValues(q) \in Lists(T, lo)
  <2>1. PICK n \in lo .. MaxColumns : q \in [1 .. n -> S]
    BY DEF Lists
  <2>2. MeantValues(q) \in [1 .. n -> T]
    BY <1>2, <2>1 DEF MeantValues
  <2> QED BY <2>2 DEF Lists
<1> QED BY <1>1, <1>2

LEMMA ParsedMade ==
    /\ \A n \in Names, cols \in ParsedLists : Stmt("SELECT", n, cols, <<>>) \in Statements
    /\ \A n \in Names, cols \in Lists(ParsedNames, 0), vals \in Lists(Values, 1) :
          Stmt("INSERT", n, cols, vals) \in Statements
    /\ \A n \in Names, cols \in Lists(ParsedTyped, 1) : Stmt("CREATE", n, cols, <<>>) \in Statements
    /\ \A k \in {"BEGIN", "COMMIT"} : Stmt(k, "none", <<>>, <<>>) \in Statements
BY StatementsMade, Zenon DEF Statements, ParsedLists, ParsedNames, ParsedTyped, StarColumn, Column

\* What a sentence means is a statement.
LEMMA SentencesMean ==
    ASSUME NEW s \in Sentences
    PROVE  Meaning(s) \in Statements
<1>1. \A c \in NameColumns : ColumnMeant(c) \in ParsedNames
  <2>1. \A c \in NameColumns : c = Plain(c.name) /\ Column(c.name) \in ParsedNames
    BY DEF NameColumns, ParsedNames, PlainColumns, Plain, Column
  <2> QED BY <2>1, ColumnMeantIs
<1>2. \A c \in WrittenColumns : ColumnMeant(c) \in ParsedTyped
  <2>1. ASSUME NEW n \in Names
        PROVE  /\ [name |-> n, type |-> "INT", length |-> -1] \in ParsedTyped
               /\ [name |-> n, type |-> "VARCHAR", length |-> DefaultLength] \in ParsedTyped
               /\ \A l \in Numbers : [name |-> n, type |-> "VARCHAR", length |-> atoi[l]] \in ParsedTyped
    BY DEF ParsedTyped, TypedColumns
  <2>2. ASSUME NEW c \in WrittenColumns PROVE ColumnMeant(c) \in ParsedTyped
    <3>1. PICK n \in Names : \/ c = IntColumn(n) \/ c = VarcharColumn(n, "none")
                             \/ \E l \in Numbers : c = VarcharColumn(n, l)
      BY TypedColumnIs
    <3>2. CASE c = IntColumn(n)
      BY <2>1, <3>2, ColumnMeantIs
    <3>3. CASE c = VarcharColumn(n, "none")
      BY <2>1, <3>3, ColumnMeantIs
    <3>4. ASSUME NEW l \in Numbers, c = VarcharColumn(n, l) PROVE ColumnMeant(c) \in ParsedTyped
      BY <2>1, <3>4, ColumnMeantIs
    <3> QED BY <3>1, <3>2, <3>3, <3>4
  <2> QED BY <2>2
<1>3. \A v \in Literals : Value(v) \in Values
  BY DEF Values
<1>4. CASE \E n \in Names, cols \in SelectLists : s = Stmt("SELECT", n, cols, <<>>)
  <2>1. PICK n \in Names, cols \in SelectLists : s = Stmt("SELECT", n, cols, <<>>)
    BY <1>4
  <2>2. MeantColumns(cols) \in ParsedLists
    <3>1. CASE cols \in Lists(NameColumns, 1)
      BY <1>1, <3>1, ListMeant DEF ParsedLists
    <3>2. CASE cols = <<Plain("OP_STAR")>>
      <4>1. cols = Append(<<>>, Plain("OP_STAR")) /\ <<>> \in Seq(AnyColumn)
        BY <3>2, EmptySeq
      <4>2. MeantColumns(cols) = Append(<<>>, Column("OP_STAR"))
        BY <4>1, ColumnsMeant, NothingMeant, ColumnMeantIs
      <4> QED BY <4>2 DEF ParsedLists
    <3> QED BY <3>1, <3>2 DEF SelectLists
  <2>3. Meaning(s) = Stmt("SELECT", n, MeantColumns(cols), <<>>)
    BY <2>1, MeaningOf, NothingMeant
  <2> QED BY <2>2, <2>3, ParsedMade
<1>5. CASE \E n \in Names, cols \in Lists(NameColumns, 0), vals \in Lists(Literals, 1) :
              s = Stmt("INSERT", n, cols, vals)
  <2>1. PICK n \in Names, cols \in Lists(NameColumns, 0), vals \in Lists(Literals, 1) :
           s = Stmt("INSERT", n, cols, vals)
    BY <1>5
  <2>2. MeantColumns(cols) \in Lists(ParsedNames, 0)
    BY <1>1, ListMeant
  <2>3. MeantValues(vals) \in Lists(Values, 1)
    BY <1>3, ListMeant
  <2>4. Meaning(s) = Stmt("INSERT", n, MeantColumns(cols), MeantValues(vals))
    BY <2>1, MeaningOf
  <2> QED BY <2>2, <2>3, <2>4, ParsedMade
<1>6. CASE \E n \in Names, cols \in Lists(WrittenColumns, 1) : s = Stmt("CREATE", n, cols, <<>>)
  <2>1. PICK n \in Names, cols \in Lists(WrittenColumns, 1) : s = Stmt("CREATE", n, cols, <<>>)
    BY <1>6
  <2>2. MeantColumns(cols) \in Lists(ParsedTyped, 1)
    BY <1>2, ListMeant
  <2>3. Meaning(s) = Stmt("CREATE", n, MeantColumns(cols), <<>>)
    BY <2>1, MeaningOf, NothingMeant
  <2> QED BY <2>2, <2>3, ParsedMade
<1>7. CASE \E k \in {"BEGIN", "COMMIT"} : s = Stmt(k, "none", <<>>, <<>>)
  BY <1>7, MeaningOf, NothingMeant, ParsedMade
<1> QED BY <1>4, <1>5, <1>6, <1>7, SentencesAre

LEMMA ReadIsMeant ==
    ASSUME Read, at = "accepted"
    PROVE  /\ stmt \in Statements
           /\ \E s \in Sentences : \E c \in Closers(s) : tokens = Append(Spelling(s), c) /\ stmt = Meaning(s)
<1>1. PICK s : Shape(at, s, tokens) /\ stmt = Meaning(s)
  BY DEF Read
<1>2. s \in Sentences /\ \E c \in Closers(s) : tokens = Append(Spelling(s), c)
  BY <1>1, ShapesApart DEF WholeShape
<1> QED BY <1>1, <1>2, SentencesMean

----------------------------------------------------------------------------
(* The invariant. *)

Compiled == {p \in Seq(Instructions) : IsProgram(p)}

Kept ==
    /\ tokens \in Seq(Tokens) /\ at \in Places
    /\ session \in Seq(Compiled) /\ Len(session) <= MaxStatements
    /\ at # "statement" => Len(session) < MaxStatements

LEMMA InitReads == Init => Kept /\ Read
<1>1. SUFFICES ASSUME Init PROVE Kept /\ Read
  OBVIOUS
<1>2. tokens = <<>> /\ at = "statement" /\ stmt = NoStatement /\ session = <<>>
  BY <1>1 DEF Init
<1>3. Shape(at, NoStatement, tokens) /\ stmt = Meaning(NoStatement)
  BY <1>2, NothingMeant DEF Shape
<1>4. /\ tokens \in Seq(Tokens)
      /\ session \in Seq(Compiled)
      /\ Len(session) = 0
      /\ MaxStatements \in Nat
  BY <1>2, EmptySeq, CompilerAssumption
<1>5. at \in Places
  BY <1>2, PlacesAre
<1>6. Len(session) <= MaxStatements
  BY <1>4, CompilerAssumption
<1>7. Read
  BY <1>3 DEF Read
<1> QED BY <1>2, <1>4, <1>5, <1>6, <1>7 DEF Kept

LEMMA TakeReads ==
    ASSUME Kept, Read, NEW t \in Tokens, Take(t)
    PROVE  Kept' /\ Read'
<1>1. PICK place \in Goes(at, t) : at' = place
  BY DEF Take
<1>2. /\ at \notin Outcomes /\ (at = "statement" => Len(session) < MaxStatements)
      /\ tokens' = Append(tokens, t) /\ stmt' = Noted(stmt, at, t) /\ session' = session
      /\ t.type = "COMMA" => Len(IF at = "valueNext" THEN stmt.values ELSE stmt.columns) < MaxColumns
  BY DEF Take, Parsing, ListHasRoom
<1>3. PICK s : Shape(at, s, tokens) /\ stmt = Meaning(s)
  BY <1>2 DEF Read, Outcomes
<1>4. Len(stmt.values) = Len(s.values) /\ Len(stmt.columns) = Len(s.columns)
  BY <1>3, ShapesAreWordings, MeaningIs
<1>5. Shape(place, Worded(s, at, t), Append(tokens, t))
  BY <1>2, <1>3, <1>4, ShapeGrows
<1>6. Noted(stmt, at, t) = Meaning(Worded(s, at, t))
  BY <1>1, <1>2, <1>3, NotedIsMeant
<1>7. Read'
  BY <1>1, <1>2, <1>5, <1>6 DEF Read
<1>8. tokens' \in Seq(Tokens)
  BY <1>2, AppendProperties DEF Kept
<1>9. at' \in Places
  BY <1>1, PlacesAre
<1>10. Len(session) < MaxStatements /\ Len(session) <= MaxStatements
  BY <1>2 DEF Kept
<1> QED BY <1>2, <1>7, <1>8, <1>9, <1>10 DEF Kept

LEMMA RejectReads ==
    ASSUME Kept, Read, NEW t \in Tokens, Reject(t)
    PROVE  Kept' /\ Read'
<1>1. /\ at' = "rejected" /\ tokens' = Append(tokens, t) /\ session' = session
      /\ at = "statement" => Len(session) < MaxStatements
  BY DEF Reject, Parsing
<1>2. tokens' \in Seq(Tokens)
  BY <1>1, AppendProperties DEF Kept
<1>3. at' \in Places
  BY <1>1, PlacesAre DEF Outcomes
<1> QED BY <1>1, <1>2, <1>3 DEF Kept, Read

LEMMA FreshLine ==
    ASSUME tokens' = <<>>, at' = "statement", stmt' = NoStatement
    PROVE  tokens' \in Seq(Tokens) /\ at' \in Places /\ Read'
<1>1. Shape(at', NoStatement, tokens') /\ stmt' = Meaning(NoStatement)
  BY NothingMeant DEF Shape
<1> QED BY <1>1, EmptySeq, PlacesAre DEF Read

LEMMA GenerateReads ==
    ASSUME Kept, Read, Generate
    PROVE  Kept' /\ Read'
<1>1. /\ at = "accepted" /\ tokens' = <<>> /\ at' = "statement" /\ stmt' = NoStatement
      /\ (\E program \in Programs(stmt) : session' = Append(session, program)) \/ session' = <<>>
  BY DEF Generate
<1>2. CASE \E program \in Programs(stmt) : session' = Append(session, program)
  <2>1. PICK program \in Programs(stmt) : session' = Append(session, program)
    BY <1>2
  <2>2. stmt \in Statements
    BY <1>1, ReadIsMeant
  <2>3. program \in Compiled
    BY <2>1, <2>2, ProgramsAre DEF Compiled, IsProgram
  <2>4. /\ session' \in Seq(Compiled) /\ Len(session') = Len(session) + 1
        /\ Len(session) \in Nat
    BY <2>1, <2>3, AppendProperties, LenProperties DEF Kept
  <2>5. Len(session') <= MaxStatements
    BY <1>1, <2>4, CompilerAssumption DEF Kept
  <2> QED BY <1>1, <2>4, <2>5, FreshLine DEF Kept
<1>3. CASE session' = <<>>
  <2>1. session' \in Seq(Compiled) /\ Len(session') = 0
    BY <1>3, EmptySeq
  <2> QED BY <1>1, <2>1, CompilerAssumption, FreshLine DEF Kept
<1> QED BY <1>1, <1>2, <1>3

LEMMA GiveUpReads ==
    ASSUME Kept, Read, GiveUp
    PROVE  Kept' /\ Read'
<1>1. tokens' = <<>> /\ at' = "statement" /\ stmt' = NoStatement /\ session' = session
  BY DEF GiveUp
<1> QED BY <1>1, FreshLine DEF Kept

LEMMA ExitReads ==
    ASSUME Kept, Read, Exit
    PROVE  Kept' /\ Read'
<1>1. at = "statement" /\ session' = <<>> /\ tokens' = tokens /\ at' = at /\ stmt' = stmt
  BY DEF Exit
<1>2. session' \in Seq(Compiled) /\ Len(session') <= MaxStatements
  <2>1. session' \in Seq(Compiled) /\ Len(session') = 0
    BY <1>1, EmptySeq
  <2> QED BY <2>1, CompilerAssumption
<1> QED BY <1>1, <1>2 DEF Kept, Read

LEMMA NextReads == Kept /\ Read /\ [Next]_vars => Kept' /\ Read'
<1>1. SUFFICES ASSUME Kept, Read, [Next]_vars PROVE Kept' /\ Read'
  OBVIOUS
<1>2. CASE \E t \in Tokens : Take(t) \/ Reject(t)
  BY <1>1, <1>2, TakeReads, RejectReads
<1>3. CASE Generate
  BY <1>1, <1>3, GenerateReads
<1>4. CASE GiveUp
  BY <1>1, <1>4, GiveUpReads
<1>5. CASE Exit
  BY <1>1, <1>5, ExitReads
<1>6. CASE UNCHANGED vars
  BY <1>1, <1>6 DEF vars, Kept, Read
<1> QED BY <1>1, <1>2, <1>3, <1>4, <1>5, <1>6 DEF Next

\* The parser's state is the meaning of a sentence of which it has read the
\* beginning (parse_select and the other productions of parser.c), and the
\* session is programs.
THEOREM ParserReads == Spec => [](Kept /\ Read)
<1>1. Init => Kept /\ Read
  BY InitReads
<1>2. (Kept /\ Read) /\ [Next]_vars => (Kept /\ Read)'
  BY NextReads
<1> QED BY <1>1, <1>2, PTL DEF Spec

\* The types hold: a token is one of the stream's, an accepted statement is a
\* statement of the grammar whatever the names, literals and list lengths, and
\* the generator's programs have at most their four fixed instructions and one
\* per column (parse_*, generate_code).
THEOREM TypesHold == Spec => []TypeOK
<1>1. ASSUME Kept, Read PROVE TypeOK
  <2>1. \A i \in DOMAIN tokens : tokens[i] \in Tokens
    BY <1>1, ElementOfSeq, LenProperties DEF Kept
  <2>2. at = "accepted" => stmt \in Statements
    BY <1>1, ReadIsMeant
  <2>3. ASSUME NEW i \in DOMAIN session
        PROVE  /\ Len(session[i]) \in 2 .. (4 + MaxColumns)
               /\ \A j \in DOMAIN session[i] : session[i][j] \in Instructions
    <3>1. session[i] \in Compiled
      BY <1>1, ElementOfSeq, LenProperties DEF Kept
    <3>2. session[i] \in Seq(Instructions) /\ Len(session[i]) \in 2 .. 4 + MaxColumns
      BY <3>1 DEF Compiled, IsProgram
    <3> QED BY <3>2, ElementOfSeq, LenProperties
  <2> QED BY <1>1, <2>1, <2>2, <2>3 DEF TypeOK, Kept
<1> QED BY <1>1, ParserReads, PTL

\* The tokens of an accepted stream are those of a sentence, and the statement
\* is what the sentence means: no column, value, length or table is lost, moved
\* or made up, but that a number is what atoi makes of it (parse_select,
\* parse_insert, parse_create, parse_begin, parse_commit).
THEOREM AcceptedAsWritten == Spec => []AcceptedIsSpelled
<1>1. ASSUME Kept, Read PROVE AcceptedIsSpelled
  <2>1. SUFFICES ASSUME at = "accepted"
                 PROVE  \E w \in Sentences : /\ Front(tokens) = SpellingTable[w] /\ stmt = Meaning(w)
                                             /\ Last(tokens) \in Closers(w)
    BY DEF AcceptedIsSpelled
  <2>2. PICK s \in Sentences : \E c \in Closers(s) : tokens = Append(Spelling(s), c) /\ stmt = Meaning(s)
    BY <1>1, <2>1, ReadIsMeant
  <2>3. PICK c \in Closers(s) : tokens = Append(Spelling(s), c) /\ stmt = Meaning(s)
    BY <2>2
  <2>4. Spelling(s) \in Streams /\ c \in Tokens
    BY <2>3, SpellingsAreStreams, ClosersAreTokens
  <2>5. Front(tokens) = Spelling(s) /\ Last(tokens) = c
    BY <2>3, <2>4, FrontOfAppended
  <2>6. SpellingTable[s] = Spelling(s)
    BY DEF SpellingTable
  <2> QED BY <2>3, <2>5, <2>6
<1> QED BY <1>1, ParserReads, PTL

----------------------------------------------------------------------------
(* What a program tells of its statement. *)

LEMMA ProgramOpens ==
    ASSUME NEW s \in Statements, NEW p \in Programs(s)
    PROVE  /\ s.kind \in {"SELECT", "INSERT", "CREATE", "BEGIN", "COMMIT"}
           /\ s.kind = "SELECT" => p[1].op = "OPEN_TABLE"
           /\ s.kind = "INSERT" => p[1].op = "BEGIN_TXN" /\ p[2].op = "OPEN_TABLE"
           /\ s.kind = "CREATE" => p[1].op = "CREATE_TABLE"
           /\ s.kind = "BEGIN" => p[1].op = "BEGIN_TXN" /\ p[2].op = "HALT"
           /\ s.kind = "COMMIT" => p[1].op = "COMMIT"
<1>1. CASE \E n \in Names, cols \in ParsedLists : s = Stmt("SELECT", n, cols, <<>>)
  <2>1. PICK n \in Names, cols \in ParsedLists : s = Stmt("SELECT", n, cols, <<>>)
    BY <1>1
  <2>2. s.kind = "SELECT" /\ p[1] = Instr("OPEN_TABLE", 0, 0, n)
    <3>1. s.kind = "SELECT"
      BY <2>1 DEF Stmt
    <3> QED BY <2>1, <3>1, SelectProgram
  <2> QED BY <2>2 DEF Instr
<1>2. CASE \E n \in Names, cols \in Lists(ParsedNames, 0), vals \in Lists(Values, 1) :
              s = Stmt("INSERT", n, cols, vals)
  <2>1. PICK n \in Names, cols \in Lists(ParsedNames, 0), vals \in Lists(Values, 1) :
           s = Stmt("INSERT", n, cols, vals)
    BY <1>2
  <2>2. s.kind = "INSERT" /\ p[1] = Begin /\ p[2] = Instr("OPEN_TABLE", 0, 0, n)
    <3>1. s.kind = "INSERT"
      BY <2>1 DEF Stmt
    <3> QED BY <2>1, <3>1, InsertProgram
  <2> QED BY <2>2 DEF Instr, Begin
<1>3. CASE \E n \in Names, cols \in Lists(ParsedTyped, 1) : s = Stmt("CREATE", n, cols, <<>>)
  <2>1. PICK n \in Names, cols \in Lists(ParsedTyped, 1) : s = Stmt("CREATE", n, cols, <<>>)
    BY <1>3
  <2>2. s.kind = "CREATE" /\ p[1] = Instr("CREATE_TABLE", 0, 0, n)
    <3>1. s.kind = "CREATE"
      BY <2>1 DEF Stmt
    <3> QED BY <2>1, <3>1, CreateProgram
  <2> QED BY <2>2 DEF Instr
<1>4. CASE \E k \in {"BEGIN", "COMMIT"} : s = Stmt(k, "none", <<>>, <<>>)
  <2>1. PICK k \in {"BEGIN", "COMMIT"} : s = Stmt(k, "none", <<>>, <<>>)
    BY <1>4
  <2>2. p = <<IF k = "BEGIN" THEN Begin ELSE Commit, Halt>>
    BY <2>1, ControlProgram
  <2>3. s.kind = k
    BY <2>1 DEF Stmt
  <2>4. Begin.op = "BEGIN_TXN" /\ Commit.op = "COMMIT" /\ Halt.op = "HALT"
    BY DEF Instr, Begin, Commit, Halt
  <2> QED BY <2>2, <2>3, <2>4
<1> QED BY <1>1, <1>2, <1>3, <1>4, ParsedAre

LEMMA StatementOfKind ==
    ASSUME NEW s \in Statements
    PROVE  /\ s.kind = "SELECT" => \E n \in Names, cols \in ParsedLists : s = Stmt("SELECT", n, cols, <<>>)
           /\ s.kind = "INSERT" =>
                 \E n \in Names, cols \in Lists(ParsedNames, 0), vals \in Lists(Values, 1) :
                    s = Stmt("INSERT", n, cols, vals)
           /\ s.kind = "CREATE" =>
                 \E n \in Names, cols \in Lists(ParsedTyped, 1) : s = Stmt("CREATE", n, cols, <<>>)
           /\ s.kind \in {"BEGIN", "COMMIT"} => s = Stmt(s.kind, "none", <<>>, <<>>)
<1>1. \A k, n, c, v : Stmt(k, n, c, v).kind = k
  BY DEF Stmt
<1> QED BY <1>1, ParsedAre

LEMMA SelectTold ==
    ASSUME NEW s \in Statements, NEW u \in Statements, s.kind = "SELECT", u.kind = "SELECT",
           NEW p, p \in Programs(s), p \in Programs(u)
    PROVE  s = u
<1>1. PICK n \in Names, cols \in ParsedLists : s = Stmt("SELECT", n, cols, <<>>)
  BY StatementOfKind
<1>2. PICK m \in Names, list \in ParsedLists : u = Stmt("SELECT", m, list, <<>>)
  BY StatementOfKind
<1>3. /\ Len(p) = Len(cols) + 3 /\ p[1] = Instr("OPEN_TABLE", 0, 0, n)
      /\ \A i \in 1 .. Len(cols) : p[1 + i] = SearchOf(i, cols[i])
  BY <1>1, SelectProgram
<1>4. /\ Len(p) = Len(list) + 3 /\ p[1] = Instr("OPEN_TABLE", 0, 0, m)
      /\ \A i \in 1 .. Len(list) : p[1 + i] = SearchOf(i, list[i])
  BY <1>2, SelectProgram
<1>5. n = m
  <2>1. Instr("OPEN_TABLE", 0, 0, n).str = n /\ Instr("OPEN_TABLE", 0, 0, m).str = m
    BY DEF Instr
  <2> QED BY <1>3, <1>4, <2>1
<1>6. /\ Len(cols) \in 1 .. MaxColumns /\ MaxColumns \in Nat
      /\ \A i \in 1 .. Len(cols) : /\ i - 1 \in 0 .. (MaxColumns - 1)
                                   /\ cols[i] \in AnyParsed /\ cols[i] = Column(cols[i].name)
  BY SelectColumns
<1>7. /\ Len(list) \in 1 .. MaxColumns
      /\ \A i \in 1 .. Len(list) : list[i] \in AnyParsed /\ list[i] = Column(list[i].name)
  BY SelectColumns
<1>8. Len(cols) = Len(list)
  BY <1>3, <1>4, <1>6, <1>7
<1>9. ASSUME NEW i \in 1 .. Len(cols) PROVE cols[i] = list[i]
  <2>1. SearchOf(i, cols[i]) = SearchOf(i, list[i]) /\ i - 1 # -1
    BY <1>3, <1>4, <1>6, <1>8
  <2>2. \A c : /\ SearchOf(i, c).p1 = -1 \/ SearchOf(i, c).p1 = i - 1
               /\ SearchOf(i, c).p1 = -1 => c.name = "OP_STAR"
               /\ SearchOf(i, c).p1 = i - 1 => SearchOf(i, c).str = c.name
    BY <2>1 DEF SearchOf, Instr
  <2>3. cols[i].name = list[i].name
    BY <2>1, <2>2
  <2> QED BY <1>6, <1>7, <1>8, <2>3
<1>10. cols = list
  <2>1. cols \in Seq(AnyParsed) /\ list \in Seq(AnyParsed)
    BY <1>6, <1>7, SelectColumns
  <2> QED BY <1>8, <1>9, <2>1, SeqEqual
<1> QED BY <1>1, <1>2, <1>5, <1>10

LEMMA CreateTold ==
    ASSUME NEW s \in Statements, NEW u \in Statements, s.kind = "CREATE", u.kind = "CREATE",
           NEW p, p \in Programs(s), p \in Programs(u)
    PROVE  s = u
<1>1. PICK n \in Names, cols \in Lists(ParsedTyped, 1) : s = Stmt("CREATE", n, cols, <<>>)
  BY StatementOfKind
<1>2. PICK m \in Names, list \in Lists(ParsedTyped, 1) : u = Stmt("CREATE", m, list, <<>>)
  BY StatementOfKind
<1>3. /\ Len(p) = Len(cols) + 3 /\ p[1] = Instr("CREATE_TABLE", 0, 0, n)
      /\ \A i \in 1 .. Len(cols) : p[1 + i] = DefineOf(cols[i])
  BY <1>1, CreateProgram
<1>4. /\ Len(p) = Len(list) + 3 /\ p[1] = Instr("CREATE_TABLE", 0, 0, m)
      /\ \A i \in 1 .. Len(list) : p[1 + i] = DefineOf(list[i])
  BY <1>2, CreateProgram
<1>5. n = m
  <2>1. Instr("CREATE_TABLE", 0, 0, n).str = n /\ Instr("CREATE_TABLE", 0, 0, m).str = m
    BY DEF Instr
  <2> QED BY <1>3, <1>4, <2>1
<1>6. cols \in Seq(ParsedTyped) /\ list \in Seq(ParsedTyped)
  BY ListsAre
<1>7. /\ Len(cols) \in Nat /\ Len(list) \in Nat
      /\ \A i \in 1 .. Len(cols) : cols[i] \in ParsedTyped
      /\ \A i \in 1 .. Len(list) : list[i] \in ParsedTyped
  <2>1. Len(cols) \in Nat /\ \A i \in 1 .. Len(cols) : cols[i] \in ParsedTyped
    BY <1>6, LenProperties, ElementOfSeq
  <2>2. Len(list) \in Nat /\ \A i \in 1 .. Len(list) : list[i] \in ParsedTyped
    BY <1>6, LenProperties, ElementOfSeq
  <2> QED BY <2>1, <2>2
<1>8. Len(cols) = Len(list)
  BY <1>3, <1>4, <1>7
<1>9. ASSUME NEW i \in 1 .. Len(cols) PROVE cols[i] = list[i]
  <2>1. /\ DefineOf(cols[i]) = DefineOf(list[i])
        /\ cols[i] \in ParsedTyped
        /\ list[i] \in ParsedTyped
    BY <1>3, <1>4, <1>7, <1>8
  <2>2. \A c, d \in ParsedTyped : DefineOf(c) = DefineOf(d) => c = d
    <3>1. ASSUME NEW c \in ParsedTyped, NEW d \in ParsedTyped, DefineOf(c) = DefineOf(d)
          PROVE  c = d
      <4>1. /\ (IF c.type = "INT" THEN 1 ELSE 2) = IF d.type = "INT" THEN 1 ELSE 2
            /\ c.length = d.length /\ c.name = d.name
        BY <3>1 DEF DefineOf, Instr
      <4>2. c.type = "INT" <=> d.type = "INT"
        BY <4>1
      <4>3. \A e \in ParsedTyped : /\ e = [name |-> e.name, type |-> e.type, length |-> e.length]
                                    /\ e.type \in {"INT", "VARCHAR"}
        BY DEF ParsedTyped, TypedColumns
      <4>4. c.type = d.type
        BY <4>2, <4>3
      <4> QED BY <4>1, <4>3, <4>4
    <3> QED BY <3>1
  <2> QED BY <2>1, <2>2
<1>10. cols = list
  BY <1>6, <1>8, <1>9, SeqEqual
<1> QED BY <1>1, <1>2, <1>5, <1>10

LEMMA InsertTold ==
    ASSUME NEW s \in Statements, NEW u \in Statements, s.kind = "INSERT", u.kind = "INSERT",
           NEW p, p \in Programs(s), p \in Programs(u)
    PROVE  s.table = u.table
<1>1. PICK n \in Names, cols \in Lists(ParsedNames, 0), vals \in Lists(Values, 1) :
         s = Stmt("INSERT", n, cols, vals)
  BY StatementOfKind
<1>2. PICK m \in Names, list \in Lists(ParsedNames, 0), lits \in Lists(Values, 1) :
         u = Stmt("INSERT", m, list, lits)
  BY StatementOfKind
<1>3. p[2] = Instr("OPEN_TABLE", 0, 0, n) /\ p[2] = Instr("OPEN_TABLE", 0, 0, m)
  BY <1>1, <1>2, InsertProgram
<1>4. Instr("OPEN_TABLE", 0, 0, n).str = n /\ Instr("OPEN_TABLE", 0, 0, m).str = m
  BY DEF Instr
<1>5. s.table = n /\ u.table = m
  BY <1>1, <1>2 DEF Stmt
<1> QED BY <1>3, <1>4, <1>5

\* No two statements share a program, but for the values and columns of an
\* INSERT, where a statement's numbers are what atoi made of their lexemes and
\* lexemes of one int are one statement (generate_code, generate_select, generate_insert, generate_create).
THEOREM ProgramsTellApart == Spec => []ProgramTellsStatement
<1>1. ASSUME Kept, Read PROVE ProgramTellsStatement
  <2>1. SUFFICES ASSUME at = "accepted", NEW s \in Statements,
                        ProgramTable[s] \cap ProgramTable[stmt] # {}
                 PROVE  IF stmt.kind = "INSERT" THEN s.kind = "INSERT" /\ s.table = stmt.table ELSE s = stmt
    BY DEF ProgramTellsStatement
  <2>2. stmt \in Statements
    BY <1>1, <2>1, ReadIsMeant
  <2>3. PICK p : p \in Programs(s) /\ p \in Programs(stmt)
    BY <2>1, <2>2 DEF ProgramTable
  <2>4. s.kind = stmt.kind
    <3>1. /\ s.kind \in {"SELECT", "INSERT", "CREATE", "BEGIN", "COMMIT"}
          /\ s.kind = "SELECT" => p[1].op = "OPEN_TABLE"
          /\ s.kind = "INSERT" => p[1].op = "BEGIN_TXN" /\ p[2].op = "OPEN_TABLE"
          /\ s.kind = "CREATE" => p[1].op = "CREATE_TABLE"
          /\ s.kind = "BEGIN" => p[1].op = "BEGIN_TXN" /\ p[2].op = "HALT"
          /\ s.kind = "COMMIT" => p[1].op = "COMMIT"
      BY <2>3, ProgramOpens
    <3>2. /\ stmt.kind \in {"SELECT", "INSERT", "CREATE", "BEGIN", "COMMIT"}
          /\ stmt.kind = "SELECT" => p[1].op = "OPEN_TABLE"
          /\ stmt.kind = "INSERT" => p[1].op = "BEGIN_TXN" /\ p[2].op = "OPEN_TABLE"
          /\ stmt.kind = "CREATE" => p[1].op = "CREATE_TABLE"
          /\ stmt.kind = "BEGIN" => p[1].op = "BEGIN_TXN" /\ p[2].op = "HALT"
          /\ stmt.kind = "COMMIT" => p[1].op = "COMMIT"
      BY <2>2, <2>3, ProgramOpens
    <3> QED BY <3>1, <3>2
  <2>5. CASE stmt.kind = "SELECT"
    BY <2>2, <2>3, <2>4, <2>5, SelectTold
  <2>6. CASE stmt.kind = "INSERT"
    BY <2>2, <2>3, <2>4, <2>6, InsertTold
  <2>7. CASE stmt.kind = "CREATE"
    BY <2>2, <2>3, <2>4, <2>7, CreateTold
  <2>8. CASE stmt.kind \in {"BEGIN", "COMMIT"}
    BY <2>2, <2>4, <2>8, StatementOfKind
  <2> QED BY <2>2, <2>3, <2>5, <2>6, <2>7, <2>8, ProgramOpens
<1> QED BY <1>1, ParserReads, PTL

----------------------------------------------------------------------------
(* What may still become a statement: from every place in the parser some *)
(* tokens lead to the end of one.                                          *)

Begins(w, v) == Len(w) <= Len(v) /\ \A i \in 1 .. Len(w) : w[i] = v[i]
Possible(w)  == \E s \in Sentences : Begins(w, Spelling(s))

LEMMA PartOfStream ==
    ASSUME NEW v \in Streams, NEW w \in Streams
    PROVE  Begins(w, v) <=> \E n \in 0 .. Len(v) : w = SubSeq(v, 1, n)
<1>1. /\ v \in Seq(Tokens) /\ w \in Seq(Tokens) /\ Len(v) \in Nat /\ Len(w) \in Nat
      /\ \A i \in 1 .. Len(v) : v[i] \in Tokens
  BY LenProperties, ElementOfSeq DEF Streams
<1>2. ASSUME NEW n \in 0 .. Len(v)
      PROVE  /\ SubSeq(v, 1, n) \in Seq(Tokens) /\ Len(SubSeq(v, 1, n)) = n
             /\ \A i \in 1 .. n : SubSeq(v, 1, n)[i] = v[i]
  <2>1. n \in Nat /\ 1 .. n \subseteq 1 .. Len(v)
    BY <1>1
  <2>2. \A i \in 1 .. n : v[i] \in Tokens
    BY <1>1, <2>1
  <2> QED BY <1>1, <2>1, <2>2, SubSeqProperties
<1>3. ASSUME Begins(w, v) PROVE \E n \in 0 .. Len(v) : w = SubSeq(v, 1, n)
  <2>1. Len(w) \in 0 .. Len(v) /\ \A i \in 1 .. Len(w) : w[i] = v[i]
    BY <1>1, <1>3 DEF Begins
  <2>2. w = SubSeq(v, 1, Len(w))
    BY <1>1, <1>2, <2>1, SeqEqual
  <2> QED BY <2>1, <2>2
<1>4. ASSUME NEW n \in 0 .. Len(v), w = SubSeq(v, 1, n) PROVE Begins(w, v)
  BY <1>1, <1>2, <1>4 DEF Begins
<1> QED BY <1>3, <1>4

LEMMA BeginningsAre ==
    ASSUME NEW w \in Streams
    PROVE  w \in Beginnings <=>
              \/ Possible(w)
              \/ \E s \in Sentences : \E c \in Closers(s) : w = Append(Spelling(s), c)
<1>1. w \in Beginnings <=>
         \/ \E s \in Sentences : \E n \in 0 .. Len(Spelling(s)) : w = SubSeq(Spelling(s), 1, n)
         \/ \E s \in Sentences : \E c \in Closers(s) : w = Append(Spelling(s), c)
  <2> DEFINE cut   == UNION {{SubSeq(SpellingTable[s], 1, n) : n \in 0 .. Len(SpellingTable[s])} : s \in Sentences}
             ended == UNION {{Append(SpellingTable[s], c) : c \in Closers(s)} : s \in Sentences}
  <2>1. Beginnings = cut \cup ended
    BY DEF Beginnings
  <2>2. \A s \in Sentences : SpellingTable[s] = Spelling(s)
    BY DEF SpellingTable
  <2>3. w \in cut <=> \E s \in Sentences : \E n \in 0 .. Len(Spelling(s)) : w = SubSeq(Spelling(s), 1, n)
    <3>1. w \in cut <=> \E s \in Sentences : w \in {SubSeq(SpellingTable[s], 1, n) : n \in 0 .. Len(SpellingTable[s])}
      OBVIOUS
    <3> QED BY <2>2, <3>1
  <2>4. w \in ended <=> \E s \in Sentences : \E c \in Closers(s) : w = Append(Spelling(s), c)
    <3>1. w \in ended <=> \E s \in Sentences : w \in {Append(SpellingTable[s], c) : c \in Closers(s)}
      OBVIOUS
    <3> QED BY <2>2, <3>1
  <2> HIDE DEF cut, ended
  <2> QED BY <2>1, <2>3, <2>4
<1>2. Possible(w) <=> \E s \in Sentences : \E n \in 0 .. Len(Spelling(s)) : w = SubSeq(Spelling(s), 1, n)
  <2>1. ASSUME NEW s \in Sentences
        PROVE  Begins(w, Spelling(s)) <=> \E n \in 0 .. Len(Spelling(s)) : w = SubSeq(Spelling(s), 1, n)
    <3>1. Spelling(s) \in Streams
      BY SpellingsAreStreams
    <3> QED BY <3>1, PartOfStream
  <2> QED BY <2>1 DEF Possible
<1> QED BY <1>1, <1>2

LEMMA OneTokenLess ==
    ASSUME NEW w \in Streams, NEW t \in Tokens, Possible(Append(w, t))
    PROVE  Possible(w)
<1>1. PICK s \in Sentences : Begins(Append(w, t), Spelling(s))
  BY DEF Possible
<1>2. /\ Len(Append(w, t)) = Len(w) + 1 /\ Len(w) \in Nat
      /\ \A i \in 1 .. Len(w) : Append(w, t)[i] = w[i]
  BY AppendProperties, LenProperties DEF Streams
<1>3. Spelling(s) \in Streams
  BY SpellingsAreStreams
<1>4. Len(Spelling(s)) \in Nat
  BY <1>3, LenProperties DEF Streams
<1>5. Begins(w, Spelling(s))
  BY <1>1, <1>2, <1>4 DEF Begins
<1> QED BY <1>5 DEF Possible

LEMMA WholeIsPossible ==
    ASSUME NEW s \in Sentences
    PROVE  Possible(Spelling(s))
<1>1. Spelling(s) \in Streams
  BY SpellingsAreStreams
<1>2. Len(Spelling(s)) \in Nat
  BY <1>1, LenProperties DEF Streams
<1>3. Begins(Spelling(s), Spelling(s))
  BY <1>2 DEF Begins
<1> QED BY <1>3 DEF Possible

CanEnd(place) == \A s : \A w \in Seq(Tokens) : Shape(place, s, w) => Possible(w)

LEMMA MoveMade ==
    ASSUME NEW place, NEW t, NEW next, <<place, t.type, next>> \in Moves
    PROVE  next \in Goes(place, t)
<1> DEFINE m == <<place, t.type, next>>
<1>1. m[1] = place /\ m[2] = t.type /\ m[3] = next /\ m \in Moves
  OBVIOUS
<1> QED BY <1>1, MoveOf

\* A place can end when a token that is no comma leads to one that can.
LEMMA GoesThrough ==
    ASSUME NEW place, NEW t \in Tokens, NEW next, <<place, t.type, next>> \in Moves,
           t.type # "COMMA", CanEnd(next)
    PROVE  CanEnd(place)
<1>1. next \in Goes(place, t)
  BY MoveMade
<1>2. ASSUME NEW s, NEW w \in Seq(Tokens), Shape(place, s, w) PROVE Possible(w)
  <2>1. Shape(next, Worded(s, place, t), Append(w, t))
    BY <1>1, <1>2, ShapeGrows
  <2>2. Append(w, t) \in Seq(Tokens)
    BY AppendProperties
  <2>3. Possible(Append(w, t))
    BY <2>1, <2>2 DEF CanEnd
  <2>4. w \in Streams /\ t \in Tokens
    BY DEF Streams
  <2> QED BY <2>3, <2>4, OneTokenLess
<1> QED BY <1>2 DEF CanEnd

LEMMA EndsCanEnd ==
    CanEnd("selectEnd") /\ CanEnd("insertEnd") /\ CanEnd("createEnd") /\ CanEnd("controlEnd")
<1>1. ASSUME NEW s, NEW w, Shape("selectEnd", s, w) PROVE Possible(w)
  <2>1. SelectShape("selectEnd", s, w)
    BY <1>1, ShapesApart DEF SelectPlaces
  <2>2. PICK cols \in SelectLists, n \in Names : w = Append(SelectFrom(cols), Name(n))
    BY <2>1 DEF SelectShape
  <2>3. Stmt("SELECT", n, cols, <<>>) \in Sentences
    BY SentencesMade
  <2>4. Spelling(Stmt("SELECT", n, cols, <<>>)) = Append(SelectFrom(cols), Name(n))
    BY SpellingsAre
  <2>5. Possible(Spelling(Stmt("SELECT", n, cols, <<>>)))
    BY <2>3, WholeIsPossible
  <2> QED BY <2>2, <2>4, <2>5
<1>2. ASSUME NEW s, NEW w, Shape("insertEnd", s, w) PROVE Possible(w)
  <2>1. InsertShape("insertEnd", s, w)
    BY <1>2, ShapesApart DEF InsertPlaces
  <2>2. PICK n \in Names, cols \in Lists(NameColumns, 0), vals \in Lists(Literals, 1) :
           w = InsertValues(n, cols) \o InParens(Joined(ValueItems(vals)))
    BY <2>1 DEF InsertShape
  <2>3. Stmt("INSERT", n, cols, vals) \in Sentences
    BY SentencesMade
  <2>4. Spelling(Stmt("INSERT", n, cols, vals))
            = InsertValues(n, cols) \o InParens(Joined(ValueItems(vals)))
    BY SpellingsAre
  <2>5. Possible(Spelling(Stmt("INSERT", n, cols, vals)))
    BY <2>3, WholeIsPossible
  <2> QED BY <2>2, <2>4, <2>5
<1>3. ASSUME NEW s, NEW w, Shape("createEnd", s, w) PROVE Possible(w)
  <2>1. CreateShape("createEnd", s, w)
    BY <1>3, ShapesApart DEF CreatePlaces
  <2>2. PICK n \in Names, cols \in Lists(WrittenColumns, 1) :
           w = CreateHead(n) \o InParens(Joined(DefItems(cols)))
    BY <2>1 DEF CreateShape
  <2>3. Stmt("CREATE", n, cols, <<>>) \in Sentences
    BY SentencesMade
  <2>4. Spelling(Stmt("CREATE", n, cols, <<>>))
            = CreateHead(n) \o InParens(Joined(DefItems(cols)))
    BY SpellingsAre
  <2>5. Possible(Spelling(Stmt("CREATE", n, cols, <<>>)))
    BY <2>3, WholeIsPossible
  <2> QED BY <2>2, <2>4, <2>5
<1>4. ASSUME NEW s, NEW w, Shape("controlEnd", s, w) PROVE Possible(w)
  <2>1. ControlShape("controlEnd", s, w)
    BY <1>4, ShapesApart DEF ControlPlaces
  <2>2. w = <<Word("BEGIN"), Word("TRANSACTION")>> \/ w = <<Word("COMMIT")>>
    BY <2>1 DEF ControlShape
  <2>3. \E k \in {"BEGIN", "COMMIT"} : w = Spelling(Stmt(k, "none", <<>>, <<>>))
    BY <2>2, SpellingsAre
  <2> QED BY <2>3, SentencesMade, WholeIsPossible
<1> QED BY <1>1, <1>2, <1>3, <1>4 DEF CanEnd

LEMMA EveryPlaceCanEnd == \A place \in Places \ Outcomes : CanEnd(place)
<1>1. PICK n \in Names, m \in Numbers : TRUE
  BY CompilerAssumption
<1>2. /\ Name(n) \in Tokens /\ Name(n).type = "name"
      /\ Number(m) \in Tokens /\ Number(m).type = "number"
      /\ \A k \in Words : Word(k) \in Tokens /\ Word(k).type = k
  BY TokenKinds
<1>3. ASSUME NEW place, NEW next, NEW k \in (Words \ {"COMMA"}) \cup {"name", "number"},
             <<place, k, next>> \in Moves, CanEnd(next)
      PROVE  CanEnd(place)
  <2>1. PICK t \in Tokens : t.type = k
    BY <1>2
  <2>2. k # "COMMA"
    BY DEF Words
  <2>3. <<place, t.type, next>> \in Moves /\ t.type # "COMMA"
    BY <1>3, <2>1, <2>2
  <2> QED BY <1>3, <2>3, GoesThrough
<1>4. {"SELECT", "FROM", "INSERT", "INTO", "VALUES", "CREATE", "TABLE", "BEGIN", "TRANSACTION",
       "COMMIT", "INT", "OPEN_PAREN", "CLOSE_PAREN", "name", "number"}
         \subseteq (Words \ {"COMMA"}) \cup {"name", "number"}
  BY DEF Words
<1>5. \A place \in SelectPlaces : CanEnd(place)
  <2>1. /\ <<"selectTable", "name", "selectEnd">> \in Moves
        /\ <<"selectFrom", "FROM", "selectTable">> \in Moves
        /\ <<"selectNext", "FROM", "selectTable">> \in Moves
        /\ <<"selectColumn", "name", "selectNext">> \in Moves
        /\ <<"selectList", "name", "selectNext">> \in Moves
    BY DEF Moves, SelectMoves
  <2>2. CanEnd("selectTable")
    BY <1>3, <1>4, <2>1, EndsCanEnd
  <2>3. CanEnd("selectFrom") /\ CanEnd("selectNext")
    BY <1>3, <1>4, <2>1, <2>2
  <2>4. CanEnd("selectColumn") /\ CanEnd("selectList")
    BY <1>3, <1>4, <2>1, <2>3
  <2> QED BY <2>2, <2>3, <2>4, EndsCanEnd DEF SelectPlaces
<1>6. \A place \in InsertPlaces : CanEnd(place)
  <2>1. /\ <<"valueNext", "CLOSE_PAREN", "insertEnd">> \in Moves
        /\ <<"value", "number", "valueNext">> \in Moves
        /\ <<"insertOpen", "OPEN_PAREN", "value">> \in Moves
        /\ <<"insertValues", "VALUES", "insertOpen">> \in Moves
        /\ <<"insertShape", "VALUES", "insertOpen">> \in Moves
        /\ <<"insertNext", "CLOSE_PAREN", "insertValues">> \in Moves
        /\ <<"insertColumn", "name", "insertNext">> \in Moves
        /\ <<"insertTable", "name", "insertShape">> \in Moves
        /\ <<"insertInto", "INTO", "insertTable">> \in Moves
    BY DEF Moves, InsertMoves
  <2>2. CanEnd("valueNext")
    BY <1>3, <1>4, <2>1, EndsCanEnd
  <2>3. CanEnd("value")
    BY <1>3, <1>4, <2>1, <2>2
  <2>4. CanEnd("insertOpen")
    BY <1>3, <1>4, <2>1, <2>3
  <2>5. CanEnd("insertValues") /\ CanEnd("insertShape")
    BY <1>3, <1>4, <2>1, <2>4
  <2>6. CanEnd("insertNext") /\ CanEnd("insertTable")
    BY <1>3, <1>4, <2>1, <2>5
  <2>7. CanEnd("insertColumn") /\ CanEnd("insertInto")
    BY <1>3, <1>4, <2>1, <2>6
  <2> QED BY <2>2, <2>3, <2>4, <2>5, <2>6, <2>7, EndsCanEnd DEF InsertPlaces
<1>7. \A place \in CreatePlaces : CanEnd(place)
  <2>1. /\ <<"createNext", "CLOSE_PAREN", "createEnd">> \in Moves
        /\ <<"varcharNext", "CLOSE_PAREN", "createEnd">> \in Moves
        /\ <<"lengthEnd", "CLOSE_PAREN", "createNext">> \in Moves
        /\ <<"length", "number", "lengthEnd">> \in Moves
        /\ <<"columnType", "INT", "createNext">> \in Moves
        /\ <<"createColumn", "name", "columnType">> \in Moves
        /\ <<"createOpen", "OPEN_PAREN", "createColumn">> \in Moves
        /\ <<"createTable", "name", "createOpen">> \in Moves
        /\ <<"createWord", "TABLE", "createTable">> \in Moves
    BY DEF Moves, CreateMoves
  <2>2. CanEnd("createNext") /\ CanEnd("varcharNext")
    BY <1>3, <1>4, <2>1, EndsCanEnd
  <2>3. CanEnd("lengthEnd") /\ CanEnd("columnType")
    BY <1>3, <1>4, <2>1, <2>2
  <2>4. CanEnd("length") /\ CanEnd("createColumn")
    BY <1>3, <1>4, <2>1, <2>3
  <2>5. CanEnd("createOpen")
    BY <1>3, <1>4, <2>1, <2>4
  <2>6. CanEnd("createTable")
    BY <1>3, <1>4, <2>1, <2>5
  <2>7. CanEnd("createWord")
    BY <1>3, <1>4, <2>1, <2>6
  <2> QED BY <2>2, <2>3, <2>4, <2>5, <2>6, <2>7, EndsCanEnd DEF CreatePlaces
<1>8. CanEnd("statement") /\ \A place \in ControlPlaces : CanEnd(place)
  <2>1. /\ <<"beginWord", "TRANSACTION", "controlEnd">> \in Moves
        /\ <<"statement", "COMMIT", "controlEnd">> \in Moves
    BY DEF Moves, ControlMoves
  <2>2. CanEnd("beginWord") /\ CanEnd("statement")
    BY <1>3, <1>4, <2>1, EndsCanEnd
  <2> QED BY <2>2, EndsCanEnd DEF ControlPlaces
<1> QED BY <1>5, <1>6, <1>7, <1>8, PlacesAre

----------------------------------------------------------------------------
(* The places a stream takes the parser through. *)

\* f goes through the places before, between and after the tokens of w.
Run(w, f) ==
    /\ f \in Seq(Places) /\ Len(f) = Len(w) + 1 /\ f[1] = "statement"
    /\ \A i \in 1 .. Len(w) : f[i + 1] \in Goes(f[i], w[i])

Reaches(w, place) == \E f : Run(w, f) /\ f[Len(w) + 1] = place

LEMMA NothingRead == Reaches(<<>>, "statement")
<1> DEFINE f == <<"statement">>
<1>1. f \in Seq(Places) /\ Len(f) = 1 /\ f[1] = "statement" /\ Len(<<>>) = 0
  BY PlacesAre
<1>2. Run(<<>>, f)
  BY <1>1 DEF Run
<1> QED BY <1>1, <1>2 DEF Reaches

LEMMA ReachesOn ==
    ASSUME NEW w \in Streams, NEW t \in Tokens, NEW place, Reaches(w, place), NEW next \in Goes(place, t)
    PROVE  Reaches(Append(w, t), next)
<1>1. PICK f : Run(w, f) /\ f[Len(w) + 1] = place
  BY DEF Reaches
<1> DEFINE v == Append(w, t)
           g == Append(f, next)
           n == Len(w)
<1>2. n \in Nat /\ Len(v) = n + 1 /\ v[n + 1] = t /\ \A i \in 1 .. n : v[i] = w[i]
  BY AppendProperties, LenProperties DEF Streams
<1>3. f \in Seq(Places) /\ Len(f) = n + 1 /\ f[1] = "statement" /\ next \in Places
  BY <1>1, PlacesAre DEF Run
<1>4. /\ g \in Seq(Places) /\ Len(g) = n + 2 /\ g[n + 2] = next
      /\ \A i \in 1 .. n + 1 : g[i] = f[i]
  BY <1>2, <1>3, AppendProperties
<1>5. \A i \in 1 .. n : f[i + 1] \in Goes(f[i], w[i])
  BY <1>1 DEF Run
<1> HIDE DEF v, g, n
<1>6. ASSUME NEW i \in 1 .. n + 1 PROVE g[i + 1] \in Goes(g[i], v[i])
  <2>1. CASE i = n + 1
    <3>1. g[i + 1] = next /\ v[i] = t /\ g[i] = f[n + 1] /\ f[n + 1] = place
      BY <1>1, <1>2, <1>4, <2>1 DEF n
    <3> QED BY <3>1
  <2>2. CASE i # n + 1
    <3>1. i \in 1 .. n /\ i + 1 \in 1 .. n + 1
      BY <1>2, <2>2
    <3>2. g[i + 1] = f[i + 1] /\ g[i] = f[i] /\ v[i] = w[i]
      BY <1>2, <1>4, <3>1
    <3> QED BY <1>5, <3>1, <3>2
  <2> QED BY <2>1, <2>2
<1>7. g[1] = "statement"
  BY <1>2, <1>3, <1>4
<1>8. Run(v, g) /\ g[Len(v) + 1] = next
  BY <1>2, <1>4, <1>6, <1>7 DEF Run
<1> QED BY <1>8 DEF Reaches, v

\* One token ahead is enough: it leads to one place at most.
LEMMA GoesOneWay ==
    ASSUME NEW place, NEW t, NEW next \in Goes(place, t), NEW other \in Goes(place, t)
    PROVE  next = other
<1>1. place \in {"statement"} \cup SelectPlaces \cup InsertPlaces \cup CreatePlaces \cup ControlPlaces
  BY PlaceOfMove
<1>2. CASE place = "statement"
  <2>1. next \in Goes("statement", t) /\ other \in Goes("statement", t)
    BY <1>2
  <2>2. \/ t.type = "SELECT" /\ next = "selectList"
        \/ t.type = "INSERT" /\ next = "insertInto"
        \/ t.type = "CREATE" /\ next = "createWord"
        \/ t.type = "BEGIN" /\ next = "beginWord"
        \/ t.type = "COMMIT" /\ next = "controlEnd"
    BY <2>1, StatementGoes
  <2>3. \/ t.type = "SELECT" /\ other = "selectList"
        \/ t.type = "INSERT" /\ other = "insertInto"
        \/ t.type = "CREATE" /\ other = "createWord"
        \/ t.type = "BEGIN" /\ other = "beginWord"
        \/ t.type = "COMMIT" /\ other = "controlEnd"
    BY <2>1, StatementGoes
  <2> QED BY <2>2, <2>3
<1>3. CASE place \in SelectPlaces
  <2>1. PICK p \in SelectPlaces : p = place
    BY <1>3
  <2>2. next \in Goes(p, t) /\ other \in Goes(p, t)
    BY <2>1
  <2> QED BY <2>2, SelectGoes DEF SelectPlaces
<1>4. CASE place \in InsertPlaces
  <2>1. PICK p \in InsertPlaces : p = place
    BY <1>4
  <2>2. next \in Goes(p, t) /\ other \in Goes(p, t)
    BY <2>1
  <2> QED BY <2>2, InsertGoes DEF InsertPlaces
<1>5. CASE place \in CreatePlaces
  <2>1. PICK p \in CreatePlaces : p = place
    BY <1>5
  <2>2. next \in Goes(p, t) /\ other \in Goes(p, t)
    BY <2>1
  <2> QED BY <2>2, CreateGoes DEF CreatePlaces
<1>6. CASE place \in ControlPlaces
  <2>1. PICK p \in ControlPlaces : p = place
    BY <1>6
  <2>2. next \in Goes(p, t) /\ other \in Goes(p, t)
    BY <2>1
  <2> QED BY <2>2, ControlGoes DEF ControlPlaces
<1> QED BY <1>1, <1>2, <1>3, <1>4, <1>5, <1>6

LEMMA RunsAgree ==
    ASSUME NEW w, NEW v, NEW f, NEW g, Run(w, f), Run(v, g), Begins(w, v),
           Len(w) \in Nat, Len(v) \in Nat
    PROVE  \A i \in 0 .. Len(w) : f[i + 1] = g[i + 1]
<1> DEFINE S == {i \in 0 .. Len(w) : f[i + 1] = g[i + 1]}
<1>1. 0 \in S
  BY DEF Run
<1>2. ASSUME NEW i \in 0 .. Len(w) - 1, i \in S PROVE i + 1 \in S
  <2>1. i + 1 \in 1 .. Len(w) /\ i + 1 \in 1 .. Len(v) /\ i + 1 \in 0 .. Len(w)
    BY DEF Begins
  <2>2. /\ f[(i + 1) + 1] \in Goes(f[i + 1], w[i + 1])
        /\ g[(i + 1) + 1] \in Goes(g[i + 1], v[i + 1])
    BY <2>1 DEF Run
  <2>3. f[i + 1] = g[i + 1] /\ w[i + 1] = v[i + 1]
    BY <1>2, <2>1 DEF Begins
  <2>4. f[(i + 1) + 1] = g[(i + 1) + 1]
    BY <2>2, <2>3, GoesOneWay
  <2> QED BY <2>1, <2>4
<1>3. 0 .. Len(w) \subseteq S
  <2> HIDE DEF S
  <2> QED BY <1>1, <1>2, InductionUpTo
<1> QED BY <1>3

----------------------------------------------------------------------------
(* The lists and the spellings take the parser to their ends. *)

ReachesOneOf(w, S) == \E place \in S : Reaches(w, place)

\* A list of items that each lead from here to there, by way of commas.
LEMMA ListReached ==
    ASSUME NEW Here, NEW There, NEW open \in Streams, ReachesOneOf(open, Here),
           NEW items \in Seq(Streams), items # <<>>,
           \A i \in DOMAIN items : \A w \in Streams :
              ReachesOneOf(w, Here) => ReachesOneOf(w \o items[i], There),
           \A place \in There : \E next \in Here : next \in Goes(place, Comma)
    PROVE  ReachesOneOf(open \o Joined(items), There)
<1> DEFINE First(k) == [i \in 1 .. k |-> items[i]]
           S == {k \in 0 .. Len(items) : k > 0 => ReachesOneOf(open \o Joined(First(k)), There)}
<1>1. /\ Len(items) \in Nat /\ Len(items) > 0 /\ DOMAIN items = 1 .. Len(items)
      /\ \A i \in 1 .. Len(items) : items[i] \in Streams
      /\ items \in [1 .. Len(items) -> Streams]
  BY LenProperties, ElementOfSeq, EmptySeq
<1>2. ASSUME NEW k \in 0 .. Len(items)
      PROVE  /\ First(k) \in Seq(Streams) /\ Len(First(k)) = k
             /\ \A i \in 1 .. k : First(k)[i] = items[i]
  <2>1. k \in Nat /\ \A i \in 1 .. k : items[i] \in Streams
    BY <1>1
  <2>2. First(k) \in Seq(Streams) /\ DOMAIN First(k) = 1 .. k
    BY <2>1, IsASeq
  <2> QED BY <2>1, <2>2, LenProperties
<1>3. ASSUME NEW k \in 0 .. Len(items) - 1 PROVE First(k + 1) = Append(First(k), items[k + 1])
  <2> DEFINE a == First(k)
             b == First(k + 1)
             x == items[k + 1]
  <2>1. /\ k \in Nat /\ x \in Streams
        /\ a \in Seq(Streams) /\ Len(a) = k /\ \A i \in 1 .. k : a[i] = items[i]
        /\ b \in Seq(Streams) /\ Len(b) = k + 1 /\ \A i \in 1 .. k + 1 : b[i] = items[i]
    <3>1. k \in 0 .. Len(items) /\ k + 1 \in 0 .. Len(items) /\ k + 1 \in 1 .. Len(items)
      BY <1>1
    <3> HIDE DEF First
    <3> QED BY <1>1, <1>2, <3>1
  <2> HIDE DEF a, b
  <2>2. /\ Append(a, x) \in Seq(Streams) /\ Len(Append(a, x)) = k + 1
        /\ Append(a, x)[k + 1] = x /\ \A i \in 1 .. k : Append(a, x)[i] = a[i]
    BY <2>1, AppendProperties
  <2>3. \A i \in 1 .. k + 1 : b[i] = Append(a, x)[i]
    <3>1. \A i \in 1 .. k + 1 : i = k + 1 \/ i \in 1 .. k
      BY <2>1
    <3> QED BY <2>1, <2>2, <3>1
  <2>4. b = Append(a, x)
    BY <2>1, <2>2, <2>3, SeqEqual
  <2> QED BY <2>4 DEF a, b
<1> HIDE DEF First
<1>4. ASSUME NEW k \in 0 .. Len(items) - 1, k \in S PROVE k + 1 \in S
  <2>1. /\ k \in 0 .. Len(items) /\ k + 1 \in 0 .. Len(items) /\ k + 1 \in 1 .. Len(items)
        /\ k \in Nat
    BY <1>1
  <2>2. First(k) \in Seq(Streams) /\ Len(First(k)) = k /\ items[k + 1] \in Streams
    BY <1>1, <1>2, <2>1
  <2>3. /\ Before(open, First(k)) \in Streams
        /\ Before(open, First(k)) \o items[k + 1] = open \o Joined(Append(First(k), items[k + 1]))
    BY <2>2, ItemRead
  <2>4. ReachesOneOf(Before(open, First(k)), Here)
    <3>1. CASE First(k) = <<>>
      BY <3>1 DEF Before
    <3>2. CASE First(k) # <<>>
      <4>1. k > 0
        BY <2>1, <2>2, <3>2, EmptySeq
      <4>2. PICK place \in There : Reaches(open \o Joined(First(k)), place)
        BY <1>4, <4>1 DEF ReachesOneOf
      <4>3. PICK next \in Here : next \in Goes(place, Comma)
        OBVIOUS
      <4>4. open \o Joined(First(k)) \in Streams
        BY <2>2, CommasAreStreams, JoinStreams
      <4>5. Reaches(Append(open \o Joined(First(k)), Comma), next)
        BY <4>2, <4>3, <4>4, CommaIsToken, ReachesOn
      <4> QED BY <3>2, <4>5 DEF Before, ReachesOneOf
    <3> QED BY <3>1, <3>2
  <2>5. ReachesOneOf(Before(open, First(k)) \o items[k + 1], There)
    BY <1>1, <2>1, <2>3, <2>4
  <2>6. First(k + 1) = Append(First(k), items[k + 1])
    BY <1>3
  <2> QED BY <2>1, <2>3, <2>5, <2>6
<1>5. 0 .. Len(items) \subseteq S
  <2>1. 0 \in S
    BY <1>1
  <2> HIDE DEF S
  <2> QED BY <1>1, <1>4, <2>1, InductionUpTo
<1>6. ReachesOneOf(open \o Joined(First(Len(items))), There)
  BY <1>1, <1>5
<1>7. First(Len(items)) = items
  BY <1>1 DEF First
<1> QED BY <1>6, <1>7

\* One more token from a place that is reached.
LEMMA NextReached ==
    ASSUME NEW w \in Streams, NEW t \in Tokens, NEW place, Reaches(w, place),
           NEW next, <<place, t.type, next>> \in Moves
    PROVE  Reaches(Append(w, t), next) /\ Append(w, t) \in Streams
<1>1. next \in Goes(place, t)
  BY MoveMade
<1> QED BY <1>1, ReachesOn, OneToken

LEMMA TokenTypes ==
    /\ \A k \in Words : Word(k) \in Tokens /\ Word(k).type = k
    /\ \A n \in Names : Name(n) \in Tokens /\ Name(n).type = "name"
    /\ \A l \in Numbers : Number(l) \in Tokens /\ Number(l).type = "number"
    /\ \A v \in Literals : v \in Tokens /\ v.type \in {"number", "text"}
<1>1. \A k \in Words : Word(k) \in Tokens /\ Word(k).type = k
  BY TokenKinds
<1>2. \A n \in Names : Name(n) \in Tokens /\ Name(n).type = "name"
  BY TokenKinds
<1>3. \A l \in Numbers : Number(l) \in Tokens /\ Number(l).type = "number"
  BY TokenKinds DEF Number
<1>4. \A v \in Literals : v \in Tokens /\ v.type \in {"number", "text"}
  BY TokenKinds DEF Literals
<1> QED BY <1>1, <1>2, <1>3, <1>4

\* The names of a list, in SELECT and in INSERT.
LEMMA NamesReached ==
    ASSUME NEW Here, NEW end, NEW open \in Streams, ReachesOneOf(open, Here),
           NEW cols \in Lists(NameColumns, 1),
           \A place \in Here : <<place, "name", end>> \in Moves,
           \E next \in Here : <<end, "COMMA", next>> \in Moves
    PROVE  Reaches(open \o Joined(NameItems(cols)), end)
<1> DEFINE items == NameItems(cols)
<1>1. items \in Seq(Streams) /\ items # <<>> /\ cols \in Seq(NameColumns)
  <2>1. cols \in Seq(NameColumns) /\ cols # <<>>
    BY ListsAre, NamesListed
  <2> QED BY <2>1, NamesListed, EmptySeq
<1>2. ASSUME NEW i \in DOMAIN items, NEW w \in Streams, ReachesOneOf(w, Here)
      PROVE  ReachesOneOf(w \o items[i], {end})
  <2>1. i \in DOMAIN cols
    BY DEF NameItems
  <2>2. cols[i] \in NameColumns
    BY <1>1, <2>1, ElementOfSeq, LenProperties
  <2>3. PICK n \in Names : cols[i] = Plain(n)
    BY <2>2 DEF NameColumns, PlainColumns, Plain
  <2>4. items[i] = NameItem(cols[i])
    BY <2>1 DEF NameItems, NameItem
  <2>5. items[i] = <<Name(n)>>
    BY <2>3, <2>4, NameItemIs
  <2>6. PICK place \in Here : Reaches(w, place)
    BY <1>2 DEF ReachesOneOf
  <2>7. Name(n) \in Tokens /\ Name(n).type = "name"
    BY TokenTypes
  <2>8. Reaches(Append(w, Name(n)), end)
    BY <2>6, <2>7, NextReached
  <2>9. w \o items[i] = Append(w, Name(n))
    BY <2>5, <2>7, OneToken
  <2> QED BY <2>8, <2>9 DEF ReachesOneOf
<1>3. \E next \in Here : next \in Goes(end, Comma)
  <2>1. Comma.type = "COMMA"
    BY DEF Comma, Word
  <2> QED BY <2>1, MoveMade
<1> HIDE DEF items
<1>4. ReachesOneOf(open \o Joined(items), {end})
  BY <1>1, <1>2, <1>3, ListReached
<1> QED BY <1>4 DEF ReachesOneOf, items

LEMMA SelectReached ==
    ASSUME NEW n \in Names, NEW cols \in SelectLists
    PROVE  Reaches(Append(SelectFrom(cols), Name(n)), "selectEnd")
<1>1. /\ <<"statement", "SELECT", "selectList">> \in Moves
      /\ <<"selectList", "OP_STAR", "selectFrom">> \in Moves
      /\ <<"selectList", "name", "selectNext">> \in Moves
      /\ <<"selectColumn", "name", "selectNext">> \in Moves
      /\ <<"selectNext", "COMMA", "selectColumn">> \in Moves
      /\ <<"selectNext", "FROM", "selectTable">> \in Moves
      /\ <<"selectFrom", "FROM", "selectTable">> \in Moves
      /\ <<"selectTable", "name", "selectEnd">> \in Moves
  BY DEF Moves, SelectMoves
<1>2. /\ Word("SELECT") \in Tokens /\ Word("SELECT").type = "SELECT"
      /\ Word("FROM") \in Tokens /\ Word("FROM").type = "FROM"
      /\ Word("OP_STAR") \in Tokens /\ Word("OP_STAR").type = "OP_STAR"
      /\ Name(n) \in Tokens /\ Name(n).type = "name"
  BY TokenTypes DEF Words
<1> DEFINE list == SelectOpen \o Joined(NameItems(cols))
<1>3. Reaches(SelectOpen, "selectList") /\ SelectOpen \in Streams
  <2>1. <<>> \in Streams /\ SelectOpen = Append(<<>>, Word("SELECT"))
    BY EmptySeq DEF SelectOpen, Streams
  <2> QED BY <1>1, <1>2, <2>1, NothingRead, NextReached
<1>4. list \in Streams
  BY <1>3, ListsAreStreams, JoinStreams
<1>5. Reaches(list, "selectNext") \/ Reaches(list, "selectFrom")
  <2>1. CASE cols \in Lists(NameColumns, 1)
    <3> DEFINE Here == {"selectList", "selectColumn"}
    <3>1. ReachesOneOf(SelectOpen, Here)
      BY <1>3 DEF ReachesOneOf
    <3>2. /\ \A place \in Here : <<place, "name", "selectNext">> \in Moves
          /\ \E next \in Here : <<"selectNext", "COMMA", next>> \in Moves
      BY <1>1
    <3> HIDE DEF Here
    <3> QED BY <1>3, <2>1, <3>1, <3>2, NamesReached
  <2>2. CASE cols = <<Plain("OP_STAR")>>
    <3>1. list = Append(SelectOpen, Word("OP_STAR"))
      <4>1. Word("OP_STAR") \in Tokens /\ Word("OP_STAR").type = "OP_STAR"
        BY TokenKinds DEF Words
      <4> QED BY <2>2, <4>1, StarRead
    <3>2. Reaches(Append(SelectOpen, Word("OP_STAR")), "selectFrom")
      BY <1>1, <1>2, <1>3, NextReached
    <3> QED BY <3>1, <3>2
  <2> QED BY <2>1, <2>2 DEF SelectLists
<1> HIDE DEF list
<1>6. Reaches(Append(list, Word("FROM")), "selectTable") /\ Append(list, Word("FROM")) \in Streams
  BY <1>1, <1>2, <1>4, <1>5, NextReached
<1>7. Reaches(Append(Append(list, Word("FROM")), Name(n)), "selectEnd")
  BY <1>1, <1>2, <1>6, NextReached
<1> QED BY <1>7 DEF list, SelectFrom

LEMMA InsertToReached ==
    ASSUME NEW n \in Names, NEW cols \in Lists(NameColumns, 0)
    PROVE  Reaches(Opened(InsertValues(n, cols)), "value")
<1>1. /\ <<"statement", "INSERT", "insertInto">> \in Moves
      /\ <<"insertInto", "INTO", "insertTable">> \in Moves
      /\ <<"insertTable", "name", "insertShape">> \in Moves
      /\ <<"insertShape", "OPEN_PAREN", "insertColumn">> \in Moves
      /\ <<"insertColumn", "name", "insertNext">> \in Moves
      /\ <<"insertNext", "COMMA", "insertColumn">> \in Moves
      /\ <<"insertNext", "CLOSE_PAREN", "insertValues">> \in Moves
      /\ <<"insertShape", "VALUES", "insertOpen">> \in Moves
      /\ <<"insertValues", "VALUES", "insertOpen">> \in Moves
      /\ <<"insertOpen", "OPEN_PAREN", "value">> \in Moves
  BY DEF Moves, InsertMoves
<1>2. /\ Word("INSERT") \in Tokens /\ Word("INSERT").type = "INSERT"
      /\ Word("INTO") \in Tokens /\ Word("INTO").type = "INTO"
      /\ Word("VALUES") \in Tokens /\ Word("VALUES").type = "VALUES"
      /\ Word("OPEN_PAREN") \in Tokens /\ Word("OPEN_PAREN").type = "OPEN_PAREN"
      /\ Word("CLOSE_PAREN") \in Tokens /\ Word("CLOSE_PAREN").type = "CLOSE_PAREN"
      /\ Name(n) \in Tokens /\ Name(n).type = "name"
  BY TokenTypes DEF Words
<1>3. Reaches(InsertHead(n), "insertShape") /\ InsertHead(n) \in Streams
  <2> DEFINE one == Append(<<>>, Word("INSERT"))
             two == Append(one, Word("INTO"))
  <2>1. <<>> \in Streams
    BY EmptySeq DEF Streams
  <2>2. Reaches(one, "insertInto") /\ one \in Streams
    BY <1>1, <1>2, <2>1, NothingRead, NextReached
  <2>3. Reaches(two, "insertTable") /\ two \in Streams
    <3> HIDE DEF one
    <3> QED BY <1>1, <1>2, <2>2, NextReached
  <2>4. Reaches(Append(two, Name(n)), "insertShape")
    <3> HIDE DEF two
    <3> QED BY <1>1, <1>2, <2>3, NextReached
  <2>5. two = <<Word("INSERT"), Word("INTO")>>
    <3>1. one = <<Word("INSERT")>>
      OBVIOUS
    <3> QED BY <1>2, <3>1, TuplesGrow
  <2> QED BY <2>4, <2>5, HeadsAre
<1>4. Reaches(InsertTo(n, cols), "insertShape") \/ Reaches(InsertTo(n, cols), "insertValues")
  <2>1. CASE cols = <<>>
    BY <1>3, <2>1 DEF InsertTo
  <2>2. CASE cols # <<>>
    <3> DEFINE Here == {"insertColumn"}
               open == Opened(InsertHead(n))
               list == open \o Joined(NameItems(cols))
    <3>1. Reaches(open, "insertColumn") /\ open \in Streams
      BY <1>1, <1>2, <1>3, NextReached DEF Opened
    <3>2. cols \in Lists(NameColumns, 1)
      BY <2>2, ListGrows
    <3>3. ReachesOneOf(open, Here)
      BY <3>1 DEF ReachesOneOf
    <3>4. /\ \A place \in Here : <<place, "name", "insertNext">> \in Moves
          /\ \E next \in Here : <<"insertNext", "COMMA", next>> \in Moves
      BY <1>1
    <3> HIDE DEF Here, open
    <3>5. Reaches(list, "insertNext")
      BY <3>1, <3>2, <3>3, <3>4, NamesReached
    <3>6. Joined(NameItems(cols)) \in Streams
      BY ListsAreStreams
    <3>7. list \in Streams
      BY <3>1, <3>6, JoinStreams
    <3>8. Append(list, Word("CLOSE_PAREN")) = InsertTo(n, cols)
      BY <1>3, <2>2, <3>6, ListClosed DEF InsertTo, open
    <3> HIDE DEF list
    <3>9. Reaches(Append(list, Word("CLOSE_PAREN")), "insertValues")
      BY <1>1, <1>2, <3>5, <3>7, NextReached
    <3> QED BY <3>8, <3>9
  <2> QED BY <2>1, <2>2
<1>5. Reaches(InsertValues(n, cols), "insertOpen") /\ InsertValues(n, cols) \in Streams
  BY <1>1, <1>2, <1>4, HeadsAreStreams, NextReached DEF InsertValues
<1> QED BY <1>1, <1>2, <1>5, NextReached DEF Opened

LEMMA InsertReached ==
    ASSUME NEW n \in Names, NEW cols \in Lists(NameColumns, 0), NEW vals \in Lists(Literals, 1)
    PROVE  Reaches(InsertValues(n, cols) \o InParens(Joined(ValueItems(vals))), "insertEnd")
<1> DEFINE items == ValueItems(vals)
           Here  == {"value"}
           There == {"valueNext"}
           head  == InsertValues(n, cols)
           open  == Opened(head)
           list  == open \o Joined(items)
<1>1. /\ <<"value", "number", "valueNext">> \in Moves /\ <<"value", "text", "valueNext">> \in Moves
      /\ <<"valueNext", "COMMA", "value">> \in Moves
      /\ <<"valueNext", "CLOSE_PAREN", "insertEnd">> \in Moves
  BY DEF Moves, InsertMoves
<1>2. Word("CLOSE_PAREN") \in Tokens /\ Word("CLOSE_PAREN").type = "CLOSE_PAREN"
      /\ Comma.type = "COMMA"
  BY TokenTypes DEF Words, Comma, Word
<1>3. /\ items \in Seq(Streams) /\ items # <<>> /\ vals \in Seq(Literals)
      /\ head \in Streams /\ open \in Streams /\ Joined(items) \in Streams
  BY ValuesListed, ListsAreStreams, HeadsAreStreams, EmptySeq
<1>4. ReachesOneOf(open, Here)
  BY InsertToReached DEF ReachesOneOf
<1>5. ASSUME NEW i \in DOMAIN items, NEW w \in Streams, ReachesOneOf(w, Here)
      PROVE  ReachesOneOf(w \o items[i], There)
  <2>1. i \in DOMAIN vals /\ items[i] = <<vals[i]>>
    BY DEF ValueItems
  <2>2. vals[i] \in Literals
    BY <1>3, <2>1, ElementOfSeq, LenProperties
  <2>3. vals[i] \in Tokens /\ vals[i].type \in {"number", "text"}
    BY <2>2, TokenTypes
  <2>4. Reaches(w, "value")
    BY <1>5 DEF ReachesOneOf
  <2>5. Reaches(Append(w, vals[i]), "valueNext")
    <3>1. <<"value", vals[i].type, "valueNext">> \in Moves
      BY <1>1, <2>3
    <3> QED BY <2>3, <2>4, <3>1, NextReached
  <2>6. w \o items[i] = Append(w, vals[i])
    BY <2>1, <2>3, OneToken
  <2> QED BY <2>5, <2>6 DEF ReachesOneOf
<1>6. \A place \in There : \E next \in Here : next \in Goes(place, Comma)
  BY <1>1, <1>2, MoveMade
<1>7. ReachesOneOf(list, There)
  <2> HIDE DEF items, Here, There, open
  <2> QED BY <1>3, <1>4, <1>5, <1>6, ListReached
<1>8. list \in Streams /\ Append(list, Word("CLOSE_PAREN")) = head \o InParens(Joined(items))
  <2> HIDE DEF items, head
  <2> QED BY <1>3, JoinStreams, ListClosed
<1>9. Reaches(list, "valueNext")
  BY <1>7 DEF ReachesOneOf
<1> HIDE DEF list
<1>10. Reaches(Append(list, Word("CLOSE_PAREN")), "insertEnd")
  BY <1>1, <1>2, <1>8, <1>9, NextReached
<1> QED BY <1>8, <1>10

\* A column definition, of two tokens or of five.
LEMMA DefinitionReached ==
    ASSUME NEW w \in Streams, Reaches(w, "createColumn"), NEW c \in WrittenColumns
    PROVE  ReachesOneOf(w \o Definition(c), {"createNext", "varcharNext"})
<1>1. /\ <<"createColumn", "name", "columnType">> \in Moves
      /\ <<"columnType", "INT", "createNext">> \in Moves
      /\ <<"columnType", "VARCHAR", "varcharNext">> \in Moves
      /\ <<"varcharNext", "OPEN_PAREN", "length">> \in Moves
      /\ <<"length", "number", "lengthEnd">> \in Moves
      /\ <<"lengthEnd", "CLOSE_PAREN", "createNext">> \in Moves
  BY DEF Moves, CreateMoves
<1>2. /\ Word("INT") \in Tokens /\ Word("INT").type = "INT"
      /\ Word("VARCHAR") \in Tokens /\ Word("VARCHAR").type = "VARCHAR"
      /\ Word("OPEN_PAREN") \in Tokens /\ Word("OPEN_PAREN").type = "OPEN_PAREN"
      /\ Word("CLOSE_PAREN") \in Tokens /\ Word("CLOSE_PAREN").type = "CLOSE_PAREN"
  BY TokenTypes DEF Words
<1>3. PICK n \in Names : \/ c = IntColumn(n) \/ c = VarcharColumn(n, "none")
                         \/ \E l \in Numbers : c = VarcharColumn(n, l)
  BY TypedColumnIs
<1>4. Name(n) \in Tokens /\ Name(n).type = "name"
  BY TokenTypes
<1> DEFINE name == Append(w, Name(n))
<1>5. Reaches(name, "columnType") /\ name \in Streams
  BY <1>1, <1>4, NextReached
<1>6. /\ w \o <<Name(n), Word("INT")>> = Append(name, Word("INT"))
      /\ w \o <<Name(n), Word("VARCHAR")>> = Append(name, Word("VARCHAR"))
  BY <1>2, <1>4, TailGrows
<1> HIDE DEF name
<1>7. Reaches(w \o <<Name(n), Word("INT")>>, "createNext")
  BY <1>1, <1>2, <1>5, <1>6, NextReached
<1> DEFINE type == w \o <<Name(n), Word("VARCHAR")>>
<1>8. Reaches(type, "varcharNext") /\ type \in Streams
  BY <1>1, <1>2, <1>5, <1>6, NextReached
<1>9. ASSUME NEW l \in Numbers
      PROVE  Reaches(w \o <<Name(n), Word("VARCHAR"), Word("OPEN_PAREN"), Number(l), Word("CLOSE_PAREN")>>,
                     "createNext")
  <2>1. Number(l) \in Tokens /\ Number(l).type = "number"
    BY TokenTypes
  <2> DEFINE left == w \o <<Name(n), Word("VARCHAR"), Word("OPEN_PAREN")>>
             size == w \o <<Name(n), Word("VARCHAR"), Word("OPEN_PAREN"), Number(l)>>
             full == w \o <<Name(n), Word("VARCHAR"), Word("OPEN_PAREN"), Number(l), Word("CLOSE_PAREN")>>
  <2>2. /\ left = Append(type, Word("OPEN_PAREN")) /\ size = Append(left, Number(l))
        /\ full = Append(size, Word("CLOSE_PAREN"))
    <3>1. left = Append(type, Word("OPEN_PAREN"))
      BY <1>2, <1>4, TailGrows
    <3>2. size = Append(left, Number(l))
      BY <1>2, <1>4, <2>1, TailGrows
    <3>3. full = Append(size, Word("CLOSE_PAREN"))
      BY <1>2, <1>4, <2>1, TailGrows
    <3> QED BY <3>1, <3>2, <3>3, Zenon
  <2> HIDE DEF type, left, size, full
  <2>3. Reaches(left, "length") /\ left \in Streams
    BY <1>1, <1>2, <1>8, <2>2, NextReached
  <2>4. Reaches(size, "lengthEnd") /\ size \in Streams
    BY <1>1, <2>1, <2>2, <2>3, NextReached
  <2>5. Reaches(full, "createNext")
    BY <1>1, <1>2, <2>2, <2>4, NextReached
  <2> QED BY <2>5 DEF full
<1>10. CASE c = IntColumn(n)
  <2>1. Definition(c) = <<Name(n), Word("INT")>>
    BY <1>10, DefinitionIs
  <2> QED BY <1>7, <2>1 DEF ReachesOneOf
<1>11. CASE c = VarcharColumn(n, "none")
  <2>1. Definition(c) = <<Name(n), Word("VARCHAR")>>
    BY <1>11, DefinitionIs
  <2> QED BY <1>8, <2>1 DEF ReachesOneOf
<1>12. ASSUME NEW l \in Numbers, c = VarcharColumn(n, l)
       PROVE  ReachesOneOf(w \o Definition(c), {"createNext", "varcharNext"})
  <2>1. Definition(c) = <<Name(n), Word("VARCHAR"), Word("OPEN_PAREN"), Number(l), Word("CLOSE_PAREN")>>
    BY <1>12, DefinitionIs
  <2> QED BY <1>9, <2>1 DEF ReachesOneOf
<1> QED BY <1>3, <1>10, <1>11, <1>12

LEMMA CreateReached ==
    ASSUME NEW n \in Names, NEW cols \in Lists(WrittenColumns, 1)
    PROVE  Reaches(CreateHead(n) \o InParens(Joined(DefItems(cols))), "createEnd")
<1> DEFINE items == DefItems(cols)
           Here  == {"createColumn"}
           There == {"createNext", "varcharNext"}
           head  == CreateHead(n)
           open  == Opened(head)
           list  == open \o Joined(items)
<1>1. /\ <<"statement", "CREATE", "createWord">> \in Moves
      /\ <<"createWord", "TABLE", "createTable">> \in Moves
      /\ <<"createTable", "name", "createOpen">> \in Moves
      /\ <<"createOpen", "OPEN_PAREN", "createColumn">> \in Moves
      /\ <<"createNext", "COMMA", "createColumn">> \in Moves
      /\ <<"varcharNext", "COMMA", "createColumn">> \in Moves
      /\ <<"createNext", "CLOSE_PAREN", "createEnd">> \in Moves
      /\ <<"varcharNext", "CLOSE_PAREN", "createEnd">> \in Moves
  BY DEF Moves, CreateMoves
<1>2. /\ Word("CREATE") \in Tokens /\ Word("CREATE").type = "CREATE"
      /\ Word("TABLE") \in Tokens /\ Word("TABLE").type = "TABLE"
      /\ Word("OPEN_PAREN") \in Tokens /\ Word("OPEN_PAREN").type = "OPEN_PAREN"
      /\ Word("CLOSE_PAREN") \in Tokens /\ Word("CLOSE_PAREN").type = "CLOSE_PAREN"
      /\ Name(n) \in Tokens /\ Name(n).type = "name"
      /\ Comma.type = "COMMA"
  BY TokenTypes DEF Words, Comma, Word
<1>3. Reaches(head, "createOpen") /\ head \in Streams
  <2> DEFINE one == Append(<<>>, Word("CREATE"))
             two == Append(one, Word("TABLE"))
  <2>1. <<>> \in Streams
    BY EmptySeq DEF Streams
  <2>2. Reaches(one, "createWord") /\ one \in Streams
    BY <1>1, <1>2, <2>1, NothingRead, NextReached
  <2>3. Reaches(two, "createTable") /\ two \in Streams
    <3> HIDE DEF one
    <3> QED BY <1>1, <1>2, <2>2, NextReached
  <2>4. Reaches(Append(two, Name(n)), "createOpen")
    <3> HIDE DEF two
    <3> QED BY <1>1, <1>2, <2>3, NextReached
  <2>5. two = <<Word("CREATE"), Word("TABLE")>>
    <3>1. one = <<Word("CREATE")>>
      OBVIOUS
    <3> QED BY <1>2, <3>1, TuplesGrow
  <2> QED BY <2>4, <2>5, HeadsAre
<1>4. Reaches(open, "createColumn") /\ open \in Streams
  <2> HIDE DEF head
  <2> QED BY <1>1, <1>2, <1>3, NextReached DEF Opened
<1>5. /\ items \in Seq(Streams) /\ items # <<>> /\ cols \in Seq(WrittenColumns)
      /\ Joined(items) \in Streams
  BY DefinitionsListed, ListsAreStreams, EmptySeq
<1>6. ReachesOneOf(open, Here)
  BY <1>4 DEF ReachesOneOf
<1>7. ASSUME NEW i \in DOMAIN items, NEW w \in Streams, ReachesOneOf(w, Here)
      PROVE  ReachesOneOf(w \o items[i], There)
  <2>1. i \in DOMAIN cols /\ items[i] = Definition(cols[i])
    BY DEF DefItems
  <2>2. cols[i] \in WrittenColumns
    BY <1>5, <2>1, ElementOfSeq, LenProperties
  <2>3. Reaches(w, "createColumn")
    BY <1>7 DEF ReachesOneOf
  <2> QED BY <2>1, <2>2, <2>3, DefinitionReached
<1>8. \A place \in There : \E next \in Here : next \in Goes(place, Comma)
  BY <1>1, <1>2, MoveMade
<1>9. ReachesOneOf(list, There)
  <2> HIDE DEF items, Here, There, open
  <2> QED BY <1>4, <1>5, <1>6, <1>7, <1>8, ListReached
<1>10. list \in Streams /\ Append(list, Word("CLOSE_PAREN")) = head \o InParens(Joined(items))
  <2>1. open \o Joined(items) \in Streams
    BY <1>4, <1>5, JoinStreams
  <2> HIDE DEF items, head
  <2> QED BY <1>3, <1>5, <2>1, ListClosed
<1>11. Reaches(list, "createNext") \/ Reaches(list, "varcharNext")
  BY <1>9 DEF ReachesOneOf
<1> HIDE DEF list
<1>12. Reaches(Append(list, Word("CLOSE_PAREN")), "createEnd")
  BY <1>1, <1>2, <1>10, <1>11, NextReached
<1> QED BY <1>10, <1>12

LEMMA ControlReached ==
    /\ Reaches(<<Word("BEGIN"), Word("TRANSACTION")>>, "controlEnd")
    /\ Reaches(<<Word("COMMIT")>>, "controlEnd")
<1>1. /\ <<"statement", "BEGIN", "beginWord">> \in Moves
      /\ <<"beginWord", "TRANSACTION", "controlEnd">> \in Moves
      /\ <<"statement", "COMMIT", "controlEnd">> \in Moves
  BY DEF Moves, ControlMoves
<1>2. /\ Word("BEGIN") \in Tokens /\ Word("BEGIN").type = "BEGIN"
      /\ Word("TRANSACTION") \in Tokens /\ Word("TRANSACTION").type = "TRANSACTION"
      /\ Word("COMMIT") \in Tokens /\ Word("COMMIT").type = "COMMIT"
  BY TokenTypes DEF Words
<1>3. /\ <<>> \in Streams /\ Append(<<>>, Word("BEGIN")) = <<Word("BEGIN")>>
      /\ Append(<<>>, Word("COMMIT")) = <<Word("COMMIT")>>
  BY EmptySeq DEF Streams
<1>4. Reaches(<<Word("BEGIN")>>, "beginWord") /\ <<Word("BEGIN")>> \in Streams
  BY <1>1, <1>2, <1>3, NothingRead, NextReached
<1>5. Append(<<Word("BEGIN")>>, Word("TRANSACTION")) = <<Word("BEGIN"), Word("TRANSACTION")>>
  BY <1>2, TuplesGrow
<1>6. Reaches(Append(<<Word("BEGIN")>>, Word("TRANSACTION")), "controlEnd")
  BY <1>1, <1>2, <1>4, NextReached
<1>7. Reaches(<<Word("COMMIT")>>, "controlEnd")
  BY <1>1, <1>2, <1>3, NothingRead, NextReached
<1> QED BY <1>5, <1>6, <1>7

\* Every spelling takes the parser to its statement's end, and what closes the
\* statement is taken there.
LEMMA SpellingReached ==
    ASSUME NEW s \in Sentences, NEW v, v = Spelling(s)
    PROVE  \E place : Reaches(v, place) /\ \A c \in Closers(s) : "accepted" \in Goes(place, c)
<1>1. /\ \A c \in Tokens : "accepted" \in Goes("selectEnd", c)
      /\ \A place \in {"insertEnd", "createEnd", "controlEnd"} :
            "accepted" \in Goes(place, Word("END_OF_LINE"))
  <2>1. \A c \in Tokens : <<"selectEnd", c.type, "accepted">> \in Moves
    BY DEF Moves, SelectMoves
  <2>2. \A place \in {"insertEnd", "createEnd", "controlEnd"} :
           <<place, "END_OF_LINE", "accepted">> \in Moves
    BY DEF Moves, InsertMoves, CreateMoves, ControlMoves
  <2>3. Word("END_OF_LINE").type = "END_OF_LINE"
    BY DEF Word
  <2> QED BY <2>1, <2>2, <2>3, MoveMade
<1>2. CASE \E n \in Names, cols \in SelectLists : s = Stmt("SELECT", n, cols, <<>>)
  <2>1. PICK n \in Names, cols \in SelectLists : s = Stmt("SELECT", n, cols, <<>>)
    BY <1>2
  <2>2. Spelling(s) = Append(SelectFrom(cols), Name(n))
    BY <2>1, SpellingsAre
  <2>3. Reaches(v, "selectEnd")
    BY <2>2, SelectReached
  <2>4. Closers(s) = Tokens
    BY <2>1 DEF Closers, Stmt
  <2> QED BY <1>1, <2>3, <2>4
<1>3. CASE \E n \in Names, cols \in Lists(NameColumns, 0), vals \in Lists(Literals, 1) :
              s = Stmt("INSERT", n, cols, vals)
  <2>1. PICK n \in Names, cols \in Lists(NameColumns, 0), vals \in Lists(Literals, 1) :
           s = Stmt("INSERT", n, cols, vals)
    BY <1>3
  <2>2. Spelling(s) = InsertValues(n, cols) \o InParens(Joined(ValueItems(vals)))
    BY <2>1, SpellingsAre
  <2>3. Reaches(v, "insertEnd")
    BY <2>2, InsertReached
  <2>4. Closers(s) = {Word("END_OF_LINE")}
    BY <2>1 DEF Closers, Stmt
  <2> QED BY <1>1, <2>3, <2>4
<1>4. CASE \E n \in Names, cols \in Lists(WrittenColumns, 1) : s = Stmt("CREATE", n, cols, <<>>)
  <2>1. PICK n \in Names, cols \in Lists(WrittenColumns, 1) : s = Stmt("CREATE", n, cols, <<>>)
    BY <1>4
  <2>2. Spelling(s) = CreateHead(n) \o InParens(Joined(DefItems(cols)))
    BY <2>1, SpellingsAre
  <2>3. Reaches(v, "createEnd")
    BY <2>2, CreateReached
  <2>4. Closers(s) = {Word("END_OF_LINE")}
    BY <2>1 DEF Closers, Stmt
  <2> QED BY <1>1, <2>3, <2>4
<1>5. CASE \E k \in {"BEGIN", "COMMIT"} : s = Stmt(k, "none", <<>>, <<>>)
  <2>1. PICK k \in {"BEGIN", "COMMIT"} : s = Stmt(k, "none", <<>>, <<>>)
    BY <1>5
  <2>2. v = <<Word("BEGIN"), Word("TRANSACTION")>> \/ v = <<Word("COMMIT")>>
    BY <2>1, SpellingsAre
  <2>3. Reaches(v, "controlEnd")
    BY <2>2, ControlReached
  <2>4. Closers(s) = {Word("END_OF_LINE")}
    BY <2>1 DEF Closers, Stmt
  <2> QED BY <1>1, <2>3, <2>4
<1> QED BY <1>2, <1>3, <1>4, <1>5, SentencesAre

----------------------------------------------------------------------------
(* The first token that no place takes is the first wrong one. *)

LEMMA WrongToken ==
    ASSUME NEW w \in Streams, NEW t \in Tokens, NEW place, Reaches(w, place), Goes(place, t) = {}
    PROVE  Append(w, t) \notin Beginnings
<1> SUFFICES ASSUME Append(w, t) \in Beginnings PROVE FALSE
  OBVIOUS
<1> DEFINE x == Append(w, t)
           n == Len(w)
<1>1. /\ n \in Nat /\ x \in Streams /\ Len(x) = n + 1 /\ x[n + 1] = t
      /\ \A i \in 1 .. n : x[i] = w[i]
  BY AppendProperties, LenProperties DEF Streams
<1>2. \E u \in Streams : Begins(x, u) /\ \E p : Reaches(u, p)
  <2>1. CASE Possible(x)
    <3>1. PICK s \in Sentences : Begins(x, Spelling(s))
      BY <2>1 DEF Possible
    <3>2. Spelling(s) \in Streams /\ \E p : Reaches(Spelling(s), p)
      BY SpellingsAreStreams, SpellingReached
    <3> QED BY <3>1, <3>2
  <2>2. CASE \E s \in Sentences : \E c \in Closers(s) : x = Append(Spelling(s), c)
    <3>1. PICK s \in Sentences : \E c \in Closers(s) : x = Append(Spelling(s), c)
      BY <2>2
    <3>2. PICK c \in Closers(s) : x = Append(Spelling(s), c)
      BY <3>1
    <3>3. PICK p : Reaches(Spelling(s), p) /\ "accepted" \in Goes(p, c)
      BY SpellingReached
    <3>4. Spelling(s) \in Streams /\ c \in Tokens
      BY SpellingsAreStreams, ClosersAreTokens
    <3>5. Reaches(Append(Spelling(s), c), "accepted")
      BY <3>3, <3>4, ReachesOn
    <3>6. Begins(x, x)
      BY <1>1 DEF Begins
    <3> HIDE DEF x
    <3> QED BY <1>1, <3>2, <3>5, <3>6
  <2> HIDE DEF x
  <2>3. x \in Beginnings
    BY DEF x
  <2> QED BY <1>1, <2>1, <2>2, <2>3, BeginningsAre
<1>3. PICK u \in Streams : Begins(x, u) /\ \E p : Reaches(u, p)
  BY <1>2
<1>4. PICK g : Run(u, g)
  BY <1>3 DEF Reaches
<1>5. PICK f : Run(w, f) /\ f[n + 1] = place
  BY DEF Reaches
<1>6. Len(u) \in Nat
  BY LenProperties DEF Streams
<1> HIDE DEF x, n
<1>7. Begins(w, u) /\ n + 1 \in 1 .. Len(u) /\ u[n + 1] = t
  BY <1>1, <1>3, <1>6 DEF Begins, n
<1>8. g[n + 1] = place
  <2>1. \A i \in 0 .. n : f[i + 1] = g[i + 1]
    BY <1>1, <1>4, <1>5, <1>6, <1>7, RunsAgree DEF n
  <2> QED BY <1>1, <1>5, <2>1
<1>9. g[(n + 1) + 1] \in Goes(g[n + 1], u[n + 1])
  BY <1>4, <1>7 DEF Run
<1> QED BY <1>7, <1>8, <1>9

\* Where the tokens read so far have taken the parser.
Led ==
    /\ at # "rejected" => Reaches(tokens, at)
    /\ at = "rejected" =>
          \E w \in Seq(Tokens), t \in Tokens, place \in Places :
             tokens = Append(w, t) /\ Possible(w) /\ Reaches(w, place) /\ Goes(place, t) = {}

LEMMA TakeLeads ==
    ASSUME Kept, Read, Led, NEW t \in Tokens, Take(t)
    PROVE  Led'
<1>1. PICK next \in Goes(at, t) : at' = next
  BY DEF Take
<1>2. at # "rejected" /\ tokens' = Append(tokens, t)
  BY DEF Take, Parsing, Outcomes
<1>3. tokens \in Streams /\ t \in Tokens
  BY DEF Kept, Streams
<1>4. Reaches(Append(tokens, t), next)
  BY <1>2, <1>3, ReachesOn DEF Led
<1>5. next # "rejected"
  <2>1. \A m \in Moves : m[3] # "rejected"
    BY DEF Moves, SelectMoves, InsertMoves, CreateMoves, ControlMoves
  <2> QED BY <2>1, MoveOf
<1> QED BY <1>1, <1>2, <1>4, <1>5 DEF Led

LEMMA RejectLeads ==
    ASSUME Kept, Read, Led, NEW t \in Tokens, Reject(t)
    PROVE  Led'
<1>1. /\ at \notin Outcomes /\ Goes(at, t) = {} /\ at' = "rejected"
      /\ tokens' = Append(tokens, t)
  BY DEF Reject, Parsing
<1>2. at # "rejected" /\ at \in Places \ Outcomes /\ tokens \in Seq(Tokens)
  BY <1>1 DEF Outcomes, Kept
<1>3. Possible(tokens)
  <2>1. PICK s : Shape(at, s, tokens)
    BY <1>2 DEF Read
  <2> QED BY <1>2, <2>1, EveryPlaceCanEnd DEF CanEnd
<1>4. Reaches(tokens, at)
  BY <1>2 DEF Led
<1> QED BY <1>1, <1>2, <1>3, <1>4 DEF Led

LEMMA NextLeads == Kept /\ Read /\ Led /\ [Next]_vars => Led'
<1>1. SUFFICES ASSUME Kept, Read, Led, [Next]_vars PROVE Led'
  OBVIOUS
<1>2. CASE \E t \in Tokens : Take(t) \/ Reject(t)
  BY <1>1, <1>2, TakeLeads, RejectLeads
<1>3. ASSUME tokens' = <<>>, at' = "statement" PROVE Led'
  BY <1>3, NothingRead DEF Led
<1>4. CASE Generate
  BY <1>3, <1>4 DEF Generate
<1>5. CASE GiveUp
  BY <1>3, <1>5 DEF GiveUp
<1>6. CASE Exit
  BY <1>1, <1>6 DEF Exit, Led
<1>7. CASE UNCHANGED vars
  BY <1>1, <1>7 DEF vars, Led
<1> QED BY <1>1, <1>2, <1>4, <1>5, <1>6, <1>7 DEF Next

\* A stream is refused at its first token with which no statement can begin
\* that way, not a token later and not a token earlier (match, expect and the
\* list loops of parser.c).
THEOREM RefusedInTime == Spec => []RefusedAtFirstWrongToken
<1>1. Init => Kept /\ Read /\ Led
  <2>1. Init => Led
    BY NothingRead DEF Init, Led
  <2> QED BY <2>1, InitReads
<1>2. (Kept /\ Read /\ Led) /\ [Next]_vars => (Kept /\ Read /\ Led)'
  BY NextReads, NextLeads
<1>3. ASSUME Kept, Read, Led PROVE RefusedAtFirstWrongToken
  <2>1. ASSUME at # "rejected" PROVE tokens \in Beginnings
    <3>1. PICK s : Shape(at, s, tokens)
      BY <1>3, <2>1 DEF Read
    <3>2. tokens \in Seq(Tokens) /\ tokens \in Streams
      BY <1>3 DEF Kept, Streams
    <3>3. CASE at = "accepted"
      <4>1. WholeShape(s, tokens)
        BY <3>1, <3>3, ShapesApart
      <4> QED BY <3>2, <4>1, BeginningsAre DEF WholeShape
    <3>4. CASE at # "accepted"
      <4>1. at \in Places \ Outcomes
        BY <1>3, <2>1, <3>4 DEF Kept, Outcomes
      <4>2. Possible(tokens)
        BY <3>1, <3>2, <4>1, EveryPlaceCanEnd DEF CanEnd
      <4> QED BY <3>2, <4>2, BeginningsAre
    <3> QED BY <3>3, <3>4
  <2>2. ASSUME at = "rejected" PROVE Front(tokens) \in Beginnings /\ tokens \notin Beginnings
    <3>1. PICK w \in Seq(Tokens), t \in Tokens, place \in Places :
             tokens = Append(w, t) /\ Possible(w) /\ Reaches(w, place) /\ Goes(place, t) = {}
      BY <1>3, <2>2 DEF Led
    <3>2. w \in Streams /\ t \in Tokens
      BY DEF Streams
    <3>3. Front(tokens) = w
      BY <3>1, <3>2, FrontOfAppended
    <3>4. w \in Beginnings
      BY <3>1, <3>2, BeginningsAre
    <3>5. tokens \notin Beginnings
      BY <3>1, <3>2, WrongToken
    <3> QED BY <3>3, <3>4, <3>5
  <2> QED BY <2>1, <2>2 DEF RefusedAtFirstWrongToken
<1> QED BY <1>1, <1>2, <1>3, PTL DEF Spec
=============================================================================
