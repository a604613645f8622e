----------------------------- MODULE SeqLemmas -----------------------------
(***************************************************************************)
(* Facts about numbers and sequences that the proofs of several modules    *)
(* need: induction, an entry coming into a sequence or leaving it, and the *)
(* range of the result.                                                    *)
(***************************************************************************)
EXTENDS Integers, Sequences, FiniteSets, SequencesExt, SequenceTheorems,
        FiniteSetTheorems, WellFoundedInduction, TLAPS

----------------------------------------------------------------------------
(* Induction over the natural numbers, for a set S of them. *)

LEMMA Induction ==
    ASSUME NEW S, 0 \in S, \A n \in Nat : n \in S => n + 1 \in S
    PROVE  Nat \subseteq S
<1> DEFINE T == Nat \ S
<1> SUFFICES ASSUME T # {} PROVE FALSE
  OBVIOUS
<1>1. PICK x \in T : \A y \in T : ~(<<y, x>> \in OpToRel(<, Nat))
  BY NatLessThanWellFounded, WFMin
<1>2. x \in Nat /\ x # 0
  BY <1>1
<1>3. x - 1 \in Nat /\ x - 1 < x
  BY <1>2
<1>4. <<x - 1, x>> \in OpToRel(<, Nat)
  BY <1>2, <1>3 DEF OpToRel
<1>5. x - 1 \notin T
  BY <1>1, <1>4
<1>6. x - 1 \in S /\ x \notin S /\ (x - 1) + 1 = x
  BY <1>2, <1>3, <1>5
<1>7. (x - 1) + 1 \in S
  BY <1>3, <1>6, Zenon
<1> QED BY <1>6, <1>7

\* The same up to a bound.
LEMMA InductionUpTo ==
    ASSUME NEW m \in Nat, NEW S, 0 \in S, \A n \in 0 .. m - 1 : n \in S => n + 1 \in S
    PROVE  0 .. m \subseteq S
<1> DEFINE T == {n \in Nat : n <= m => n \in S}
<1>1. 0 \in T
  OBVIOUS
<1>2. ASSUME NEW n \in Nat, n \in T PROVE n + 1 \in T
  <2>1. CASE n + 1 <= m
    <3>1. n \in 0 .. m - 1 /\ n \in S
      BY <1>2, <2>1
    <3> QED BY <3>1
  <2>2. CASE ~(n + 1 <= m)
    BY <2>2
  <2> QED BY <2>1, <2>2
<1>3. Nat \subseteq T
  <2> HIDE DEF T
  <2> QED BY <1>1, <1>2, Induction
<1> QED BY <1>3

\* A nonempty set of numbers has a least one, and a bounded one a greatest.
LEMMA LeastExists ==
    ASSUME NEW T, T \subseteq Nat, T # {}
    PROVE  \E x \in T : \A y \in T : x <= y
<1>1. PICK x \in T : \A y \in T : ~(<<y, x>> \in OpToRel(<, Nat))
  BY NatLessThanWellFounded, WFMin
<1>2. ASSUME NEW y \in T PROVE x <= y
  <2>1. x \in Nat /\ y \in Nat
    OBVIOUS
  <2>2. ASSUME y < x PROVE <<y, x>> \in OpToRel(<, Nat)
    BY <2>1, <2>2 DEF OpToRel
  <2>3. ~(y < x)
    BY <1>1, <2>2
  <2> QED BY <2>1, <2>3
<1> QED BY <1>2

LEMMA MaxIsGreatest ==
    ASSUME NEW m \in Nat, NEW T, T \subseteq 0 .. m, T # {}
    PROVE  Max(T) \in T /\ \A y \in T : y <= Max(T)
<1> DEFINE U == {k \in 0 .. m : m - k \in T}
<1>1. U \subseteq Nat
  OBVIOUS
<1>2. U # {}
  <2>1. PICK y \in T : TRUE
    OBVIOUS
  <2>2. m - y \in 0 .. m /\ m - (m - y) = y
    OBVIOUS
  <2> QED BY <2>2
<1>3. PICK u \in U : \A v \in U : u <= v
  <2> HIDE DEF U
  <2> QED BY <1>1, <1>2, LeastExists
<1>4. m - u \in T
  BY <1>3
<1>5. ASSUME NEW y \in T PROVE m - u >= y
  <2>1. y \in 0 .. m
    OBVIOUS
  <2>2. m - y \in 0 .. m /\ m - (m - y) = y
    BY <2>1
  <2>3. m - y \in U
    BY <2>2
  <2>4. u <= m - y /\ u \in 0 .. m
    BY <1>3, <2>3
  <2> QED BY <2>1, <2>4
<1>6. \E x \in T : \A y \in T : x >= y
  BY <1>4, <1>5
<1>7. Max(T) \in T /\ \A y \in T : Max(T) >= y
  BY <1>6, Zenon DEF Max
<1>8. \A y \in T : y \in Int
  OBVIOUS
<1> QED BY <1>7, <1>8

----------------------------------------------------------------------------
(* An entry comes into a sequence or leaves it; the others keep their order. *)

Inserted(S, s, p, e) ==
    /\ InsertAt(s, p, e) \in Seq(S) /\ Len(InsertAt(s, p, e)) = Len(s) + 1
    /\ \A i \in 1 .. Len(s) + 1 :
          InsertAt(s, p, e)[i] = IF i < p THEN s[i] ELSE IF i = p THEN e ELSE s[i - 1]

LEMMA InsertedAt ==
    ASSUME NEW S, NEW s \in Seq(S), NEW e \in S, NEW p \in 1 .. Len(s) + 1
    PROVE  Inserted(S, s, p, e)
<1> DEFINE a == SubSeq(s, 1, p - 1)
           b == a \o <<e>>
           c == SubSeq(s, p, Len(s))
<1>1. Len(s) \in Nat /\ \A i \in 1 .. Len(s) : s[i] \in S
  BY LenProperties, ElementOfSeq
<1>2. a \in Seq(S) /\ Len(a) = p - 1 /\ \A i \in 1 .. p - 1 : a[i] = s[i]
  BY <1>1, SubSeqProperties
<1>3. b \in Seq(S) /\ Len(b) = p /\ \A i \in 1 .. p : b[i] = IF i < p THEN s[i] ELSE e
  <2>1. <<e>> \in Seq(S) /\ Len(<<e>>) = 1 /\ <<e>>[1] = e
    OBVIOUS
  <2> HIDE DEF a
  <2>2. b \in Seq(S) /\ Len(b) = Len(a) + 1
        /\ \A i \in 1 .. Len(a) + 1 : b[i] = IF i <= Len(a) THEN a[i] ELSE <<e>>[i - Len(a)]
    BY <1>2, <2>1, ConcatProperties
  <2>3. p \in Nat /\ Len(a) = p - 1 /\ Len(b) = p
    BY <1>1, <1>2, <2>2
  <2> HIDE DEF b
  <2>4. ASSUME NEW i \in 1 .. p PROVE b[i] = IF i < p THEN s[i] ELSE e
    <3>1. b[i] = IF i <= Len(a) THEN a[i] ELSE <<e>>[i - Len(a)]
      BY <2>2, <2>3
    <3>2. CASE i < p
      BY <1>2, <2>3, <3>1, <3>2
    <3>3. CASE i = p
      BY <2>1, <2>3, <3>1, <3>3
    <3> QED BY <2>3, <3>2, <3>3
  <2> QED BY <2>2, <2>3, <2>4
<1>4. c \in Seq(S) /\ Len(c) = Len(s) - p + 1
      /\ \A i \in 1 .. Len(s) - p + 1 : c[i] = s[p + i - 1]
  <2>1. \A i \in p .. Len(s) : s[i] \in S
    BY <1>1
  <2> QED BY <1>1, <2>1, SubSeqProperties
<1> HIDE DEF b, c
<1>5. b \o c \in Seq(S) /\ Len(b \o c) = Len(b) + Len(c)
      /\ \A i \in 1 .. Len(b) + Len(c) : (b \o c)[i] = IF i <= Len(b) THEN b[i] ELSE c[i - Len(b)]
  BY <1>3, <1>4, ConcatProperties
<1>6. InsertAt(s, p, e) = b \o c
  BY DEF InsertAt, b, c
<1>7. Len(s) \in Nat /\ Len(b) = p /\ Len(c) = Len(s) - p + 1 /\ p \in Nat
  BY <1>1, <1>3, <1>4
<1>8. InsertAt(s, p, e) \in Seq(S) /\ Len(InsertAt(s, p, e)) = Len(s) + 1
  BY <1>5, <1>6, <1>7
<1>9. ASSUME NEW i \in 1 .. Len(s) + 1
      PROVE  InsertAt(s, p, e)[i] = IF i < p THEN s[i] ELSE IF i = p THEN e ELSE s[i - 1]
  BY <1>3, <1>4, <1>5, <1>6, <1>7
<1> QED BY <1>8, <1>9 DEF Inserted

LEMMA RemovedAt ==
    ASSUME NEW S, NEW s \in Seq(S), NEW p \in 1 .. Len(s)
    PROVE  /\ RemoveAt(s, p) \in Seq(S) /\ Len(RemoveAt(s, p)) = Len(s) - 1
           /\ \A i \in 1 .. Len(s) - 1 : RemoveAt(s, p)[i] = IF i < p THEN s[i] ELSE s[i + 1]
<1> DEFINE a == SubSeq(s, 1, p - 1)
           c == SubSeq(s, p + 1, Len(s))
<1>1. Len(s) \in Nat /\ \A i \in 1 .. Len(s) : s[i] \in S
  BY LenProperties, ElementOfSeq
<1>2. a \in Seq(S) /\ Len(a) = p - 1 /\ \A i \in 1 .. p - 1 : a[i] = s[i]
  BY <1>1, SubSeqProperties
<1>3. c \in Seq(S) /\ Len(c) = Len(s) - p /\ \A i \in 1 .. Len(s) - p : c[i] = s[p + i]
  <2>1. \A i \in p + 1 .. Len(s) : s[i] \in S
    BY <1>1
  <2>2. c \in Seq(S) /\ Len(c) = (IF p + 1 <= Len(s) THEN Len(s) - (p + 1) + 1 ELSE 0)
        /\ \A i \in 1 .. Len(s) - (p + 1) + 1 : c[i] = s[p + 1 + i - 1]
    BY <1>1, <2>1, SubSeqProperties
  <2>3. Len(c) = Len(s) - p
    BY <1>1, <2>2
  <2>4. ASSUME NEW i \in 1 .. Len(s) - p PROVE c[i] = s[p + i]
    <3> HIDE DEF c
    <3>1. i \in 1 .. Len(s) - (p + 1) + 1 /\ p + 1 + i - 1 = p + i
      BY <1>1
    <3> QED BY <2>2, <3>1
  <2> QED BY <2>2, <2>3, <2>4
<1> HIDE DEF a, c
<1>4. a \o c \in Seq(S) /\ Len(a \o c) = Len(a) + Len(c)
      /\ \A i \in 1 .. Len(a) + Len(c) : (a \o c)[i] = IF i <= Len(a) THEN a[i] ELSE c[i - Len(a)]
  BY <1>2, <1>3, ConcatProperties
<1>5. RemoveAt(s, p) = a \o c
  BY DEF RemoveAt, a, c
<1>6. Len(a \o c) = Len(s) - 1 /\ a \o c \in Seq(S)
  BY <1>1, <1>2, <1>3, <1>4
<1>7. ASSUME NEW i \in 1 .. Len(s) - 1 PROVE (a \o c)[i] = IF i < p THEN s[i] ELSE s[i + 1]
  <2>1. i \in Nat /\ p \in Nat /\ 1 <= i /\ i <= Len(s) - 1 /\ 1 <= p /\ p <= Len(s)
    BY <1>1
  <2>2. i \in 1 .. Len(a) + Len(c) /\ Len(a) = p - 1
    BY <1>1, <1>2, <1>3
  <2>3. (a \o c)[i] = IF i <= Len(a) THEN a[i] ELSE c[i - Len(a)]
    BY <1>4, <2>2
  <2>4. CASE i < p
    <3>1. i <= Len(a) /\ i \in 1 .. p - 1
      BY <2>1, <2>2, <2>4
    <3>2. (a \o c)[i] = a[i]
      BY <2>3, <3>1
    <3> QED BY <1>2, <2>4, <3>1, <3>2
  <2>5. CASE ~(i < p)
    <3>1. ~(i <= Len(a)) /\ i - Len(a) \in 1 .. Len(s) - p /\ p + (i - Len(a)) = i + 1
      BY <1>1, <2>1, <2>2, <2>5
    <3>2. (a \o c)[i] = c[i - Len(a)]
      BY <2>3, <3>1
    <3>3. c[i - Len(a)] = s[p + (i - Len(a))]
      BY <1>3, <3>1
    <3> QED BY <2>5, <3>1, <3>2, <3>3
  <2> QED BY <2>4, <2>5
<1> QED BY <1>5, <1>6, <1>7

LEMMA FrontAndLast ==
    ASSUME NEW S, NEW s \in Seq(S), s # <<>>
    PROVE  /\ Front(s) \in Seq(S) /\ Len(s) >= 1 /\ Len(Front(s)) = Len(s) - 1
           /\ \A i \in 1 .. Len(s) - 1 : Front(s)[i] = s[i]
           /\ Last(s) = s[Len(s)] /\ Last(s) \in S
<1>1. Len(s) \in Nat /\ Len(s) >= 1 /\ \A i \in 1 .. Len(s) : s[i] \in S
  BY EmptySeq, LenProperties, ElementOfSeq
<1>2. \A i \in 1 .. Len(s) - 1 : s[i] \in S
  BY <1>1
<1>3. Front(s) \in Seq(S) /\ Len(Front(s)) = Len(s) - 1
      /\ \A i \in 1 .. Len(s) - 1 : Front(s)[i] = s[i]
  <2> DEFINE n == Len(s) - 1
  <2>1. n \in Nat /\ \A i \in 1 .. n : s[i] \in S
    BY <1>1
  <2>2. SubSeq(s, 1, n) \in Seq(S)
        /\ Len(SubSeq(s, 1, n)) = (IF 1 <= n THEN n - 1 + 1 ELSE 0)
        /\ \A i \in 1 .. n - 1 + 1 : SubSeq(s, 1, n)[i] = s[1 + i - 1]
    BY <2>1, SubSeqProperties
  <2>3. Front(s) = SubSeq(s, 1, n)
    BY DEF Front
  <2> HIDE DEF n
  <2>4. Len(SubSeq(s, 1, n)) = n /\ \A i \in 1 .. n : SubSeq(s, 1, n)[i] = s[i]
    BY <2>1, <2>2
  <2> QED BY <2>2, <2>3, <2>4 DEF n
<1> QED BY <1>1, <1>3 DEF Last
----------------------------------------------------------------------------
(* What the entries are, whatever their order. *)

LEMMA RangeOfList ==
    ASSUME NEW S, NEW s \in Seq(S)
    PROVE  \A e : e \in Range(s) <=> \E i \in 1 .. Len(s) : s[i] = e
<1>1. DOMAIN s = 1 .. Len(s)
  BY LenProperties
<1> QED BY <1>1 DEF Range

LEMMA InsertedRange ==
    ASSUME NEW S, NEW s \in Seq(S), NEW e \in S, NEW p \in 1 .. Len(s) + 1
    PROVE  Range(InsertAt(s, p, e)) = Range(s) \cup {e}
<1> DEFINE new == InsertAt(s, p, e)
           n   == Len(s)
<1>1. /\ new \in Seq(S) /\ Len(new) = n + 1
      /\ \A i \in 1 .. n + 1 :
            new[i] = IF i < p THEN s[i] ELSE IF i = p THEN e ELSE s[i - 1]
  <2>1. Inserted(S, s, p, e)
    BY InsertedAt, Zenon
  <2> QED BY <2>1 DEF Inserted
<1>2. n \in Nat
  BY LenProperties
<1> HIDE DEF new, n
<1>3. ASSUME NEW i \in 1 .. n + 1 PROVE new[i] = e \/ \E j \in 1 .. n : s[j] = new[i]
  <2>1. CASE i < p
    <3>1. i \in 1 .. n /\ new[i] = s[i]
      BY <1>1, <1>2, <2>1 DEF n
    <3> QED BY <3>1
  <2>2. CASE i = p
    BY <1>1, <2>2
  <2>3. CASE i > p
    <3>1. i - 1 \in 1 .. n /\ new[i] = s[i - 1]
      BY <1>1, <1>2, <2>3 DEF n
    <3> QED BY <3>1
  <2> QED BY <1>2, <2>1, <2>2, <2>3 DEF n
<1>4. ASSUME NEW j \in 1 .. n PROVE \E i \in 1 .. n + 1 : new[i] = s[j]
  <2>1. CASE j < p
    <3>1. j \in 1 .. n + 1 /\ new[j] = s[j]
      BY <1>1, <1>2, <2>1
    <3> QED BY <3>1
  <2>2. CASE j >= p
    <3>1. j + 1 \in 1 .. n + 1 /\ ~(j + 1 < p) /\ j + 1 # p /\ (j + 1) - 1 = j
      BY <1>2, <2>2 DEF n
    <3>2. new[j + 1] = s[j]
      BY <1>1, <3>1
    <3> QED BY <3>1, <3>2
  <2> QED BY <1>2, <2>1, <2>2 DEF n
<1>5. p \in 1 .. n + 1 /\ new[p] = e
  BY <1>1, <1>2 DEF n
<1>6. \A x : x \in Range(s) <=> \E j \in 1 .. n : s[j] = x
  BY RangeOfList DEF n
<1>7. \A x : x \in Range(new) <=> \E i \in 1 .. n + 1 : new[i] = x
  BY <1>1, RangeOfList
<1>8. ASSUME NEW x PROVE x \in Range(new) <=> x \in Range(s) \cup {e}
  BY <1>3, <1>4, <1>5, <1>6, <1>7
<1> QED BY <1>8 DEF new

LEMMA RemovedRange ==
    ASSUME NEW S, NEW s \in Seq(S), NEW p \in 1 .. Len(s),
           \A i \in 1 .. Len(s) : i # p => s[i] # s[p]
    PROVE  Range(RemoveAt(s, p)) = Range(s) \ {s[p]}
<1> DEFINE new == RemoveAt(s, p)
           n   == Len(s)
<1>1. /\ new \in Seq(S) /\ Len(new) = n - 1
      /\ \A i \in 1 .. n - 1 : new[i] = IF i < p THEN s[i] ELSE s[i + 1]
  BY RemovedAt
<1>2. n \in Nat
  BY LenProperties
<1> HIDE DEF new, n
<1>3. ASSUME NEW i \in 1 .. n - 1 PROVE \E j \in 1 .. n : j # p /\ s[j] = new[i]
  <2>1. CASE i < p
    <3>1. i \in 1 .. n /\ i # p /\ new[i] = s[i]
      BY <1>1, <1>2, <2>1 DEF n
    <3> QED BY <3>1
  <2>2. CASE i >= p
    <3>1. i + 1 \in 1 .. n /\ i + 1 # p /\ new[i] = s[i + 1]
      BY <1>1, <1>2, <2>2 DEF n
    <3> QED BY <3>1
  <2> QED BY <1>2, <2>1, <2>2 DEF n
<1>4. ASSUME NEW j \in 1 .. n, j # p PROVE \E i \in 1 .. n - 1 : new[i] = s[j]
  <2>1. CASE j < p
    <3>1. j \in 1 .. n - 1 /\ new[j] = s[j]
      BY <1>1, <1>2, <2>1 DEF n
    <3> QED BY <3>1
  <2>2. CASE j > p
    <3>1. j - 1 \in 1 .. n - 1 /\ ~(j - 1 < p) /\ (j - 1) + 1 = j
      BY <1>2, <2>2 DEF n
    <3>2. new[j - 1] = s[j]
      BY <1>1, <3>1
    <3> QED BY <3>1, <3>2
  <2> QED BY <1>2, <1>4, <2>1, <2>2 DEF n
<1>5. \A x : x \in Range(s) <=> \E j \in 1 .. n : s[j] = x
  BY RangeOfList DEF n
<1>6. \A x : x \in Range(new) <=> \E i \in 1 .. n - 1 : new[i] = x
  BY <1>1, RangeOfList
<1>7. \A i \in 1 .. n : i # p => s[i] # s[p]
  BY DEF n
<1>8. ASSUME NEW x PROVE x \in Range(new) <=> x \in Range(s) \ {s[p]}
  <2>1. ASSUME x \in Range(new) PROVE x \in Range(s) \ {s[p]}
    <3>1. PICK i \in 1 .. n - 1 : new[i] = x
      BY <1>6, <2>1
    <3>2. PICK j \in 1 .. n : j # p /\ s[j] = new[i]
      BY <1>3
    <3> QED BY <1>5, <1>7, <3>1, <3>2
  <2>2. ASSUME x \in Range(s) \ {s[p]} PROVE x \in Range(new)
    <3>1. PICK j \in 1 .. n : s[j] = x
      BY <1>5, <2>2
    <3>2. j # p
      BY <2>2, <3>1
    <3> QED BY <1>4, <1>6, <3>1, <3>2
  <2> QED BY <2>1, <2>2
<1> QED BY <1>8 DEF new

LEMMA AppendedRange ==
    ASSUME NEW S, NEW s \in Seq(S), NEW e \in S
    PROVE  /\ Append(s, e) \in Seq(S) /\ Len(Append(s, e)) = Len(s) + 1
           /\ \A i \in 1 .. Len(s) : Append(s, e)[i] = s[i]
           /\ Append(s, e)[Len(s) + 1] = e
           /\ Range(Append(s, e)) = Range(s) \cup {e}
<1>1. /\ Append(s, e) \in Seq(S) /\ Len(Append(s, e)) = Len(s) + 1 /\ Len(s) \in Nat
      /\ \A i \in 1 .. Len(s) : Append(s, e)[i] = s[i]
      /\ Append(s, e)[Len(s) + 1] = e
  BY AppendProperties, LenProperties
<1>2. \A x : x \in Range(s) <=> \E i \in 1 .. Len(s) : s[i] = x
  BY RangeOfList
<1>3. \A x : x \in Range(Append(s, e)) <=> \E i \in 1 .. Len(s) + 1 : Append(s, e)[i] = x
  <2> DEFINE new == Append(s, e)
  <2>1. new \in Seq(S) /\ Len(new) = Len(s) + 1
    BY <1>1
  <2> HIDE DEF new
  <2>2. \A x : x \in Range(new) <=> \E i \in 1 .. Len(new) : new[i] = x
    BY <2>1, RangeOfList
  <2> QED BY <2>1, <2>2 DEF new
<1>4. \A i : i \in 1 .. Len(s) + 1 <=> i \in 1 .. Len(s) \/ i = Len(s) + 1
  BY <1>1
<1>5. \A x : x \in Range(Append(s, e)) <=> x \in Range(s) \cup {e}
  BY <1>1, <1>2, <1>3, <1>4
<1> QED BY <1>1, <1>5

----------------------------------------------------------------------------
(* Sequences of sequences, one behind the other. *)

\* FlattenSeq joins one piece after the other.
LEMMA Flattened ==
    ASSUME NEW A, NEW ss \in Seq(Seq(A))
    PROVE  \E f \in [0 .. Len(ss) -> Seq(A)] :
              /\ f[0] = <<>> /\ f[Len(ss)] = FlattenSeq(ss)
              /\ \A i \in 1 .. Len(ss) : f[i] = f[i - 1] \o ss[i]
<1> DEFINE n == Len(ss)
           Joins(f, m) == /\ f \in [0 .. m -> Seq(A)] /\ f[0] = <<>>
                          /\ \A i \in 1 .. m : f[i] = f[i - 1] \o ss[i]
           T == {m \in 0 .. n : \E f : Joins(f, m)}
<1>1. n \in Nat /\ \A i \in 1 .. n : ss[i] \in Seq(A)
  BY LenProperties, ElementOfSeq
<1>2. 0 \in T
  <2> DEFINE e == [i \in 0 .. 0 |-> <<>>]
  <2>1. e \in [0 .. 0 -> Seq(A)] /\ e[0] = <<>> /\ 1 .. 0 = {}
    BY EmptySeq
  <2> HIDE DEF e
  <2>2. Joins(e, 0)
    BY <2>1
  <2> HIDE DEF Joins
  <2> QED BY <1>1, <2>2
<1>3. ASSUME NEW m \in 0 .. n - 1, m \in T PROVE m + 1 \in T
  <2>1. PICK f : Joins(f, m)
    BY <1>3
  <2> DEFINE g == [i \in 0 .. m + 1 |-> IF i = m + 1 THEN f[m] \o ss[m + 1] ELSE f[i]]
  <2>2. m + 1 \in 1 .. n /\ m + 1 \in 0 .. n /\ m \in 0 .. m
    BY <1>1
  <2>3. f[m] \o ss[m + 1] \in Seq(A)
    BY <1>1, <2>1, <2>2, ConcatProperties
  <2>4. g \in [0 .. m + 1 -> Seq(A)] /\ g[0] = <<>>
    <3>1. \A i \in 0 .. m + 1 : i = m + 1 \/ i \in 0 .. m
      BY <2>2
    <3>2. \A i \in 0 .. m : f[i] \in Seq(A)
      BY <2>1
    <3>3. 0 \in 0 .. m + 1 /\ 0 # m + 1
      BY <1>1
    <3>4. f[0] = <<>>
      BY <2>1
    <3> QED BY <2>3, <3>1, <3>2, <3>3, <3>4
  <2>5. ASSUME NEW i \in 1 .. m + 1 PROVE g[i] = g[i - 1] \o ss[i]
    <3>1. CASE i = m + 1
      <4>1. m + 1 \in 0 .. m + 1
        BY <1>1
      <4>2. i - 1 = m /\ m \in 0 .. m + 1 /\ m # m + 1
        BY <2>2, <3>1
      <4>3. g[m + 1] = f[m] \o ss[m + 1]
        BY <2>2, <4>1
      <4>4. g[m] = f[m]
        BY <4>2
      <4> HIDE DEF g
      <4> QED BY <3>1, <4>2, <4>3, <4>4
    <3>2. CASE i # m + 1
      <4>1. i \in 1 .. m /\ i - 1 \in 0 .. m /\ g[i] = f[i] /\ g[i - 1] = f[i - 1]
        BY <2>2, <3>2
      <4> QED BY <2>1, <4>1
    <3> QED BY <3>1, <3>2
  <2>6. Joins(g, m + 1)
    BY <2>4, <2>5
  <2> HIDE DEF Joins, g
  <2> QED BY <2>2, <2>6
<1>4. n \in T
  <2>1. 0 .. n \subseteq T
    <3> HIDE DEF T
    <3> QED BY <1>1, <1>2, <1>3, InductionUpTo
  <2>2. n \in 0 .. n
    BY <1>1
  <2> QED BY <2>1, <2>2
<1>5. PICK f : Joins(f, n)
  BY <1>4
<1> HIDE DEF n
<1>6. f[0] = <<>> /\ \A i \in 1 .. n : f[i] = f[i - 1] \o ss[i]
  BY <1>5
<1>7. CASE n = 0
  <2>1. FlattenSeq(ss) = ss /\ ss = <<>>
    BY <1>7, EmptySeq DEF FlattenSeq, n
  <2> QED BY <1>5, <1>7, <2>1 DEF n
<1>8. CASE n # 0
  <2> DEFINE F(g) == [i \in 1 .. n |-> IF i = 1 THEN ss[i] ELSE g[i - 1] \o ss[i]]
             h == CHOOSE g : g = F(g)
             k == [i \in 1 .. n |-> f[i]]
  <2>1. FlattenSeq(ss) = h[n]
    BY <1>8 DEF FlattenSeq, n
  <2>2. k = F(k)
    <3>1. ASSUME NEW i \in 1 .. n PROVE k[i] = F(k)[i]
      <4>1. CASE i = 1
        <5>1. f[1] = f[1 - 1] \o ss[1] /\ 1 - 1 = 0 /\ f[0] = <<>>
          <6>1. 1 \in 1 .. n
            BY <1>1, <1>8
          <6>2. f[1] = f[1 - 1] \o ss[1]
            BY <1>6, <6>1
          <6> QED BY <1>6, <6>2
        <5>2. <<>> \o ss[1] = ss[1]
          BY <1>1, <4>1, ConcatEmptySeq
        <5> QED BY <4>1, <5>1, <5>2
      <4>2. CASE i # 1
        <5>1. i - 1 \in 1 .. n /\ f[i] = f[i - 1] \o ss[i]
          <6>1. i - 1 \in 1 .. n
            BY <1>1, <4>2
          <6> QED BY <1>6, <6>1
        <5>2. k[i] = f[i] /\ k[i - 1] = f[i - 1]
          BY <5>1
        <5> HIDE DEF k
        <5> QED BY <4>2, <5>1, <5>2
      <4> QED BY <4>1, <4>2
    <3> QED BY <3>1
  <2>3. h = F(h)
    <3> HIDE DEF F, k
    <3> QED BY <2>2
  <2> DEFINE S == {m \in 0 .. n : m > 0 => h[m] = f[m]}
  <2>4. 0 \in S
    BY <1>1
  <2>5. ASSUME NEW m \in 0 .. n - 1, m \in S PROVE m + 1 \in S
    <3>1. m + 1 \in 1 .. n /\ (m + 1) - 1 = m
      BY <1>1
    <3>2. F(h)[m + 1] = IF m + 1 = 1 THEN ss[m + 1] ELSE h[(m + 1) - 1] \o ss[m + 1]
      BY <3>1
    <3>3. F(k)[m + 1] = IF m + 1 = 1 THEN ss[m + 1] ELSE k[(m + 1) - 1] \o ss[m + 1]
      BY <3>1
    <3>4. m # 0 => k[m] = f[m]
      BY <1>1
    <3>5. k[m + 1] = f[m + 1]
      BY <3>1
    <3> HIDE DEF F, h, k
    <3>6. h[m + 1] = k[m + 1]
      BY <2>2, <2>3, <2>5, <3>1, <3>2, <3>3, <3>4
    <3> QED BY <3>1, <3>5, <3>6
  <2>6. n \in S
    <3>1. 0 .. n \subseteq S
      <4> HIDE DEF S
      <4> QED BY <1>1, <2>4, <2>5, InductionUpTo
    <3>2. n \in 0 .. n
      BY <1>1
    <3> HIDE DEF S
    <3> QED BY <3>1, <3>2
  <2>7. h[n] = f[n]
    BY <1>1, <1>8, <2>6
  <2> QED BY <1>5, <2>1, <2>7 DEF n
<1> QED BY <1>7, <1>8

----------------------------------------------------------------------------
(* Lists of numbers in strictly ascending order. *)

Ascends(s) == \A i, j \in 1 .. Len(s) : i < j => s[i] < s[j]

\* An ascending list has as many elements as places, and its i-th element is
\* the one with i elements up to it.
LEMMA AscendingRank ==
    ASSUME NEW s \in Seq(Nat), Ascends(s)
    PROVE  /\ IsFiniteSet(Range(s)) /\ Cardinality(Range(s)) = Len(s)
           /\ \A i \in 1 .. Len(s) : Cardinality({q \in Range(s) : q <= s[i]}) = i
<1>1. Len(s) \in Nat /\ \A i \in 1 .. Len(s) : s[i] \in Nat
  BY LenProperties, ElementOfSeq
<1>2. \A i, j \in 1 .. Len(s) : i < j => s[i] < s[j]
  BY DEF Ascends
<1>3. \A i, j \in 1 .. Len(s) : s[i] = s[j] => i = j
  <2> TAKE i, j \in 1 .. Len(s)
  <2>1. i < j \/ j < i \/ i = j
    OBVIOUS
  <2> QED BY <1>1, <1>2, <2>1
<1>4. ASSUME NEW n \in 0 .. Len(s), NEW T, T = {s[i] : i \in 1 .. n}
      PROVE  IsFiniteSet(T) /\ Cardinality(T) = n
  <2> DEFINE f == [i \in 1 .. n |-> s[i]]
  <2>1. f \in [1 .. n -> T] /\ \A t \in T : \E i \in 1 .. n : f[i] = t
    BY <1>4
  <2>2. \A i, j \in 1 .. n : f[i] = f[j] => i = j
    <3>1. \A i \in 1 .. n : i \in 1 .. Len(s)
      BY <1>1
    <3> QED BY <1>3, <3>1
  <2> HIDE DEF f
  <2>3. f \in Surjection(1 .. n, T) /\ f \in Injection(1 .. n, T)
    BY <2>1, <2>2 DEF Surjection, Injection, IsInjective
  <2>4. IsFiniteSet(1 .. n) /\ Cardinality(1 .. n) = n
    BY <1>1, FS_Interval
  <2> QED BY <2>3, <2>4, FS_Surjection
<1>5. Range(s) = {s[i] : i \in 1 .. Len(s)}
  BY LenProperties DEF Range
<1>6. ASSUME NEW i \in 1 .. Len(s)
      PROVE  {q \in Range(s) : q <= s[i]} = {s[j] : j \in 1 .. i}
  <2>1. ASSUME NEW j \in 1 .. Len(s) PROVE s[j] <= s[i] <=> j \in 1 .. i
    <3>1. j < i \/ i < j \/ i = j
      OBVIOUS
    <3> QED BY <1>1, <1>2, <2>1, <3>1
  <2>2. \A j \in 1 .. i : j \in 1 .. Len(s)
    BY <1>1
  <2> QED BY <1>5, <2>1, <2>2
<1>7. \A i \in 1 .. Len(s) : Cardinality({q \in Range(s) : q <= s[i]}) = i
  <2> TAKE i \in 1 .. Len(s)
  <2>1. i \in 0 .. Len(s)
    BY <1>1
  <2> QED BY <1>4, <1>6, <2>1
<1>8. Len(s) \in 0 .. Len(s)
  BY <1>1
<1> QED BY <1>4, <1>5, <1>7, <1>8

\* Two ascending lists, the second above the first, ascend together.
LEMMA AscendingJoined ==
    ASSUME NEW s \in Seq(Nat), NEW t \in Seq(Nat), Ascends(s), Ascends(t),
           \A x \in Range(s), y \in Range(t) : x < y
    PROVE  /\ s \o t \in Seq(Nat) /\ Ascends(s \o t)
           /\ Range(s \o t) = Range(s) \cup Range(t)
<1> DEFINE u == s \o t
           m == Len(s)
           n == Len(t)
<1>1. m \in Nat /\ n \in Nat /\ DOMAIN s = 1 .. m /\ DOMAIN t = 1 .. n
  BY LenProperties
<1>2. /\ u \in Seq(Nat) /\ Len(u) = m + n
      /\ \A i \in 1 .. m + n : u[i] = IF i <= m THEN s[i] ELSE t[i - m]
  BY ConcatProperties
<1>3. DOMAIN u = 1 .. m + n
  BY <1>2, LenProperties
<1> HIDE DEF u, m, n
<1>4. \A i \in 1 .. m : i \in 1 .. m + n /\ u[i] = s[i] /\ s[i] \in Range(s)
  <2> TAKE i \in 1 .. m
  <2>1. i \in 1 .. m + n /\ i <= m
    BY <1>1
  <2>2. u[i] = s[i]
    BY <1>2, <2>1
  <2> QED BY <1>1, <2>1, <2>2 DEF Range
<1>5. \A i \in 1 .. n : m + i \in 1 .. m + n /\ u[m + i] = t[i] /\ t[i] \in Range(t)
  <2> TAKE i \in 1 .. n
  <2>1. m + i \in 1 .. m + n /\ ~(m + i <= m) /\ (m + i) - m = i
    BY <1>1
  <2>2. u[m + i] = t[(m + i) - m]
    BY <1>2, <2>1
  <2> QED BY <1>1, <2>1, <2>2 DEF Range
<1>6. \A i \in 1 .. m + n : i \in 1 .. m \/ (i - m \in 1 .. n /\ i = m + (i - m))
  BY <1>1
<1>7. Range(u) = Range(s) \cup Range(t)
  <2>1. \A x \in Range(u) : x \in Range(s) \cup Range(t)
    <3> TAKE x \in Range(u)
    <3>1. PICK i \in 1 .. m + n : u[i] = x
      BY <1>3 DEF Range
    <3> QED BY <1>4, <1>5, <1>6, <3>1
  <2>2. \A x \in Range(s) : x \in Range(u)
    BY <1>1, <1>3, <1>4 DEF Range
  <2>3. \A x \in Range(t) : x \in Range(u)
    BY <1>1, <1>3, <1>5 DEF Range
  <2> QED BY <2>1, <2>2, <2>3
<1>8. ASSUME NEW i \in 1 .. m + n, NEW j \in 1 .. m + n, i < j PROVE u[i] < u[j]
  <2>1. CASE i \in 1 .. m /\ j \in 1 .. m
    BY <1>4, <1>8, <2>1 DEF Ascends, m
  <2>2. CASE i \in 1 .. m /\ j - m \in 1 .. n
    <3>1. u[i] = s[i] /\ s[i] \in Range(s) /\ u[j] = t[j - m] /\ t[j - m] \in Range(t)
      BY <1>4, <1>5, <1>6, <1>1, <2>2
    <3> QED BY <3>1
  <2>3. CASE i - m \in 1 .. n /\ j - m \in 1 .. n
    <3>1. u[i] = t[i - m] /\ u[j] = t[j - m] /\ i - m < j - m
      BY <1>1, <1>5, <1>6, <1>8, <2>3
    <3> QED BY <2>3, <3>1 DEF Ascends, n
  <2> QED BY <1>1, <1>6, <1>8, <2>1, <2>2, <2>3
<1>9. Ascends(u)
  BY <1>2, <1>8 DEF Ascends
<1> QED BY <1>2, <1>7, <1>9 DEF u

\* So do any number of them, one above the other.
LEMMA AscendingFlattened ==
    ASSUME NEW ss \in Seq(Seq(Nat)), \A k \in 1 .. Len(ss) : Ascends(ss[k]),
           \A k, l \in 1 .. Len(ss) : k < l =>
               \A x \in Range(ss[k]), y \in Range(ss[l]) : x < y
    PROVE  /\ FlattenSeq(ss) \in Seq(Nat) /\ Ascends(FlattenSeq(ss))
           /\ \A x : x \in Range(FlattenSeq(ss)) <=> \E k \in 1 .. Len(ss) : x \in Range(ss[k])
<1> DEFINE n == Len(ss)
<1>1. n \in Nat /\ \A k \in 1 .. n : ss[k] \in Seq(Nat)
  BY LenProperties, ElementOfSeq
<1>2. PICK f \in [0 .. n -> Seq(Nat)] :
              /\ f[0] = <<>> /\ f[n] = FlattenSeq(ss)
              /\ \A i \in 1 .. n : f[i] = f[i - 1] \o ss[i]
  BY Flattened
<1> DEFINE Upto(m) == /\ f[m] \in Seq(Nat) /\ Ascends(f[m])
                      /\ \A x : x \in Range(f[m]) <=> \E k \in 1 .. m : x \in Range(ss[k])
           T == {m \in 0 .. n : Upto(m)}
<1> HIDE DEF n
<1>3. 0 \in T
  <2>1. <<>> \in Seq(Nat) /\ Len(<<>>) = 0 /\ Range(<<>>) = {} /\ 1 .. 0 = {}
    BY EmptySeq DEF Range
  <2>2. Upto(0)
    BY <1>2, <2>1 DEF Ascends
  <2> QED BY <1>1, <2>2
<1>4. ASSUME NEW m \in 0 .. n - 1, m \in T PROVE m + 1 \in T
  <2>1. Upto(m) /\ m + 1 \in 1 .. n /\ (m + 1) - 1 = m
    BY <1>1, <1>4
  <2>2. f[m + 1] = f[m] \o ss[m + 1]
    BY <1>2, <2>1
  <2>3. ss[m + 1] \in Seq(Nat) /\ Ascends(ss[m + 1])
    BY <1>1, <2>1 DEF n
  <2>4. ASSUME NEW x \in Range(f[m]), NEW y \in Range(ss[m + 1]) PROVE x < y
    <3>1. PICK k \in 1 .. m : x \in Range(ss[k])
      BY <2>1
    <3>2. k \in 1 .. Len(ss) /\ m + 1 \in 1 .. Len(ss) /\ k < m + 1
      BY <1>1, <2>1 DEF n
    <3> QED BY <3>1, <3>2
  <2>5. /\ f[m + 1] \in Seq(Nat) /\ Ascends(f[m + 1])
        /\ Range(f[m + 1]) = Range(f[m]) \cup Range(ss[m + 1])
    BY <2>1, <2>2, <2>3, <2>4, AscendingJoined
  <2>6. \A k : k \in 1 .. m + 1 <=> k \in 1 .. m \/ k = m + 1
    BY <2>1
  <2>7. Upto(m + 1)
    BY <2>1, <2>5, <2>6
  <2> HIDE DEF Upto
  <2> QED BY <1>1, <2>1, <2>7
<1>5. n \in T
  <2>1. 0 .. n \subseteq T
    <3> HIDE DEF T
    <3> QED BY <1>1, <1>3, <1>4, InductionUpTo
  <2>2. n \in 0 .. n
    BY <1>1
  <2> HIDE DEF T
  <2> QED BY <2>1, <2>2
<1> QED BY <1>2, <1>5 DEF n
=============================================================================
