-------------------------- MODULE RadixTree_proofs --------------------------
(***************************************************************************)
(* Proofs about RadixTree: whatever pages the callers use, the tree is the *)
(* paths of its pages and nothing else, and the leftmost descent finds the *)
(* smallest of them.  Paths(K) is the tree of a set K of pages; each       *)
(* operation on Paths(K) is shown to be the set operation on K.            *)
(***************************************************************************)
EXTENDS RadixTree, SeqLemmas

\* 16 bits hold natural numbers, 0 and 1 among them.
LEMMA LargestIsNatural == UINT16_MAX \in Nat /\ 1 <= UINT16_MAX
BY DEF UINT16_MAX
LEMMA PageIsNatural == \A q \in PageNumbers : q \in Nat /\ q <= UINT16_MAX
BY LargestIsNatural DEF PageNumbers
LEMMA ZeroAndOne == 0 \in PageNumbers /\ 1 \in PageNumbers
BY LargestIsNatural DEF PageNumbers

\* Shifting right by four bits twice is shifting by eight.
LEMMA Shift16 == \A q \in Nat : q \div 16 \in Nat
OBVIOUS
LEMMA Shift256 == \A q \in Nat : q \div 256 \in Nat
OBVIOUS
LEMMA Shift4096 == \A q \in Nat : q <= UINT16_MAX => q \div 4096 \in 0 .. 15
BY DEF UINT16_MAX
LEMMA Shift16Twice == \A q \in Nat : q \div 256 = (q \div 16) \div 16
OBVIOUS
LEMMA Shift256Then16 == \A q \in Nat : q \div 4096 = (q \div 256) \div 16
OBVIOUS

\* The prefixes of a page number, level by level (page_no >> 12, 8, 4, 0).
LEMMA PrefixValues ==
    ASSUME NEW q \in PageNumbers
    PROVE  /\ PrefixAt(q, 1) = q \div 4096 /\ PrefixAt(q, 2) = q \div 256
           /\ PrefixAt(q, 3) = q \div 16   /\ PrefixAt(q, 4) = q
BY PageIsNatural DEF PrefixAt, Shifts

\* The first digit of a 16-bit page number is an index of the root's children.
LEMMA FirstDigit ==
    ASSUME NEW q \in PageNumbers
    PROVE  PrefixAt(q, 1) \in 0 .. 15
<1>1. q \div 4096 \in 0 .. 15  BY Shift4096, PageIsNatural
<1> QED BY <1>1, PrefixValues

\* The last prefix of a page number is the page number itself.
LEMMA LastPrefix ==
    ASSUME NEW q \in PageNumbers
    PROVE  PrefixAt(q, 4) = q
BY PrefixValues

\* Every prefix is a natural number.
LEMMA PrefixType ==
    ASSUME NEW q \in PageNumbers, NEW level \in 1 .. 4
    PROVE  PrefixAt(q, level) \in Nat
<1>1. PrefixAt(q, 1) \in Nat  BY FirstDigit
<1>2. PrefixAt(q, 2) \in Nat
  <2>1. q \div 256 \in Nat  BY Shift256, PageIsNatural
  <2>2. PrefixAt(q, 2) = q \div 256  BY PrefixValues
  <2> QED BY <2>1, <2>2, Zenon
<1>3. PrefixAt(q, 3) \in Nat
  <2>1. q \div 16 \in Nat  BY Shift16, PageIsNatural
  <2>2. PrefixAt(q, 3) = q \div 16  BY PrefixValues
  <2> QED BY <2>1, <2>2, Zenon
<1>4. PrefixAt(q, 4) \in Nat
  <2>1. q \in Nat  BY PageIsNatural
  <2> QED BY <2>1, LastPrefix
<1>5. level = 1 \/ level = 2 \/ level = 3 \/ level = 4  OBVIOUS
<1> QED BY <1>1, <1>2, <1>3, <1>4, <1>5

\* From one level up, a prefix loses its last digit.
LEMMA PrefixOfPrefix ==
    ASSUME NEW q \in PageNumbers, NEW level \in 1 .. 3
    PROVE  PrefixAt(q, level) = PrefixAt(q, level + 1) \div 16
<1>1. PrefixAt(q, 1) = PrefixAt(q, 2) \div 16
  <2>1. q \div 4096 = (q \div 256) \div 16  BY Shift256Then16, PageIsNatural
  <2>2. PrefixAt(q, 1) = q \div 4096 /\ PrefixAt(q, 2) = q \div 256
        BY PrefixValues
  <2> QED BY <2>1, <2>2
<1>2. PrefixAt(q, 2) = PrefixAt(q, 3) \div 16
  <2>1. q \div 256 = (q \div 16) \div 16  BY Shift16Twice, PageIsNatural
  <2>2. PrefixAt(q, 2) = q \div 256 /\ PrefixAt(q, 3) = q \div 16
        BY PrefixValues
  <2> QED BY <2>1, <2>2
<1>3. PrefixAt(q, 3) = PrefixAt(q, 4) \div 16
  <2>1. PrefixAt(q, 3) = q \div 16 /\ PrefixAt(q, 4) = q  BY PrefixValues
  <2> QED BY <2>1
<1>4. \/ level = 1 /\ level + 1 = 2
      \/ level = 2 /\ level + 1 = 3
      \/ level = 3 /\ level + 1 = 4
      OBVIOUS
<1> QED BY <1>1, <1>2, <1>3, <1>4, Zenon

\* A number is its quotient by 16 followed by a digit, and back.
LEMMA Digits ==
    /\ \A n \in Nat : \E i \in 0 .. 15 : n = 16 * (n \div 16) + i
    /\ \A n \in Nat, i \in 0 .. 15 : (16 * n + i) \div 16 = n
<1>1. ASSUME NEW n \in Nat  PROVE \E i \in 0 .. 15 : n = 16 * (n \div 16) + i
  <2>1. n % 16 \in 0 .. 15  OBVIOUS
  <2>2. n = 16 * (n \div 16) + (n % 16)  OBVIOUS
  <2> QED BY <2>1, <2>2
<1>2. ASSUME NEW n \in Nat, NEW i \in 0 .. 15  PROVE (16 * n + i) \div 16 = n
  OBVIOUS
<1> QED BY <1>1, <1>2

\* Membership of a node in the tree of K, level by level.
LEMMA InPaths ==
    ASSUME NEW K \in SUBSET PageNumbers, NEW level \in 1 .. 4, NEW prefix
    PROVE  <<level, prefix>> \in Paths(K)
               <=> \E q \in K : PrefixAt(q, level) = prefix
<1>1. ASSUME <<level, prefix>> \in Paths(K)
      PROVE  \E q \in K : PrefixAt(q, level) = prefix
      BY <1>1 DEF Paths, PathNode, LEVELS
<1>2. ASSUME NEW q \in K, PrefixAt(q, level) = prefix
      PROVE  <<level, prefix>> \in Paths(K)
      BY <1>2 DEF Paths, PathNode, LEVELS
<1> QED BY <1>1, <1>2

\* The leaves of the tree of K are the pages of K.
LEMMA KeysOfPaths ==
    ASSUME NEW K \in SUBSET PageNumbers
    PROVE  Keys(Paths(K)) = K
<1>1. ASSUME NEW k \in Keys(Paths(K))  PROVE k \in K
  <2>1. PICK n \in Paths(K) : n[1] = LEVELS /\ n[2] = k  BY <1>1 DEF Keys
  <2>2. PICK q \in K, level \in 1 .. 4 : n = <<level, PrefixAt(q, level)>>
        BY <2>1 DEF Paths, PathNode, LEVELS
  <2>3. level = 4 /\ k = PrefixAt(q, 4)  BY <2>1, <2>2 DEF LEVELS
  <2> QED BY <2>2, <2>3, LastPrefix
<1>2. ASSUME NEW k \in K  PROVE k \in Keys(Paths(K))
  <2>1. <<4, k>> \in Paths(K)  BY InPaths, LastPrefix
  <2> QED BY <2>1 DEF Keys, LEVELS
<1> QED BY <1>1, <1>2

\* radix_tree_insert adds one page to the set.
LEMMA InsertAddsPage ==
    ASSUME NEW K \in SUBSET PageNumbers, NEW p \in PageNumbers
    PROVE  radix_tree_insert(Paths(K), p) = Paths(K \cup {p})
BY DEF radix_tree_insert, Paths

\* The tree of K with the upper n nodes of the path of p.
Stump(K, p, n) == Paths(K) \cup {PathNode(p, l) : l \in 1 .. n}

\* One round of the cleanup of radix_tree_delete: above the level reached, the
\* nodes of the removed page are still there; the round takes this level's node
\* away exactly when no remaining page runs through it.
LEMMA PruneRound ==
    ASSUME NEW K \in SUBSET PageNumbers, NEW p \in PageNumbers, NEW level \in 1 .. 3
    PROVE  Prune(Stump(K, p, level), p, level) = Stump(K, p, level - 1)
<1> DEFINE N    == Stump(K, p, level)
           here == PrefixAt(p, level)
           M    == Stump(K, p, level - 1)
<1> USE DEF Stump
<1>1. ASSUME NEW q \in K, PrefixAt(q, level) = here
      PROVE  Children(N, level, here) # {}
  <2> DEFINE down == PrefixAt(q, level + 1)
  <2>1. down \in Nat /\ here = down \div 16
        BY <1>1, PrefixOfPrefix, PrefixType
  <2>2. PICK i \in 0 .. 15 : down = 16 * (down \div 16) + i
        BY <2>1, Digits, Zenon
  <2>3. <<level + 1, down>> \in N  BY InPaths
  <2>4. down = 16 * here + i  BY <2>1, <2>2, Zenon
  <2> QED BY <2>3, <2>4 DEF Children, RADIX_SIZE
<1>2. ASSUME NEW i \in Children(N, level, here)
      PROVE  \E q \in K : PrefixAt(q, level) = here
  <2> DEFINE down == 16 * here + i
  <2>1. i \in 0 .. 15 /\ <<level + 1, down>> \in N
        BY <1>2 DEF Children, RADIX_SIZE
  <2>2. <<level + 1, down>> \in Paths(K)
        BY <2>1 DEF PathNode
  <2>3. PICK q \in K : PrefixAt(q, level + 1) = down
        BY <2>2, InPaths
  <2>4. here \in Nat  BY PrefixType
  <2>5. down \div 16 = here  BY <2>1, <2>4, Digits
  <2> QED BY <2>3, <2>5, PrefixOfPrefix
<1>3. Prune(N, p, level) = IF Children(N, level, here) = {}
                           THEN N \ {PathNode(p, level)} ELSE N
      BY DEF Prune
<1>4. N = M \cup {PathNode(p, level)}  BY DEF PathNode
<1>5. PathNode(p, level) \in Paths(K)
          <=> \E q \in K : PrefixAt(q, level) = here
      BY InPaths DEF PathNode
<1>6. PathNode(p, level) \notin {PathNode(p, l) : l \in 1 .. level - 1}
      BY DEF PathNode
<1>7. CASE Children(N, level, here) = {}
  <2>1. PathNode(p, level) \notin Paths(K)  BY <1>1, <1>5, <1>7
  <2> QED BY <1>3, <1>4, <1>6, <1>7, <2>1
<1>8. CASE Children(N, level, here) # {}
  <2>1. PathNode(p, level) \in Paths(K)  BY <1>2, <1>5, <1>8
  <2> QED BY <1>3, <1>4, <1>8, <2>1
<1> QED BY <1>7, <1>8

\* radix_tree_lookup's descent arrives exactly for the pages of the set.
LEMMA PathOfPage ==
    ASSUME NEW K \in SUBSET PageNumbers, NEW p \in PageNumbers
    PROVE  HasPath(Paths(K), p) <=> p \in K
<1>1. ASSUME p \in K  PROVE HasPath(Paths(K), p)
      BY <1>1, InPaths DEF HasPath, PathNode, LEVELS
<1>2. ASSUME HasPath(Paths(K), p)  PROVE p \in K
  <2>1. <<4, PrefixAt(p, 4)>> \in Paths(K)
        BY <1>2 DEF HasPath, PathNode, LEVELS
  <2>2. PICK q \in K : PrefixAt(q, 4) = PrefixAt(p, 4)  BY <2>1, InPaths
  <2> QED BY <2>2, LastPrefix
<1> QED BY <1>1, <1>2

\* radix_tree_delete takes one page out of the set; page 0 stays where it is.
LEMMA DeleteRemovesPage ==
    ASSUME NEW K \in SUBSET PageNumbers, NEW p \in PageNumbers
    PROVE  radix_tree_delete(Paths(K), p)
               = IF p = 0 THEN Paths(K) ELSE Paths(K \ {p})
<1>1. HasPath(Paths(K), p) <=> p \in K  BY PathOfPage
<1>2. CASE p = 0 \/ p \notin K
  <2>1. K \ {p} = K \/ p = 0  BY <1>2
  <2> QED BY <1>1, <1>2, <2>1 DEF radix_tree_delete
<1>3. CASE p # 0 /\ p \in K
  <2> DEFINE R == K \ {p}
  <2>1. Paths(K) \ {PathNode(p, 4)} = Stump(R, p, 3)
    <3>1. Paths(K) = Paths(R) \cup {PathNode(p, l) : l \in 1 .. 4}
          BY <1>3 DEF Paths, LEVELS
    <3>2. PathNode(p, 4) \notin Paths(R)
      <4>1. ASSUME <<4, PrefixAt(p, 4)>> \in Paths(R)  PROVE FALSE
        <5>1. PICK q \in R : PrefixAt(q, 4) = PrefixAt(p, 4)
              BY <4>1, InPaths
        <5> QED BY <5>1, LastPrefix
      <4> QED BY <4>1 DEF PathNode
    <3>3. {PathNode(p, l) : l \in 1 .. 4} \ {PathNode(p, 4)}
              = {PathNode(p, l) : l \in 1 .. 3}
          BY DEF PathNode
    <3> QED BY <3>1, <3>2, <3>3 DEF Stump
  <2>2. Prune(Stump(R, p, 3), p, 3) = Stump(R, p, 2)
    <3>1. Prune(Stump(R, p, 3), p, 3) = Stump(R, p, 3 - 1)  BY PruneRound
    <3> QED BY <3>1
  <2>3. Prune(Stump(R, p, 2), p, 2) = Stump(R, p, 1)
    <3>1. Prune(Stump(R, p, 2), p, 2) = Stump(R, p, 2 - 1)  BY PruneRound
    <3> QED BY <3>1
  <2>4. Prune(Stump(R, p, 1), p, 1) = Stump(R, p, 0)
    <3>1. Prune(Stump(R, p, 1), p, 1) = Stump(R, p, 1 - 1)  BY PruneRound
    <3> QED BY <3>1
  <2>5. Stump(R, p, 0) = Paths(R)  BY DEF Stump
  <2> QED BY <1>1, <1>3, <2>1, <2>2, <2>3, <2>4, <2>5 DEF radix_tree_delete
<1> QED BY <1>2, <1>3

\* The scan for the first non-NULL child of a node that has one ends there.
LEMMA LeastIndex ==
    ASSUME NEW C \in SUBSET (0 .. 15), C # {}
    PROVE  \E i \in C : \A j \in C : i <= j
<1> DEFINE From(n) == \A j \in C : n <= j
<1>1. SUFFICES ASSUME \A i \in C : ~From(i)  PROVE FALSE
      OBVIOUS
<1>2. \A n \in Nat : From(n) => From(n + 1)  BY <1>1
<1> HIDE DEF From
<1>3. \A n \in Nat : From(n) => From(n + 2)
  <2>1. \A n \in Nat : n + 1 \in Nat /\ (n + 1) + 1 = n + 2  OBVIOUS
  <2> QED BY <1>2, <2>1
<1>4. \A n \in Nat : From(n) => From(n + 4)
  <2>1. \A n \in Nat : n + 2 \in Nat /\ (n + 2) + 2 = n + 4  OBVIOUS
  <2> QED BY <1>3, <2>1
<1>5. \A n \in Nat : From(n) => From(n + 8)
  <2>1. \A n \in Nat : n + 4 \in Nat /\ (n + 4) + 4 = n + 8  OBVIOUS
  <2> QED BY <1>4, <2>1
<1>6. From(0)  BY DEF From
<1>7. From(8)
  <2>1. 0 + 8 = 8  OBVIOUS
  <2> QED BY <1>5, <1>6, <2>1
<1>8. From(16)
  <2>1. 8 + 8 = 16  OBVIOUS
  <2> QED BY <1>5, <1>7, <2>1
<1>9. PICK j \in C : j \in 0 .. 15  OBVIOUS
<1>10. 16 <= j  BY <1>8 DEF From
<1> QED BY <1>9, <1>10

\* One round of the leftmost descent: if a prefix is the smallest one in use at
\* its level, the first child of its node is the smallest one at the next level.
LEMMA DescentRound ==
    ASSUME NEW K \in SUBSET PageNumbers, NEW level \in 1 .. 3, NEW c \in Nat,
           \E q \in K : PrefixAt(q, level) = c,
           \A q \in K : c <= PrefixAt(q, level)
    PROVE  LET d == LeftChild(Paths(K), level, c)
           IN  /\ d \in Nat
               /\ \E q \in K : PrefixAt(q, level + 1) = d
               /\ \A q \in K : d <= PrefixAt(q, level + 1)
<1> DEFINE C == Children(Paths(K), level, c)
           i == CHOOSE n \in C : \A j \in C : n <= j
           d == LeftChild(Paths(K), level, c)
<1>1. \A j : j \in C <=> /\ j \in 0 .. 15
                         /\ \E q \in K : PrefixAt(q, level + 1) = 16 * c + j
      BY InPaths DEF Children, RADIX_SIZE
<1>2. ASSUME NEW q \in K, PrefixAt(q, level) = c
      PROVE  \E j \in C : PrefixAt(q, level + 1) = 16 * c + j
  <2>1. PrefixAt(q, level + 1) \in Nat  BY PrefixType
  <2>2. PrefixAt(q, level + 1) \div 16 = c  BY <1>2, PrefixOfPrefix
  <2>3. PICK j \in 0 .. 15 :
            PrefixAt(q, level + 1) = 16 * (PrefixAt(q, level + 1) \div 16) + j
        BY <2>1, Digits, Zenon
  <2> QED BY <1>1, <2>2, <2>3, Zenon
<1>3. C # {}  BY <1>2
<1>4. C \subseteq 0 .. 15  BY <1>1
<1>5. i \in C /\ \A j \in C : i <= j  BY <1>3, <1>4, LeastIndex
<1>6. d = 16 * c + i
  <2>1. c # NoNode  BY DEF NoNode
  <2> QED BY <1>3, <2>1 DEF LeftChild, RADIX_SIZE
<1>7. d \in Nat  BY <1>4, <1>5, <1>6
<1>8. \E q \in K : PrefixAt(q, level + 1) = d  BY <1>1, <1>5, <1>6
<1>9. ASSUME NEW q \in K  PROVE d <= PrefixAt(q, level + 1)
  <2> DEFINE x == PrefixAt(q, level + 1)
             y == PrefixAt(q, level)
  <2> SUFFICES d <= x  OBVIOUS
  <2>1. x \in Nat /\ y \in Nat /\ c <= y  BY PrefixType
  <2>2. CASE y = c
    <3>1. PICK j \in C : x = 16 * c + j  BY <1>2, <2>2
    <3> QED BY <1>4, <1>5, <1>6, <3>1
  <2>3. CASE c < y
    <3>1. x \div 16 = y  BY PrefixOfPrefix
    <3>2. PICK j \in 0 .. 15 : x = 16 * (x \div 16) + j
          BY <2>1, Digits, Zenon
    <3>3. x = 16 * y + j  BY <3>1, <3>2, Zenon
    <3>4. i \in 0 .. 15  BY <1>4, <1>5
    <3> HIDE DEF x, y, i, d
    <3> QED BY <1>6, <2>1, <2>3, <3>3, <3>4
  <2> QED BY <2>1, <2>2, <2>3
<1> QED BY <1>7, <1>8, <1>9

\* radix_tree_peek_min and radix_tree_pop_min descend to the smallest page.
LEMMA LeftmostOfPaths ==
    ASSUME NEW K \in SUBSET PageNumbers
    PROVE  IF K = {} THEN Leftmost(Paths(K)) = NoNode
           ELSE /\ Leftmost(Paths(K)) \in K
                /\ \A p \in K : Leftmost(Paths(K)) <= p
<1> DEFINE C  == Children(Paths(K), 0, 0)
           d1 == LeftChild(Paths(K), 0, 0)
           d2 == LeftChild(Paths(K), 1, d1)
           d3 == LeftChild(Paths(K), 2, d2)
           d4 == LeftChild(Paths(K), 3, d3)
<1>1. Leftmost(Paths(K)) = d4  BY DEF Leftmost
<1>2. \A j : j \in C <=> j \in 0 .. 15 /\ \E q \in K : PrefixAt(q, 1) = j
  <2>1. \A j : j \in C <=> j \in 0 .. 15 /\ <<1, j>> \in Paths(K)
    <3>1. 0 + 1 = 1 /\ \A j \in 0 .. 15 : 16 * 0 + j = j  OBVIOUS
    <3> QED BY <3>1 DEF Children, RADIX_SIZE
  <2>2. ASSUME NEW j
        PROVE  <<1, j>> \in Paths(K) <=> \E q \in K : PrefixAt(q, 1) = j
        BY DEF Paths, PathNode, LEVELS
  <2> HIDE DEF C
  <2> QED BY <2>1, <2>2
<1>3. CASE K = {}
  <2>1. C = {}
    <3>1. ASSUME NEW j \in C  PROVE FALSE  BY <1>2, <1>3
    <3> QED BY <3>1
  <2>2. d1 = NoNode  BY <2>1 DEF LeftChild
  <2> HIDE DEF d1
  <2>3. d2 = NoNode  BY <2>2 DEF LeftChild
  <2> HIDE DEF d2
  <2>4. d3 = NoNode  BY <2>3 DEF LeftChild
  <2> HIDE DEF d3
  <2>5. d4 = NoNode  BY <2>4 DEF LeftChild
  <2> HIDE DEF d4
  <2> QED BY <1>1, <1>3, <2>5
<1>4. CASE K # {}
  <2> DEFINE i == CHOOSE n \in C : \A j \in C : n <= j
  <2>1. C \subseteq 0 .. 15 /\ C # {}
    <3>1. PICK q \in K : TRUE  BY <1>4
    <3>2. PrefixAt(q, 1) \in C  BY <1>2, FirstDigit
    <3> QED BY <1>2, <3>2
  <2>2. i \in C /\ \A j \in C : i <= j  BY <2>1, LeastIndex
  <2>3. d1 = i
    <3>1. 0 # NoNode  BY DEF NoNode
    <3>2. i \in 0 .. 15  BY <2>1, <2>2
    <3> QED BY <2>1, <3>1, <3>2 DEF LeftChild, RADIX_SIZE
  <2>4. /\ d1 \in Nat
        /\ \E q \in K : PrefixAt(q, 1) = d1
        /\ \A q \in K : d1 <= PrefixAt(q, 1)
    <3>1. d1 \in Nat  BY <2>1, <2>2, <2>3
    <3>2. \E q \in K : PrefixAt(q, 1) = d1  BY <1>2, <2>2, <2>3
    <3>3. \A q \in K : PrefixAt(q, 1) \in C  BY <1>2, FirstDigit
    <3> QED BY <2>2, <2>3, <3>1, <3>2, <3>3
  <2> HIDE DEF i, d1, d2, d3, d4
  <2>5. /\ d2 \in Nat
        /\ \E q \in K : PrefixAt(q, 2) = d2
        /\ \A q \in K : d2 <= PrefixAt(q, 2)
    <3>1. 1 + 1 = 2  OBVIOUS
    <3> QED BY <2>4, <3>1, DescentRound DEF d2
  <2>6. /\ d3 \in Nat
        /\ \E q \in K : PrefixAt(q, 3) = d3
        /\ \A q \in K : d3 <= PrefixAt(q, 3)
    <3>1. 2 + 1 = 3  OBVIOUS
    <3> QED BY <2>5, <3>1, DescentRound DEF d3
  <2>7. /\ d4 \in Nat
        /\ \E q \in K : PrefixAt(q, 4) = d4
        /\ \A q \in K : d4 <= PrefixAt(q, 4)
    <3>1. 3 + 1 = 4  OBVIOUS
    <3> QED BY <2>6, <3>1, DescentRound DEF d4
  <2> QED BY <1>1, <1>4, <2>7, LastPrefix
<1> QED BY <1>3, <1>4

----------------------------------------------------------------------------
(* The inductive invariant: the nodes are the paths of some set of pages.  *)
IInv == \E K \in SUBSET PageNumbers : nodes = Paths(K)

\* A tree that is the paths of some set of pages is the paths of its own pages.
LEMMA IInvIsPathsComplete == IInv => PathsComplete
<1> SUFFICES ASSUME IInv  PROVE PathsComplete
    OBVIOUS
<1>1. PICK K \in SUBSET PageNumbers : nodes = Paths(K)  BY DEF IInv
<1>2. Keys(nodes) = K  BY <1>1, KeysOfPaths
<1> QED BY <1>1, <1>2 DEF PathsComplete

\* radix_tree_create returns the tree of the empty set.
LEMMA IInvInit == Init => IInv
<1> SUFFICES ASSUME Init  PROVE IInv
    OBVIOUS
<1>1. nodes = Paths({})  BY DEF Init, Paths
<1> QED BY <1>1 DEF IInv

\* What radix_tree_peek_min answers for the tree of K.
LEMMA PeekOfPaths ==
    ASSUME NEW K \in SUBSET PageNumbers
    PROVE  /\ radix_tree_peek_min(Paths(K)) \in PageNumbers
           /\ K = {} => radix_tree_peek_min(Paths(K)) = 0
           /\ K # {} => radix_tree_peek_min(Paths(K)) = Leftmost(Paths(K))
<1>1. CASE K = {}
  <2>1. Leftmost(Paths(K)) = NoNode  BY <1>1, LeftmostOfPaths
  <2>2. 0 \in PageNumbers  BY ZeroAndOne
  <2> QED BY <1>1, <2>1, <2>2 DEF radix_tree_peek_min
<1>2. CASE K # {}
  <2>1. Leftmost(Paths(K)) \in PageNumbers  BY <1>2, LeftmostOfPaths
  <2>2. NoNode \notin PageNumbers  BY PageIsNatural DEF NoNode
  <2> QED BY <1>2, <2>1, <2>2 DEF radix_tree_peek_min
<1> QED BY <1>1, <1>2

\* freelist_to_radix inserts the nonzero entries of the list.
Listed(list) == {list[i] : i \in DOMAIN list} \ {0}

LEMMA LoadAddsPages ==
    ASSUME NEW K \in SUBSET PageNumbers, NEW list \in Freelists
    PROVE  /\ Listed(list) \in SUBSET PageNumbers /\ 0 \notin Listed(list)
           /\ freelist_to_radix(Paths(K), list) = Paths(K \cup Listed(list))
<1> DEFINE I == {k \in DOMAIN list : list[k] # 0}
           L == Listed(list)
<1>1. L = {list[k] : k \in I} /\ L \subseteq PageNumbers /\ 0 \notin L
      BY FreelistsHoldPages DEF Listed
<1> HIDE DEF L
<1>2. UNION {radix_tree_insert({}, list[k]) : k \in I} = Paths(L)
      BY <1>1 DEF radix_tree_insert, Paths, PathNode
<1>3. Paths(K) \cup Paths(L) = Paths(K \cup L)  BY DEF Paths
<1> QED BY <1>1, <1>2, <1>3 DEF freelist_to_radix, L

\* Every call turns the tree of a set of pages into the tree of a set of pages.
LEMMA IInvNext == IInv /\ [Next]_vars => IInv'
<1> SUFFICES ASSUME IInv, [Next]_vars  PROVE IInv'
    OBVIOUS
<1>1. PICK K \in SUBSET PageNumbers : nodes = Paths(K)  BY DEF IInv
<1>2. ASSUME NEW p \in Pages, Insert(p)  PROVE IInv'
  <2>1. nodes' = Paths(K \cup {p})
        BY <1>1, <1>2, PagesAre16Bit, InsertAddsPage DEF Insert
  <2>2. K \cup {p} \in SUBSET PageNumbers  BY PagesAre16Bit
  <2> QED BY <2>1, <2>2 DEF IInv
<1>3. ASSUME NEW p \in Pages, Delete(p)  PROVE IInv'
  <2>1. nodes' = IF p = 0 THEN Paths(K) ELSE Paths(K \ {p})
        BY <1>1, <1>3, PagesAre16Bit, DeleteRemovesPage DEF Delete
  <2> QED BY <2>1 DEF IInv
<1>4. CASE PopMin
  <2> DEFINE p == radix_tree_peek_min(Paths(K))
  <2>1. p \in PageNumbers  BY PeekOfPaths
  <2>2. nodes' = IF p = 0 THEN Paths(K) ELSE Paths(K \ {p})
        BY <1>1, <1>4, <2>1, DeleteRemovesPage DEF PopMin
  <2> QED BY <2>2 DEF IInv
<1>5. ASSUME NEW list \in Freelists, Load(list)  PROVE IInv'
  <2>1. Listed(list) \in SUBSET PageNumbers /\ nodes' = Paths(K \cup Listed(list))
        BY <1>1, <1>5, LoadAddsPages DEF Load
  <2> QED BY <2>1 DEF IInv
<1>6. CASE Recreate
  <2>1. nodes' = Paths({})  BY <1>6 DEF Recreate, Paths
  <2> QED BY <2>1 DEF IInv
<1>7. CASE UNCHANGED nodes  BY <1>7 DEF IInv
<1> QED BY <1>2, <1>3, <1>4, <1>5, <1>6, <1>7
        DEF Next, Lookup, PeekMin, Collect, vars

----------------------------------------------------------------------------
\* radix_tree_delete neither leaves an inner node that leads nowhere nor cuts
\* the path of a page that is still free, whatever the callers insert, delete,
\* pop and load: the tree is always exactly the paths of its pages.
THEOREM TreeIsPathsOfItsPages == Spec => []PathsComplete
BY IInvInit, IInvNext, IInvIsPathsComplete, PTL DEF Spec

\* The first-child descent of radix_tree_peek_min and radix_tree_pop_min
\* always reaches the smallest page of the tree.
THEOREM DescentFindsSmallest == Spec => []LeftmostIsSmallest
<1>1. IInv => LeftmostIsSmallest
  <2> SUFFICES ASSUME IInv  PROVE LeftmostIsSmallest
      OBVIOUS
  <2>1. PICK K \in SUBSET PageNumbers : nodes = Paths(K)  BY DEF IInv
  <2>2. Keys(nodes) = K  BY <2>1, KeysOfPaths
  <2> QED BY <2>1, <2>2, LeftmostOfPaths DEF LeftmostIsSmallest
<1> QED BY <1>1, IInvInit, IInvNext, PTL DEF Spec

\* Page 0 gets into the tree only through radix_tree_insert: the load from a
\* freelist skips it.
LEMMA ZeroStaysOut ==
    ASSUME 0 \notin Pages, IInv, 0 \notin Keys(nodes), [Next]_vars
    PROVE  0 \notin Keys(nodes')
<1>1. PICK K \in SUBSET PageNumbers : nodes = Paths(K)  BY DEF IInv
<1>2. 0 \notin K  BY <1>1, KeysOfPaths
<1> SUFFICES \E K2 \in SUBSET PageNumbers : nodes' = Paths(K2) /\ 0 \notin K2
    BY KeysOfPaths
<1>3. ASSUME NEW p \in Pages, Insert(p)
      PROVE  nodes' = Paths(K \cup {p}) /\ p # 0 /\ p \in PageNumbers
      BY <1>1, <1>3, PagesAre16Bit, InsertAddsPage DEF Insert
<1>4. ASSUME NEW p \in Pages, Delete(p)
      PROVE  nodes' = Paths(K) \/ nodes' = Paths(K \ {p})
      BY <1>1, <1>4, PagesAre16Bit, DeleteRemovesPage DEF Delete
<1>5. ASSUME PopMin
      PROVE  \E p : nodes' = Paths(K) \/ nodes' = Paths(K \ {p})
      BY <1>1, <1>5, PeekOfPaths, DeleteRemovesPage DEF PopMin
<1>6. ASSUME NEW list \in Freelists, Load(list)
      PROVE  \E L \in SUBSET PageNumbers : 0 \notin L /\ nodes' = Paths(K \cup L)
      BY <1>1, <1>6, LoadAddsPages DEF Load
<1>7. ASSUME Recreate  PROVE nodes' = Paths({})
      BY <1>7 DEF Recreate, Paths
<1>8. CASE UNCHANGED nodes  BY <1>1, <1>2, <1>8
<1>9. ASSUME NEW p, nodes' = Paths(K \ {p})
      PROVE  \E K2 \in SUBSET PageNumbers : nodes' = Paths(K2) /\ 0 \notin K2
  <2>1. K \ {p} \in SUBSET PageNumbers /\ 0 \notin K \ {p}  BY <1>2
  <2> QED BY <1>9, <2>1
<1>10. CASE \E p \in Pages : Insert(p)  BY <1>2, <1>3, <1>10
<1>11. CASE \E p \in Pages : Delete(p)  BY <1>2, <1>4, <1>9, <1>11
<1>12. CASE PopMin  BY <1>2, <1>5, <1>9, <1>12
<1>13. CASE \E list \in Freelists : Load(list)  BY <1>2, <1>6, <1>13
<1>14. CASE Recreate  BY <1>7, <1>14
<1> QED BY <1>8, <1>10, <1>11, <1>12, <1>13, <1>14
        DEF Next, Lookup, PeekMin, Collect, vars

\* As long as no caller frees page 0, every radix_tree_pop_min removes the
\* page it returns and no other, and that page was the smallest.
THEOREM PopMinIsExact ==
    ASSUME 0 \notin Pages
    PROVE  Spec => PopMinRemovesSmallest
<1> DEFINE ZInv  == IInv /\ 0 \notin Keys(nodes)
           Exact == PopMin /\ Keys(nodes) # {} =>
                      /\ Keys(nodes') = Keys(nodes) \ {ret'[1]}
                      /\ ret'[1] \in Keys(nodes)
                      /\ \A p \in Keys(nodes) : ret'[1] <= p
<1>1. Init => ZInv
  <2>1. Init => 0 \notin Keys(nodes)  BY DEF Init, Keys
  <2> QED BY <2>1, IInvInit
<1>2. ZInv /\ [Next]_vars => ZInv'  BY IInvNext, ZeroStaysOut
<1>3. ZInv => Exact
  <2> SUFFICES ASSUME ZInv, PopMin, Keys(nodes) # {}
               PROVE  /\ Keys(nodes') = Keys(nodes) \ {ret'[1]}
                      /\ ret'[1] \in Keys(nodes)
                      /\ \A p \in Keys(nodes) : ret'[1] <= p
      OBVIOUS
  <2>1. PICK K \in SUBSET PageNumbers : nodes = Paths(K)  BY DEF IInv
  <2>2. Keys(nodes) = K  BY <2>1, KeysOfPaths
  <2> DEFINE least == radix_tree_peek_min(nodes)
  <2>3. /\ least \in K
        /\ \A p \in K : least <= p
        BY <2>1, <2>2, PeekOfPaths, LeftmostOfPaths
  <2>4. least # 0 /\ least \in PageNumbers  BY <2>2, <2>3
  <2>5. ret'[1] = least  BY DEF PopMin
  <2>6. nodes' = Paths(K \ {least})
        BY <2>1, <2>4, DeleteRemovesPage DEF PopMin
  <2>7. Keys(nodes') = K \ {least}  BY <2>6, KeysOfPaths
  <2> QED BY <2>2, <2>3, <2>5, <2>7
<1> QED BY <1>1, <1>2, <1>3, PTL DEF Spec, PopMinRemovesSmallest

----------------------------------------------------------------------------
(* walk_radix collects the pages of the tree in ascending order.           *)

\* The pages of K whose path runs through node <<l, x>>.
Under(K, l, x) == IF l = 0 THEN K ELSE {q \in K : PrefixAt(q, l) = x}

\* w is what a walk from that node should collect.
Collects(K, w, l, x) == w \in Seq(Nat) /\ Ascends(w) /\ Range(w) = Under(K, l, x)

\* A larger prefix at any level is the prefix of a larger page number.
LEMMA Monotone256 == \A q, r \in Nat : q \div 256 < r \div 256 => q < r
OBVIOUS
LEMMA Monotone16 == \A q, r \in Nat : q \div 16 < r \div 16 => q < r
OBVIOUS
LEMMA Monotone4096 == \A q, r \in Nat : q \div 4096 < r \div 4096 => q < r
OBVIOUS
LEMMA PrefixOrder ==
    ASSUME NEW q \in PageNumbers, NEW r \in PageNumbers, NEW level \in 1 .. 4
    PROVE  PrefixAt(q, level) < PrefixAt(r, level) => q < r
<1>1. level = 1 \/ level = 2 \/ level = 3 \/ level = 4
  OBVIOUS
<1>2. q \in Nat /\ r \in Nat
  BY PageIsNatural
<1>3. PrefixAt(q, 1) < PrefixAt(r, 1) => q < r
  BY <1>2, Monotone4096, PrefixValues
<1>4. PrefixAt(q, 2) < PrefixAt(r, 2) => q < r
  BY <1>2, Monotone256, PrefixValues
<1>5. PrefixAt(q, 3) < PrefixAt(r, 3) => q < r
  BY <1>2, Monotone16, PrefixValues
<1>6. PrefixAt(q, 4) < PrefixAt(r, 4) => q < r
  BY LastPrefix
<1> QED BY <1>1, <1>3, <1>4, <1>5, <1>6

\* The pages below a node are those below its sixteen children.
LEMMA UnderChildren ==
    ASSUME NEW K \in SUBSET PageNumbers, NEW l \in 0 .. 3, NEW x \in Nat, l = 0 => x = 0, NEW q \in K
    PROVE  q \in Under(K, l, x) <=> \E k \in 1 .. 16 : q \in Under(K, l + 1, 16 * x + k - 1)
<1> DEFINE y == PrefixAt(q, l + 1)
<1>1. l + 1 \in 1 .. 4 /\ l + 1 # 0 /\ y \in Nat
  BY PrefixType
<1>2. \A k \in 1 .. 16 : q \in Under(K, l + 1, 16 * x + k - 1) <=> y = 16 * x + k - 1
  BY <1>1 DEF Under
<1>3. CASE l = 0
  <2>1. y \in 0 .. 15
    BY <1>3, FirstDigit
  <2> HIDE DEF y
  <2>2. y + 1 \in 1 .. 16 /\ y = 16 * x + (y + 1) - 1
    BY <1>3, <2>1
  <2> QED BY <1>2, <1>3, <2>2 DEF Under
<1>4. CASE l # 0
  <2>1. PrefixAt(q, l) = y \div 16 /\ PrefixAt(q, l) \in Nat
    BY <1>4, PrefixOfPrefix, PrefixType
  <2>2. q \in Under(K, l, x) <=> y \div 16 = x
    BY <1>4, <2>1 DEF Under
  <2> HIDE DEF y
  <2>3. ASSUME y \div 16 = x PROVE \E k \in 1 .. 16 : y = 16 * x + k - 1
    <3>1. PICK i \in 0 .. 15 : y = 16 * (y \div 16) + i
      BY <1>1, Digits
    <3>2. i + 1 \in 1 .. 16 /\ y = 16 * x + (i + 1) - 1
      BY <2>3, <3>1
    <3> QED BY <3>2
  <2>4. ASSUME NEW k \in 1 .. 16, y = 16 * x + k - 1 PROVE y \div 16 = x
    <3>1. k - 1 \in 0 .. 15 /\ y = 16 * x + (k - 1)
      BY <2>4
    <3> QED BY <3>1, Digits
  <2> QED BY <1>2, <2>2, <2>3, <2>4
<1> QED BY <1>3, <1>4

\* One call of walk_radix on a node below which the calls are right.
LEMMA WalkRound ==
    ASSUME NEW K \in SUBSET PageNumbers, NEW l \in 0 .. 3, NEW x \in Nat, l = 0 => x = 0, NEW w,
           \A y : <<l + 1, y>> \in Paths(K) => Collects(K, w[<<l + 1, y>>], l + 1, y)
    PROVE  Collects(K, WalkNode(Paths(K), w, <<l, x>>), l, x)
<1> DEFINE at(k) == 16 * x + k - 1
           ss == [k \in 1 .. 16 |-> IF <<l + 1, at(k)>> \in Paths(K) THEN w[<<l + 1, at(k)>>] ELSE <<>>]
<1>1. WalkNode(Paths(K), w, <<l, x>>) = FlattenSeq(ss)
  BY DEF WalkNode, LEVELS, RADIX_SIZE
<1>2. l + 1 \in 1 .. 4 /\ l + 1 # 0
  OBVIOUS
<1>3. ASSUME NEW k \in 1 .. 16 PROVE Collects(K, ss[k], l + 1, at(k))
  <2>1. CASE <<l + 1, at(k)>> \in Paths(K)
    BY <2>1
  <2>2. CASE <<l + 1, at(k)>> \notin Paths(K)
    <3>1. Under(K, l + 1, at(k)) = {}
      BY <1>2, <2>2, InPaths DEF Under
    <3>2. <<>> \in Seq(Nat) /\ Len(<<>>) = 0 /\ Range(<<>>) = {}
      BY EmptySeq DEF Range
    <3>3. ss[k] = <<>>
      BY <2>2
    <3> HIDE DEF ss, at
    <3>4. Ascends(<<>>)
      BY <3>2 DEF Ascends
    <3> QED BY <3>1, <3>2, <3>3, <3>4 DEF Collects
  <2> QED BY <2>1, <2>2
<1>4. ss \in Seq(Seq(Nat)) /\ Len(ss) = 16
  <2>1. \A k \in 1 .. 16 : ss[k] \in Seq(Nat)
    BY <1>3 DEF Collects
  <2>2. ss \in [1 .. 16 -> Seq(Nat)]
    BY <2>1
  <2> HIDE DEF ss
  <2>3. ss \in Seq(Seq(Nat))
    <3> DEFINE A == Seq(Nat)
    <3>1. ss \in [1 .. 16 -> A] /\ 16 \in Nat
      BY <2>2
    <3> HIDE DEF A
    <3>2. ss \in Seq(A)
      BY <3>1, SeqDef
    <3> QED BY <3>2 DEF A
  <2> QED BY <2>2, <2>3, LenProperties
<1> HIDE DEF ss
<1>5. \A k \in 1 .. 16 : Ascends(ss[k]) /\ Range(ss[k]) = Under(K, l + 1, at(k))
  BY <1>3 DEF Collects
<1>6. ASSUME NEW k \in 1 .. 16, NEW j \in 1 .. 16, k < j,
             NEW q \in Range(ss[k]), NEW r \in Range(ss[j])
      PROVE  q < r
  <2>1. q \in K /\ r \in K /\ PrefixAt(q, l + 1) = at(k) /\ PrefixAt(r, l + 1) = at(j)
    BY <1>2, <1>5 DEF Under
  <2>2. PrefixAt(q, l + 1) < PrefixAt(r, l + 1)
    BY <1>6, <2>1
  <2> QED BY <1>2, <2>1, <2>2, PrefixOrder
<1>7. /\ FlattenSeq(ss) \in Seq(Nat) /\ Ascends(FlattenSeq(ss))
      /\ \A q : q \in Range(FlattenSeq(ss)) <=> \E k \in 1 .. 16 : q \in Range(ss[k])
  BY <1>4, <1>5, <1>6, AscendingFlattened
<1>8. \A q : q \in Range(FlattenSeq(ss)) <=> q \in Under(K, l, x)
  <2> TAKE q
  <2>1. q \in Range(FlattenSeq(ss)) <=> \E k \in 1 .. 16 : q \in Under(K, l + 1, at(k))
    BY <1>5, <1>7
  <2>2. \A k : q \in Under(K, l + 1, at(k)) => q \in K
    BY DEF Under
  <2>3. q \in Under(K, l, x) => q \in K
    BY DEF Under
  <2> QED BY <2>1, <2>2, <2>3, UnderChildren
<1> QED BY <1>1, <1>7, <1>8 DEF Collects

\* The recursion of walk_radix ends: after five rounds, from the leaves up, the
\* result of every node is settled.
LEMMA WalkEnds ==
    ASSUME NEW N, \A n \in N : n[1] \in 1 .. 4
    PROVE  \E f : f = [n \in N \cup {Root} |-> WalkNode(N, f, n)]
<1> DEFINE D == N \cup {Root}
           Round(f) == [n \in D |-> WalkNode(N, f, n)]
           Agree(f, g, l) == \A n \in D : n[1] >= l => f[n] = g[n]
<1>1. \A n \in D : n[1] \in 0 .. 4
  BY DEF Root
<1>2. ASSUME NEW f, NEW g, NEW l \in Nat, Agree(f, g, l + 1)
      PROVE  Agree(Round(f), Round(g), l)
  <2> SUFFICES ASSUME NEW n \in D, n[1] >= l PROVE WalkNode(N, f, n) = WalkNode(N, g, n)
    OBVIOUS
  <2> DEFINE child(k) == <<n[1] + 1, RADIX_SIZE * n[2] + k - 1>>
  <2>1. ASSUME NEW k \in 1 .. RADIX_SIZE, child(k) \in N PROVE f[child(k)] = g[child(k)]
    <3>1. child(k)[1] = n[1] + 1
      OBVIOUS
    <3> HIDE DEF child
    <3>2. child(k) \in D /\ child(k)[1] >= l + 1
      BY <1>1, <2>1, <3>1
    <3> QED BY <1>2, <3>2
  <2>2. [k \in 1 .. RADIX_SIZE |-> IF child(k) \in N THEN f[child(k)] ELSE <<>>]
          = [k \in 1 .. RADIX_SIZE |-> IF child(k) \in N THEN g[child(k)] ELSE <<>>]
    <3> HIDE DEF child
    <3> QED BY <2>1
  <2> QED BY <2>2 DEF WalkNode
<1> DEFINE f0 == [n \in D |-> <<>>]
           f1 == Round(f0)
           f2 == Round(f1)
           f3 == Round(f2)
           f4 == Round(f3)
           f5 == Round(f4)
           f6 == Round(f5)
<1>3. Agree(f0, f1, 5)
  BY <1>1
<1>4. Agree(f0, f1, 4 + 1) /\ (Agree(f1, f2, 4) => Agree(f1, f2, 3 + 1))
      /\ (Agree(f2, f3, 3) => Agree(f2, f3, 2 + 1)) /\ (Agree(f3, f4, 2) => Agree(f3, f4, 1 + 1))
      /\ (Agree(f4, f5, 1) => Agree(f4, f5, 0 + 1))
  <2>1. 4 + 1 = 5 /\ 3 + 1 = 4 /\ 2 + 1 = 3 /\ 1 + 1 = 2 /\ 0 + 1 = 1
    OBVIOUS
  <2> HIDE DEF Agree, f0, f1, f2, f3, f4, f5
  <2> QED BY <1>3, <2>1
<1> HIDE DEF Agree, Round, f0
<1>5. Agree(f1, f2, 4)
  BY <1>2, <1>4
<1>6. Agree(f2, f3, 3)
  BY <1>2, <1>4, <1>5
<1>7. Agree(f3, f4, 2)
  BY <1>2, <1>4, <1>6
<1>8. Agree(f4, f5, 1)
  BY <1>2, <1>4, <1>7
<1>9. Agree(f5, f6, 0)
  BY <1>2, <1>4, <1>8
<1> HIDE DEF f4, f5
<1>10. ASSUME NEW n \in D PROVE f5[n] = Round(f5)[n]
  BY <1>1, <1>9 DEF Agree
<1>11. f5 = Round(f5)
  <2>1. f5 = [n \in D |-> f5[n]]
    BY DEF f5, Round
  <2>2. Round(f5) = [n \in D |-> Round(f5)[n]]
    BY DEF Round
  <2> QED BY <1>10, <2>1, <2>2
<1> QED BY <1>11 DEF Round

\* radix_tree_walk collects exactly the pages of the tree, in ascending order.
LEMMA WalkOfPaths ==
    ASSUME NEW K \in SUBSET PageNumbers
    PROVE  /\ WalkFrom(Paths(K)) \in Seq(Nat) /\ Ascends(WalkFrom(Paths(K)))
           /\ Range(WalkFrom(Paths(K))) = K
<1> DEFINE N == Paths(K)
           D == N \cup {Root}
           w == CHOOSE f : f = [n \in D |-> WalkNode(N, f, n)]
           Right(l) == \A x : <<l, x>> \in N => Collects(K, w[<<l, x>>], l, x)
<1>1. \A n \in N : \E level \in 1 .. 4, q \in K : n = <<level, PrefixAt(q, level)>>
  BY DEF Paths, PathNode, LEVELS
<1>2. WalkFrom(N) = w[Root]
  BY DEF WalkFrom
<1>3. w = [n \in D |-> WalkNode(N, w, n)]
  <2>1. \A n \in N : n[1] \in 1 .. 4
    BY <1>1
  <2> HIDE DEF N
  <2>2. \E f : f = [n \in D |-> WalkNode(N, f, n)]
    BY <2>1, WalkEnds
  <2> QED BY <2>2
<1> HIDE DEF w
<1>4. ASSUME NEW l \in 1 .. 4, NEW x, <<l, x>> \in N PROVE x \in Nat
  <2>1. PICK q \in K : PrefixAt(q, l) = x
    BY <1>4, InPaths
  <2> QED BY <2>1, PrefixType
<1>5. Right(4)
  <2> SUFFICES ASSUME NEW x, <<4, x>> \in N PROVE Collects(K, w[<<4, x>>], 4, x)
    OBVIOUS
  <2>1. PICK q \in K : PrefixAt(q, 4) = x
    BY InPaths
  <2>2. x = q /\ x \in Nat /\ Under(K, 4, x) = {x}
    <3>1. \A r \in K : PrefixAt(r, 4) = r
      BY LastPrefix
    <3> QED BY <2>1, <3>1, PageIsNatural DEF Under
  <2>3. w[<<4, x>>] = <<x>>
    BY <1>3 DEF WalkNode, LEVELS
  <2>4. <<x>> \in Seq(Nat) /\ Len(<<x>>) = 1 /\ Range(<<x>>) = {x}
    BY <2>2 DEF Range
  <2>5. Ascends(<<x>>)
    BY <2>4 DEF Ascends
  <2> QED BY <2>2, <2>3, <2>4, <2>5 DEF Collects
<1>6. ASSUME NEW l \in 0 .. 3, Right(l + 1), NEW x \in Nat, l = 0 => x = 0, <<l, x>> \in D
      PROVE  Collects(K, w[<<l, x>>], l, x)
  <2>1. Collects(K, WalkNode(N, w, <<l, x>>), l, x)
    BY <1>6, WalkRound
  <2> QED BY <1>3, <1>6, <2>1
<1> HIDE DEF N
<1>7. ASSUME NEW l \in 1 .. 3, Right(l + 1) PROVE Right(l)
  <2>1. l \in 0 .. 3 /\ l # 0 /\ l \in 1 .. 4
    OBVIOUS
  <2> QED BY <1>4, <1>6, <1>7, <2>1
<1> HIDE DEF D, Right
<1>8. Right(3)
  <2>1. 3 + 1 = 4
    OBVIOUS
  <2> QED BY <1>5, <1>7, <2>1
<1>9. Right(2)
  <2>1. 2 + 1 = 3
    OBVIOUS
  <2> QED BY <1>8, <1>7, <2>1
<1>10. Right(1)
  <2>1. 1 + 1 = 2
    OBVIOUS
  <2> QED BY <1>9, <1>7, <2>1
<1>11. Collects(K, w[<<0, 0>>], 0, 0)
  <2>1. 0 + 1 = 1 /\ <<0, 0>> \in D
    BY DEF D, Root
  <2> QED BY <1>6, <1>10, <2>1
<1> QED BY <1>2, <1>11 DEF Root, Collects, Under, N

LEMMA SameCardinality == \A S : AbstractSet!Cardinality(S) = Cardinality(S)
BY DEF AbstractSet!Cardinality, Cardinality

\* radix_to_freelist writes the first pages of the set in ascending order.
LEMMA CollectedInOrder ==
    ASSUME NEW K \in SUBSET PageNumbers, NEW m \in Nat
    PROVE  /\ radix_to_freelist(Paths(K), m) = AbstractSet!Ascending(K, m)
           /\ radix_to_freelist(Paths(K), m) \in Seq(PageNumbers)
<1> DEFINE s == WalkFrom(Paths(K))
           n == IF Len(s) < m THEN Len(s) ELSE m
           rank(p) == AbstractSet!Cardinality({q \in K : q <= p})
           u == SubSeq(s, 1, n)
           v == [i \in 1 .. n |-> CHOOSE p \in K : rank(p) = i]
<1>1. s \in Seq(Nat) /\ Ascends(s) /\ Range(s) = K
  BY WalkOfPaths
<1>2. radix_to_freelist(Paths(K), m) = u
  BY DEF radix_to_freelist
<1> HIDE DEF s
<1>3. AbstractSet!Cardinality(K) = Len(s) /\ \A i \in 1 .. Len(s) : rank(s[i]) = i
  BY <1>1, AscendingRank, SameCardinality
<1>4. AbstractSet!Ascending(K, m) = v
  <2> DEFINE w(l) == [i \in 1 .. l |-> CHOOSE p \in K : rank(p) = i]
             l == IF AbstractSet!Cardinality(K) < m THEN AbstractSet!Cardinality(K) ELSE m
  <2>1. AbstractSet!Ascending(K, m) = w(l)
    BY DEF AbstractSet!Ascending
  <2>2. v = w(n)
    OBVIOUS
  <2>3. l = n
    BY <1>3
  <2> HIDE DEF w, v, l, n
  <2> QED BY <2>1, <2>2, <2>3
<1> HIDE DEF rank
<1>5. Len(s) \in Nat /\ n \in 0 .. Len(s) /\ DOMAIN s = 1 .. Len(s)
  BY <1>1, LenProperties
<1>6. \A i \in 1 .. Len(s) : s[i] \in K
  BY <1>1, <1>5 DEF Range
<1> HIDE DEF n
<1>7. \A i \in 1 .. n : s[i] \in K /\ rank(s[i]) = i /\ 1 + i - 1 = i
  BY <1>3, <1>5, <1>6
<1>8. u \in Seq(K) /\ Len(u) = n /\ \A i \in 1 .. n - 1 + 1 : u[i] = s[1 + i - 1]
  <2>1. 1 \in Int /\ n \in Int /\ (IF 1 <= n THEN n - 1 + 1 ELSE 0) = n
    BY <1>5
  <2>2. \A i \in 1 .. n : s[i] \in K
    BY <1>7
  <2> QED BY <2>1, <2>2, SubSeqProperties
<1>9. \A i \in 1 .. n : u[i] = s[i]
  <2>1. n - 1 + 1 = n
    BY <1>5
  <2> QED BY <1>7, <1>8, <2>1
<1>10. ASSUME NEW i \in 1 .. n PROVE v[i] = s[i]
  <2>1. \A p \in K : rank(p) = i => p = s[i]
    <3> TAKE p \in K
    <3>1. PICK j \in 1 .. Len(s) : p = s[j]
      BY <1>1, <1>5 DEF Range
    <3> QED BY <1>3, <3>1
  <2>2. (CHOOSE p \in K : rank(p) = i) = s[i]
    BY <1>7, <2>1
  <2> QED BY <2>2
<1>11. u = v
  <2>1. n \in Nat /\ v \in [1 .. n -> K]
    <3>1. v = [i \in 1 .. n |-> s[i]]
      BY <1>10
    <3> HIDE DEF v
    <3> QED BY <1>5, <1>7, <3>1
  <2> HIDE DEF v
  <2>2. v \in Seq(K)
    BY <2>1, SeqDef
  <2>3. Len(v) = n
    BY <2>1, <2>2, LenProperties
  <2> HIDE DEF u, v
  <2> QED BY <1>8, <1>9, <1>10, <2>2, <2>3, SeqEqual
<1>12. u \in Seq(PageNumbers)
  <2> HIDE DEF u
  <2>1. \A i \in 1 .. Len(u) : u[i] \in PageNumbers
    BY <1>8, ElementOfSeq
  <2> QED BY <1>8, <2>1, ElementOfSeq, LenProperties, SeqDef
<1> QED BY <1>2, <1>4, <1>11, <1>12

LEMMA OneAnswer == \A x \in PageNumbers : <<x>> \in Seq(PageNumbers)
OBVIOUS

\* Every call hands back page numbers, and no node ever lies off the paths of
\* 16-bit page numbers.
THEOREM TypesHold == Spec => []TypeOK
<1> DEFINE TInv == IInv /\ ret \in Seq(PageNumbers)
<1>1. Init => TInv
  <2>1. Init => ret \in Seq(PageNumbers)
    BY EmptySeq DEF Init
  <2> QED BY <2>1, IInvInit
<1>2. TInv /\ [Next]_vars => TInv'
  <2> SUFFICES ASSUME IInv, ret \in Seq(PageNumbers), [Next]_vars
               PROVE  ret' \in Seq(PageNumbers)
    BY IInvNext
  <2>1. PICK K \in SUBSET PageNumbers : nodes = Paths(K)
    BY DEF IInv
  <2>2. <<>> \in Seq(PageNumbers) /\ 0 \in PageNumbers /\ 1 \in PageNumbers
    BY ZeroAndOne, EmptySeq
  <2>3. ASSUME NEW p \in Pages, Insert(p) \/ Delete(p) \/ Lookup(p) PROVE ret' \in Seq(PageNumbers)
    BY <2>2, <2>3, OneAnswer DEF Insert, Delete, Lookup
  <2>4. CASE PeekMin \/ PopMin
    <3>1. ret' = <<radix_tree_peek_min(Paths(K))>>
      BY <2>1, <2>4 DEF PeekMin, PopMin
    <3> QED BY <3>1, PeekOfPaths, OneAnswer
  <2>5. ASSUME NEW m \in Limits, Collect(m) PROVE ret' \in Seq(PageNumbers)
    BY <2>1, <2>5, LimitsAreSizes, CollectedInOrder DEF Collect
  <2>6. ASSUME NEW list \in Freelists, Load(list) PROVE ret' \in Seq(PageNumbers)
    BY <2>2, <2>6 DEF Load
  <2>7. CASE Recreate \/ UNCHANGED vars
    BY <2>2, <2>7 DEF Recreate, vars
  <2> QED BY <2>3, <2>4, <2>5, <2>6, <2>7 DEF Next
<1>3. TInv => TypeOK
  <2>1. IInv => nodes \subseteq Paths(PageNumbers)
    BY DEF IInv, Paths
  <2> QED BY <2>1 DEF TypeOK
<1> QED BY <1>1, <1>2, <1>3, PTL DEF Spec

----------------------------------------------------------------------------
(* The tree of nodes implements the set of its pages.  Page 0 is no page   *)
(* that callers free, so it is not in the tree.                            *)

ZInv == IInv /\ 0 \notin Keys(nodes)

\* The answer of radix_tree_peek_min is that of the set.
LEMMA PeekIsSmallest ==
    ASSUME NEW K \in SUBSET PageNumbers
    PROVE  radix_tree_peek_min(Paths(K)) = AbstractSet!Smallest(K)
<1>1. CASE K = {}
  BY <1>1, PeekOfPaths DEF AbstractSet!Smallest
<1>2. CASE K # {}
  <2> DEFINE x == Leftmost(Paths(K))
  <2>1. x \in K /\ \A p \in K : x <= p
    BY <1>2, LeftmostOfPaths
  <2>2. radix_tree_peek_min(Paths(K)) = x
    BY <1>2, PeekOfPaths
  <2>3. \A p \in K : p \in Nat
    BY PageIsNatural
  <2> HIDE DEF x
  <2>4. \A p \in K : (\A q \in K : p <= q) => p = x
    BY <2>1, <2>3
  <2>5. (CHOOSE p \in K : \A q \in K : p <= q) = x
    BY <2>1, <2>4
  <2> QED BY <1>2, <2>2, <2>5 DEF AbstractSet!Smallest
<1> QED BY <1>1, <1>2

\* Every call on the tree is the call on the set.
LEMMA StepOfSet ==
    ASSUME 0 \notin Pages, ZInv, [Next]_vars
    PROVE  [AbstractSet!Next]_(AbstractSet!vars)
<1>1. PICK K \in SUBSET PageNumbers : nodes = Paths(K)
  BY DEF ZInv, IInv
<1>2. Keys(nodes) = K /\ 0 \notin K
  BY <1>1, KeysOfPaths DEF ZInv
<1>3. ASSUME NEW L \in SUBSET PageNumbers, nodes' = Paths(L) PROVE Keys(nodes') = L
  BY <1>3, KeysOfPaths
<1>4. ASSUME NEW p \in Pages, Insert(p) PROVE AbstractSet!Insert(p)
  <2>1. K \cup {p} \in SUBSET PageNumbers /\ p \in PageNumbers
    BY PagesAre16Bit
  <2>2. nodes' = Paths(K \cup {p})
    BY <1>1, <1>4, <2>1, InsertAddsPage DEF Insert
  <2> QED BY <1>2, <1>3, <1>4, <2>1, <2>2 DEF Insert, AbstractSet!Insert
<1>5. ASSUME NEW p \in Pages, Delete(p) PROVE AbstractSet!Delete(p)
  <2>1. p \in PageNumbers /\ p # 0
    BY PagesAre16Bit
  <2>2. nodes' = Paths(K \ {p})
    BY <1>1, <1>5, <2>1, DeleteRemovesPage DEF Delete
  <2>3. K \ {p} \in SUBSET PageNumbers
    OBVIOUS
  <2> QED BY <1>2, <1>3, <1>5, <2>2, <2>3 DEF Delete, AbstractSet!Delete
<1>6. ASSUME NEW p \in Pages, Lookup(p) PROVE AbstractSet!Lookup(p)
  <2>1. p \in PageNumbers /\ p # 0
    BY PagesAre16Bit
  <2>2. radix_tree_lookup(nodes, p) <=> p \in K
    BY <1>1, <2>1, PathOfPage DEF radix_tree_lookup
  <2> QED BY <1>2, <1>6, <2>2 DEF Lookup, AbstractSet!Lookup
<1>7. ASSUME PeekMin PROVE AbstractSet!PeekMin
  BY <1>1, <1>2, <1>7, PeekIsSmallest DEF PeekMin, AbstractSet!PeekMin
<1>8. ASSUME PopMin PROVE AbstractSet!PopMin
  <2> DEFINE x == AbstractSet!Smallest(K)
  <2>1. radix_tree_peek_min(nodes) = x /\ x \in PageNumbers
    BY <1>1, PeekIsSmallest, PeekOfPaths
  <2>2. nodes' = IF x = 0 THEN Paths(K) ELSE Paths(K \ {x})
    BY <1>1, <1>8, <2>1, DeleteRemovesPage DEF PopMin
  <2> HIDE DEF x
  <2>3. nodes' = Paths(K \ {x}) /\ K \ {x} \in SUBSET PageNumbers
    <3>1. x = 0 => K \ {x} = K
      BY <1>2
    <3> QED BY <2>2, <3>1
  <2>4. Keys(nodes') = K \ {x}
    BY <1>3, <2>3
  <2> QED BY <1>2, <1>8, <2>1, <2>4 DEF PopMin, AbstractSet!PopMin, x
<1>9. ASSUME NEW m \in Limits, Collect(m) PROVE AbstractSet!Collect(m)
  BY <1>1, <1>2, <1>9, LimitsAreSizes, CollectedInOrder DEF Collect, AbstractSet!Collect
<1>10. ASSUME NEW list \in Freelists, Load(list) PROVE AbstractSet!Load(list)
  <2>1. nodes' = Paths(K \cup Listed(list)) /\ K \cup Listed(list) \in SUBSET PageNumbers
    BY <1>1, <1>10, LoadAddsPages DEF Load
  <2>2. Keys(nodes') = K \cup Listed(list)
    BY <1>3, <2>1
  <2> QED BY <1>2, <1>10, <2>2 DEF Load, AbstractSet!Load, Listed
<1>11. ASSUME Recreate PROVE AbstractSet!Recreate
  BY <1>11 DEF Recreate, AbstractSet!Recreate, Keys
<1>12. ASSUME UNCHANGED vars PROVE UNCHANGED AbstractSet!vars
  BY <1>12 DEF vars, AbstractSet!vars
<1> QED BY <1>4, <1>5, <1>6, <1>7, <1>8, <1>9, <1>10, <1>11, <1>12 DEF Next, AbstractSet!Next

\* The radix tree is the set of pages its callers see: as long as none of them
\* frees page 0, every insert, delete, lookup, peek, pop, walk and load answers
\* and changes the tree as FreePageSet does.
THEOREM TreeImplementsSet ==
    ASSUME 0 \notin Pages
    PROVE  Spec => ImplementsFreePageSet
<1>1. Init => ZInv /\ AbstractSet!Init
  <2>1. Init => Keys(nodes) = {}
    BY DEF Init, Keys
  <2> QED BY <2>1, IInvInit DEF ZInv, Init, AbstractSet!Init
<1>2. ZInv /\ [Next]_vars => ZInv'
  BY IInvNext, ZeroStaysOut DEF ZInv
<1>3. ZInv /\ [Next]_vars => [AbstractSet!Next]_(AbstractSet!vars)
  BY StepOfSet
<1> QED BY <1>1, <1>2, <1>3, PTL DEF Spec, ImplementsFreePageSet, AbstractSet!Spec
=============================================================================
