---------------------------- MODULE BTree_proofs ----------------------------
(***************************************************************************)
(* What holds of the tree of one table for files, pages and keys of any    *)
(* size: the variables' types, the slot ids and the accounts of every      *)
(* page, the chain of leaves, what a search told its caller, and what one  *)
(* call may change.                                                        *)
(***************************************************************************)
EXTENDS BTree, SeqLemmas

----------------------------------------------------------------------------
(* The pages of the tree. *)

\* A page whose directory and free list have kept to their own bytes.
KeptApart(pg) ==
    pg.kind # "torn" => HEADER_SIZE + SLOT_ENTRY_SIZE * Total(pg) <= pg.end

PageOK(pg) == pg \in PageRecords /\ IdsDistinct(pg) /\ Accounted(pg) /\ KeptApart(pg)

Entries == [id : SlotIds, key : AnyKey]

LEMMA PageSequences ==
    ASSUME NEW pg \in PageRecords
    PROVE  pg.slots \in Seq(Entries) /\ pg.free \in Seq(SlotIds)
BY DEF PageRecords, Entries

LEMMA PageNumbers ==
    ASSUME NEW pg \in PageRecords
    PROVE  /\ pg.highest \in SlotIds /\ pg.highest \in Nat /\ pg.used \in Int /\ pg.end \in Int
           /\ Total(pg) \in Nat /\ DOMAIN pg.slots = 1 .. Total(pg)
           /\ Len(pg.free) \in Nat /\ DOMAIN pg.free = 1 .. Len(pg.free)
<1>1. Total(pg) \in Nat /\ DOMAIN pg.slots = 1 .. Total(pg)
  BY PageSequences, LenProperties DEF Total
<1>2. Len(pg.free) \in Nat /\ DOMAIN pg.free = 1 .. Len(pg.free)
  BY PageSequences, LenProperties
<1>3. pg.highest \in SlotIds /\ pg.used \in Int /\ pg.end \in Int
  BY DEF PageRecords
<1>4. pg.highest \in Nat
  BY <1>3 DEF SlotIds
<1> QED BY <1>1, <1>2, <1>3, <1>4

LEMMA PageEntries ==
    ASSUME NEW pg \in PageRecords, NEW i \in 1 .. Total(pg)
    PROVE  pg.slots[i] \in Entries /\ IdAt(pg, i) \in SlotIds /\ pg.slots[i].key \in AnyKey
<1>1. pg.slots[i] \in Entries
  BY PageSequences, ElementOfSeq DEF Total
<1> QED BY <1>1 DEF Entries, IdAt

\* What the header counts after n writes.
AccountsFor(pg, n) ==
    /\ pg.end = MAX_USABLE_PAGE_SIZE - INDEX_SLOT_DATA_SIZE * n
    /\ pg.highest <= n /\ Total(pg) <= n
    /\ HEADER_SIZE + (KEY_SIZE + SLOT_ENTRY_SIZE) * Total(pg)
           + (INDEX_SLOT_DATA_SIZE - KEY_SIZE) * n <= pg.used
    /\ pg.used <= MAX_USABLE_PAGE_SIZE

LEMMA AccountedMeans ==
    ASSUME NEW pg
    PROVE  Accounted(pg) <=> \E n \in 0 .. 255 : AccountsFor(pg, n)
BY DEF Accounted, AccountsFor

LEMMA Sizes ==
    /\ MAX_USABLE_PAGE_SIZE \in Nat /\ HEADER_SIZE \in Nat /\ SLOT_ENTRY_SIZE \in Nat
    /\ KEY_SIZE \in Nat /\ INDEX_SLOT_DATA_SIZE \in Nat \ {0}
    /\ KEY_SIZE + SLOT_ENTRY_SIZE \in Nat /\ INDEX_SLOT_DATA_SIZE - KEY_SIZE \in Nat
    /\ HEADER_SIZE <= MAX_USABLE_PAGE_SIZE
BY SizesAreSizes

LEMMA NextProduct ==
    ASSUME NEW d \in Nat, NEW n \in Nat
    PROVE  d * n \in Nat /\ d * n \in Int /\ d * (n + 1) = d * n + d
OBVIOUS

LEMMA SmallerProduct ==
    ASSUME NEW c \in Nat, NEW m \in Nat, NEW n \in Nat, m <= n
    PROVE  c * m <= c * n /\ c * m \in Int /\ c * n \in Int
<1>1. PICK d \in Nat : n = m + d
  <2>1. n - m \in Nat /\ n = m + (n - m)
    OBVIOUS
  <2> QED BY <2>1
<1>2. c * n = c * m + c * d /\ c * d \in Nat /\ c * m \in Int
  BY <1>1
<1> QED BY <1>2

LEMMA EmptyPageOK ==
    ASSUME NEW kind \in Kinds
    PROVE  PageOK(EmptyPage(kind)) /\ Total(EmptyPage(kind)) = 0
<1> DEFINE pg == EmptyPage(kind)
<1>1. <<>> \in Seq(Entries) /\ <<>> \in Seq(SlotIds)
  BY EmptySeq
<1>2. pg.slots = <<>> /\ pg.free = <<>> /\ pg.highest = 0 /\ pg.used = HEADER_SIZE
      /\ pg.end = MAX_USABLE_PAGE_SIZE
  BY DEF EmptyPage
<1>3. pg \in PageRecords
  BY <1>1, SizesAreSizes DEF EmptyPage, PageRecords, Entries, SlotIds
<1>4. Total(pg) = 0 /\ Len(pg.free) = 0
  BY <1>1, <1>2, EmptySeq DEF Total
<1> HIDE DEF pg
<1>5. IdsDistinct(pg)
  BY <1>3, <1>4, PageNumbers DEF IdsDistinct
<1>6. Accounted(pg)
  <2>1. \A d \in Int : d * 0 = 0
    OBVIOUS
  <2>2. AccountsFor(pg, 0)
    BY <1>2, <1>4, <2>1, Sizes DEF AccountsFor
  <2> QED BY <2>2, AccountedMeans
<1>7. KeptApart(pg)
  BY <1>2, <1>4, Sizes DEF KeptApart
<1> QED BY <1>3, <1>4, <1>5, <1>6, <1>7 DEF PageOK, pg

\* How often a page has been written, and that no 8-bit id or counter wraps.
LEMMA Writes ==
    ASSUME NEW pg, PageOK(pg)
    PROVE  \E n \in 0 .. 255 : AccountsFor(pg, n) /\ (pg.kind # "torn" => n <= 254)
<1>1. PICK n \in 0 .. 255 : AccountsFor(pg, n)
  BY AccountedMeans DEF PageOK
<1>2. CASE pg.kind = "torn"
  BY <1>1, <1>2
<1>3. CASE pg.kind # "torn"
  <2>1. pg.end \in Int /\ Total(pg) \in Nat
    BY PageNumbers DEF PageOK
  <2>2. SLOT_ENTRY_SIZE * Total(pg) \in Nat
    BY <2>1, Sizes, NextProduct
  <2>3. HEADER_SIZE <= pg.end
    BY <1>3, <2>1, <2>2, Sizes DEF PageOK, KeptApart
  <2>4. ASSUME n = 255 PROVE FALSE
    <3>1. pg.end = MAX_USABLE_PAGE_SIZE - INDEX_SLOT_DATA_SIZE * 255
      BY <1>1, <2>4 DEF AccountsFor
    <3> QED BY <2>1, <2>3, <3>1, PageIsShort, Sizes
  <2>5. n <= 254
    BY <2>4
  <2> QED BY <1>1, <2>5
<1> QED BY <1>2, <1>3

LEMMA IdsDoNotWrap ==
    ASSUME NEW pg, PageOK(pg), pg.kind # "torn"
    PROVE  pg.highest <= 254 /\ Total(pg) <= 254
<1>1. pg.highest \in Nat /\ Total(pg) \in Nat
  BY PageNumbers DEF PageOK
<1>2. PICK n \in 0 .. 255 : AccountsFor(pg, n) /\ n <= 254
  BY Writes
<1>3. pg.highest <= n /\ Total(pg) <= n
  BY <1>2 DEF AccountsFor
<1> QED BY <1>1, <1>2, <1>3

LEMMA IdsDistinctParts ==
    ASSUME NEW pg \in PageRecords
    PROVE  IdsDistinct(pg) <=>
              /\ \A i, j \in 1 .. Total(pg) : i # j => IdAt(pg, i) # IdAt(pg, j)
              /\ \A i, j \in 1 .. Len(pg.free) : i # j => pg.free[i] # pg.free[j]
              /\ \A i \in 1 .. Total(pg), j \in 1 .. Len(pg.free) : IdAt(pg, i) # pg.free[j]
              /\ \A i \in 1 .. Total(pg) : IdAt(pg, i) \in 1 .. pg.highest
              /\ \A j \in 1 .. Len(pg.free) : pg.free[j] \in 1 .. pg.highest
<1>1. DOMAIN pg.slots = 1 .. Total(pg) /\ DOMAIN pg.free = 1 .. Len(pg.free)
  BY PageNumbers
<1> QED BY <1>1 DEF IdsDistinct

----------------------------------------------------------------------------
(* find_empty_index_slot *)

\* A slot id that is found is not in the directory nor any longer in the list.
LEMMA FoundSlot ==
    ASSUME NEW pg, PageOK(pg), pg.kind # "torn", ~ReachesFull(pg),
           FindEmptySlot(pg).id # NoSlot
    PROVE  LET found == FindEmptySlot(pg)
           IN  /\ found.page \in PageRecords /\ IdsDistinct(found.page)
               /\ found.id \in 1 .. found.page.highest
               /\ \A i \in 1 .. Total(pg) : IdAt(pg, i) # found.id
               /\ \A j \in 1 .. Len(found.page.free) : found.page.free[j] # found.id
               /\ Range(pg.free) \subseteq Range(found.page.free) \cup {found.id}
               /\ found.page.kind = pg.kind /\ found.page.slots = pg.slots
               /\ found.page.used = pg.used /\ found.page.end = pg.end
               /\ found.page.sibling = pg.sibling
               /\ found.page.highest <= pg.highest + 1
<1> DEFINE found == FindEmptySlot(pg)
<1>1. PageOK(pg) /\ pg \in PageRecords /\ IdsDistinct(pg)
  BY DEF PageOK
<1>2. /\ pg.highest \in Nat /\ pg.highest <= 254 /\ pg.used \in Int /\ pg.end \in Int
      /\ Total(pg) \in Nat /\ DOMAIN pg.slots = 1 .. Total(pg)
      /\ pg.free \in Seq(SlotIds) /\ Len(pg.free) \in Nat /\ DOMAIN pg.free = 1 .. Len(pg.free)
  <2>1. pg.highest <= 254
    BY <1>1, IdsDoNotWrap
  <2> QED BY <1>1, <2>1, PageNumbers, PageSequences
<1>3. /\ \A i, j \in 1 .. Total(pg) : i # j => IdAt(pg, i) # IdAt(pg, j)
      /\ \A i, j \in 1 .. Len(pg.free) : i # j => pg.free[i] # pg.free[j]
      /\ \A i \in 1 .. Total(pg), j \in 1 .. Len(pg.free) : IdAt(pg, i) # pg.free[j]
      /\ \A i \in 1 .. Total(pg) : IdAt(pg, i) \in 1 .. pg.highest
      /\ \A j \in 1 .. Len(pg.free) : pg.free[j] \in 1 .. pg.highest
  BY <1>1, IdsDistinctParts
<1>4. CASE pg.free # <<>>
  <2> DEFINE n   == Len(pg.free)
             new == [pg EXCEPT !.free = Front(@)]
  <2>1. /\ Front(pg.free) \in Seq(SlotIds) /\ n >= 1 /\ Len(Front(pg.free)) = n - 1
        /\ \A i \in 1 .. n - 1 : Front(pg.free)[i] = pg.free[i]
        /\ Last(pg.free) = pg.free[n]
    BY <1>2, <1>4, FrontAndLast
  <2>2. found = [id |-> Last(pg.free), page |-> new]
    BY <1>4 DEF FindEmptySlot, SlotFromList
  <2>3. new \in PageRecords
    BY <1>1, <2>1 DEF PageRecords
  <2>4. /\ new.free = Front(pg.free) /\ new.slots = pg.slots /\ new.highest = pg.highest
        /\ new.kind = pg.kind /\ new.used = pg.used /\ new.end = pg.end
        /\ new.sibling = pg.sibling
    BY <1>1 DEF PageRecords
  <2> HIDE DEF new
  <2>5. Total(new) = Total(pg) /\ \A i : IdAt(new, i) = IdAt(pg, i)
    BY <2>4 DEF IdAt, Total
  <2>6. Len(new.free) = n - 1 /\ \A j \in 1 .. n - 1 : new.free[j] = pg.free[j]
    BY <2>1, <2>4
  <2>7. n \in Nat /\ n \in 1 .. n /\ \A j \in 1 .. n - 1 : j \in 1 .. n /\ j # n
    BY <1>2, <2>1
  <2>8. IdsDistinct(new)
    <3>1. \A i, j \in 1 .. Len(new.free) : i # j => new.free[i] # new.free[j]
      BY <1>3, <2>6, <2>7
    <3>2. \A i \in 1 .. Total(new), j \in 1 .. Len(new.free) : IdAt(new, i) # new.free[j]
      BY <1>3, <2>5, <2>6, <2>7
    <3>3. \A j \in 1 .. Len(new.free) : new.free[j] \in 1 .. new.highest
      BY <1>3, <2>4, <2>6, <2>7
    <3>4. \A i, j \in 1 .. Total(new) : i # j => IdAt(new, i) # IdAt(new, j)
      BY <1>3, <2>5
    <3>5. \A i \in 1 .. Total(new) : IdAt(new, i) \in 1 .. new.highest
      BY <1>3, <2>4, <2>5
    <3> QED BY <2>3, <3>1, <3>2, <3>3, <3>4, <3>5, IdsDistinctParts
  <2>9. \A i \in 1 .. Total(pg) : IdAt(pg, i) # Last(pg.free)
    BY <1>3, <2>1, <2>7
  <2>10. ASSUME NEW j \in 1 .. Len(new.free) PROVE new.free[j] # Last(pg.free)
    <3>1. j \in 1 .. n /\ n \in 1 .. n /\ j # n /\ new.free[j] = pg.free[j]
      BY <2>6, <2>7
    <3>2. pg.free[j] # pg.free[n]
      BY <1>3, <3>1
    <3> QED BY <2>1, <3>1, <3>2
  <2>11. Last(pg.free) \in 1 .. new.highest
    BY <1>3, <2>1, <2>4, <2>7
  <2>12. Range(pg.free) \subseteq Range(new.free) \cup {Last(pg.free)}
    <3>1. DOMAIN new.free = 1 .. n - 1
      BY <2>3, <2>6, PageNumbers
    <3>2. ASSUME NEW j \in 1 .. n, j # n PROVE pg.free[j] \in Range(new.free)
      <4>1. j \in 1 .. n - 1
        BY <2>7, <3>2
      <4> QED BY <2>6, <3>1, <4>1 DEF Range
    <3>3. \A j \in 1 .. n : pg.free[j] \in Range(new.free) \cup {Last(pg.free)}
      BY <2>1, <3>2
    <3> QED BY <1>2, <3>3 DEF Range
  <2>13. new.highest <= pg.highest + 1
    BY <1>2, <2>4
  <2> QED BY <2>2, <2>3, <2>4, <2>8, <2>9, <2>10, <2>11, <2>12, <2>13
<1>5. CASE pg.free = <<>>
  <2> DEFINE id  == pg.highest + 1
             new == [pg EXCEPT !.highest = id]
  <2>1. found = [id |-> id, page |-> new]
    <3>1. found = SlotAbove(pg)
      BY <1>5 DEF FindEmptySlot
    <3>2. (pg.highest + 1) % 256 = pg.highest + 1
      BY <1>2
    <3> QED BY <3>1, <3>2 DEF SlotAbove
  <2>2. id \in SlotIds
    <3>1. pg.highest \in Nat /\ pg.highest <= 254
      BY <1>2
    <3> QED BY <3>1 DEF SlotIds
  <2>3. new \in PageRecords
    <3> HIDE DEF id
    <3> QED BY <1>1, <2>2 DEF PageRecords
  <2>4. /\ new.free = <<>> /\ new.slots = pg.slots /\ new.highest = id
        /\ new.kind = pg.kind /\ new.used = pg.used /\ new.end = pg.end
        /\ new.sibling = pg.sibling
    BY <1>1, <1>5 DEF PageRecords
  <2> HIDE DEF new
  <2>5. Total(new) = Total(pg) /\ \A i : IdAt(new, i) = IdAt(pg, i)
    BY <2>4 DEF IdAt, Total
  <2>6. Len(new.free) = 0
    BY <2>4, EmptySeq
  <2>7. \A i \in 1 .. Total(pg) : IdAt(pg, i) \in 1 .. id /\ IdAt(pg, i) # id
    BY <1>2, <1>3
  <2>8. IdsDistinct(new)
    <3>1. \A i, j \in 1 .. Total(new) : i # j => IdAt(new, i) # IdAt(new, j)
      BY <1>3, <2>5
    <3>2. \A i \in 1 .. Total(new) : IdAt(new, i) \in 1 .. new.highest
      BY <2>4, <2>5, <2>7
    <3> QED BY <2>3, <2>6, <3>1, <3>2, IdsDistinctParts
  <2>9. Range(pg.free) = {}
    <3>1. DOMAIN pg.free = {}
      BY <1>2, <1>5, EmptySeq
    <3> QED BY <3>1 DEF Range
  <2>10. new.highest <= pg.highest + 1
    BY <1>2, <2>4
  <2> QED BY <1>2, <2>1, <2>3, <2>4, <2>6, <2>7, <2>8, <2>9, <2>10
<1> QED BY <1>4, <1>5

\* A search that finds no id leaves the page as it was.
LEMMA NoSlotLeavesPage ==
    ASSUME NEW pg, PageOK(pg), pg.kind # "torn", FindEmptySlot(pg).id = NoSlot
    PROVE  FindEmptySlot(pg).page = pg
<1>1. PageOK(pg) /\ pg \in PageRecords /\ IdsDistinct(pg)
  BY DEF PageOK
<1>2. pg.highest \in Nat /\ pg.highest <= 254
  BY <1>1, PageNumbers, IdsDoNotWrap
<1>3. CASE pg.free # <<>>
  <2>1. pg.free \in Seq(SlotIds) /\ Len(pg.free) \in Nat
    BY <1>1, PageSequences, PageNumbers
  <2>2. Last(pg.free) = pg.free[Len(pg.free)] /\ Len(pg.free) >= 1
    BY <1>3, <2>1, FrontAndLast
  <2>3. pg.free[Len(pg.free)] \in 1 .. pg.highest
    <3>1. \A j \in 1 .. Len(pg.free) : pg.free[j] \in 1 .. pg.highest
      BY <1>1, IdsDistinctParts
    <3>2. Len(pg.free) \in 1 .. Len(pg.free)
      BY <2>1, <2>2
    <3> QED BY <3>1, <3>2
  <2>4. FindEmptySlot(pg).id = Last(pg.free)
    BY <1>3 DEF FindEmptySlot, SlotFromList
  <2>5. pg.free[Len(pg.free)] # 0
    BY <1>2, <2>3
  <2> QED BY <2>2, <2>4, <2>5 DEF NoSlot
<1>4. CASE pg.free = <<>> /\ ~ReachesFull(pg)
           /\ FreeTotal(pg) >= INDEX_SLOT_DATA_SIZE + SLOT_ENTRY_SIZE
  <2>1. FindEmptySlot(pg).id = (pg.highest + 1) % 256
    BY <1>4 DEF FindEmptySlot, SlotAbove
  <2> QED BY <1>2, <2>1 DEF NoSlot
<1>5. CASE pg.free = <<>> /\ ~(~ReachesFull(pg)
           /\ FreeTotal(pg) >= INDEX_SLOT_DATA_SIZE + SLOT_ENTRY_SIZE)
  BY <1>5 DEF FindEmptySlot
<1> QED BY <1>3, <1>4, <1>5

----------------------------------------------------------------------------
(* write_index_slot *)

\* An id that is neither in the directory nor in the free list.
Fresh(pg, id) ==
    /\ \A i \in 1 .. Total(pg) : IdAt(pg, i) # id
    /\ \A j \in 1 .. Len(pg.free) : pg.free[j] # id

LEMMA PutSlotOK ==
    ASSUME NEW pg \in PageRecords, IdsDistinct(pg),
           NEW id \in 1 .. pg.highest, NEW p \in 1 .. Total(pg) + 1, NEW k \in AnyKey,
           Fresh(pg, id)
    PROVE  LET new == PutSlot(pg, id, p, k)
           IN  /\ new \in PageRecords /\ IdsDistinct(new)
               /\ Total(new) = Total(pg) + 1
               /\ new.slots = InsertAt(pg.slots, p, [id |-> id, key |-> k])
               /\ new.kind = pg.kind /\ new.sibling = pg.sibling /\ new.free = pg.free
               /\ new.highest = pg.highest
               /\ new.used = pg.used + INDEX_SLOT_DATA_SIZE + SLOT_ENTRY_SIZE
               /\ new.end = pg.end - INDEX_SLOT_DATA_SIZE
<1> DEFINE e     == [id |-> id, key |-> k]
           slots == InsertAt(pg.slots, p, e)
           used  == pg.used + INDEX_SLOT_DATA_SIZE + SLOT_ENTRY_SIZE
           end   == pg.end - INDEX_SLOT_DATA_SIZE
           new   == PutSlot(pg, id, p, k)
           n     == Total(pg)
<1>1. /\ pg.highest \in SlotIds /\ pg.highest \in Nat /\ pg.used \in Int /\ pg.end \in Int
      /\ n \in Nat /\ Len(pg.free) \in Nat
  BY PageNumbers
<1>2. e \in Entries /\ pg.slots \in Seq(Entries) /\ n = Len(pg.slots)
  <2>1. id \in SlotIds
    <3>1. pg.highest \in 0 .. 255
      BY PageNumbers DEF SlotIds
    <3> QED BY <3>1 DEF SlotIds
  <2> QED BY <2>1, PageSequences DEF Entries, Total
<1>3. /\ slots \in Seq(Entries) /\ Len(slots) = n + 1
      /\ \A i \in 1 .. n + 1 :
            slots[i] = IF i < p THEN pg.slots[i] ELSE IF i = p THEN e ELSE pg.slots[i - 1]
  <2>1. p \in 1 .. Len(pg.slots) + 1
    BY <1>2
  <2> DEFINE old == pg.slots
  <2>2. e \in Entries /\ old \in Seq(Entries) /\ p \in 1 .. Len(old) + 1 /\ n = Len(old)
    BY <1>2, <2>1
  <2> HIDE DEF e, old
  <2>3. Inserted(Entries, old, p, e)
    BY <2>2, InsertedAt, Zenon
  <2> QED BY <2>2, <2>3 DEF Inserted, old
<1>4. used \in Int /\ end \in Int
  <2>1. INDEX_SLOT_DATA_SIZE \in Nat /\ SLOT_ENTRY_SIZE \in Nat
    BY SizesAreSizes
  <2>2. pg.used \in Int /\ pg.end \in Int
    BY PageNumbers
  <2> QED BY <2>1, <2>2
<1>5. new = [pg EXCEPT !.slots = slots, !.used = used, !.end = end]
  BY DEF PutSlot
<1> HIDE DEF slots, used, end, new
<1>6. new \in PageRecords
  BY <1>3, <1>4, <1>5 DEF PageRecords, Entries
<1>7. /\ new.slots = slots /\ new.used = used /\ new.end = end /\ new.kind = pg.kind
      /\ new.sibling = pg.sibling /\ new.free = pg.free /\ new.highest = pg.highest
  BY <1>5 DEF PageRecords
<1>8. Total(new) = n + 1
  BY <1>3, <1>7 DEF Total
<1>9. ASSUME NEW i \in 1 .. n + 1
      PROVE  IdAt(new, i) = IF i < p THEN IdAt(pg, i) ELSE IF i = p THEN id ELSE IdAt(pg, i - 1)
  BY <1>3, <1>7 DEF IdAt
<1>10. /\ \A i, j \in 1 .. n : i # j => IdAt(pg, i) # IdAt(pg, j)
       /\ \A i, j \in 1 .. Len(pg.free) : i # j => pg.free[i] # pg.free[j]
       /\ \A i \in 1 .. n, j \in 1 .. Len(pg.free) : IdAt(pg, i) # pg.free[j]
       /\ \A i \in 1 .. n : IdAt(pg, i) \in 1 .. pg.highest
       /\ \A j \in 1 .. Len(pg.free) : pg.free[j] \in 1 .. pg.highest
  BY IdsDistinctParts
<1>11. /\ \A i \in 1 .. n : IdAt(pg, i) # id
       /\ \A j \in 1 .. Len(pg.free) : pg.free[j] # id
  BY DEF Fresh
\* Where the entries that were there have come from.
<1> DEFINE old(i) == IF i < p THEN i ELSE i - 1
<1>12. ASSUME NEW i \in 1 .. n + 1, i # p
       PROVE  old(i) \in 1 .. n /\ IdAt(new, i) = IdAt(pg, old(i))
  <2>1. old(i) \in 1 .. n
    BY <1>1, <1>12
  <2> QED BY <1>9, <1>12, <2>1
<1>13. ASSUME NEW i \in 1 .. n + 1, NEW j \in 1 .. n + 1, i # j, i # p, j # p
       PROVE  old(i) # old(j)
  BY <1>1, <1>13
<1>14. IdAt(new, p) = id
  BY <1>1, <1>9
<1> HIDE DEF old
<1>15. IdsDistinct(new)
  <2>1. ASSUME NEW i \in 1 .. n + 1, NEW j \in 1 .. n + 1, i # j
        PROVE  IdAt(new, i) # IdAt(new, j)
    <3>1. CASE i # p /\ j # p
      BY <1>10, <1>12, <1>13, <2>1, <3>1
    <3>2. CASE i = p
      BY <1>12, <1>14, <1>11, <2>1, <3>2
    <3>3. CASE j = p
      BY <1>12, <1>14, <1>11, <2>1, <3>3
    <3> QED BY <3>1, <3>2, <3>3
  <2>2. ASSUME NEW i \in 1 .. n + 1, NEW j \in 1 .. Len(pg.free)
        PROVE  IdAt(new, i) # pg.free[j]
    BY <1>10, <1>12, <1>14, <1>11
  <2>3. ASSUME NEW i \in 1 .. n + 1 PROVE IdAt(new, i) \in 1 .. pg.highest
    BY <1>10, <1>12, <1>14, <1>11
  <2> QED BY <1>6, <1>7, <1>8, <1>10, <2>1, <2>2, <2>3, IdsDistinctParts
<1> QED BY <1>6, <1>7, <1>8, <1>15 DEF slots, used, end, new

----------------------------------------------------------------------------
(* write_index_slot, free_index_slot and the cut at the end of a split. *)

\* No id gets lost: it stays in the directory or goes to the free list.
IdsKept(pg, new) == Ids(pg) \cup Range(pg.free) \subseteq Ids(new) \cup Range(new.free)

Grown(pg, new) ==
    /\ PageOK(new) /\ new.sibling = pg.sibling /\ new.kind \in {pg.kind, "torn"}
    /\ IdsKept(pg, new)
    /\ Rows(pg) \subseteq Rows(new)
    /\ Rows(new) = Rows(pg) \/ \E r : Rows(new) = Rows(pg) \cup {r}

Shrunk(pg, new, id) ==
    /\ PageOK(new) /\ new.kind \in {pg.kind, "torn"}
    /\ new.kind # "torn" => new.sibling = pg.sibling
    /\ Total(new) <= Total(pg) /\ Total(pg) <= Total(new) + 1
    /\ IdsKept(pg, new)
    /\ \/ Rows(new) = Rows(pg)
       \/ \E key : <<id, key>> \in Rows(pg) /\ Rows(new) = Rows(pg) \ {<<id, key>>}
    /\ ~Readable(pg, id) => Rows(new) = Rows(pg)

\* A page that differs in its flag and its sibling only.
LEMMA Relabelled ==
    ASSUME NEW pg, PageOK(pg), NEW new \in PageRecords, new.kind \in {pg.kind, "torn"},
           new.slots = pg.slots, new.free = pg.free, new.highest = pg.highest,
           new.used = pg.used, new.end = pg.end
    PROVE  PageOK(new)
<1>1. IdsDistinct(new)
  BY DEF PageOK, IdsDistinct, IdAt
<1>2. Accounted(new)
  BY DEF PageOK, Accounted, Total
<1>3. KeptApart(new)
  BY DEF PageOK, KeptApart, Total
<1> QED BY <1>1, <1>2, <1>3 DEF PageOK

LEMMA UnchangedGrows ==
    ASSUME NEW pg, PageOK(pg)
    PROVE  Grown(pg, pg)
BY DEF Grown, IdsKept

\* The accounts of a write.
LEMMA WriteAccounted ==
    ASSUME NEW pg, PageOK(pg), pg.kind # "torn", ~ReachesFull(pg),
           NEW new \in PageRecords, IdsDistinct(new), Total(new) = Total(pg) + 1,
           new.highest <= pg.highest + 1,
           new.used = pg.used + INDEX_SLOT_DATA_SIZE + SLOT_ENTRY_SIZE,
           new.end = pg.end - INDEX_SLOT_DATA_SIZE
    PROVE  /\ Accounted(new)
           /\ ~DirectoryMeetsData(pg)
                  => HEADER_SIZE + SLOT_ENTRY_SIZE * Total(new) <= new.end
<1> DEFINE t == Total(pg)
           d == INDEX_SLOT_DATA_SIZE
           e == KEY_SIZE + SLOT_ENTRY_SIZE
           f == INDEX_SLOT_DATA_SIZE - KEY_SIZE
<1>1. t \in Nat /\ pg.used \in Int /\ pg.end \in Int /\ pg.highest \in Nat
      /\ new.highest \in Nat
  BY PageNumbers DEF PageOK
<1>2. d \in Nat /\ e \in Nat /\ f \in Nat /\ e + f = d + SLOT_ENTRY_SIZE
      /\ HEADER_SIZE \in Nat /\ MAX_USABLE_PAGE_SIZE \in Nat /\ SLOT_ENTRY_SIZE \in Nat
  BY SizesAreSizes
<1>3. PICK n \in 0 .. 255 : AccountsFor(pg, n) /\ n <= 254
  BY Writes
<1>4. /\ pg.end = MAX_USABLE_PAGE_SIZE - d * n
      /\ pg.highest <= n /\ t <= n
      /\ HEADER_SIZE + e * t + f * n <= pg.used
  BY <1>3 DEF AccountsFor
<1> HIDE DEF d, e, f, t
<1>5. /\ d * n \in Int /\ d * (n + 1) = d * n + d
      /\ e * t \in Int /\ e * (t + 1) = e * t + e
      /\ f * n \in Int /\ f * (n + 1) = f * n + f
  BY <1>1, <1>2, <1>3, NextProduct
<1>6. Total(new) = t + 1 /\ new.used = pg.used + d + SLOT_ENTRY_SIZE /\ new.end = pg.end - d
  BY DEF t, d
<1>7. new.used <= MAX_USABLE_PAGE_SIZE
  <2>1. 5 * pg.used < 4 * MAX_USABLE_PAGE_SIZE
    BY <1>1, <1>2 DEF ReachesFull
  <2>2. 5 * (d + SLOT_ENTRY_SIZE) <= MAX_USABLE_PAGE_SIZE
    BY SlotHasRoom DEF d
  <2> QED BY <1>1, <1>2, <1>6, <2>1, <2>2
<1>8. new.end = MAX_USABLE_PAGE_SIZE - d * (n + 1)
  BY <1>1, <1>2, <1>4, <1>5, <1>6
<1>9. new.highest <= n + 1 /\ t + 1 <= n + 1
  BY <1>1, <1>3, <1>4
<1>10. HEADER_SIZE + e * (t + 1) + f * (n + 1) <= new.used
  BY <1>1, <1>2, <1>4, <1>5, <1>6
<1>11. AccountsFor(new, n + 1)
  BY <1>6, <1>7, <1>8, <1>9, <1>10 DEF AccountsFor, d, e, f
<1>12. n + 1 \in 0 .. 255
  BY <1>3
<1>13. Accounted(new)
  BY <1>11, <1>12, AccountedMeans
<1>14. ASSUME ~DirectoryMeetsData(pg) PROVE HEADER_SIZE + SLOT_ENTRY_SIZE * Total(new) <= new.end
  <2>1. SLOT_ENTRY_SIZE * (t + 1) \in Int
    BY <1>1, <1>2, NextProduct
  <2>2. HEADER_SIZE + SLOT_ENTRY_SIZE * (t + 1) <= pg.end - d
    BY <1>1, <1>2, <1>14, <2>1 DEF DirectoryMeetsData, t, d
  <2> QED BY <1>6, <2>2
<1> QED BY <1>13, <1>14

\* write_index_slot leaves a page whose ids are distinct and whose accounts
\* agree, with at most one row more.
LEMMA WrittenPage ==
    ASSUME NEW pg, PageOK(pg), pg.kind # "torn", NEW k \in AnyKey, NEW new \in WriteSlot(pg, k)
    PROVE  Grown(pg, new) /\ (~DirectoryMeetsData(pg) => new.kind = pg.kind)
<1> DEFINE found == FindEmptySlot(pg)
           n     == Total(pg)
<1>1. pg \in PageRecords /\ IdsDistinct(pg) /\ PageOK(pg) /\ pg.kind # "torn"
  BY DEF PageOK
<1>2. CASE ReachesFull(pg) \/ found.id = NoSlot
  <2>1. new = pg
    BY <1>1, <1>2, NoSlotLeavesPage DEF WriteSlot
  <2> QED BY <1>1, <2>1, UnchangedGrows
<1>3. CASE ~ReachesFull(pg) /\ found.id # NoSlot
  <2> DEFINE q  == found.page
             id == found.id
             e  == [id |-> id, key |-> k]
  <2>1. /\ q \in PageRecords /\ IdsDistinct(q) /\ id \in 1 .. q.highest
        /\ \A i \in 1 .. n : IdAt(pg, i) # id
        /\ \A j \in 1 .. Len(q.free) : q.free[j] # id
        /\ Range(pg.free) \subseteq Range(q.free) \cup {id}
        /\ q.kind = pg.kind /\ q.slots = pg.slots /\ q.used = pg.used /\ q.end = pg.end
        /\ q.sibling = pg.sibling
        /\ q.highest <= pg.highest + 1
    BY <1>1, <1>3, FoundSlot
  <2> DEFINE put(p) == PutSlot(q, id, p, k)
  <2>2. PICK p \in InsertPositions(q, k) : new = TornIf(DirectoryMeetsData(pg), put(p))
    BY <1>3 DEF WriteSlot
  <2> DEFINE written == put(p)
  <2> HIDE DEF q, id
  <2>3. Total(q) = n /\ \A i : IdAt(q, i) = IdAt(pg, i)
    BY <2>1 DEF Total, IdAt
  <2>4. p \in 1 .. Total(q) + 1
    BY <2>2 DEF InsertPositions
  <2>5. Fresh(q, id)
    BY <2>1, <2>3 DEF Fresh
  <2>6. /\ written \in PageRecords /\ IdsDistinct(written) /\ Total(written) = Total(q) + 1
        /\ written.slots = InsertAt(q.slots, p, e)
        /\ written.kind = q.kind /\ written.sibling = q.sibling /\ written.free = q.free
        /\ written.highest = q.highest
        /\ written.used = q.used + INDEX_SLOT_DATA_SIZE + SLOT_ENTRY_SIZE
        /\ written.end = q.end - INDEX_SLOT_DATA_SIZE
    BY <2>1, <2>4, <2>5, PutSlotOK
  <2> HIDE DEF written, put
  <2>7. /\ Accounted(written)
        /\ ~DirectoryMeetsData(pg)
               => HEADER_SIZE + SLOT_ENTRY_SIZE * Total(written) <= written.end
    <3>1. /\ Total(written) = Total(pg) + 1 /\ written.highest <= pg.highest + 1
          /\ written.used = pg.used + INDEX_SLOT_DATA_SIZE + SLOT_ENTRY_SIZE
          /\ written.end = pg.end - INDEX_SLOT_DATA_SIZE
      BY <2>1, <2>3, <2>6
    <3>2. written \in PageRecords /\ IdsDistinct(written)
      BY <2>6
    <3> QED BY <1>1, <1>3, <3>1, <3>2, WriteAccounted
  <2>8. e \in Entries /\ q.slots \in Seq(Entries) /\ Total(q) = Len(q.slots)
    <3>1. q.highest \in 0 .. 255
      BY <2>1, PageNumbers DEF SlotIds
    <3>2. id \in SlotIds
      <4>1. id \in 1 .. q.highest
        BY <2>1
      <4> QED BY <3>1, <4>1 DEF SlotIds
    <3> QED BY <2>1, <3>2, PageSequences DEF Entries, Total
  <2>9. Range(written.slots) = Range(pg.slots) \cup {e}
    <3>1. p \in 1 .. Len(q.slots) + 1
      BY <2>4, <2>8
    <3> HIDE DEF e
    <3> QED BY <2>1, <2>6, <2>8, <3>1, InsertedRange
  <2>10. Rows(written) = Rows(pg) \cup {<<id, k>>} /\ Ids(written) = Ids(pg) \cup {id}
    <3>1. e.id = id /\ e.key = k
      OBVIOUS
    <3> HIDE DEF e
    <3>2. Rows(written) = {<<x.id, x.key>> : x \in Range(pg.slots) \cup {e}}
          /\ Ids(written) = {x.id : x \in Range(pg.slots) \cup {e}}
      BY <2>9 DEF Rows, Ids
    <3> QED BY <3>1, <3>2 DEF Rows, Ids
  <2>11. IdsKept(pg, written)
    BY <2>1, <2>6, <2>10 DEF IdsKept
  <2>12. ASSUME PageOK(new), new.sibling = written.sibling, new.kind \in {written.kind, "torn"},
                new.slots = written.slots, new.free = written.free
         PROVE  Grown(pg, new)
    <3>1. Rows(new) = Rows(written) /\ IdsKept(pg, new)
      BY <2>11, <2>12 DEF Rows, IdsKept, Ids
    <3>2. new.sibling = pg.sibling /\ new.kind \in {pg.kind, "torn"}
      BY <2>1, <2>6, <2>12
    <3> QED BY <2>10, <2>12, <3>1, <3>2 DEF Grown
  <2>13. CASE ~DirectoryMeetsData(pg)
    <3>1. new = written
      BY <2>2, <2>13 DEF TornIf, written
    <3>2. PageOK(written)
      BY <2>6, <2>7, <2>13 DEF PageOK, KeptApart
    <3> QED BY <2>1, <2>6, <2>12, <3>1, <3>2
  <2>14. CASE DirectoryMeetsData(pg)
    <3>1. new = [written EXCEPT !.kind = "torn"]
      BY <2>2, <2>14 DEF TornIf, written
    <3>2. new \in PageRecords
      BY <2>6, <3>1 DEF PageRecords, Kinds
    <3>3. /\ new.slots = written.slots /\ new.free = written.free
          /\ new.highest = written.highest /\ new.used = written.used
          /\ new.end = written.end /\ new.sibling = written.sibling /\ new.kind = "torn"
      BY <2>6, <3>1 DEF PageRecords
    <3>4. PageOK(new)
      <4>1. IdsDistinct(new)
        BY <2>6, <3>3 DEF IdsDistinct, IdAt
      <4>2. Accounted(new)
        BY <2>7, <3>3 DEF Accounted, IdAt, Total
      <4>3. KeptApart(new)
        BY <3>3 DEF KeptApart
      <4> QED BY <3>2, <4>1, <4>2, <4>3 DEF PageOK
    <3> QED BY <2>12, <2>14, <3>3, <3>4
  <2> QED BY <2>13, <2>14
<1> QED BY <1>2, <1>3

\* free_index_slot takes one entry out of the directory and lists its id.
LEMMA FreedOK ==
    ASSUME NEW pg, PageOK(pg), NEW id \in SlotIds, Readable(pg, id)
    PROVE  LET new == Freed(pg, id)
           IN  /\ PageOK(new) /\ new.sibling = pg.sibling /\ new.kind = pg.kind
               /\ Total(new) <= Total(pg) /\ Total(pg) <= Total(new) + 1
               /\ IdsKept(pg, new)
               /\ \E key : <<id, key>> \in Rows(pg) /\ Rows(new) = Rows(pg) \ {<<id, key>>}
<1> DEFINE new == Freed(pg, id)
           n   == Total(pg)
<1>1. pg \in PageRecords /\ IdsDistinct(pg) /\ Accounted(pg) /\ KeptApart(pg)
  BY DEF PageOK
<1>2. /\ pg.highest \in Nat /\ pg.used \in Int /\ pg.end \in Int /\ n \in Nat
      /\ Len(pg.free) \in Nat /\ DOMAIN pg.slots = 1 .. n
  BY <1>1, PageNumbers
<1> DEFINE p     == CHOOSE j \in DOMAIN pg.slots : IdAt(pg, j) = id
           slots == RemoveAt(pg.slots, p)
           free  == Append(pg.free, id)
           used  == pg.used - (KEY_SIZE + SLOT_ENTRY_SIZE)
<1>3. new = [pg EXCEPT !.slots = slots, !.free = free, !.used = used]
  BY DEF Freed
<1>4. p \in 1 .. n /\ IdAt(pg, p) = id
  <2>1. \E j \in DOMAIN pg.slots : IdAt(pg, j) = id
    <3>1. id \in Ids(pg)
      BY DEF Readable
    <3>2. PICK e \in Range(pg.slots) : e.id = id
      BY <3>1 DEF Ids
    <3> QED BY <3>2 DEF Range, IdAt
  <2> QED BY <1>2, <2>1
<1> HIDE DEF p
<1>5. pg.slots \in Seq(Entries) /\ pg.free \in Seq(SlotIds) /\ n = Len(pg.slots)
  BY <1>1, PageSequences DEF Total
<1>6. /\ slots \in Seq(Entries) /\ Len(slots) = n - 1
      /\ \A i \in 1 .. n - 1 : slots[i] = IF i < p THEN pg.slots[i] ELSE pg.slots[i + 1]
  <2>1. p \in 1 .. Len(pg.slots)
    BY <1>4, <1>5
  <2> QED BY <1>5, <2>1, RemovedAt
<1>7. /\ free \in Seq(SlotIds) /\ Len(free) = Len(pg.free) + 1
      /\ \A i \in 1 .. Len(pg.free) : free[i] = pg.free[i]
      /\ free[Len(pg.free) + 1] = id
      /\ Range(free) = Range(pg.free) \cup {id}
  BY <1>5, AppendedRange
<1>8. used \in Int
  BY <1>2, SizesAreSizes
<1> HIDE DEF slots, free, used, new
<1>9. new \in PageRecords
  BY <1>1, <1>3, <1>6, <1>7, <1>8 DEF PageRecords, Entries
<1>10. /\ new.slots = slots /\ new.free = free /\ new.used = used /\ new.end = pg.end
      /\ new.highest = pg.highest /\ new.kind = pg.kind /\ new.sibling = pg.sibling
  BY <1>1, <1>3 DEF PageRecords
<1>11. Total(new) = n - 1 /\ n - 1 \in Nat
  BY <1>2, <1>4, <1>6, <1>10 DEF Total
\* Where the entries that remain have come from.
<1> DEFINE old(i) == IF i < p THEN i ELSE i + 1
<1>12. ASSUME NEW i \in 1 .. n - 1
       PROVE  old(i) \in 1 .. n /\ old(i) # p /\ IdAt(new, i) = IdAt(pg, old(i))
  <2>1. old(i) \in 1 .. n /\ old(i) # p
    BY <1>2, <1>4
  <2> QED BY <1>6, <1>10, <2>1 DEF IdAt
<1>13. ASSUME NEW i \in 1 .. n - 1, NEW j \in 1 .. n - 1, i # j PROVE old(i) # old(j)
  BY <1>2, <1>4, <1>13
<1> HIDE DEF old
<1>14. /\ \A i, j \in 1 .. n : i # j => IdAt(pg, i) # IdAt(pg, j)
       /\ \A i, j \in 1 .. Len(pg.free) : i # j => pg.free[i] # pg.free[j]
       /\ \A i \in 1 .. n, j \in 1 .. Len(pg.free) : IdAt(pg, i) # pg.free[j]
       /\ \A i \in 1 .. n : IdAt(pg, i) \in 1 .. pg.highest
       /\ \A j \in 1 .. Len(pg.free) : pg.free[j] \in 1 .. pg.highest
  BY <1>1, IdsDistinctParts
<1>15. \A j : j \in 1 .. Len(free) <=> j \in 1 .. Len(pg.free) \/ j = Len(pg.free) + 1
  BY <1>2, <1>7
<1>16. IdsDistinct(new)
  <2>1. ASSUME NEW i \in 1 .. n - 1, NEW j \in 1 .. n - 1, i # j
        PROVE  IdAt(new, i) # IdAt(new, j)
    BY <1>12, <1>13, <1>14, <2>1
  <2>2. ASSUME NEW i \in 1 .. n - 1, NEW j \in 1 .. Len(free) PROVE IdAt(new, i) # free[j]
    <3>1. IdAt(new, i) = IdAt(pg, old(i)) /\ old(i) \in 1 .. n /\ old(i) # p
      BY <1>12
    <3>2. CASE j \in 1 .. Len(pg.free)
      BY <1>7, <1>14, <3>1, <3>2
    <3>3. CASE j = Len(pg.free) + 1
      BY <1>4, <1>7, <1>14, <3>1, <3>3
    <3> QED BY <1>15, <3>2, <3>3
  <2>3. \A i \in 1 .. n - 1 : IdAt(new, i) \in 1 .. pg.highest
    BY <1>12, <1>14
  <2>4. \A j \in 1 .. Len(free) : free[j] \in 1 .. pg.highest
    BY <1>4, <1>7, <1>14, <1>15
  <2>5. ASSUME NEW i \in 1 .. Len(free), NEW j \in 1 .. Len(free), i # j
        PROVE  free[i] # free[j]
    <3>1. \A l \in 1 .. Len(pg.free) : free[l] = pg.free[l] /\ free[l] # id
      BY <1>4, <1>7, <1>14
    <3> QED BY <1>7, <1>14, <1>15, <2>5, <3>1
  <2> QED BY <1>9, <1>10, <1>11, <2>1, <2>2, <2>3, <2>4, <2>5, IdsDistinctParts
<1>17. Accounted(new)
  <2> DEFINE m == n - 1
             e == KEY_SIZE + SLOT_ENTRY_SIZE
             f == INDEX_SLOT_DATA_SIZE - KEY_SIZE
  <2>1. PICK w \in 0 .. 255 : AccountsFor(pg, w)
    BY <1>1, AccountedMeans
  <2>2. /\ pg.end = MAX_USABLE_PAGE_SIZE - INDEX_SLOT_DATA_SIZE * w
        /\ pg.highest <= w /\ n <= w
        /\ HEADER_SIZE + e * n + f * w <= pg.used
        /\ pg.used <= MAX_USABLE_PAGE_SIZE
    BY <2>1 DEF AccountsFor
  <2>3. m \in Nat /\ n = m + 1 /\ e \in Nat /\ f \in Nat /\ HEADER_SIZE \in Nat
        /\ MAX_USABLE_PAGE_SIZE \in Nat
    BY <1>2, <1>11, Sizes
  <2>4. Total(new) = m /\ new.used = pg.used - e /\ new.end = pg.end /\ new.highest = pg.highest
    BY <1>10, <1>11 DEF used
  <2> HIDE DEF m, e, f
  <2>5. e * m \in Int /\ e * n = e * m + e /\ f * w \in Int
    BY <2>3, NextProduct
  <2>6. HEADER_SIZE + e * m + f * w <= new.used /\ new.used <= MAX_USABLE_PAGE_SIZE
    BY <1>2, <2>2, <2>3, <2>4, <2>5
  <2>7. new.highest <= w /\ m <= w
    BY <1>2, <2>2, <2>3, <2>4
  <2>8. AccountsFor(new, w)
    BY <2>2, <2>4, <2>6, <2>7 DEF AccountsFor, e, f
  <2> QED BY <2>8, AccountedMeans
<1>18. KeptApart(new)
  <2> SUFFICES ASSUME new.kind # "torn"
               PROVE  HEADER_SIZE + SLOT_ENTRY_SIZE * Total(new) <= new.end
    BY DEF KeptApart
  <2>1. HEADER_SIZE + SLOT_ENTRY_SIZE * n <= pg.end /\ new.end = pg.end
    BY <1>1, <1>10 DEF KeptApart
  <2>2. /\ SLOT_ENTRY_SIZE * Total(new) <= SLOT_ENTRY_SIZE * n
        /\ SLOT_ENTRY_SIZE * Total(new) \in Int /\ SLOT_ENTRY_SIZE * n \in Int
    <3>1. Total(new) \in Nat /\ n \in Nat /\ Total(new) <= n
      BY <1>2, <1>11
    <3> QED BY <3>1, Sizes, SmallerProduct
  <2> QED BY <1>2, <2>1, <2>2, Sizes
<1>19. Range(slots) = Range(pg.slots) \ {pg.slots[p]}
  <2>1. p \in 1 .. Len(pg.slots)
    BY <1>4, <1>5
  <2>2. \A i \in 1 .. Len(pg.slots) : i # p => pg.slots[i] # pg.slots[p]
    BY <1>4, <1>5, <1>14 DEF IdAt
  <2> QED BY <1>5, <2>1, <2>2, RemovedRange DEF slots
<1>20. pg.slots[p] \in Range(pg.slots) /\ pg.slots[p].id = id
       /\ \A e \in Range(pg.slots) : e # pg.slots[p] => e.id # id
  <2>1. \A e \in Range(pg.slots) : \E i \in 1 .. n : e = pg.slots[i]
    BY <1>2 DEF Range
  <2>2. \A i \in 1 .. n : i # p => pg.slots[i].id # id
    BY <1>4, <1>14 DEF IdAt
  <2> QED BY <1>2, <1>4, <2>1, <2>2 DEF Range, IdAt
<1>21. Ids(pg) \subseteq Ids(new) \cup {id}
  BY <1>10, <1>19, <1>20 DEF Ids
<1>22. Rows(new) = Rows(pg) \ {<<id, pg.slots[p].key>>}
       /\ <<id, pg.slots[p].key>> \in Rows(pg)
  BY <1>10, <1>19, <1>20 DEF Rows
<1>23. IdsKept(pg, new)
  BY <1>7, <1>10, <1>21 DEF IdsKept
<1>24. PageOK(new) /\ new.sibling = pg.sibling /\ new.kind = pg.kind
  BY <1>9, <1>10, <1>16, <1>17, <1>18 DEF PageOK
<1>25. Total(new) <= n /\ n <= Total(new) + 1
  BY <1>2, <1>11
<1>26. \E key : <<id, key>> \in Rows(pg) /\ Rows(new) = Rows(pg) \ {<<id, key>>}
  BY <1>22
<1> QED BY <1>23, <1>24, <1>25, <1>26 DEF new

LEMMA FreedPage ==
    ASSUME NEW pg, PageOK(pg), NEW id \in SlotIds, NEW new \in FreeSlot(pg, id)
    PROVE  Shrunk(pg, new, id)
<1>1. CASE ~Readable(pg, id)
  <2>1. new = pg
    BY <1>1 DEF FreeSlot
  <2>2. Total(pg) \in Nat
    BY PageNumbers DEF PageOK
  <2>3. Total(pg) <= Total(pg) /\ Total(pg) <= Total(pg) + 1
    BY <2>2
  <2> QED BY <2>1, <2>3 DEF Shrunk, IdsKept
<1>2. CASE Readable(pg, id)
  <2> DEFINE mid == Freed(pg, id)
  <2>1. /\ PageOK(mid) /\ mid.sibling = pg.sibling /\ mid.kind = pg.kind
        /\ Total(mid) <= Total(pg) /\ Total(pg) <= Total(mid) + 1
        /\ IdsKept(pg, mid)
        /\ \E key : <<id, key>> \in Rows(pg) /\ Rows(mid) = Rows(pg) \ {<<id, key>>}
    BY <1>2, FreedOK
  <2>2. new = mid \/ \E s \in Pages : new = [mid EXCEPT !.kind = "torn", !.sibling = s]
    BY <1>2 DEF FreeSlot
  <2> HIDE DEF mid
  <2>3. CASE new = mid
    BY <1>2, <2>1, <2>3 DEF Shrunk
  <2>4. CASE \E s \in Pages : new = [mid EXCEPT !.kind = "torn", !.sibling = s]
    <3>1. PICK s \in Pages : new = [mid EXCEPT !.kind = "torn", !.sibling = s]
      BY <2>4
    <3>2. mid \in PageRecords
      BY <2>1 DEF PageOK
    <3>3. new \in PageRecords
      BY <3>1, <3>2 DEF PageRecords, Kinds
    <3>4. /\ new.slots = mid.slots /\ new.free = mid.free /\ new.highest = mid.highest
          /\ new.used = mid.used /\ new.end = mid.end /\ new.kind = "torn"
      BY <3>1, <3>2 DEF PageRecords
    <3>5. PageOK(new)
      BY <2>1, <3>3, <3>4, Relabelled
    <3>6. Total(new) = Total(mid) /\ Rows(new) = Rows(mid) /\ IdsKept(pg, new)
      BY <2>1, <3>4 DEF Total, Rows, IdsKept, Ids
    <3> QED BY <1>2, <2>1, <3>4, <3>5, <3>6 DEF Shrunk
  <2> QED BY <2>2, <2>3, <2>4
<1> QED BY <1>1, <1>2

LEMMA CutPage ==
    ASSUME NEW pg, PageOK(pg), NEW mid \in 0 .. Total(pg)
    PROVE  LET new == [pg EXCEPT !.slots = SubSeq(@, 1, mid)]
           IN  PageOK(new) /\ new.sibling = pg.sibling /\ new.kind = pg.kind
<1> DEFINE slots == SubSeq(pg.slots, 1, mid)
           new   == [pg EXCEPT !.slots = slots]
           n     == Total(pg)
<1>1. pg \in PageRecords /\ IdsDistinct(pg) /\ Accounted(pg) /\ KeptApart(pg)
  BY DEF PageOK
<1>2. n \in Nat /\ mid \in Nat /\ pg.used \in Int /\ pg.end \in Int
  BY <1>1, PageNumbers
<1>3. pg.slots \in Seq(Entries) /\ \A i \in 1 .. mid : i \in 1 .. n /\ pg.slots[i] \in Entries
  <2>1. \A i \in 1 .. mid : i \in 1 .. n
    BY <1>2
  <2> QED BY <1>1, <2>1, PageSequences, PageEntries
<1>4. slots \in Seq(Entries) /\ Len(slots) = mid /\ \A i \in 1 .. mid : slots[i] = pg.slots[i]
  <2>1. \A i \in 1 .. mid : pg.slots[i] \in Entries
    BY <1>3
  <2>2. /\ slots \in Seq(Entries) /\ Len(slots) = IF 1 <= mid THEN mid - 1 + 1 ELSE 0
        /\ \A i \in 1 .. mid - 1 + 1 : slots[i] = pg.slots[1 + i - 1]
    BY <1>2, <2>1, SubSeqProperties
  <2> HIDE DEF slots
  <2>3. \A i \in 1 .. mid : i \in 1 .. mid - 1 + 1 /\ 1 + i - 1 = i
    BY <1>2
  <2>4. Len(slots) = mid
    BY <1>2, <2>2
  <2> QED BY <2>2, <2>3, <2>4
<1> HIDE DEF slots
<1>5. new \in PageRecords
  BY <1>1, <1>4 DEF PageRecords, Entries
<1>6. /\ new.slots = slots /\ new.free = pg.free /\ new.highest = pg.highest
      /\ new.used = pg.used /\ new.end = pg.end /\ new.sibling = pg.sibling
      /\ new.kind = pg.kind
  BY <1>1 DEF PageRecords
<1> HIDE DEF new
<1>7. Total(new) = mid /\ \A i \in 1 .. mid : IdAt(new, i) = IdAt(pg, i)
  BY <1>4, <1>6 DEF Total, IdAt
<1>8. IdsDistinct(new)
  <2>1. /\ \A i, j \in 1 .. n : i # j => IdAt(pg, i) # IdAt(pg, j)
        /\ \A i, j \in 1 .. Len(pg.free) : i # j => pg.free[i] # pg.free[j]
        /\ \A i \in 1 .. n, j \in 1 .. Len(pg.free) : IdAt(pg, i) # pg.free[j]
        /\ \A i \in 1 .. n : IdAt(pg, i) \in 1 .. pg.highest
        /\ \A j \in 1 .. Len(pg.free) : pg.free[j] \in 1 .. pg.highest
    BY <1>1, IdsDistinctParts
  <2>2. \A i, j \in 1 .. mid : i # j => IdAt(new, i) # IdAt(new, j)
    BY <1>3, <1>7, <2>1
  <2>3. \A i \in 1 .. mid, j \in 1 .. Len(pg.free) : IdAt(new, i) # pg.free[j]
    BY <1>3, <1>7, <2>1
  <2>4. \A i \in 1 .. mid : IdAt(new, i) \in 1 .. pg.highest
    BY <1>3, <1>7, <2>1
  <2> QED BY <1>5, <1>6, <1>7, <2>1, <2>2, <2>3, <2>4, IdsDistinctParts
<1>9. mid <= n
  BY <1>2
<1>10. Accounted(new)
  <2> DEFINE e == KEY_SIZE + SLOT_ENTRY_SIZE
             f == INDEX_SLOT_DATA_SIZE - KEY_SIZE
  <2>1. PICK w \in 0 .. 255 : AccountsFor(pg, w)
    BY <1>1, AccountedMeans
  <2>2. /\ pg.end = MAX_USABLE_PAGE_SIZE - INDEX_SLOT_DATA_SIZE * w
        /\ pg.highest <= w /\ n <= w
        /\ HEADER_SIZE + e * n + f * w <= pg.used
        /\ pg.used <= MAX_USABLE_PAGE_SIZE
    BY <2>1 DEF AccountsFor
  <2>3. e \in Nat /\ f \in Nat /\ HEADER_SIZE \in Nat
    BY Sizes
  <2> HIDE DEF e, f
  <2>4. e * mid <= e * n /\ e * mid \in Int /\ e * n \in Int /\ f * w \in Int
    BY <1>2, <1>9, <2>3, SmallerProduct, NextProduct
  <2>5. HEADER_SIZE + e * mid + f * w <= pg.used
    BY <1>2, <2>2, <2>3, <2>4
  <2>6. mid <= w
    BY <1>2, <1>9, <2>2
  <2>7. AccountsFor(new, w)
    BY <1>6, <1>7, <2>2, <2>5, <2>6 DEF AccountsFor, e, f
  <2> QED BY <2>7, AccountedMeans
<1>11. KeptApart(new)
  <2> SUFFICES ASSUME new.kind # "torn"
               PROVE  HEADER_SIZE + SLOT_ENTRY_SIZE * mid <= new.end
    BY <1>7 DEF KeptApart
  <2>1. HEADER_SIZE + SLOT_ENTRY_SIZE * n <= pg.end /\ new.end = pg.end
    BY <1>1, <1>6 DEF KeptApart
  <2>2. /\ SLOT_ENTRY_SIZE * mid <= SLOT_ENTRY_SIZE * n
        /\ SLOT_ENTRY_SIZE * mid \in Int /\ SLOT_ENTRY_SIZE * n \in Int
    BY <1>2, <1>9, Sizes, SmallerProduct
  <2> QED BY <1>2, <2>1, <2>2, Sizes
<1> QED BY <1>5, <1>6, <1>8, <1>10, <1>11 DEF PageOK, new, slots

LEMMA LinkedPage ==
    ASSUME NEW pg, PageOK(pg), NEW s \in Pages \cup {NoPage}
    PROVE  LET new == [pg EXCEPT !.sibling = s]
           IN  PageOK(new) /\ new.sibling = s /\ new.kind = pg.kind
               /\ new.slots = pg.slots /\ new.free = pg.free
<1> DEFINE new == [pg EXCEPT !.sibling = s]
<1>1. pg \in PageRecords
  BY DEF PageOK
<1>2. new \in PageRecords
  BY <1>1 DEF PageRecords
<1>3. /\ new.slots = pg.slots /\ new.free = pg.free /\ new.highest = pg.highest
      /\ new.used = pg.used /\ new.end = pg.end /\ new.sibling = s /\ new.kind = pg.kind
  BY <1>1 DEF PageRecords
<1> HIDE DEF new
<1>4. PageOK(new)
  BY <1>2, <1>3, Relabelled
<1> QED BY <1>3, <1>4 DEF new

----------------------------------------------------------------------------
(* Reads. *)

\* An id has one row.
LEMMA OneRowPerId ==
    ASSUME NEW pg, PageOK(pg), NEW id, NEW a, NEW b,
           <<id, a>> \in Rows(pg), <<id, b>> \in Rows(pg)
    PROVE  a = b
<1>1. pg \in PageRecords /\ DOMAIN pg.slots = 1 .. Total(pg)
  BY PageNumbers DEF PageOK
<1>2. \A i, j \in 1 .. Total(pg) : i # j => IdAt(pg, i) # IdAt(pg, j)
  BY <1>1, IdsDistinctParts DEF PageOK
<1>3. PICK i \in 1 .. Total(pg) : pg.slots[i].id = id /\ pg.slots[i].key = a
  BY <1>1 DEF Rows, Range
<1>4. PICK j \in 1 .. Total(pg) : pg.slots[j].id = id /\ pg.slots[j].key = b
  BY <1>1 DEF Rows, Range
<1> QED BY <1>2, <1>3, <1>4 DEF IdAt

LEMMA ReadIsRow ==
    ASSUME NEW pg, NEW id, NEW k, Readable(pg, id), k \in ReadSlot(pg, id)
    PROVE  <<id, k>> \in Rows(pg)
<1>1. PICK i \in DOMAIN pg.slots : IdAt(pg, i) = id /\ pg.slots[i].key = k
  BY DEF ReadSlot
<1> QED BY <1>1 DEF Rows, Range, IdAt

LEMMA ReadsAreKeys ==
    ASSUME NEW pg, PageOK(pg), NEW id
    PROVE  ReadSlot(pg, id) \subseteq AnyKey
<1>1. pg \in PageRecords /\ DOMAIN pg.slots = 1 .. Total(pg)
  BY PageNumbers DEF PageOK
<1>2. \A i \in DOMAIN pg.slots : pg.slots[i].key \in AnyKey
  BY <1>1, PageEntries
<1> QED BY <1>2 DEF ReadSlot

----------------------------------------------------------------------------
(* The inductive invariant. *)

GoodPages == {pg \in PageRecords : PageOK(pg)}

\* While a split runs, its leaf holds at least the slots the loop has not
\* come to and half of those it had, so that the cut at its end finds them.
\* One that was given the leaf's own page has nothing to move.
SplitRuns ==
    /\ split.leaf \in Pages /\ split.leaf = root
    /\ split.new \in Pages /\ (split.new = split.leaf => split.count = 0)
    /\ split.count \in 0 .. 254 /\ split.i \in split.count \div 2 .. split.count
    /\ split.count + split.count \div 2 <= Total(pages[split.leaf]) + split.i
    /\ answer = NoAnswer

SourceOK == fallback \in Pages \cup {NoPage} /\ reused \in BOOLEAN
CursorOK ==
    cursor \in [page : Pages \cup {NoPage}, slot : SlotIds,
                whole : BOOLEAN, seen : SUBSET (Pages \X SlotIds)]
AnswerOK == answer \in [key : Asked \cup {NoKey}, slot : SlotIds]
RootOK   == root \in Pages \cup {NoPage} /\ (root \in Pages => pages[root].kind # "unused")
SplitOK ==
    /\ split \in [i : 0 .. 255, count : 0 .. 255,
                  leaf : Pages \cup {NoPage}, new : Pages \cup {NoPage}]
    /\ Idle \/ SplitRuns
RootAnswers == answer # NoAnswer => root \in Pages

IInv ==
    /\ pages \in [Pages -> GoodPages]
    /\ SourceOK
    /\ RootOK
    /\ SplitOK
    /\ CursorOK
    /\ AnswerOK
    /\ RootAnswers
    /\ ChainIntact
    /\ AnswerHolds

LEMMA GoodPage == ASSUME NEW pg PROVE pg \in GoodPages <=> PageOK(pg)
BY DEF GoodPages, PageOK

LEMMA PageOfTree ==
    ASSUME pages \in [Pages -> GoodPages], NEW p \in Pages
    PROVE  /\ PageOK(pages[p]) /\ pages[p] \in PageRecords
           /\ pages[p].sibling \in Pages \cup {NoPage}
           /\ pages[p].kind # "torn" => Total(pages[p]) \in 0 .. 254
<1>1. PageOK(pages[p]) /\ pages[p] \in PageRecords
  BY DEF GoodPages
<1>2. pages[p].kind # "torn" => Total(pages[p]) \in Nat /\ Total(pages[p]) <= 254
  BY <1>1, PageNumbers, IdsDoNotWrap
<1>3. pages[p].sibling \in Pages \cup {NoPage}
  BY <1>1 DEF PageRecords
<1>4. pages[p].kind # "torn" => Total(pages[p]) \in 0 .. 254
  BY <1>2
<1> QED BY <1>1, <1>3, <1>4

LEMMA Half ==
    ASSUME NEW n \in Nat
    PROVE  n \div 2 \in Nat /\ n \div 2 <= n
OBVIOUS

\* The checked invariants follow from the inductive one.
LEMMA InvImplies ==
    ASSUME IInv
    PROVE  TypeOK /\ SlotIdsDistinct /\ SpaceAccounted
<1>1. pages \in [Pages -> PageRecords]
  BY DEF IInv, GoodPages
<1>2. split \in [i : 0 .. 255, count : 0 .. 255,
                 leaf : Pages \cup {NoPage}, new : Pages \cup {NoPage}]
  BY DEF IInv, SplitOK
<1>3. SlotIdsDistinct /\ SpaceAccounted
  BY DEF IInv, GoodPages, PageOK, SlotIdsDistinct, SpaceAccounted
<1> QED BY <1>1, <1>2, <1>3 DEF IInv, TypeOK, SourceOK, RootOK, CursorOK, AnswerOK

----------------------------------------------------------------------------
(* get_free_page, and the steps that keep the chain. *)

\* A page in use is answered only where get_free_page has come to its end.
Granted(p) ==
    /\ fallback' \in Pages \cup {NoPage} /\ reused' \in BOOLEAN
    /\ pages[p].kind # "unused" => p = fallback /\ reused'
    /\ ~reused' => ~reused /\ pages[p].kind = "unused"

LEMMA PageGranted ==
    ASSUME SourceOK, NEW p \in Pages, GetFreePage(p)
    PROVE  Granted(p) /\ SourceOK'
<1>1. fallback' \in {fallback} \cup (IF fallback = NoPage THEN {p} ELSE {})
      /\ p \in Unused \cup {fallback}
  BY DEF GetFreePage
<1>2. fallback' \in Pages \cup {NoPage}
  BY <1>1 DEF SourceOK
<1>3. p \in Unused <=> pages[p].kind = "unused"
  BY DEF Unused
<1>4. reused' = (reused \/ p \notin Unused) /\ reused \in BOOLEAN
  BY DEF GetFreePage, SourceOK
<1>5. reused' \in BOOLEAN
  BY <1>4, Zenon
<1>6. (p \notin Unused => reused') /\ (~reused' => ~reused /\ p \in Unused)
  BY <1>4, Zenon
<1> QED BY <1>1, <1>2, <1>3, <1>5, <1>6 DEF Granted, SourceOK

LEMMA ChainStable ==
    ASSUME ChainIntact, root' = root, ~reused' => ~reused,
           \A p \in Pages : pages'[p].kind # "torn"
                => pages[p].kind # "torn" /\ pages'[p].sibling = pages[p].sibling,
           \A p \in Pages : pages[p].kind \in {"leaf", "torn"}
                                => pages'[p].kind \in {"leaf", "torn"},
           \A p \in Pages : pages[p].sibling \in Pages \cup {NoPage}
    PROVE  ChainIntact'
<1> SUFFICES ASSUME ~reused' PROVE ChainIntact'
  BY DEF ChainIntact
<1> DEFINE on  == {p \in Pages : pages[p].kind # "torn" /\ pages[p].sibling # NoPage}
           new == {p \in Pages : pages'[p].kind # "torn" /\ pages'[p].sibling # NoPage}
<1>1. /\ \A p \in on : /\ pages[pages[p].sibling].kind \in {"leaf", "torn"}
                       /\ pages[p].sibling \notin {p, root}
      /\ \A p, q \in on : p # q => pages[p].sibling # pages[q].sibling
  BY DEF ChainIntact
<1>2. \A p \in new : p \in on /\ pages'[p].sibling = pages[p].sibling /\ pages[p].sibling \in Pages
  OBVIOUS
<1> HIDE DEF on
<1>3. /\ \A p \in new : /\ pages'[pages'[p].sibling].kind \in {"leaf", "torn"}
                        /\ pages'[p].sibling \notin {p, root'}
      /\ \A p, q \in new : p # q => pages'[p].sibling # pages'[q].sibling
  BY <1>1, <1>2
<1> QED BY <1>3 DEF ChainIntact

\* A page that was not in use comes to have no sibling, or the callers' page
\* becomes one that nothing points to.
LEMMA ChainCleared ==
    ASSUME ChainIntact, NEW p \in Pages, Granted(p), root' \in {root, p},
           \A q \in Pages : q # p
                => pages'[q].sibling = pages[q].sibling /\ pages'[q].kind = pages[q].kind,
           pages'[p].sibling = NoPage,
           \A q \in Pages : pages[q].sibling \in Pages \cup {NoPage}
    PROVE  ChainIntact'
<1> SUFFICES ASSUME ~reused' PROVE ChainIntact'
  BY DEF ChainIntact
<1>1. ~reused /\ pages[p].kind = "unused"
  BY DEF Granted
<1> DEFINE on  == {q \in Pages : pages[q].kind # "torn" /\ pages[q].sibling # NoPage}
           new == {q \in Pages : pages'[q].kind # "torn" /\ pages'[q].sibling # NoPage}
<1>2. /\ \A q \in on : /\ pages[pages[q].sibling].kind \in {"leaf", "torn"}
                       /\ pages[q].sibling \notin {q, root}
      /\ \A q, r \in on : q # r => pages[q].sibling # pages[r].sibling
  BY <1>1 DEF ChainIntact
<1>3. \A q \in new : /\ q \in on /\ q # p /\ pages'[q].sibling = pages[q].sibling
                     /\ pages[q].sibling \in Pages
  OBVIOUS
<1> HIDE DEF on, new
<1>4. \A q \in new : pages[q].sibling # p
  BY <1>1, <1>2, <1>3
<1>5. \A q \in new : pages'[pages[q].sibling].kind = pages[pages[q].sibling].kind
  BY <1>3, <1>4
<1>6. /\ \A q \in new : /\ pages'[pages'[q].sibling].kind \in {"leaf", "torn"}
                        /\ pages'[q].sibling \notin {q, root'}
      /\ \A q, r \in new : q # r => pages'[q].sibling # pages'[r].sibling
  BY <1>2, <1>3, <1>4, <1>5
<1> QED BY <1>6 DEF ChainIntact, new

LEMMA InitInv == Init => IInv
<1> SUFFICES ASSUME Init PROVE IInv
  OBVIOUS
<1>1. pages = [p \in Pages |-> EmptyPage("unused")] /\ root = NoPage /\ split = NoSplit
      /\ cursor = NoCursor /\ answer = NoAnswer /\ fallback = NoPage /\ reused = FALSE
  BY DEF Init
<1>2. PageOK(EmptyPage("unused"))
  BY EmptyPageOK DEF Kinds
<1>3. pages \in [Pages -> GoodPages]
  BY <1>1, <1>2, GoodPage
<1>4. RootOK
  BY <1>1, NoPageIsNoPage DEF RootOK
<1>5. SplitOK
  BY <1>1 DEF SplitOK, Idle, NoSplit
<1>6. CursorOK
  BY <1>1 DEF CursorOK, NoCursor, SlotIds
<1>7. AnswerOK
  BY <1>1 DEF AnswerOK, NoAnswer, NoSlot, SlotIds
<1>8. ChainIntact
  <2>1. \A p \in Pages : pages[p].sibling = NoPage
    BY <1>1 DEF EmptyPage
  <2> QED BY <2>1 DEF ChainIntact
<1>9. RootAnswers /\ AnswerHolds
  BY <1>1 DEF RootAnswers, AnswerHolds
<1>10. SourceOK
  BY <1>1 DEF SourceOK
<1> QED BY <1>3, <1>4, <1>5, <1>6, <1>7, <1>8, <1>9, <1>10 DEF IInv

\* A page that comes from get_free_page is overwritten before there is a table.
LEMMA PageOverwritten ==
    ASSUME IInv, NEW p \in Pages, GetFreePage(p), NEW pg, PageOK(pg), pg.sibling = NoPage,
           pages' = [pages EXCEPT ![p] = pg], root = NoPage,
           root' = root \/ (root' = p /\ pg.kind # "unused"),
           UNCHANGED <<split, cursor, answer>>
    PROVE  IInv'
<1>1. /\ pages \in [Pages -> GoodPages] /\ SourceOK /\ ChainIntact /\ RootAnswers /\ SplitOK
      /\ CursorOK /\ AnswerOK
  BY DEF IInv
<1>2. answer = NoAnswer /\ Idle
  BY <1>1, NoPageIsNoPage DEF RootAnswers, SplitOK, SplitRuns
<1>3. /\ pages' \in [Pages -> GoodPages] /\ pages'[p] = pg
      /\ \A q \in Pages : q # p => pages'[q] = pages[q]
  BY <1>1, GoodPage
<1>4. Granted(p) /\ SourceOK'
  BY <1>1, PageGranted
<1>5. ChainIntact'
  <2>1. \A q \in Pages : pages[q].sibling \in Pages \cup {NoPage}
    BY <1>1, PageOfTree
  <2>2. root' \in {root, p}
    OBVIOUS
  <2>3. \A q \in Pages : q # p
            => pages'[q].sibling = pages[q].sibling /\ pages'[q].kind = pages[q].kind
    BY <1>3
  <2>4. pages'[p].sibling = NoPage
    BY <1>3
  <2> QED BY <1>1, <1>4, <2>1, <2>2, <2>3, <2>4, ChainCleared
<1>6. RootOK'
  BY <1>3, NoPageIsNoPage DEF RootOK
<1>7. SplitOK' /\ CursorOK' /\ AnswerOK' /\ RootAnswers' /\ AnswerHolds'
  BY <1>1, <1>2 DEF SplitOK, Idle, CursorOK, AnswerOK, RootAnswers, AnswerHolds
<1> QED BY <1>3, <1>4, <1>5, <1>6, <1>7 DEF IInv

LEMMA BtreeInitInv ==
    ASSUME IInv, BtreeInit
    PROVE  IInv'
<1>1. root = NoPage /\ UNCHANGED <<split, cursor, answer>>
  BY DEF BtreeInit
<1>2. PICK p \in Pages :
         /\ GetFreePage(p)
         /\ \/ pages' = [pages EXCEPT ![p] = EmptyPage("leaf")] /\ root' = p
            \/ pages' = [pages EXCEPT ![p] = EmptyPage("unused")] /\ UNCHANGED root
  BY DEF BtreeInit
<1>3. \A kind \in Kinds : PageOK(EmptyPage(kind)) /\ EmptyPage(kind).sibling = NoPage
                             /\ EmptyPage(kind).kind = kind
  BY EmptyPageOK DEF EmptyPage
<1>4. CASE pages' = [pages EXCEPT ![p] = EmptyPage("leaf")] /\ root' = p
  <2>1. PageOK(EmptyPage("leaf")) /\ EmptyPage("leaf").sibling = NoPage
        /\ EmptyPage("leaf").kind = "leaf"
    BY <1>3 DEF Kinds
  <2> QED BY <1>1, <1>2, <1>4, <2>1, PageOverwritten
<1>5. CASE pages' = [pages EXCEPT ![p] = EmptyPage("unused")] /\ UNCHANGED root
  <2>1. PageOK(EmptyPage("unused")) /\ EmptyPage("unused").sibling = NoPage
    BY <1>3 DEF Kinds
  <2> QED BY <1>1, <1>2, <1>5, <2>1, PageOverwritten
<1> QED BY <1>2, <1>4, <1>5

\* A row written into a page of its own that nothing points to.
LEMMA InsertWithoutRootInv ==
    ASSUME IInv, NEW k \in Keys, InsertWithoutRoot(k)
    PROVE  IInv'
<1>1. Unused = Pages /\ UNCHANGED <<root, split, cursor, answer>>
  BY DEF InsertWithoutRoot
<1>2. PICK p \in Pages : /\ GetFreePage(p)
                         /\ \E pg \in WriteSlot(EmptyPage("leaf"), k) :
                               pages' = [pages EXCEPT ![p] = pg]
  BY DEF InsertWithoutRoot
<1>3. PICK pg \in WriteSlot(EmptyPage("leaf"), k) : pages' = [pages EXCEPT ![p] = pg]
  BY <1>2
<1>4. root = NoPage
  BY <1>1 DEF IInv, RootOK, Unused
<1>5. Grown(EmptyPage("leaf"), pg)
  <2>1. PageOK(EmptyPage("leaf")) /\ EmptyPage("leaf").kind # "torn"
    BY EmptyPageOK DEF Kinds, EmptyPage
  <2>2. k \in AnyKey
    BY KeysAreNumbers
  <2> QED BY <2>1, <2>2, WrittenPage
<1>6. PageOK(pg) /\ pg.sibling = NoPage
  BY <1>5 DEF Grown, EmptyPage
<1> QED BY <1>1, <1>2, <1>3, <1>4, <1>6, PageOverwritten

----------------------------------------------------------------------------
(* btree_insert *)

\* What btree_insert finds: the callers' page is a leaf and may be written.
LEMMA InsertFinds ==
    ASSUME IInv, NEW k \in Keys, Insert(k), NEW pg \in WriteSlot(pages[root], k)
    PROVE  /\ Idle /\ root \in Pages /\ pages[root].kind = "leaf" /\ root' = root
           /\ pages \in [Pages -> GoodPages] /\ PageOK(pages[root])
           /\ Grown(pages[root], pg)
<1>1. /\ Idle /\ root \in Pages /\ pages[root].kind = "leaf" /\ root' = root
      /\ pages \in [Pages -> GoodPages]
  BY DEF IInv, Insert, Intact, RootOK
<1>2. PageOK(pages[root]) /\ k \in AnyKey /\ pages[root].kind # "torn"
  BY <1>1, PageOfTree, KeysAreNumbers
<1>3. Grown(pages[root], pg)
  BY <1>2, WrittenPage
<1> QED BY <1>1, <1>2, <1>3

LEMMA AnswerOutlivesGrowth ==
    ASSUME AnswerHolds, root' = root, answer' = answer, pages[root].kind # "torn",
           Rows(pages[root]) \subseteq Rows(pages'[root])
    PROVE  AnswerHolds'
<1> SUFFICES ASSUME answer # NoAnswer, pages'[root].kind # "torn"
             PROVE  \E r \in Rows(pages'[root]) : r[1] = answer.slot /\ Begins(r[2], answer.key)
  BY DEF AnswerHolds, Begins
<1>1. PICK r \in Rows(pages[root]) : r[1] = answer.slot /\ Begins(r[2], answer.key)
  BY DEF AnswerHolds
<1> QED BY <1>1

\* btree_insert, when the leaf is not split.
LEMMA InsertKeepsInv ==
    ASSUME IInv, NEW k \in Keys, Insert(k), NEW pg \in WriteSlot(pages[root], k),
           pages' = [pages EXCEPT ![root] = pg], UNCHANGED <<fallback, reused, split>>
    PROVE  IInv'
<1>1. /\ Idle /\ root \in Pages /\ pages[root].kind = "leaf" /\ root' = root
      /\ pages \in [Pages -> GoodPages] /\ Grown(pages[root], pg)
  BY InsertFinds
<1>2. SourceOK /\ ChainIntact /\ SplitOK /\ RootOK /\ AnswerOK /\ AnswerHolds
  BY DEF IInv
<1>3. /\ PageOK(pg) /\ pg.sibling = pages[root].sibling /\ pg.kind \in {"leaf", "torn"}
      /\ Rows(pages[root]) \subseteq Rows(pg)
  BY <1>1 DEF Grown
<1>4. pages' \in [Pages -> GoodPages] /\ pages'[root] = pg
      /\ \A q \in Pages : q # root => pages'[q] = pages[q]
  BY <1>1, <1>3, GoodPage
<1>5. ChainIntact'
  <2>1. \A q \in Pages : pages'[q].kind # "torn"
            => pages[q].kind # "torn" /\ pages'[q].sibling = pages[q].sibling
    BY <1>1, <1>3, <1>4
  <2>2. \A q \in Pages : pages[q].kind \in {"leaf", "torn"} => pages'[q].kind \in {"leaf", "torn"}
    BY <1>3, <1>4
  <2>3. \A q \in Pages : pages[q].sibling \in Pages \cup {NoPage}
    BY <1>1, PageOfTree
  <2> QED BY <1>1, <1>2, <2>1, <2>2, <2>3, ChainStable
<1>6. answer' = answer /\ Idle' /\ split' = NoSplit
  BY <1>1 DEF Insert, Idle
<1>7. RootOK' /\ RootAnswers' /\ SplitOK' /\ SourceOK' /\ AnswerOK'
  BY <1>1, <1>2, <1>3, <1>4, <1>6 DEF RootOK, RootAnswers, SplitOK, SourceOK, AnswerOK
<1>8. AnswerHolds'
  BY <1>1, <1>2, <1>3, <1>4, <1>6, AnswerOutlivesGrowth
<1>9. CursorOK'
  BY DEF IInv, Insert, ScanDisturbed, CursorOK
<1> QED BY <1>4, <1>5, <1>7, <1>8, <1>9 DEF IInv

\* The pages as the loop of btree_split_leaf finds them.
SplitsInto(leaf, pg, new) ==
    /\ pages' \in [Pages -> GoodPages]
    /\ \A q \in Pages : q \notin {leaf, new} => pages'[q] = pages[q]
    /\ split' = [i |-> Total(pages'[leaf]) \div 2, count |-> Total(pages'[leaf]),
                 leaf |-> leaf, new |-> new]
    /\ pages'[leaf].sibling = new /\ pages'[leaf].kind \in {pg.kind, "leaf"}
    /\ Total(pages'[new]) = 0
    /\ new # leaf => /\ pages'[new].sibling = pg.sibling /\ pages'[new].kind = "leaf"
                     /\ pages'[leaf].kind = pg.kind
                     /\ pages'[leaf].slots = pg.slots /\ pages'[leaf].free = pg.free

LEMMA SplitStarted ==
    ASSUME pages \in [Pages -> GoodPages], NEW leaf \in Pages, NEW pg, PageOK(pg),
           NEW new \in Pages, StartSplit(leaf, pg, new)
    PROVE  SplitsInto(leaf, pg, new)
<1> DEFINE empty   == EmptyPage("leaf")
           cleared == [pages EXCEPT ![leaf] = pg, ![new] = empty]
           linked  == [cleared EXCEPT ![new].sibling = cleared[leaf].sibling]
           n       == Total(cleared[leaf])
<1>1. /\ pages' = [linked EXCEPT ![leaf].sibling = new]
      /\ split' = [i |-> n \div 2, count |-> n, leaf |-> leaf, new |-> new]
  BY DEF StartSplit
<1>2. PageOK(empty) /\ empty.kind = "leaf" /\ empty.sibling = NoPage /\ Total(empty) = 0
  BY EmptyPageOK DEF Kinds, EmptyPage
<1>3. pg.sibling \in Pages \cup {NoPage}
  BY DEF PageOK, PageRecords
<1> HIDE DEF empty, n
<1>4. CASE new # leaf
  <2> DEFINE left  == [pg EXCEPT !.sibling = new]
             right == [empty EXCEPT !.sibling = pg.sibling]
  <2>1. cleared[leaf] = pg /\ cleared[new] = empty /\ DOMAIN cleared = Pages
        /\ \A q \in Pages : q \notin {leaf, new} => cleared[q] = pages[q]
    BY <1>4
  <2>2. n = Total(pg)
    BY <2>1 DEF n
  <2> HIDE DEF cleared
  <2>3. linked[leaf] = pg /\ linked[new] = right /\ DOMAIN linked = Pages
        /\ \A q \in Pages : q \notin {leaf, new} => linked[q] = pages[q]
    BY <1>4, <2>1
  <2> HIDE DEF linked
  <2>4. pages'[leaf] = left /\ pages'[new] = right /\ DOMAIN pages' = Pages
        /\ pages' = [q \in Pages |-> pages'[q]]
        /\ \A q \in Pages : q \notin {leaf, new} => pages'[q] = pages[q]
    BY <1>1, <1>4, <2>3
  <2>5. /\ PageOK(left) /\ left.sibling = new /\ left.kind = pg.kind
        /\ left.slots = pg.slots /\ left.free = pg.free
    BY LinkedPage
  <2>6. /\ PageOK(right) /\ right.sibling = pg.sibling /\ right.kind = "leaf"
        /\ right.slots = empty.slots
    BY <1>2, <1>3, LinkedPage
  <2> HIDE DEF left, right
  <2>7. pages' \in [Pages -> GoodPages]
    <3>1. \A q \in Pages : pages'[q] \in GoodPages
      BY <2>4, <2>5, <2>6, GoodPage
    <3> QED BY <2>4, <3>1
  <2>8. Total(pages'[leaf]) = n /\ Total(pages'[new]) = 0
    BY <1>2, <2>2, <2>4, <2>5, <2>6 DEF Total
  <2> QED BY <1>1, <1>4, <2>4, <2>5, <2>6, <2>7, <2>8 DEF SplitsInto
<1>5. CASE new = leaf
  <2> DEFINE one == [empty EXCEPT !.sibling = empty.sibling]
             two == [one EXCEPT !.sibling = leaf]
  <2>1. cleared[leaf] = empty /\ DOMAIN cleared = Pages
        /\ \A q \in Pages : q # leaf => cleared[q] = pages[q]
    BY <1>5
  <2>2. n = 0
    BY <1>2, <2>1 DEF n
  <2> HIDE DEF cleared
  <2>3. linked[leaf] = one /\ DOMAIN linked = Pages
        /\ \A q \in Pages : q # leaf => linked[q] = pages[q]
    BY <1>5, <2>1
  <2> HIDE DEF linked
  <2>4. pages'[leaf] = two /\ DOMAIN pages' = Pages
        /\ pages' = [q \in Pages |-> pages'[q]]
        /\ \A q \in Pages : q # leaf => pages'[q] = pages[q]
    BY <1>1, <1>5, <2>3
  <2>5. PageOK(one) /\ one.kind = "leaf" /\ one.slots = empty.slots
    BY <1>2, LinkedPage
  <2>6. PageOK(two) /\ two.sibling = leaf /\ two.kind = "leaf" /\ two.slots = empty.slots
    <3> HIDE DEF one
    <3> QED BY <2>5, LinkedPage
  <2> HIDE DEF one, two
  <2>7. pages' \in [Pages -> GoodPages]
    <3>1. \A q \in Pages : pages'[q] \in GoodPages
      BY <2>4, <2>6, GoodPage
    <3> QED BY <2>4, <3>1
  <2>8. Total(pages'[leaf]) = 0 /\ n = Total(pages'[leaf])
    BY <1>2, <2>2, <2>4, <2>6 DEF Total
  <2> QED BY <1>1, <1>5, <2>4, <2>6, <2>7, <2>8 DEF SplitsInto
<1> QED BY <1>4, <1>5

\* btree_insert up to the loop of btree_split_leaf.
LEMMA StartSplitInv ==
    ASSUME IInv, NEW k \in Keys, Insert(k), NEW pg \in WriteSlot(pages[root], k),
           pg.kind # "torn", NEW new \in Pages, GetFreePage(new), StartSplit(root, pg, new)
    PROVE  IInv'
<1>1. /\ Idle /\ root \in Pages /\ pages[root].kind = "leaf" /\ root' = root
      /\ pages \in [Pages -> GoodPages] /\ Grown(pages[root], pg)
  BY InsertFinds
<1>2. SourceOK /\ ChainIntact
  BY DEF IInv
<1>3. /\ PageOK(pg) /\ pg.sibling = pages[root].sibling /\ pg.kind = "leaf"
      /\ pg.sibling \in Pages \cup {NoPage}
  BY <1>1, PageOfTree DEF Grown
<1>4. Granted(new) /\ SourceOK'
  BY <1>2, PageGranted
<1>5. SplitsInto(root, pg, new)
  BY <1>1, <1>3, SplitStarted
<1>6. /\ pages' \in [Pages -> GoodPages]
      /\ \A q \in Pages : q \notin {root, new} => pages'[q] = pages[q]
      /\ split' = [i |-> Total(pages'[root]) \div 2, count |-> Total(pages'[root]),
                   leaf |-> root, new |-> new]
      /\ pages'[root].sibling = new /\ pages'[root].kind = "leaf"
      /\ new = root => Total(pages'[root]) = 0
      /\ new # root => pages'[new].sibling = pages[root].sibling /\ pages'[new].kind = "leaf"
  BY <1>3, <1>5 DEF SplitsInto
<1>7. answer' = NoAnswer
  <2>1. split' # NoSplit
    BY <1>1, <1>6, NoPageIsNoPage DEF NoSplit
  <2> QED BY <2>1 DEF Insert
<1>8. SplitOK'
  <2> DEFINE n == Total(pages'[root])
  <2>1. n \in Nat /\ n <= 254
    <3>1. pages'[root] \in GoodPages
      BY <1>1, <1>6
    <3>2. PageOK(pages'[root]) /\ pages'[root] \in PageRecords /\ pages'[root].kind # "torn"
      BY <1>6, <3>1 DEF GoodPages
    <3> QED BY <3>2, PageNumbers, IdsDoNotWrap
  <2>2. /\ split' = [i |-> n \div 2, count |-> n, leaf |-> root, new |-> new]
        /\ new = root => n = 0
    BY <1>6
  <2> HIDE DEF n
  <2>3. n \div 2 \in Nat /\ n \div 2 <= n
    BY <2>1, Half
  <2>4. split' \in [i : 0 .. 255, count : 0 .. 255,
                   leaf : Pages \cup {NoPage}, new : Pages \cup {NoPage}]
    BY <1>1, <2>1, <2>2, <2>3
  <2>5. split'.leaf = root /\ split'.new = new /\ split'.count = n /\ split'.i = n \div 2
    BY <2>2
  <2>6. SplitRuns'
    <3>1. split'.leaf \in Pages /\ split'.leaf = root' /\ split'.new \in Pages
          /\ (split'.new = split'.leaf => split'.count = 0)
      BY <1>1, <2>2, <2>5
    <3>2. split'.count \in 0 .. 254 /\ split'.i \in split'.count \div 2 .. split'.count
      BY <2>1, <2>3, <2>5
    <3>3. split'.count + split'.count \div 2 <= Total(pages'[split'.leaf]) + split'.i
      BY <2>1, <2>3, <2>5 DEF n
    <3> QED BY <1>7, <3>1, <3>2, <3>3 DEF SplitRuns
  <2> QED BY <2>4, <2>6 DEF SplitOK
<1>9. RootOK'
  BY <1>1, <1>6 DEF RootOK
<1>10. AnswerOK' /\ RootAnswers' /\ AnswerHolds'
  BY <1>7 DEF AnswerOK, RootAnswers, AnswerHolds, NoAnswer, NoSlot, SlotIds
<1>11. CursorOK'
  BY DEF IInv, Insert, ScanDisturbed, CursorOK
<1>12. ChainIntact'
  <2> SUFFICES ASSUME ~reused' PROVE ChainIntact'
    BY DEF ChainIntact
  <2>1. ~reused /\ pages[new].kind = "unused" /\ new # root
    BY <1>1, <1>4 DEF Granted
  <2> DEFINE on   == {q \in Pages : pages[q].kind # "torn" /\ pages[q].sibling # NoPage}
             next == {q \in Pages : pages'[q].kind # "torn" /\ pages'[q].sibling # NoPage}
  <2>2. /\ \A q \in on : /\ pages[pages[q].sibling].kind \in {"leaf", "torn"}
                         /\ pages[q].sibling \notin {q, root}
        /\ \A q, r \in on : q # r => pages[q].sibling # pages[r].sibling
    BY <1>2, <2>1 DEF ChainIntact
  <2>3. \A q \in Pages : pages[q].sibling \in Pages \cup {NoPage}
    BY <1>1, PageOfTree
  <2>4. \A q \in next : q \in Pages /\ pages'[q].sibling \in Pages \cup {NoPage} /\ pages'[q].sibling # NoPage
    BY <1>1, <1>6, <2>3
  <2>5. pages[root].sibling # NoPage => root \in on
    BY <1>1
  <2>6. \A q \in next : q \notin {root, new} => q \in on /\ pages'[q].sibling = pages[q].sibling
    BY <1>6
  <2>7. \A q \in on : pages[q].sibling \in Pages /\ pages[q].sibling # new
    BY <2>1, <2>2, <2>3
  <2> HIDE DEF on, next
  <2>8. \A q \in Pages : pages[q].kind \in {"leaf", "torn"} => pages'[q].kind \in {"leaf", "torn"}
    BY <1>1, <1>6, <2>1
  <2>9. ASSUME NEW q \in next
        PROVE  /\ pages'[pages'[q].sibling].kind \in {"leaf", "torn"}
               /\ pages'[q].sibling \notin {q, root}
    <3>1. CASE q = root
      BY <1>6, <2>1, <3>1
    <3>2. CASE q = new
      <4>1. pages'[q].sibling = pages[root].sibling /\ root \in on
        BY <1>6, <2>1, <2>4, <2>5, <3>2
      <4> QED BY <2>2, <2>7, <2>8, <3>2, <4>1
    <3>3. CASE q \notin {root, new}
      BY <2>2, <2>6, <2>7, <2>8, <3>3
    <3> QED BY <3>1, <3>2, <3>3
  <2>10. ASSUME NEW p \in next, NEW q \in next, p # q PROVE pages'[p].sibling # pages'[q].sibling
    <3>1. \A r \in next : r # root => pages'[r].sibling # new
      BY <1>6, <2>1, <2>4, <2>5, <2>6, <2>7
    <3>2. CASE p = root \/ q = root
      BY <1>6, <2>10, <3>1, <3>2
    <3>3. CASE p # root /\ q # root
      BY <1>6, <2>1, <2>2, <2>4, <2>5, <2>6, <2>10, <3>3
    <3> QED BY <3>2, <3>3
  <2> QED BY <1>1, <2>9, <2>10 DEF ChainIntact, next
<1> QED BY <1>4, <1>6, <1>8, <1>9, <1>10, <1>11, <1>12 DEF IInv

LEMMA InsertInv ==
    ASSUME IInv, NEW k \in Keys, Insert(k)
    PROVE  IInv'
<1>1. PICK pg \in WriteSlot(pages[root], k) : InsertInto(root, pg)
  BY DEF Insert
<1>2. CASE pages' = [pages EXCEPT ![root] = pg] /\ UNCHANGED <<fallback, reused, split>>
  BY <1>2, InsertKeepsInv
<1>3. CASE pg.kind # "torn" /\ \E new \in Pages : GetFreePage(new) /\ StartSplit(root, pg, new)
  BY <1>3, StartSplitInv
<1> QED BY <1>1, <1>2, <1>3 DEF InsertInto

----------------------------------------------------------------------------
(* The split's loop and its end. *)

LEMMA SplitRoundInv ==
    ASSUME IInv, SplitRound
    PROVE  IInv'
<1> DEFINE leaf == split.leaf
           new  == split.new
<1>1. /\ ~Idle /\ split.i < split.count
      /\ pages[leaf].kind = "leaf" /\ pages[new].kind = "leaf"
      /\ UNCHANGED <<fallback, reused, root, cursor, answer>>
      /\ split' = [split EXCEPT !.i = @ + 1]
  BY DEF SplitRound
<1>2. /\ pages \in [Pages -> GoodPages] /\ ChainIntact /\ RootOK /\ SplitOK /\ SplitRuns
      /\ SourceOK
  BY <1>1 DEF IInv, SplitOK
<1>3. /\ leaf \in Pages /\ leaf = root /\ new \in Pages
      /\ split.count \in 0 .. 254 /\ split.i \in split.count \div 2 .. split.count
      /\ split.count + split.count \div 2 <= Total(pages[leaf]) + split.i
      /\ answer = NoAnswer
  BY <1>2 DEF SplitRuns
<1>4. split.count \div 2 \in Nat /\ split.count \in Nat /\ split.i \in Nat /\ split.i <= 254
  <2>1. split.count \in Nat /\ split.count <= 254
    BY <1>3
  <2>2. split.count \div 2 \in Nat
    BY <2>1, Half
  <2>3. split.i \in split.count \div 2 .. split.count
    BY <1>3
  <2> HIDE DEF leaf, new
  <2> QED BY <2>1, <2>2, <2>3
<1>5. new # leaf
  BY <1>1, <1>2, <1>4 DEF SplitRuns
<1>6. PICK k \in ReadSlot(pages[leaf], split.i) :
         \E written \in WriteSlot(pages[new], k), freed \in FreeSlot(pages[leaf], split.i) :
            pages' = [pages EXCEPT ![leaf] = freed, ![new] = written]
  BY DEF SplitRound
<1>7. PICK written \in WriteSlot(pages[new], k), freed \in FreeSlot(pages[leaf], split.i) :
         pages' = [pages EXCEPT ![leaf] = freed, ![new] = written]
  BY <1>6
<1>8. Grown(pages[new], written)
  <2>1. PageOK(pages[new]) /\ PageOK(pages[leaf]) /\ pages[new].kind # "torn"
    BY <1>1, <1>2, <1>3, PageOfTree
  <2>2. k \in AnyKey
    BY <2>1, ReadsAreKeys
  <2> QED BY <2>1, <2>2, WrittenPage
<1>9. Shrunk(pages[leaf], freed, split.i)
  <2>1. PageOK(pages[leaf])
    BY <1>2, <1>3, PageOfTree
  <2>2. split.i \in SlotIds
    BY <1>4 DEF SlotIds
  <2> QED BY <2>1, <2>2, FreedPage
<1> HIDE DEF leaf, new
<1>10. PageOK(written) /\ written.sibling = pages[new].sibling /\ written.kind \in {"leaf", "torn"}
  BY <1>1, <1>8 DEF Grown
<1>11. /\ PageOK(freed) /\ freed.kind \in {"leaf", "torn"}
       /\ freed.kind # "torn" => freed.sibling = pages[leaf].sibling
       /\ Total(pages[leaf]) <= Total(freed) + 1
  BY <1>1, <1>9 DEF Shrunk
<1>12. /\ pages' \in [Pages -> GoodPages] /\ pages'[leaf] = freed /\ pages'[new] = written
       /\ \A q \in Pages : q \notin {leaf, new} => pages'[q] = pages[q]
  BY <1>2, <1>3, <1>5, <1>7, <1>10, <1>11, GoodPage
<1>13. ChainIntact'
  <2>1. \A q \in Pages : pages'[q].kind # "torn"
            => pages[q].kind # "torn" /\ pages'[q].sibling = pages[q].sibling
    BY <1>1, <1>10, <1>11, <1>12
  <2>2. \A q \in Pages : pages[q].kind \in {"leaf", "torn"} => pages'[q].kind \in {"leaf", "torn"}
    BY <1>10, <1>11, <1>12
  <2>3. \A q \in Pages : pages[q].sibling \in Pages \cup {NoPage}
    BY <1>2, PageOfTree
  <2> QED BY <1>1, <1>2, <2>1, <2>2, <2>3, ChainStable
<1>14. RootOK' /\ SourceOK'
  BY <1>1, <1>2, <1>3, <1>11, <1>12 DEF RootOK, SourceOK, leaf
<1>15. SplitOK'
  <2>1. split \in [i : 0 .. 255, count : 0 .. 255,
                   leaf : Pages \cup {NoPage}, new : Pages \cup {NoPage}]
    BY <1>2 DEF SplitOK
  <2>2. /\ split'.leaf = leaf /\ split'.new = new /\ split'.count = split.count
        /\ split'.i = split.i + 1
    BY <1>1, <2>1 DEF leaf, new
  <2>3. split.i + 1 \in 0 .. 255 /\ split.i + 1 \in split.count \div 2 .. split.count
    <3>1. split.i < split.count /\ split.count \div 2 <= split.i
      BY <1>1, <1>3
    <3> QED BY <1>4, <3>1
  <2>4. split' \in [i : 0 .. 255, count : 0 .. 255,
                   leaf : Pages \cup {NoPage}, new : Pages \cup {NoPage}]
    BY <1>1, <2>1, <2>3
  <2>5. split.count + split.count \div 2 <= Total(freed) + (split.i + 1)
    <3>1. Total(freed) \in Nat /\ Total(pages[leaf]) \in Nat
      <4>1. freed \in PageRecords /\ pages[leaf] \in PageRecords
        BY <1>2, <1>3, <1>11, PageOfTree DEF PageOK
      <4> QED BY <4>1, PageNumbers
    <3>2. /\ split.count + split.count \div 2 <= Total(pages[leaf]) + split.i
          /\ Total(pages[leaf]) <= Total(freed) + 1
      BY <1>3, <1>11
    <3> QED BY <1>4, <3>1, <3>2
  <2>6. SplitRuns'
    <3>1. split'.leaf \in Pages /\ split'.leaf = root' /\ split'.new \in Pages
          /\ (split'.new = split'.leaf => split'.count = 0)
      BY <1>1, <1>3, <1>5, <2>2
    <3>2. split'.count \in 0 .. 254 /\ split'.i \in split'.count \div 2 .. split'.count
      BY <1>3, <2>2, <2>3
    <3>3. split'.count + split'.count \div 2 <= Total(pages'[split'.leaf]) + split'.i
      BY <1>12, <2>2, <2>5
    <3> QED BY <1>1, <1>3, <3>1, <3>2, <3>3 DEF SplitRuns
  <2> QED BY <2>4, <2>6 DEF SplitOK
<1>16. CursorOK' /\ AnswerOK' /\ RootAnswers' /\ AnswerHolds'
  BY <1>1, <1>3 DEF IInv, CursorOK, AnswerOK, RootAnswers, AnswerHolds
<1> QED BY <1>12, <1>13, <1>14, <1>15, <1>16 DEF IInv

\* The first row an empty page is given finds room.
LEMMA FirstRowFits ==
    ASSUME NEW kind \in Kinds, ~ReachesFull(EmptyPage(kind))
    PROVE  ~DirectoryMeetsData(EmptyPage(kind))
<1> DEFINE pg == EmptyPage(kind)
<1>1. Total(pg) = 0 /\ pg.used = HEADER_SIZE /\ pg.end = MAX_USABLE_PAGE_SIZE
  BY EmptyPageOK DEF EmptyPage
<1> HIDE DEF pg
<1>2. 5 * HEADER_SIZE < 4 * MAX_USABLE_PAGE_SIZE
  BY <1>1, Sizes DEF ReachesFull, pg
<1>3. SLOT_ENTRY_SIZE * (Total(pg) + 1) = SLOT_ENTRY_SIZE
  BY <1>1, Sizes
<1> QED BY <1>1, <1>2, <1>3, Sizes, SlotHasRoom DEF DirectoryMeetsData, pg

LEMMA NoRowChangesNothing ==
    ASSUME NEW pg, NEW k, ReachesFull(pg), NEW new \in WriteSlot(pg, k)
    PROVE  new = pg
BY DEF WriteSlot

\* The pages a new root can be.
LEMMA RootPageOK ==
    ASSUME NEW pg \in RootPages
    PROVE  PageOK(pg) /\ pg.sibling = NoPage /\ pg.kind \in {"internal", "torn"}
<1> DEFINE empty == EmptyPage("internal")
<1>1. PICK one \in WriteSlot(empty, 0) : pg \in WriteSlot(one, 0)
  BY DEF RootPages
<1>2. 0 \in AnyKey
  BY KeysAreNumbers
<1>3. PageOK(empty) /\ empty.sibling = NoPage /\ empty.kind = "internal"
  BY EmptyPageOK DEF Kinds, EmptyPage
<1>4. ReachesFull(empty) \/ ~DirectoryMeetsData(empty)
  BY FirstRowFits DEF Kinds
<1> HIDE DEF empty
<1>5. Grown(empty, one) /\ one.kind = "internal"
  BY <1>1, <1>2, <1>3, <1>4, WrittenPage, NoRowChangesNothing
<1>6. PageOK(one) /\ one.sibling = NoPage
  BY <1>3, <1>5 DEF Grown
<1>7. Grown(one, pg)
  BY <1>1, <1>2, <1>5, <1>6, WrittenPage
<1> QED BY <1>5, <1>6, <1>7 DEF Grown

LEMMA SplitEndInv ==
    ASSUME IInv, SplitEnd
    PROVE  IInv'
<1> DEFINE leaf == split.leaf
           mid  == split.count \div 2
           cut  == [pages[leaf] EXCEPT !.slots = SubSeq(@, 1, mid)]
           kept == [pages EXCEPT ![leaf].slots = SubSeq(@, 1, mid)]
<1>1. /\ ~Idle /\ split.i = split.count /\ pages[leaf].kind = "leaf"
      /\ root' = root /\ cursor' = cursor /\ answer' = answer /\ split' = NoSplit
  BY DEF SplitEnd
<1>2. /\ pages \in [Pages -> GoodPages] /\ ChainIntact /\ RootOK /\ SplitOK /\ SplitRuns
      /\ SourceOK
  BY <1>1 DEF IInv, SplitOK
<1>3. /\ leaf \in Pages /\ leaf = root /\ split.count \in Nat
      /\ split.count + mid <= Total(pages[leaf]) + split.i /\ answer = NoAnswer
  BY <1>2 DEF SplitRuns
<1>4. PageOK(pages[leaf]) /\ mid \in 0 .. Total(pages[leaf])
  <2>1. PageOK(pages[leaf]) /\ pages[leaf] \in PageRecords
    BY <1>2, <1>3, PageOfTree
  <2>2. Total(pages[leaf]) \in Nat /\ mid \in Nat
    BY <1>3, <2>1, PageNumbers, Half
  <2>3. split.count + mid <= Total(pages[leaf]) + split.count
    BY <1>1, <1>3
  <2>4. mid <= Total(pages[leaf])
    <3> HIDE DEF mid, leaf
    <3> QED BY <1>3, <2>2, <2>3
  <2> HIDE DEF mid, leaf
  <2> QED BY <2>1, <2>2, <2>4
<1>5. PageOK(cut) /\ cut.sibling = pages[leaf].sibling /\ cut.kind = pages[leaf].kind
  BY <1>4, CutPage
<1>6. kept = [pages EXCEPT ![leaf] = cut]
  BY <1>2, <1>3
<1>7. \/ pages' = kept /\ UNCHANGED <<fallback, reused>>
      \/ \E r \in Pages : GetFreePage(r) /\ \E pg \in RootPages : pages' = [kept EXCEPT ![r] = pg]
  BY DEF SplitEnd
<1> HIDE DEF cut, kept, mid
<1>8. kept \in [Pages -> GoodPages] /\ kept[leaf] = cut
      /\ \A q \in Pages : q # leaf => kept[q] = pages[q]
  BY <1>2, <1>3, <1>5, <1>6, GoodPage
<1>9. \A q \in Pages : kept[q].sibling = pages[q].sibling /\ kept[q].kind = pages[q].kind
  BY <1>5, <1>8
<1>10. \A q \in Pages : pages[q].sibling \in Pages \cup {NoPage}
  BY <1>2, PageOfTree
<1>11. pages' \in [Pages -> GoodPages] /\ SourceOK' /\ ChainIntact' /\ RootOK'
  <2>1. CASE pages' = kept /\ UNCHANGED <<fallback, reused>>
    <3>1. \A q \in Pages : pages'[q].sibling = pages[q].sibling /\ pages'[q].kind = pages[q].kind
      BY <1>9, <2>1
    <3>2. ChainIntact'
      BY <1>1, <1>2, <1>10, <2>1, <3>1, ChainStable
    <3>3. SourceOK' /\ RootOK'
      BY <1>1, <1>2, <2>1, <3>1 DEF SourceOK, RootOK
    <3> QED BY <1>8, <2>1, <3>2, <3>3
  <2>2. CASE \E r \in Pages : GetFreePage(r) /\ \E pg \in RootPages : pages' = [kept EXCEPT ![r] = pg]
    <3>1. PICK r \in Pages : GetFreePage(r) /\ \E pg \in RootPages : pages' = [kept EXCEPT ![r] = pg]
      BY <2>2
    <3>2. PICK pg \in RootPages : pages' = [kept EXCEPT ![r] = pg]
      BY <3>1
    <3>3. PageOK(pg) /\ pg.sibling = NoPage /\ pg.kind # "unused"
      BY RootPageOK
    <3>4. Granted(r) /\ SourceOK'
      BY <1>2, <3>1, PageGranted
    <3>5. pages' \in [Pages -> GoodPages] /\ pages'[r] = pg
          /\ \A q \in Pages : q # r => pages'[q] = kept[q]
      BY <1>8, <3>2, <3>3, GoodPage
    <3>6. \A q \in Pages : q # r
              => pages'[q].sibling = pages[q].sibling /\ pages'[q].kind = pages[q].kind
      BY <1>9, <3>5
    <3>7. ChainIntact'
      <4>1. pages'[r].sibling = NoPage /\ root' \in {root, r}
        BY <1>1, <3>3, <3>5
      <4> QED BY <1>2, <1>10, <3>4, <3>6, <4>1, ChainCleared
    <3>8. RootOK'
      BY <1>1, <1>2, <3>3, <3>5, <3>6 DEF RootOK
    <3> QED BY <3>4, <3>5, <3>7, <3>8
  <2> QED BY <1>7, <2>1, <2>2
<1>12. SplitOK'
  BY <1>1 DEF SplitOK, Idle, NoSplit
<1>13. CursorOK' /\ AnswerOK' /\ RootAnswers' /\ AnswerHolds'
  BY <1>1, <1>3 DEF IInv, CursorOK, AnswerOK, RootAnswers, AnswerHolds
<1> QED BY <1>11, <1>12, <1>13 DEF IInv

----------------------------------------------------------------------------
(* Search, deletion and the iterator. *)

\* The parts of the invariant that only pages, root and the split decide.
LEMMA TreeUnchanged ==
    ASSUME IInv, UNCHANGED <<pages, fallback, reused, root, split>>, Idle
    PROVE  pages' \in [Pages -> GoodPages] /\ SourceOK' /\ RootOK' /\ SplitOK' /\ ChainIntact'
<1>1. pages' = pages /\ fallback' = fallback /\ reused' = reused /\ root' = root /\ split' = split
  OBVIOUS
<1>2. ChainIntact'
  BY <1>1 DEF IInv, ChainIntact
<1>3. pages' \in [Pages -> GoodPages] /\ RootOK' /\ SourceOK'
  BY <1>1 DEF IInv, RootOK, SourceOK
<1>4. SplitOK'
  BY <1>1 DEF IInv, SplitOK, Idle
<1> QED BY <1>2, <1>3, <1>4

LEMMA SearchInv ==
    ASSUME IInv, NEW a \in Asked, Search(a)
    PROVE  IInv'
<1>1. /\ Idle /\ root \in Pages /\ UNCHANGED <<pages, fallback, reused, root, split, cursor>>
      /\ pages \in [Pages -> GoodPages] /\ pages[root].kind = "leaf"
  BY DEF IInv, Search, Intact, RootOK
<1>2. PICK i \in FoundAt(pages[root], a) :
         answer' = IF Readable(pages[root], i) THEN [key |-> a, slot |-> i] ELSE NoAnswer
  BY DEF Search
<1>3. i \in SlotIds
  <2>1. Total(pages[root]) \in 0 .. 254
    BY <1>1, PageOfTree
  <2>2. i \in 0 .. Total(pages[root]) - 1
    BY DEF FoundAt
  <2> QED BY <2>1, <2>2 DEF SlotIds
<1>4. PICK key \in ReadSlot(pages[root], i) : Begins(key, a)
  BY DEF FoundAt
<1>5. \/ answer' = NoAnswer
      \/ answer' = [key |-> a, slot |-> i] /\ <<i, key>> \in Rows(pages[root])
  BY <1>2, <1>4, ReadIsRow
<1>6. AnswerOK'
  BY <1>3, <1>5 DEF AnswerOK, NoAnswer, NoSlot, SlotIds
<1>7. AnswerHolds'
  <2> SUFFICES ASSUME answer' # NoAnswer
               PROVE  \E r \in Rows(pages[root]) : r[1] = answer'.slot /\ Begins(r[2], answer'.key)
    BY <1>1 DEF AnswerHolds, Begins
  <2>1. answer'.key = a /\ answer'.slot = i /\ <<i, key>> \in Rows(pages[root])
    BY <1>5
  <2>2. <<i, key>>[1] = i /\ <<i, key>>[2] = key
    OBVIOUS
  <2> QED BY <1>4, <2>1, <2>2
<1>8. CursorOK' /\ RootAnswers'
  BY <1>1 DEF IInv, CursorOK, RootAnswers
<1> QED BY <1>1, <1>6, <1>7, <1>8, TreeUnchanged DEF IInv

LEMMA SearchFailsInv ==
    ASSUME IInv, NEW a \in Asked, SearchFails(a)
    PROVE  IInv'
<1>1. Idle /\ UNCHANGED <<pages, fallback, reused, root, split, cursor>> /\ answer' = NoAnswer
  BY DEF SearchFails, Intact
<1>2. AnswerOK' /\ AnswerHolds' /\ RootAnswers'
  BY <1>1 DEF AnswerOK, NoAnswer, NoSlot, SlotIds, AnswerHolds, RootAnswers
<1>3. CursorOK'
  BY <1>1 DEF IInv, CursorOK
<1> QED BY <1>1, <1>2, <1>3, TreeUnchanged DEF IInv

\* What a delete takes away is a row whose key it was given, or the begin of.
LEMMA DeletedRow ==
    ASSUME NEW pg, PageOK(pg), pg.kind # "torn", NEW a, NEW i \in DeletedAt(pg, a),
           NEW new \in FreeSlot(pg, i)
    PROVE  /\ Shrunk(pg, new, i)
           /\ \/ Rows(new) = Rows(pg)
              \/ \E key : /\ Begins(key, a) /\ <<i, key>> \in Rows(pg)
                          /\ Rows(new) = Rows(pg) \ {<<i, key>>}
<1>1. i \in 0 .. Total(pg) /\ (i < Total(pg) => \E key \in ReadSlot(pg, i) : Begins(key, a))
  BY DEF DeletedAt
<1>2. Shrunk(pg, new, i)
  <2>1. Total(pg) \in Nat /\ Total(pg) <= 254
    BY PageNumbers, IdsDoNotWrap DEF PageOK
  <2>2. i \in SlotIds
    BY <1>1, <2>1 DEF SlotIds
  <2> QED BY <2>2, FreedPage
<1>3. CASE ~Readable(pg, i)
  BY <1>2, <1>3 DEF Shrunk
<1>4. CASE Readable(pg, i)
  <2>1. PICK key \in ReadSlot(pg, i) : Begins(key, a)
    BY <1>1, <1>4 DEF Readable
  <2>2. <<i, key>> \in Rows(pg)
    BY <1>4, <2>1, ReadIsRow
  <2>3. ASSUME NEW other, <<i, other>> \in Rows(pg) PROVE other = key
    BY <2>2, <2>3, OneRowPerId
  <2> QED BY <1>2, <2>1, <2>2, <2>3 DEF Shrunk
<1> QED BY <1>2, <1>3, <1>4

LEMMA CommonKeyOverlaps ==
    ASSUME NEW key \in Int, NEW a, NEW b, a.first \in Int, a.last \in Int,
           b.first \in Int, b.last \in Int, Begins(key, a), Begins(key, b)
    PROVE  Overlap(a, b)
BY DEF Begins, Overlap

LEMMA RowKeys ==
    ASSUME NEW pg, PageOK(pg), NEW r \in Rows(pg)
    PROVE  r[2] \in Int
<1>1. pg \in PageRecords /\ DOMAIN pg.slots = 1 .. Total(pg)
  BY PageNumbers DEF PageOK
<1>2. PICK i \in 1 .. Total(pg) : r = <<pg.slots[i].id, pg.slots[i].key>>
  BY <1>1 DEF Rows, Range
<1>3. pg.slots[i].key \in AnyKey
  BY <1>1, PageEntries
<1>4. r[2] = pg.slots[i].key
  BY <1>2
<1>5. pg.slots[i].key \in Int
  <2> DEFINE key == pg.slots[i].key
  <2> HIDE DEF key
  <2>1. key \in AnyKey
    BY <1>3 DEF key
  <2>2. key \in Int
    BY <2>1, KeysAreNumbers
  <2> QED BY <2>2 DEF key
<1> QED BY <1>4, <1>5, Zenon

LEMMA DeleteInv ==
    ASSUME IInv, NEW a \in Asked, Delete(a)
    PROVE  IInv'
<1>1. /\ Idle /\ root \in Pages /\ pages[root].kind = "leaf"
      /\ UNCHANGED <<fallback, reused, root, split>>
      /\ pages \in [Pages -> GoodPages] /\ ChainIntact /\ RootOK /\ SplitOK /\ SourceOK
      /\ answer' = IF Overlap(answer.key, a) THEN NoAnswer ELSE answer
  BY DEF IInv, Delete, Intact, RootOK
<1>2. PICK i \in DeletedAt(pages[root], a) :
         \E freed \in FreeSlot(pages[root], i) : pages' = [pages EXCEPT ![root] = freed]
  BY DEF Delete
<1>3. PICK pg \in FreeSlot(pages[root], i) : pages' = [pages EXCEPT ![root] = pg]
  BY <1>2
<1>4. PageOK(pages[root])
  BY <1>1, PageOfTree
<1>5. /\ Shrunk(pages[root], pg, i)
      /\ \/ Rows(pg) = Rows(pages[root])
         \/ \E key : Begins(key, a) /\ <<i, key>> \in Rows(pages[root])
                        /\ Rows(pg) = Rows(pages[root]) \ {<<i, key>>}
  BY <1>1, <1>4, DeletedRow
<1>6. PageOK(pg) /\ pg.kind \in {"leaf", "torn"}
      /\ (pg.kind # "torn" => pg.sibling = pages[root].sibling)
  BY <1>1, <1>5 DEF Shrunk
<1>7. pages' \in [Pages -> GoodPages] /\ pages'[root] = pg
      /\ \A q \in Pages : q # root => pages'[q] = pages[q]
  BY <1>1, <1>3, <1>6, GoodPage
<1>8. ChainIntact'
  <2>1. \A q \in Pages : pages'[q].kind # "torn"
            => pages[q].kind # "torn" /\ pages'[q].sibling = pages[q].sibling
    BY <1>1, <1>6, <1>7
  <2>2. \A q \in Pages : pages[q].kind \in {"leaf", "torn"} => pages'[q].kind \in {"leaf", "torn"}
    BY <1>6, <1>7
  <2>3. \A q \in Pages : pages[q].sibling \in Pages \cup {NoPage}
    BY <1>1, PageOfTree
  <2> QED BY <1>1, <2>1, <2>2, <2>3, ChainStable
<1>9. RootOK' /\ RootAnswers' /\ SplitOK' /\ SourceOK'
  BY <1>1, <1>6, <1>7 DEF RootOK, RootAnswers, SplitOK, SourceOK, Idle
<1>10. AnswerOK'
  BY <1>1 DEF IInv, AnswerOK, NoAnswer, NoSlot, SlotIds
<1>11. AnswerHolds'
  <2> SUFFICES ASSUME answer' # NoAnswer
               PROVE  \E r \in Rows(pg) : r[1] = answer'.slot /\ Begins(r[2], answer'.key)
    BY <1>1, <1>7 DEF AnswerHolds, Begins
  <2>1. answer' = answer /\ ~Overlap(answer.key, a) /\ answer # NoAnswer
    BY <1>1
  <2>2. PICK r \in Rows(pages[root]) : r[1] = answer.slot /\ Begins(r[2], answer.key)
    BY <1>1, <2>1 DEF IInv, AnswerHolds
  <2>3. ~Begins(r[2], a)
    <3>1. r[2] \in Int
      BY <1>4, RowKeys
    <3>2. answer.key \in Asked \cup {NoKey}
      BY DEF IInv, AnswerOK
    <3>3. a.first \in Int /\ a.last \in Int /\ answer.key.first \in Int /\ answer.key.last \in Int
      BY <3>2, AskedAreSpans DEF NoKey
    <3> QED BY <2>1, <2>2, <3>1, <3>3, CommonKeyOverlaps
  <2>4. r \in Rows(pg)
    <3>1. CASE Rows(pg) = Rows(pages[root])
      BY <3>1
    <3>2. ASSUME NEW key, Begins(key, a), Rows(pg) = Rows(pages[root]) \ {<<i, key>>}
          PROVE  r \in Rows(pg)
      <4>1. <<i, key>>[2] = key
        OBVIOUS
      <4>2. r # <<i, key>>
        BY <2>3, <3>2, <4>1
      <4> QED BY <3>2, <4>2
    <3> QED BY <1>5, <3>1, <3>2
  <2> QED BY <2>1, <2>2, <2>4
<1>12. CursorOK'
  BY DEF IInv, Delete, ScanDisturbed, CursorOK
<1> QED BY <1>7, <1>8, <1>9, <1>10, <1>11, <1>12 DEF IInv

LEMMA IteratorInv ==
    ASSUME IInv, \/ IteratorCreate
                 \/ \E start \in Asked : IteratorRange(start)
                 \/ IteratorNext
                 \/ IteratorDestroy
    PROVE  IInv'
<1>1. UNCHANGED <<pages, fallback, reused, root, split, answer>>
  BY DEF IteratorCreate, IteratorRange, IteratorNext, IteratorDestroy
<1>2. pages \in [Pages -> GoodPages] /\ CursorOK /\ RootOK
  BY DEF IInv
<1>3. CursorOK'
  <2>1. ASSUME IteratorCreate PROVE CursorOK'
    BY <1>2, <2>1 DEF IteratorCreate, Intact, RootOK, CursorOK, SlotIds
  <2>2. ASSUME NEW start \in Asked, IteratorRange(start) PROVE CursorOK'
    <3>1. root \in Pages /\ pages[root].kind # "torn"
      BY <1>2, <2>2 DEF IteratorRange, Intact, RootOK
    <3>2. PICK i \in {0} \cup FoundAt(pages[root], start) :
             cursor' = [page |-> root, slot |-> i, whole |-> FALSE, seen |-> {}]
      BY <2>2 DEF IteratorRange
    <3>3. i = 0 \/ i \in 0 .. Total(pages[root]) - 1
      BY DEF FoundAt
    <3>4. Total(pages[root]) \in 0 .. 254
      BY <1>2, <3>1, PageOfTree
    <3>5. i \in SlotIds
      BY <3>3, <3>4 DEF SlotIds
    <3> QED BY <3>1, <3>2, <3>5 DEF CursorOK
  <2>3. ASSUME IteratorNext PROVE CursorOK'
    <3>1. cursor.page \in Pages /\ cursor.slot \in SlotIds
      BY <1>2, <2>3 DEF IteratorNext, CursorOK
    <3>2. pages[cursor.page].sibling \in Pages \cup {NoPage}
      BY <1>2, <3>1, PageOfTree
    <3>3. NextPlace.page \in Pages /\ NextPlace.slot \in SlotIds
      BY <2>3, <3>1, <3>2 DEF IteratorNext, NextPlace, SlotIds
    <3>4. (NextPlace.slot + 1) % 256 \in SlotIds
      BY <3>3 DEF SlotIds
    <3> DEFINE seen == IF cursor.whole /\ Readable(pages[NextPlace.page], NextPlace.slot)
                       THEN cursor.seen \cup {<<NextPlace.page, NextPlace.slot>>}
                       ELSE cursor.seen
               slot(stops) == IF stops THEN NextPlace.slot ELSE (NextPlace.slot + 1) % 256
    <3>5. PICK stops \in {FALSE, ~cursor.whole} :
             cursor' = [cursor EXCEPT !.page = NextPlace.page, !.slot = slot(stops), !.seen = seen]
      BY <2>3 DEF IteratorNext
    <3>6. seen \in SUBSET (Pages \X SlotIds) /\ slot(stops) \in SlotIds
      BY <1>2, <3>3, <3>4 DEF CursorOK
    <3> HIDE DEF NextPlace, seen, slot
    <3> QED BY <1>2, <3>3, <3>5, <3>6 DEF CursorOK
  <2>4. ASSUME IteratorDestroy PROVE CursorOK'
    BY <2>4 DEF IteratorDestroy, NoCursor, CursorOK, SlotIds
  <2> QED BY <2>1, <2>2, <2>3, <2>4
<1>4. /\ pages' = pages /\ fallback' = fallback /\ reused' = reused /\ root' = root
      /\ split' = split /\ answer' = answer
  BY <1>1
<1>5. SplitOK' /\ ChainIntact'
  BY <1>4 DEF IInv, SplitOK, SplitRuns, Idle, ChainIntact
<1>6. RootOK' /\ SourceOK' /\ AnswerOK' /\ RootAnswers' /\ AnswerHolds'
  BY <1>4 DEF IInv, RootOK, SourceOK, AnswerOK, RootAnswers, AnswerHolds, Begins
<1> QED BY <1>2, <1>3, <1>4, <1>5, <1>6 DEF IInv

LEMMA StepInv == IInv /\ [Next]_vars => IInv'
<1> SUFFICES ASSUME IInv, [Next]_vars PROVE IInv'
  OBVIOUS
<1>1. CASE UNCHANGED vars
  <2>1. /\ pages' = pages /\ fallback' = fallback /\ reused' = reused /\ root' = root
        /\ split' = split /\ cursor' = cursor /\ answer' = answer
    BY <1>1 DEF vars
  <2>2. SplitOK' /\ ChainIntact'
    BY <2>1 DEF IInv, SplitOK, SplitRuns, Idle, ChainIntact
  <2>3. RootOK' /\ SourceOK' /\ CursorOK' /\ AnswerOK' /\ RootAnswers' /\ AnswerHolds'
    BY <2>1 DEF IInv, RootOK, SourceOK, CursorOK, AnswerOK, RootAnswers, AnswerHolds, Begins
  <2> QED BY <2>1, <2>2, <2>3 DEF IInv
<1>2. CASE Next
  <2>1. CASE BtreeInit
    BY <2>1, BtreeInitInv
  <2>2. ASSUME NEW k \in Keys, Insert(k) PROVE IInv'
    BY <2>2, InsertInv
  <2>3. ASSUME NEW k \in Keys, InsertWithoutRoot(k) PROVE IInv'
    BY <2>3, InsertWithoutRootInv
  <2>4. CASE SplitRound
    BY <2>4, SplitRoundInv
  <2>5. CASE SplitEnd
    BY <2>5, SplitEndInv
  <2>6. ASSUME NEW a \in Asked, Search(a) PROVE IInv'
    BY <2>6, SearchInv
  <2>7. ASSUME NEW a \in Asked, SearchFails(a) PROVE IInv'
    BY <2>7, SearchFailsInv
  <2>8. ASSUME NEW a \in Asked, Delete(a) PROVE IInv'
    BY <2>8, DeleteInv
  <2>9. CASE IteratorCreate \/ (\E start \in Asked : IteratorRange(start))
             \/ IteratorNext \/ IteratorDestroy
    BY <2>9, IteratorInv
  <2> QED BY <1>2, <2>1, <2>2, <2>3, <2>4, <2>5, <2>6, <2>7, <2>8, <2>9 DEF Next
<1> QED BY <1>1, <1>2

----------------------------------------------------------------------------
(* The theorems. *)

LEMMA Inductive == Spec => []IInv
BY InitInv, StepInv, PTL DEF Spec

\* The fields of the pages, the split and the iterator hold what the code's
\* types can, in every file and for every sequence of calls.
THEOREM BTreeTyped == Spec => []TypeOK
<1>1. IInv => TypeOK
  BY InvImplies
<1> QED BY <1>1, Inductive, PTL

\* find_empty_index_slot never hands out an id that is in use: write_index_slot
\* and free_index_slot keep each id once in the directory or the free list.
THEOREM SlotIdsOnce == Spec => []SlotIdsDistinct
<1>1. IInv => SlotIdsDistinct
  BY InvImplies
<1> QED BY <1>1, Inductive, PTL

\* The accounts write_index_slot and free_index_slot keep agree on every page,
\* a torn one too: USED_SPACE with the directory and the writes there were, and
\* free_end with those writes, of which there are never more than 255.
THEOREM SlotSpaceAccounted == Spec => []SpaceAccounted
<1>1. IInv => SpaceAccounted
  BY InvImplies
<1> QED BY <1>1, Inductive, PTL

\* btree_split_leaf keeps the leaves a chain until get_free_page answers a page
\* in use: no leaf is behind two others, and none is behind itself.
THEOREM LeavesStayChained == Spec => []ChainIntact
<1>1. IInv => ChainIntact
  BY DEF IInv
<1> QED BY <1>1, Inductive, PTL

\* The slot btree_search named goes on holding a key that begins with the one
\* it was asked for.
THEOREM AnswersStayTrue == Spec => []AnswerHolds
<1>1. IInv => AnswerHolds
  BY DEF IInv
<1> QED BY <1>1, Inductive, PTL

\* What a call may change of a page, and no more.
Keeps(pg, new) ==
    \/ pg.kind = "unused" \/ new.kind = "torn"
    \/ Cardinality(SymDiff(Rows(pg), Rows(new))) <= 1 /\ IdsKept(pg, new)

KeptAt(p) ==
    \/ reused' /\ p = fallback /\ Total(pages'[p]) = 0
    \/ Keeps(pages[p], pages'[p])

LEMMA OneRowApart ==
    ASSUME NEW R, NEW S, NEW r, S = R \/ S = R \cup {r} \/ S = R \ {r}
    PROVE  Cardinality(SymDiff(R, S)) <= 1
<1>1. SymDiff(R, S) = {} \/ SymDiff(R, S) = {r}
  BY DEF SymDiff
<1>2. Cardinality({}) = 0 /\ Cardinality({r}) = 1
  BY FS_EmptySet, FS_Singleton
<1> QED BY <1>1, <1>2

LEMMA SamePageKeeps ==
    ASSUME NEW pg
    PROVE  Keeps(pg, pg)
<1>1. Cardinality(SymDiff(Rows(pg), Rows(pg))) <= 1
  BY OneRowApart
<1> QED BY <1>1 DEF Keeps, IdsKept

LEMMA GrownKeeps ==
    ASSUME NEW pg, NEW mid, NEW new, Grown(pg, mid), new.slots = mid.slots, new.free = mid.free
    PROVE  Keeps(pg, new)
<1>1. IdsKept(pg, mid) /\ (Rows(mid) = Rows(pg) \/ \E r : Rows(mid) = Rows(pg) \cup {r})
  BY DEF Grown
<1>2. Rows(new) = Rows(mid) /\ IdsKept(pg, new)
  BY <1>1 DEF Rows, IdsKept, Ids
<1>3. Cardinality(SymDiff(Rows(pg), Rows(new))) <= 1
  BY <1>1, <1>2, OneRowApart
<1> QED BY <1>2, <1>3 DEF Keeps

\* A page that get_free_page answered and that is cleared.
LEMMA ClearedKept ==
    ASSUME SourceOK, NEW p \in Pages, GetFreePage(p), Total(pages'[p]) = 0
    PROVE  KeptAt(p)
<1>1. pages[p].kind = "unused" \/ (p = fallback /\ reused')
  BY PageGranted DEF Granted
<1> QED BY <1>1 DEF KeptAt, Keeps

\* A call changes at most one row of a page, whatever it moves in its
\* directory, and loses no slot id; a page that comes from get_free_page while
\* it is in use loses them all.
THEOREM CallsKeepOtherRows == Spec => OtherSlotsKeepTheirRows
<1> DEFINE A == Idle => \A p \in Pages :
              \/ pages[p].kind = "unused" \/ pages'[p].kind = "torn"
              \/ reused' /\ p = fallback /\ Total(pages'[p]) = 0
              \/ /\ Cardinality(SymDiff(Rows(pages[p]), Rows(pages'[p]))) <= 1
                 /\ Ids(pages[p]) \cup Range(pages[p].free)
                        \subseteq Ids(pages'[p]) \cup Range(pages'[p].free)
<1>1. IInv /\ [Next]_vars => [A]_vars
  <2> SUFFICES ASSUME IInv, Next, Idle PROVE \A p \in Pages : KeptAt(p)
    BY DEF KeptAt, Keeps, IdsKept
  <2>1. pages \in [Pages -> GoodPages] /\ RootOK /\ SourceOK
    BY DEF IInv
  <2>2. ASSUME NEW p \in Pages, pages'[p] = pages[p] PROVE KeptAt(p)
    BY <2>2, SamePageKeeps DEF KeptAt
  <2>3. CASE UNCHANGED pages
    BY <2>2, <2>3
  <2>4. CASE BtreeInit
    <3>1. PICK p \in Pages :
             /\ GetFreePage(p)
             /\ \/ pages' = [pages EXCEPT ![p] = EmptyPage("leaf")]
                \/ pages' = [pages EXCEPT ![p] = EmptyPage("unused")]
      BY <2>4 DEF BtreeInit
    <3>2. Total(pages'[p]) = 0
      <4>1. Total(EmptyPage("leaf")) = 0 /\ Total(EmptyPage("unused")) = 0
        BY EmptyPageOK DEF Kinds
      <4>2. pages'[p] = EmptyPage("leaf") \/ pages'[p] = EmptyPage("unused")
        BY <2>1, <3>1
      <4> QED BY <4>1, <4>2
    <3>3. KeptAt(p)
      BY <2>1, <3>1, <3>2, ClearedKept
    <3>4. \A q \in Pages : q # p => pages'[q] = pages[q]
      BY <2>1, <3>1
    <3> QED BY <2>2, <3>3, <3>4
  <2>5. ASSUME NEW k \in Keys, InsertWithoutRoot(k) PROVE \A q \in Pages : KeptAt(q)
    <3>1. \A q \in Pages : pages[q].kind = "unused"
      BY <2>5 DEF InsertWithoutRoot, Unused
    <3> QED BY <3>1 DEF KeptAt, Keeps
  <2>6. ASSUME NEW k \in Keys, Insert(k) PROVE \A q \in Pages : KeptAt(q)
    <3>1. PICK pg \in WriteSlot(pages[root], k) : InsertInto(root, pg)
      BY <2>6 DEF Insert
    <3>2. root \in Pages /\ Grown(pages[root], pg)
      BY <2>6, <3>1, InsertFinds
    <3>3. PageOK(pg)
      BY <3>2 DEF Grown
    <3>4. CASE pages' = [pages EXCEPT ![root] = pg]
      <4>1. pages'[root] = pg /\ \A q \in Pages : q # root => pages'[q] = pages[q]
        BY <2>1, <3>2, <3>4
      <4>2. KeptAt(root)
        BY <3>2, <4>1, GrownKeeps DEF KeptAt
      <4> QED BY <2>2, <4>1, <4>2
    <3>5. CASE \E new \in Pages : GetFreePage(new) /\ StartSplit(root, pg, new)
      <4>1. PICK new \in Pages : GetFreePage(new) /\ StartSplit(root, pg, new)
        BY <3>5
      <4>2. SplitsInto(root, pg, new)
        BY <2>1, <3>2, <3>3, <4>1, SplitStarted
      <4>3. KeptAt(new)
        BY <2>1, <4>1, <4>2, ClearedKept DEF SplitsInto
      <4>4. ASSUME new # root PROVE KeptAt(root)
        <5>1. pages'[root].slots = pg.slots /\ pages'[root].free = pg.free
          BY <4>2, <4>4 DEF SplitsInto
        <5> QED BY <3>2, <5>1, GrownKeeps DEF KeptAt
      <4>5. \A q \in Pages : q \notin {root, new} => pages'[q] = pages[q]
        BY <4>2 DEF SplitsInto
      <4> QED BY <2>2, <4>3, <4>4, <4>5
    <3> QED BY <3>1, <3>4, <3>5 DEF InsertInto
  <2>7. ASSUME NEW a \in Asked, Delete(a) PROVE \A q \in Pages : KeptAt(q)
    <3>1. root \in Pages /\ PageOK(pages[root]) /\ pages[root].kind # "torn"
      BY <2>1, <2>7, PageOfTree DEF Delete, Intact, RootOK
    <3>2. PICK i \in DeletedAt(pages[root], a) :
             \E freed \in FreeSlot(pages[root], i) : pages' = [pages EXCEPT ![root] = freed]
      BY <2>7 DEF Delete
    <3>3. PICK pg \in FreeSlot(pages[root], i) : pages' = [pages EXCEPT ![root] = pg]
      BY <3>2
    <3>4. Shrunk(pages[root], pg, i)
      BY <3>1, DeletedRow
    <3>5. pages'[root] = pg /\ \A q \in Pages : q # root => pages'[q] = pages[q]
      BY <2>1, <3>1, <3>3
    <3>6. Cardinality(SymDiff(Rows(pages[root]), Rows(pg))) <= 1
      <4>1. CASE Rows(pg) = Rows(pages[root])
        BY <4>1, OneRowApart
      <4>2. ASSUME NEW key, Rows(pg) = Rows(pages[root]) \ {<<i, key>>}
            PROVE  Cardinality(SymDiff(Rows(pages[root]), Rows(pg))) <= 1
        BY <4>2, OneRowApart
      <4> QED BY <3>4, <4>1, <4>2 DEF Shrunk
    <3>7. KeptAt(root)
      BY <3>4, <3>5, <3>6 DEF KeptAt, Keeps, Shrunk
    <3> QED BY <2>2, <3>5, <3>7
  <2>8. CASE SplitRound \/ SplitEnd
    BY <2>8 DEF SplitRound, SplitEnd
  <2>9. CASE \/ \E a \in Asked : Search(a) \/ SearchFails(a)
             \/ IteratorCreate \/ IteratorNext \/ IteratorDestroy
             \/ \E start \in Asked : IteratorRange(start)
    BY <2>3, <2>9
       DEF Search, SearchFails, IteratorCreate, IteratorRange, IteratorNext, IteratorDestroy
  <2> QED BY <2>4, <2>5, <2>6, <2>7, <2>8, <2>9 DEF Next
<1> QED BY <1>1, Inductive, PTL DEF Spec, OtherSlotsKeepTheirRows

----------------------------------------------------------------------------
(* A whole scan meets every leaf.                                          *)

\* The leaves in done are behind an undisturbed scan; of the page it is on, the
\* slots below its own.
Scanned(done) ==
    /\ root \in done \cup {cursor.page}
    /\ \A p \in done : pages[p].sibling \in done \cup {cursor.page}
    /\ \A p \in done : \A id \in Ids(pages[p]) : Readable(pages[p], id) => <<p, id>> \in cursor.seen

ScanOK ==
    cursor.whole =>
        /\ Idle /\ root \in Pages /\ cursor.page \in Pages
        /\ \E done \in SUBSET Pages : Scanned(done)
        /\ \A id \in Ids(pages[cursor.page]) :
              Readable(pages[cursor.page], id) /\ id < cursor.slot
                  => <<cursor.page, id>> \in cursor.seen

LEMMA InitScans == Init => ScanOK
BY DEF Init, NoCursor, ScanOK

LEMMA IdsAreNumbers ==
    ASSUME NEW pg \in PageRecords
    PROVE  Ids(pg) \subseteq Nat
<1>1. DOMAIN pg.slots = 1 .. Total(pg) /\ \A i \in 1 .. Total(pg) : IdAt(pg, i) \in SlotIds
  BY PageNumbers, PageEntries
<1>2. Ids(pg) \subseteq SlotIds
  BY <1>1 DEF Ids, Range, IdAt
<1> QED BY <1>2 DEF SlotIds

\* One round of btree_iterator_next.
LEMMA NextScans ==
    ASSUME IInv, ScanOK, IteratorNext
    PROVE  ScanOK'
<1> SUFFICES ASSUME cursor'.whole PROVE ScanOK'
  BY DEF ScanOK
<1> DEFINE place == NextPlace
           pg    == pages[place.page]
<1>1. PICK stops \in {FALSE, ~cursor.whole} :
         cursor' = [cursor EXCEPT
            !.page = place.page,
            !.slot = IF stops THEN place.slot ELSE (place.slot + 1) % 256,
            !.seen = IF cursor.whole /\ Readable(pg, place.slot)
                     THEN @ \cup {<<place.page, place.slot>>} ELSE @]
  BY DEF IteratorNext
<1>2. /\ UNCHANGED <<pages, root, split>> /\ Idle /\ place.page # NoPage
      /\ pages[cursor.page].kind # "torn"
      /\ pages \in [Pages -> GoodPages] /\ CursorOK
  BY DEF IteratorNext, IInv
<1>3. cursor.whole /\ ~stops
  BY <1>1, <1>2 DEF CursorOK
<1>4. root \in Pages /\ cursor.page \in Pages
  BY <1>3 DEF ScanOK
<1>5. PICK done \in SUBSET Pages : Scanned(done)
  BY <1>3 DEF ScanOK
<1>6. /\ cursor'.page = place.page /\ cursor'.slot = (place.slot + 1) % 256
      /\ cursor.seen \subseteq cursor'.seen
      /\ Readable(pg, place.slot) => <<place.page, place.slot>> \in cursor'.seen
  BY <1>1, <1>2, <1>3 DEF CursorOK
<1>7. Total(pages[cursor.page]) \in 0 .. 254
      /\ \A p \in Pages : Ids(pages[p]) \subseteq Nat
  BY <1>2, <1>4, PageOfTree, IdsAreNumbers
<1>8. CASE ~AtPageEnd
  <2>1. place.page = cursor.page /\ place.slot = cursor.slot
    BY <1>8 DEF NextPlace
  <2>2. cursor.slot \in Nat /\ cursor.slot < 255
    BY <1>2, <1>4, <1>7, <1>8 DEF CursorOK, SlotIds, AtPageEnd
  <2>3. cursor'.page = cursor.page /\ cursor'.slot = cursor.slot + 1
    BY <1>6, <2>1, <2>2
  <2>4. Scanned(done)'
    BY <1>2, <1>5, <1>6, <2>3 DEF Scanned
  <2>5. ASSUME NEW id \in Ids(pages[cursor.page]), Readable(pages[cursor.page], id),
               id < cursor'.slot
        PROVE  <<cursor.page, id>> \in cursor'.seen
    <3>1. id \in Nat
      BY <1>4, <1>7
    <3>2. id < cursor.slot \/ id = cursor.slot
      BY <2>2, <2>3, <2>5, <3>1
    <3>3. id < cursor.slot => <<cursor.page, id>> \in cursor.seen
      BY <1>3, <2>5 DEF ScanOK
    <3> QED BY <1>6, <2>1, <2>5, <3>2, <3>3
  <2> QED BY <1>2, <1>4, <2>3, <2>4, <2>5 DEF ScanOK, Idle
<1>9. CASE AtPageEnd
  <2>1. place.page = pages[cursor.page].sibling /\ place.slot = 0
    BY <1>9 DEF NextPlace
  <2>2. place.page \in Pages
    BY <1>2, <1>4, <2>1, PageOfTree
  <2>3. cursor'.page = pages[cursor.page].sibling /\ cursor'.slot = 1
    BY <1>6, <2>1
  <2>4. PICK more \in SUBSET Pages : more = done \cup {cursor.page}
    BY <1>4
  <2>5. \A p \in more : \A id \in Ids(pages[p]) : Readable(pages[p], id) => <<p, id>> \in cursor'.seen
    <3>1. ASSUME NEW id \in Ids(pages[cursor.page]), Readable(pages[cursor.page], id)
          PROVE  <<cursor.page, id>> \in cursor'.seen
      <4>1. id \in Nat /\ id < Total(pages[cursor.page]) /\ Total(pages[cursor.page]) \in Nat
            /\ cursor.slot \in Nat /\ cursor.slot >= Total(pages[cursor.page])
        BY <1>2, <1>4, <1>7, <1>9, <3>1 DEF AtPageEnd, CursorOK, SlotIds, Readable
      <4>2. id < cursor.slot
        BY <4>1
      <4> QED BY <1>3, <1>6, <3>1, <4>2 DEF ScanOK
    <3> QED BY <1>5, <1>6, <2>4, <3>1 DEF Scanned
  <2>6. Scanned(more)'
    BY <1>2, <1>5, <2>3, <2>5, <2>4 DEF Scanned
  <2>7. ASSUME NEW id \in Ids(pages[place.page]), Readable(pages[place.page], id), id < cursor'.slot
        PROVE  <<place.page, id>> \in cursor'.seen
    <3>1. id = 0
      BY <1>7, <2>2, <2>3, <2>7
    <3> QED BY <1>6, <2>1, <2>7, <3>1
  <2> HIDE DEF place
  <2>8. root' \in Pages /\ cursor'.page \in Pages /\ Idle'
    BY <1>2, <1>4, <1>6, <2>2 DEF Idle
  <2>9. \A id \in Ids(pages'[cursor'.page]) :
           Readable(pages'[cursor'.page], id) /\ id < cursor'.slot
               => <<cursor'.page, id>> \in cursor'.seen
    BY <1>2, <1>6, <2>7
  <2>10. \E set \in SUBSET Pages : Scanned(set)'
    BY <2>6
  <2> QED BY <2>8, <2>9, <2>10 DEF ScanOK
<1> QED BY <1>8, <1>9

LEMMA StepScans ==
    ASSUME IInv, ScanOK, [Next]_vars
    PROVE  ScanOK'
<1>1. CASE UNCHANGED <<pages, root, split, cursor>>
  BY <1>1 DEF ScanOK, Scanned, Idle
<1>2. CASE ~cursor'.whole
  BY <1>2 DEF ScanOK
<1>3. CASE UNCHANGED vars
  BY <1>1, <1>3 DEF vars
<1>4. CASE BtreeInit \/ \E k \in Keys : InsertWithoutRoot(k)
  <2>1. root \notin Pages /\ cursor' = cursor
    BY <1>4, NoPageIsNoPage DEF BtreeInit, InsertWithoutRoot, IInv, RootOK, Unused
  <2> QED BY <1>2, <2>1 DEF ScanOK
<1>5. CASE SplitRound \/ SplitEnd
  <2>1. ~Idle /\ cursor' = cursor
    BY <1>5 DEF SplitRound, SplitEnd
  <2> QED BY <1>2, <2>1 DEF ScanOK
<1>6. CASE (\E k \in Keys : Insert(k)) \/ (\E a \in Asked : Delete(a))
  BY <1>2, <1>6 DEF Insert, Delete, ScanDisturbed, IInv, CursorOK
<1>7. CASE \E a \in Asked : Search(a) \/ SearchFails(a)
  BY <1>1, <1>7 DEF Search, SearchFails
<1>8. CASE IteratorCreate
  <2>1. /\ cursor' = [page |-> root, slot |-> 0, whole |-> TRUE, seen |-> {}]
        /\ UNCHANGED <<pages, root, split>> /\ Idle /\ root \in Pages
        /\ pages \in [Pages -> GoodPages]
    BY <1>8 DEF IteratorCreate, Intact, IInv, RootOK
  <2>2. Scanned({})'
    BY <2>1 DEF Scanned
  <2>3. \A id \in Ids(pages[root]) : ~(id < 0)
    <3>1. Ids(pages[root]) \subseteq Nat
      BY <2>1, PageOfTree, IdsAreNumbers
    <3> QED BY <3>1
  <2> QED BY <2>1, <2>2, <2>3 DEF ScanOK, Idle
<1>9. CASE \E start \in Asked : IteratorRange(start)
  BY <1>2, <1>9 DEF IteratorRange
<1>10. CASE IteratorNext
  BY <1>10, NextScans
<1>11. CASE IteratorDestroy
  BY <1>2, <1>11 DEF IteratorDestroy, NoCursor
<1> QED BY <1>3, <1>4, <1>5, <1>6, <1>7, <1>8, <1>9, <1>10, <1>11 DEF Next

LEMMA WholeScan ==
    ASSUME IInv, ScanOK
    PROVE  ScanCoversReadable
<1> SUFFICES ASSUME cursor.whole, AtPageEnd, pages[cursor.page].sibling = NoPage,
                    NEW p \in Leaves, NEW id \in Ids(pages[p]), Readable(pages[p], id)
             PROVE  <<p, id>> \in cursor.seen
  BY DEF ScanCoversReadable
<1>1. root \in Pages /\ cursor.page \in Pages /\ pages \in [Pages -> GoodPages] /\ CursorOK
  BY DEF ScanOK, IInv
<1>2. PICK done \in SUBSET Pages : Scanned(done)
  BY DEF ScanOK
<1> DEFINE R == done \cup {cursor.page}
<1>3. R \in SUBSET Pages /\ root \in R /\ \A q \in R : pages[q].sibling # NoPage => pages[q].sibling \in R
  BY <1>1, <1>2 DEF Scanned
<1>4. p \in R
  BY <1>3 DEF Leaves
<1>5. CASE p \in done
  BY <1>2, <1>5 DEF Scanned
<1>6. CASE p = cursor.page
  <2>1. Total(pages[p]) \in Nat /\ pages[p] \in PageRecords /\ cursor.slot \in Nat
    <3>1. pages[p] \in PageRecords /\ cursor.slot \in Nat
      BY <1>1, <1>6, PageOfTree DEF CursorOK, SlotIds
    <3> QED BY <3>1, PageNumbers
  <2>2. id \in Nat
    BY <2>1, IdsAreNumbers
  <2>3. id < cursor.slot
    BY <1>6, <2>1, <2>2 DEF AtPageEnd, Readable
  <2> QED BY <1>6, <2>3 DEF ScanOK
<1> QED BY <1>4, <1>5, <1>6

\* btree_iterator_next: a scan from btree_iterator_create that no write
\* disturbs returns every readable slot of every leaf before it ends.
THEOREM ScansCoverTheLeaves == Spec => []ScanCoversReadable
<1>1. Init => IInv /\ ScanOK
  BY InitInv, InitScans
<1>2. (IInv /\ ScanOK) /\ [Next]_vars => (IInv /\ ScanOK)'
  BY StepInv, StepScans
<1>3. IInv /\ ScanOK => ScanCoversReadable
  BY WholeScan
<1> QED BY <1>1, <1>2, <1>3, PTL DEF Spec
=============================================================================
