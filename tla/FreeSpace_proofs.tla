-------------------------- MODULE FreeSpace_proofs --------------------------
(***************************************************************************)
(* Proofs about FreeSpace, for any number of page ids, any capacity of the *)
(* list in page 0, any width of num_frees and any number of holders, as    *)
(* long as the file has no more pages than there are ids.                  *)
(***************************************************************************)
EXTENDS FreeSpace, SequenceTheorems, FiniteSetTheorems, TLAPS

----------------------------------------------------------------------------
(* The operators on the list in page 0.                                    *)

\* mark_page_free: at most one entry more, never past the end of the list.
LEMMA ListedList ==
    ASSUME NEW s \in Seq(PageIds), NEW p \in PageIds, Len(s) <= FREE_PAGE_LIST_SIZE
    PROVE  /\ Listed(s, p) \in Seq(PageIds) /\ Len(Listed(s, p)) <= FREE_PAGE_LIST_SIZE
           /\ Listed(s, p) = s \/ Listed(s, p) = Append(s, p)
           /\ Entries(Listed(s, p)) \subseteq Entries(s) \cup {p}
BY ParametersAssumption DEF Listed, Entries

\* The shift loop drops one entry and keeps the order of the others.
LEMMA WithoutList ==
    ASSUME NEW s \in Seq(PageIds), NEW p
    PROVE  /\ Without(s, p) \in Seq(PageIds) /\ Len(Without(s, p)) <= Len(s)
           /\ Entries(Without(s, p)) \subseteq Entries(s)
<1>1. CASE p \notin Entries(s)
  BY <1>1 DEF Without
<1>2. CASE p \in Entries(s)
  <2> DEFINE k == CHOOSE i \in DOMAIN s : s[i] = p /\ \A j \in 1 .. i - 1 : s[j] # p
             n == Len(s) - 1
             t == [i \in 1 .. n |-> IF i < k THEN s[i] ELSE s[i + 1]]
  <2>1. n \in Nat /\ DOMAIN s = 1 .. n + 1 /\ \A i \in 1 .. n + 1 : s[i] \in PageIds
    BY <1>2 DEF Entries
  <2>2. Without(s, p) = t
    BY <1>2 DEF Without
  <2> HIDE DEF k
  <2>3. \A i \in 1 .. n : t[i] \in {s[i], s[i + 1]} /\ i \in DOMAIN s /\ i + 1 \in DOMAIN s
    BY <2>1
  <2>4. t \in [1 .. n -> PageIds]
    BY <2>1, <2>3
  <2>5. t \in Seq(PageIds) /\ Len(t) = n
    BY <2>1, <2>4, SeqDef
  <2>6. Entries(t) \subseteq Entries(s)
    BY <2>3 DEF Entries
  <2> QED BY <2>1, <2>2, <2>5, <2>6
<1> QED BY <1>1, <1>2

\* The shift loop cut short: the list keeps its length and gets no new page.
LEMMA CutShiftList ==
    ASSUME NEW s \in Seq(PageIds), NEW p, NEW n
    PROVE  /\ CutShift(s, p, n) \in Seq(PageIds) /\ Len(CutShift(s, p, n)) = Len(s)
           /\ Entries(CutShift(s, p, n)) \subseteq Entries(s)
<1> DEFINE k == CHOOSE i \in DOMAIN s : s[i] = p /\ \A j \in 1 .. i - 1 : s[j] # p
           t == [i \in DOMAIN s |-> IF k <= i /\ i < k + n /\ i < Len(s)
                                    THEN s[i + 1] ELSE s[i]]
<1>1. CutShift(s, p, n) = t
  BY DEF CutShift
<1>2. Len(s) \in Nat /\ DOMAIN s = 1 .. Len(s) /\ \A i \in DOMAIN s : s[i] \in PageIds
  OBVIOUS
<1> HIDE DEF k
<1>3. \A i \in DOMAIN s : t[i] = s[i] \/ (i + 1 \in DOMAIN s /\ t[i] = s[i + 1])
  <2> TAKE i \in DOMAIN s
  <2>1. CASE k <= i /\ i < k + n /\ i < Len(s)
    <3>1. t[i] = s[i + 1] /\ i + 1 \in DOMAIN s
      BY <1>2, <2>1
    <3> QED BY <3>1
  <2>2. CASE ~(k <= i /\ i < k + n /\ i < Len(s))
    BY <2>2
  <2> QED BY <2>1, <2>2
<1>4. t \in [1 .. Len(s) -> PageIds]
  BY <1>2, <1>3
<1>5. t \in Seq(PageIds) /\ Len(t) = Len(s)
  BY <1>2, <1>4, SeqDef
<1>6. Entries(t) \subseteq Entries(s)
  BY <1>3 DEF Entries
<1> QED BY <1>1, <1>5, <1>6

\* radix_to_freelist: pages of the tree, each once, no more than there is room.
LEMMA CollectedList ==
    ASSUME NEW S, IsFiniteSet(S), S \subseteq PageIds, NEW s \in Collected(S)
    PROVE  /\ s \in Seq(PageIds) /\ Len(s) <= FREE_PAGE_LIST_SIZE
           /\ Entries(s) \subseteq S
           /\ \A i, j \in DOMAIN s : i # j => s[i] # s[j]
<1> DEFINE size == IF Cardinality(S) < FREE_PAGE_LIST_SIZE
                   THEN Cardinality(S) ELSE FREE_PAGE_LIST_SIZE
<1>1. size \in Nat /\ size <= FREE_PAGE_LIST_SIZE
  BY FS_CardinalityType, ParametersAssumption
<1>2. s \in [1 .. size -> S] /\ \A i, j \in 1 .. size : i < j => s[i] < s[j]
  BY DEF Collected
<1> HIDE DEF size
<1>3. s \in Seq(PageIds) /\ Len(s) = size /\ DOMAIN s = 1 .. size
  BY <1>1, <1>2, SeqDef
<1>4. \A i \in 1 .. size : s[i] \in Int
  <2>1. PageIds \subseteq Int
    BY ParametersAssumption DEF PageIds
  <2>2. S \subseteq Int
    BY <2>1, Zenon
  <2>3. ASSUME NEW i \in 1 .. size PROVE s[i] \in S
    BY <1>2, Zenon
  <2> QED BY <2>2, <2>3, Zenon
<1>5. ASSUME NEW i \in 1 .. size, NEW j \in 1 .. size, i # j
      PROVE  s[i] # s[j]
  <2>1. i < j \/ j < i
    BY <1>1, <1>5
  <2>2. s[i] < s[j] \/ s[j] < s[i]
    BY <1>2, <2>1
  <2> QED BY <1>4, <2>2
<1> QED BY <1>1, <1>2, <1>3, <1>5 DEF Entries

\* The file never has more pages than there are page ids.
FileFits == MaxFilePages <= PAGE_IDS

----------------------------------------------------------------------------
(* Types, for every kind of caller and every crash.                        *)

ListOK(s)    == s \in Seq(PageIds) /\ Len(s) <= FREE_PAGE_LIST_SIZE
TreeOK(t)    == t \subseteq PageIds /\ IsFiniteSet(t)
HoldersOK(h) == h \in [PageIds -> Nat]
PagesOK(n)   == n \in 0 .. MaxFilePages
FreesOK(n)   == n \in 0 .. FREES_WIDTH - 1

\* The type invariant, one name for the type of each variable.
LEMMA TypeSplit ==
    /\ TypeOK <=> /\ PagesOK(file_pages) /\ ListOK(free_page_list) /\ highest_page \in PageIds
                  /\ has_catalog \in BOOLEAN /\ is_open \in BOOLEAN /\ TreeOK(tree)
                  /\ FreesOK(num_frees) /\ HoldersOK(holders) /\ pending \in PageIds
    /\ TypeOK' <=> /\ PagesOK(file_pages') /\ ListOK(free_page_list') /\ highest_page' \in PageIds
                   /\ has_catalog' \in BOOLEAN /\ is_open' \in BOOLEAN /\ TreeOK(tree')
                   /\ FreesOK(num_frees') /\ HoldersOK(holders') /\ pending' \in PageIds
BY Zenon DEF TypeOK, ListOK, TreeOK, HoldersOK, PagesOK, FreesOK

\* The header of a new database and the memory of a closed one.
LEMMA Beginnings ==
    /\ 0 \in PageIds /\ 3 \in PageIds /\ PageIds \subseteq Nat
    /\ ListOK(<<>>)
    /\ TreeOK({}) /\ FreesOK(0) /\ PagesOK(0)
    /\ MaxFilePages \in Nat
<1>1. 0 \in PageIds /\ 3 \in PageIds /\ PageIds \subseteq Nat
  BY ParametersAssumption DEF PageIds
<1>2. <<>> \in Seq(PageIds) /\ Len(<<>>) = 0
  OBVIOUS
<1>3. IsFiniteSet({})
  BY FS_EmptySet
<1>4. ListOK(<<>>)
  BY <1>2, ParametersAssumption DEF ListOK
<1>5. TreeOK({})
  BY <1>3 DEF TreeOK
<1>6. 0 \in 0 .. FREES_WIDTH - 1 /\ 0 \in 0 .. MaxFilePages /\ MaxFilePages \in Nat
  BY ParametersAssumption
<1>7. FreesOK(0) /\ PagesOK(0)
  BY <1>6 DEF FreesOK, PagesOK
<1> QED BY <1>1, <1>4, <1>5, <1>6, <1>7

\* Every operator of the model keeps the type of its argument.
LEMMA TypedLists ==
    ASSUME NEW s, ListOK(s)
    PROVE  /\ \A p \in PageIds : ListOK(Listed(s, p)) /\ ListOK(Without(s, p))
           /\ \A p, n : ListOK(CutShift(s, p, n))
           /\ TreeOK(Entries(s) \ {0})
           /\ FreesOK(Cardinality({i \in DOMAIN s : s[i] > 0}) % FREES_WIDTH)
<1>1. s \in Seq(PageIds) /\ Len(s) <= FREE_PAGE_LIST_SIZE /\ Len(s) \in Nat
      /\ DOMAIN s = 1 .. Len(s)
  BY DEF ListOK
<1>2. \A p \in PageIds : ListOK(Listed(s, p))
  BY <1>1, ListedList DEF ListOK
<1>3. ASSUME NEW t \in Seq(PageIds), Len(t) <= Len(s)
      PROVE  ListOK(t)
  BY <1>1, <1>3, ParametersAssumption DEF ListOK
<1>4. \A p \in PageIds : ListOK(Without(s, p))
  BY <1>1, <1>3, WithoutList
<1>5. \A p, n : CutShift(s, p, n) \in Seq(PageIds) /\ Len(CutShift(s, p, n)) = Len(s)
  BY <1>1, CutShiftList
<1>6. \A p, n : ListOK(CutShift(s, p, n))
  BY <1>1, <1>5, <1>3
<1>7. TreeOK(Entries(s) \ {0})
  <2>1. s \in Surjection(1 .. Len(s), Entries(s))
    BY <1>1 DEF Entries, Surjection
  <2>2. IsFiniteSet(Entries(s))
    BY <1>1, <2>1, FS_Interval, FS_Surjection
  <2>3. Entries(s) \subseteq PageIds
    BY <1>1 DEF Entries
  <2>4. Entries(s) \ {0} \subseteq Entries(s)
    OBVIOUS
  <2>5. IsFiniteSet(Entries(s) \ {0})
    BY <2>2, <2>4, FS_Subset
  <2> QED BY <2>3, <2>4, <2>5 DEF TreeOK
<1>8. FreesOK(Cardinality({i \in DOMAIN s : s[i] > 0}) % FREES_WIDTH)
  <2> DEFINE D == {i \in DOMAIN s : s[i] > 0}
  <2>1. D \subseteq 1 .. Len(s) /\ IsFiniteSet(1 .. Len(s))
    BY <1>1, FS_Interval
  <2>2. Cardinality(D) \in Nat
    BY <2>1, FS_Subset, FS_CardinalityType
  <2> HIDE DEF D
  <2>3. \A n \in Nat : n % FREES_WIDTH \in 0 .. FREES_WIDTH - 1
    BY ParametersAssumption
  <2>4. FreesOK(Cardinality(D) % FREES_WIDTH)
    BY <2>2, <2>3 DEF FreesOK
  <2> QED BY <2>4 DEF D
<1> QED BY <1>2, <1>4, <1>6, <1>7, <1>8

LEMMA TypedTrees ==
    ASSUME NEW t, TreeOK(t)
    PROVE  /\ \A p \in PageIds : TreeOK(t \cup {p}) /\ TreeOK(t \ {p})
           /\ \A s \in Collected(t) : ListOK(s)
<1>1. t \subseteq PageIds /\ IsFiniteSet(t)
  BY DEF TreeOK
<1>2. \A p : IsFiniteSet(t \cup {p}) /\ IsFiniteSet(t \ {p})
  BY <1>1, FS_AddElement, FS_RemoveElement
<1>3. \A s \in Collected(t) : ListOK(s)
  BY <1>1, CollectedList DEF ListOK
<1> QED BY <1>1, <1>2, <1>3 DEF TreeOK

LEMMA TypedFrees ==
    ASSUME NEW n, FreesOK(n)
    PROVE  /\ FreesOK(Decremented(n)) /\ FreesOK((n + 1) % FREES_WIDTH)
           /\ n > 0 => FreesOK(n - 1)
BY ParametersAssumption DEF FreesOK, Decremented

LEMMA TypedHolders ==
    ASSUME NEW h, HoldersOK(h), NEW p \in PageIds
    PROVE  /\ HoldersOK([h EXCEPT ![p] = @ + 1]) /\ [h EXCEPT ![p] = @ + 1][p] > 0
           /\ h[p] > 0 => HoldersOK([h EXCEPT ![p] = @ - 1])
BY DEF HoldersOK

----------------------------------------------------------------------------
\* A page is handed out only by an open database, which has a file.
TypedInv ==
    /\ TypeOK
    /\ pending # 0 => holders[pending] > 0
    /\ is_open => file_pages > 0
    /\ ~is_open => pending = 0

LEMMA TypedInit == Init => TypedInv
<1> SUFFICES ASSUME Init PROVE TypedInv
  OBVIOUS
<1>1. HoldersOK(holders)
  BY DEF Init, HoldersOK
<1>2. TypeOK
  BY <1>1, Beginnings, TypeSplit DEF Init
<1> QED BY <1>2 DEF Init, TypedInv

\* A process that dies leaves a page less in use, if one was pending.
LEMMA TypedGone ==
    ASSUME TypedInv, is_open, Dies, PagesOK(file_pages'),
           ListOK(free_page_list')
    PROVE  TypedInv'
<1>1. HoldersOK(holders')
  <2>1. CASE pending = 0
    BY <2>1, TypeSplit DEF Dies, ProcessGone, TypedInv
  <2>2. CASE pending # 0
    BY <2>2, TypeSplit, TypedHolders DEF Dies, ProcessGone, TypedInv
  <2> QED BY <2>1, <2>2
<1>2. TypeOK'
  BY <1>1, Beginnings, TypeSplit DEF Dies, ProcessGone, TypedInv
<1> QED BY <1>2 DEF Dies, ProcessGone, TypedInv

LEMMA TypedNumbers ==
    TypeOK => highest_page \in Nat /\ pending \in Nat /\ file_pages \in Nat
BY ParametersAssumption DEF TypeOK, PageIds

LEMMA Widths ==
    /\ \A n \in Nat : n % FREES_WIDTH \in 0 .. FREES_WIDTH - 1
    /\ \A n \in Nat : n % PAGE_IDS \in PageIds
BY ParametersAssumption DEF PageIds

LEMMA TypedNext == TypedInv /\ [Next]_vars => TypedInv'
<1> SUFFICES ASSUME TypedInv, [Next]_vars PROVE TypedInv'
  OBVIOUS
<1> USE Beginnings, TypeSplit, TypedLists, TypedTrees, TypedFrees
<1>t. TypeOK
  BY DEF TypedInv
<1>p. /\ \A n \in Nat : n > 0 /\ n < MaxFilePages => PagesOK(n + 1)
      /\ file_pages \in Nat
  BY <1>t DEF PagesOK
<1>h. ASSUME NEW p \in PageIds, HandOut(p)
      PROVE  HoldersOK(holders') /\ pending' \in PageIds /\ holders'[pending'] > 0
  BY <1>t, <1>h, TypedHolders DEF HandOut
<1>1. ASSUME CreateFile \/ InitNewDb \/ CrashInInitNewDb
      PROVE  TypedInv'
  <2>1. CASE CreateFile
    <3>1. PagesOK(file_pages')
      BY <2>1 DEF CreateFile, PagesOK
    <3>2. pending = 0
      BY <2>1, <1>p DEF CreateFile, TypedInv
    <3> QED BY <1>t, <2>1, <3>1, <3>2 DEF CreateFile, TypedInv, header, callers
  <2>2. HoldersOK([p \in PageIds |-> IF p \in CatalogPages THEN 1 ELSE 0])
    BY DEF HoldersOK
  <2>3. file_pages + 4 <= MaxFilePages => PagesOK(file_pages + 4) /\ file_pages + 4 > 0
    BY <1>p DEF PagesOK
  <2>4. ASSUME is_open, Untouched PROVE pending = 0
    BY <1>t, <2>4 DEF Untouched, Held, TypedInv
  <2>5. CASE InitNewDb
    BY <1>t, <2>2, <2>3, <2>4, <2>5 DEF InitNewDb, TypedInv, ReservedPages, memory
  <2>6. CASE CrashInInitNewDb
    <3>1. pending = 0 /\ pending' = 0 /\ HoldersOK(holders')
      BY <1>t, <2>2, <2>4, <2>6 DEF CrashInInitNewDb
    <3> QED BY <1>t, <2>3, <2>6, <3>1 DEF CrashInInitNewDb, TypedInv, ReservedPages
  <2> QED BY <1>1, <2>1, <2>5, <2>6
<1>2. CASE OpenDb
  BY <1>t, <1>2 DEF OpenDb, TypedInv, header, callers
<1>3. CASE CloseDb
  <2>1. ListOK(free_page_list')
    BY <1>t, <1>3 DEF CloseDb
  <2> QED BY <1>t, <1>3, <2>1 DEF CloseDb, TypedInv, memory, callers
<1>4. CASE SyncFreePageList
  BY <1>t, <1>4 DEF SyncFreePageList, TypedInv, memory, callers
<1>5. ASSUME NEW p \in PageIds, GetRecycledPage(p)
      PROVE  TypedInv'
  <2>1. HoldersOK(holders') /\ pending' \in PageIds /\ holders'[pending'] > 0
    BY <1>5, <1>h DEF GetRecycledPage
  <2> QED BY <1>t, <1>5, <2>1 DEF GetRecycledPage, TypedInv
<1>6. ASSUME NEW p \in PageIds, MarkPageFree(p)
      PROVE  TypedInv'
  <2>1. HoldersOK(holders')
    BY <1>t, <1>6, TypedHolders DEF MarkPageFree, Held
  <2> QED BY <1>t, <1>6, <2>1 DEF MarkPageFree, TypedInv
<1>7. CASE GetFreshPage
  <2>1. (highest_page + 1) % PAGE_IDS \in PageIds
    <3>1. highest_page + 1 \in Nat
      BY <1>t, TypedNumbers
    <3> QED BY <3>1, Widths
  <2>2. HoldersOK(holders') /\ pending' \in PageIds /\ holders'[pending'] > 0
    BY <1>7, <1>h, <2>1 DEF GetFreshPage
  <2> QED BY <1>t, <1>7, <2>2 DEF GetFreshPage, TypedInv, header, memory
<1>8. CASE AllocateNewDbPage
  <2>1. file_pages % PAGE_IDS \in PageIds
    BY <1>p, Widths
  <2>2. PagesOK(file_pages') /\ file_pages' > 0
    BY <1>8, <1>p DEF AllocateNewDbPage, TypedInv
  <2>3. CASE file_pages % PAGE_IDS = 0
    BY <1>t, <1>8, <2>2, <2>3 DEF AllocateNewDbPage, TypedInv, header, memory, callers
  <2>4. CASE file_pages % PAGE_IDS # 0
    <3>1. HoldersOK(holders') /\ pending' \in PageIds /\ holders'[pending'] > 0
      BY <1>8, <1>h, <2>1, <2>4 DEF AllocateNewDbPage
    <3> QED BY <1>t, <1>8, <2>2, <3>1 DEF AllocateNewDbPage, TypedInv, header, memory
  <2> QED BY <2>3, <2>4
<1>9. CASE InitDataPage
  BY <1>t, <1>9 DEF InitDataPage, TypedInv, HighestAfter
<1>10. CASE InitIndexPage
  BY <1>t, <1>10 DEF InitIndexPage, TypedInv, header, memory
<1>11. CASE InitPastEnd
  <2>1. pending # 0
    BY <1>11, <1>p DEF InitPastEnd, TypedInv
  <2>2. HoldersOK(holders')
    BY <1>t, <1>11, <2>1, TypedHolders DEF InitPastEnd, TypedInv
  <2> QED BY <1>t, <1>11, <2>2 DEF InitPastEnd, TypedInv, header
<1>12. CASE UseAsItIs
  BY <1>t, <1>12 DEF UseAsItIs, TypedInv, header, memory
<1>13. CASE Crash
  BY <1>t, <1>p, <1>13, TypedGone DEF Crash
<1>14. CASE CrashInGrow
  BY <1>t, <1>p, <1>14, TypedGone DEF CrashInGrow, TypedInv
<1>15. CASE CrashInSyncFreePageList
  BY <1>t, <1>p, <1>15, TypedGone DEF CrashInSyncFreePageList
<1>16. ASSUME NEW p \in PageIds, NEW n \in 1 .. FREE_PAGE_LIST_SIZE, CrashInGetFreePage(p, n)
       PROVE  TypedInv'
  <2>1. ListOK(free_page_list')
    BY <1>t, <1>16 DEF CrashInGetFreePage
  <2>2. PagesOK(file_pages')
    BY <1>t, <1>16 DEF CrashInGetFreePage
  <2> QED BY <1>16, <2>1, <2>2, TypedGone DEF CrashInGetFreePage
<1>17. CASE UNCHANGED vars
  BY <1>t, <1>17 DEF TypedInv, vars, header, memory, callers
<1> QED BY <1>1, <1>2, <1>3, <1>4, <1>5, <1>6, <1>7, <1>8, <1>9, <1>10, <1>11, <1>12,
           <1>13, <1>14, <1>15, <1>16, <1>17 DEF Next

\* Types of page 0, of pager.c's memory and of its callers, for every kind of
\* caller and through every crash.
THEOREM FreeSpaceTyped == Spec => []TypeOK
<1>1. TypedInv => TypeOK
  BY DEF TypedInv
<1> QED BY <1>1, TypedInit, TypedNext, PTL DEF Spec

----------------------------------------------------------------------------
(* The header and the catalog, for every kind of caller and every crash.   *)

Barred  == {0} \cup Reserved
Offered == tree \cup Entries(free_page_list)

\* Each catalog page has its one user.
CatalogHeld == \A p \in Reserved : holders[p] = 1

CatalogInv ==
    /\ TypedInv
    /\ CatalogSafe
    /\ has_catalog => highest_page >= 3 /\ file_pages >= 5

LEMMA CatalogSplit ==
    /\ CatalogSafe <=> /\ Offered \cap Barred = {} /\ holders[0] = 0
                       /\ pending \notin Reserved /\ CatalogHeld
    /\ CatalogSafe' <=> /\ Offered' \cap Barred' = {} /\ holders'[0] = 0
                        /\ pending' \notin Reserved' /\ CatalogHeld'
BY DEF CatalogSafe, CatalogHeld, Offered, Barred

LEMMA ReservedAre ==
    /\ Reserved = IF has_catalog THEN {1, 2, 3} ELSE {}
    /\ Reserved' = IF has_catalog' THEN {1, 2, 3} ELSE {}
    /\ CatalogPages = {1, 2, 3}
BY DEF Reserved, CatalogPages

LEMMA CatalogInit == Init => CatalogInv
<1> SUFFICES ASSUME Init PROVE CatalogInv
  OBVIOUS
<1>1. Offered = {} /\ holders[0] = 0 /\ ~has_catalog
  BY Beginnings DEF Init, Offered, Entries
<1>2. Reserved = {}
  BY <1>1, ReservedAre
<1> QED BY <1>1, <1>2, CatalogSplit, TypedInit DEF CatalogInv, CatalogHeld

\* What each piece of a handler may add to the pages on offer.
LEMMA OfferedLists ==
    ASSUME TypeOK
    PROVE  /\ \A p : Entries(Without(free_page_list, p)) \subseteq Entries(free_page_list)
           /\ \A p \in PageIds :
                 Entries(Listed(free_page_list, p)) \subseteq Entries(free_page_list) \cup {p}
           /\ \A p, n : Entries(CutShift(free_page_list, p, n)) \subseteq Entries(free_page_list)
           /\ \A s \in Collected(tree) : Entries(s) \subseteq tree
           /\ Entries(<<>>) = {}
<1>1. free_page_list \in Seq(PageIds) /\ Len(free_page_list) <= FREE_PAGE_LIST_SIZE
  BY DEF TypeOK
<1>2. \A p : Entries(Without(free_page_list, p)) \subseteq Entries(free_page_list)
  BY <1>1, WithoutList
<1>3. \A p \in PageIds :
          Entries(Listed(free_page_list, p)) \subseteq Entries(free_page_list) \cup {p}
  BY <1>1, ListedList
<1>4. \A p, n : Entries(CutShift(free_page_list, p, n)) \subseteq Entries(free_page_list)
  BY <1>1, CutShiftList
<1>5. \A s \in Collected(tree) : Entries(s) \subseteq tree
  BY CollectedList DEF TypeOK
<1>6. Entries(<<>>) = {}
  BY DEF Entries
<1> QED BY <1>2, <1>3, <1>4, <1>5, <1>6

\* A number handed out by either allocator is below the wrap, or is 0.
LEMMA FreshNumbers ==
    ASSUME FileFits, TypeOK
    PROVE  /\ (highest_page + 1) % PAGE_IDS \in {0, highest_page + 1}
           /\ file_pages < MaxFilePages => file_pages % PAGE_IDS = file_pages
<1>1. highest_page \in Nat /\ file_pages \in Nat /\ highest_page < PAGE_IDS
      /\ PAGE_IDS \in Nat /\ MaxFilePages \in Nat
  BY ParametersAssumption DEF TypeOK, PageIds
<1>2. \A a, b \in Nat : a < b => a % b = a
  OBVIOUS
<1>3. \A b \in Nat \ {0} : b % b = 0
  OBVIOUS
<1>4. (highest_page + 1) % PAGE_IDS \in {0, highest_page + 1}
  <2>1. CASE highest_page + 1 < PAGE_IDS
    <3>1. highest_page + 1 \in Nat
      BY <1>1
    <3> QED BY <1>1, <1>2, <2>1, <3>1
  <2>2. CASE highest_page + 1 = PAGE_IDS
    BY <1>1, <1>3, <2>2
  <2> QED BY <1>1, <2>1, <2>2
<1>5. ASSUME file_pages < MaxFilePages PROVE file_pages % PAGE_IDS = file_pages
  <2>1. file_pages < PAGE_IDS
    BY <1>1, <1>5 DEF FileFits
  <2> QED BY <1>1, <1>2, <2>1
<1> QED BY <1>4, <1>5

LEMMA CatalogNext == FileFits /\ CatalogInv /\ [Next]_vars => CatalogInv'
<1> SUFFICES ASSUME FileFits, CatalogInv, [Next]_vars PROVE CatalogInv'
  BY DEF FileFits
<1>t. TypedInv /\ TypeOK /\ TypedInv' /\ TypeOK'
  BY TypedNext DEF CatalogInv, TypedInv
<1> DEFINE Goal == /\ Offered' \cap Barred' = {} /\ holders'[0] = 0
                   /\ pending' \notin Reserved' /\ CatalogHeld'
                   /\ has_catalog' => highest_page' >= 3 /\ file_pages' >= 5
<1>s. SUFFICES Goal
  BY <1>t, CatalogSplit DEF CatalogInv
<1>n. highest_page \in Nat /\ pending \in Nat /\ file_pages \in Nat
  BY <1>t, TypedNumbers
<1>c. /\ Offered \cap Barred = {} /\ holders[0] = 0 /\ pending \notin Reserved /\ CatalogHeld
      /\ has_catalog => highest_page >= 3 /\ file_pages >= 5
      /\ is_open => file_pages > 0
  BY <1>t, CatalogSplit DEF CatalogInv, TypedInv
<1>h. /\ holders \in [PageIds -> Nat] /\ PageIds \subseteq Nat /\ 0 \in PageIds
      /\ Reserved \subseteq {1, 2, 3} /\ Reserved \subseteq PageIds
  <2>1. holders \in [PageIds -> Nat]
    BY <1>t DEF TypeOK
  <2>2. PageIds \subseteq Nat /\ 0 \in PageIds /\ {1, 2, 3} \subseteq PageIds
    BY ParametersAssumption DEF PageIds
  <2>3. Reserved \subseteq {1, 2, 3}
    BY ReservedAre
  <2> QED BY <2>1, <2>2, <2>3
\* Of the calls that leave the header's reservation as it is.
<1>k. ASSUME has_catalog' = has_catalog
      PROVE  Reserved' = Reserved /\ Barred' = Barred
  BY <1>k DEF Barred, Reserved
<1>o. ASSUME NEW p \in PageIds, p \notin Barred, HandOut(p), has_catalog' = has_catalog
      PROVE  holders'[0] = 0 /\ pending' \notin Reserved' /\ CatalogHeld'
  BY <1>c, <1>h, <1>k, <1>o DEF HandOut, Barred, CatalogHeld
<1>d. ASSUME NEW p \in PageIds, p \notin Barred, holders' = [holders EXCEPT ![p] = @ - 1],
             has_catalog' = has_catalog
      PROVE  holders'[0] = 0 /\ CatalogHeld'
  BY <1>c, <1>h, <1>k, <1>d DEF Barred, CatalogHeld
<1>u. ASSUME holders' = holders, has_catalog' = has_catalog
      PROVE  holders'[0] = 0 /\ CatalogHeld'
  BY <1>c, <1>k, <1>u DEF CatalogHeld
<1>z. 0 \notin Reserved /\ 0 \in Barred
  BY <1>h DEF Barred
<1>g. ASSUME is_open, Dies, Entries(free_page_list') \subseteq Entries(free_page_list),
             file_pages' \in Nat, file_pages' >= file_pages
      PROVE  Goal
  <2>1. has_catalog' = has_catalog /\ highest_page' = highest_page /\ pending' = 0
        /\ Offered' \subseteq Offered
    BY <1>g DEF Dies, ProcessGone, Offered
  <2>2. holders'[0] = 0 /\ CatalogHeld'
    <3>1. CASE pending = 0
      BY <1>g, <1>u, <2>1, <3>1 DEF Dies, ProcessGone
    <3>2. CASE pending # 0
      <4>1. pending \in PageIds /\ pending \notin Barred
        BY <1>t, <1>c, <3>2 DEF TypeOK, Barred
      <4> QED BY <1>g, <1>d, <2>1, <3>2, <4>1 DEF Dies, ProcessGone
    <3> QED BY <3>1, <3>2
  <2>3. has_catalog' => highest_page' >= 3 /\ file_pages' >= 5
    BY <1>c, <1>n, <1>g, <2>1
  <2> QED BY <1>c, <1>k, <1>z, <2>1, <2>2, <2>3
<1>1. ASSUME CreateFile \/ InitNewDb \/ CrashInInitNewDb
      PROVE  Goal
  <2>1. CASE CreateFile
    <3>1. has_catalog' = has_catalog /\ UNCHANGED callers /\ ~has_catalog
          /\ Offered' \subseteq Offered
      BY <1>c, <1>n, <2>1 DEF CreateFile, header, Offered
    <3> QED BY <1>c, <1>k, <1>u, <3>1 DEF callers
  <2>2. ASSUME is_open, Untouched, free_page_list' = <<>>, tree' = {}, pending' = pending,
               has_catalog', highest_page' = 3, file_pages' = file_pages + 4,
               holders' = [p \in PageIds |-> IF p \in CatalogPages THEN 1 ELSE 0]
        PROVE  Goal
    <3>1. Offered' = {} /\ Reserved' = {1, 2, 3}
      BY <1>t, <2>2, OfferedLists, ReservedAre DEF Offered
    <3>2. pending = 0
      BY <1>t, <2>2 DEF Untouched, Held, TypedInv, TypeOK
    <3>3. {1, 2, 3} \subseteq PageIds
      BY ParametersAssumption DEF PageIds
    <3>4. holders'[0] = 0 /\ CatalogHeld'
      BY <1>h, <2>2, <3>1, <3>3 DEF CatalogHeld, CatalogPages
    <3>5. file_pages' >= 5
      BY <1>c, <1>n, <2>2
    <3> QED BY <2>2, <3>1, <3>2, <3>4, <3>5
  <2>3. CASE InitNewDb
    <3>1. tree' = {} /\ highest_page' = 3 /\ pending' = pending
      BY <2>3 DEF InitNewDb, Untouched, memory, ReservedPages
    <3> QED BY <2>2, <2>3, <3>1 DEF InitNewDb
  <2>4. CASE CrashInInitNewDb
    <3>1. /\ is_open /\ Untouched /\ file_pages' = file_pages + 4
          /\ tree' = {} /\ free_page_list' = <<>> /\ pending' = pending
      BY <2>4 DEF CrashInInitNewDb, Untouched
    <3>2. CASE UNCHANGED <<has_catalog, holders>>
      <4>1. Offered' = {}
        BY <1>t, <3>1, OfferedLists DEF Offered
      <4>2. 1 \in PageIds /\ holders[1] = 0
        BY <1>h, <3>1, ParametersAssumption DEF Untouched, Held, PageIds
      <4>3. ~has_catalog
        BY <1>c, <4>2 DEF CatalogHeld, Reserved, CatalogPages
      <4> QED BY <1>c, <1>k, <1>u, <3>1, <3>2, <4>1, <4>3
    <3>3. CASE ~ UNCHANGED <<has_catalog, holders>>
      <4>1. /\ highest_page' = 3 /\ has_catalog'
            /\ holders' = [p \in PageIds |-> IF p \in CatalogPages THEN 1 ELSE 0]
        BY <2>4, <3>3 DEF CrashInInitNewDb, ReservedPages
      <4> QED BY <2>2, <3>1, <4>1
    <3> QED BY <3>2, <3>3
  <2> HIDE DEF Goal
  <2> QED BY <1>1, <2>1, <2>3, <2>4
<1>2. CASE OpenDb
  BY <1>c, <1>k, <1>u, <1>2 DEF OpenDb, header, callers, Offered
<1>3. CASE CloseDb
  <2>1. Offered' \subseteq Offered
    BY <1>t, <1>3, OfferedLists DEF CloseDb, memory, Offered
  <2> QED BY <1>c, <1>k, <1>u, <1>3, <2>1 DEF CloseDb, callers
<1>4. CASE SyncFreePageList
  <2>1. Offered' \subseteq Offered
    BY <1>t, <1>4, OfferedLists DEF SyncFreePageList, memory, Offered
  <2> QED BY <1>c, <1>k, <1>u, <1>4, <2>1 DEF SyncFreePageList, callers
<1>5. ASSUME NEW p \in PageIds, GetRecycledPage(p)
      PROVE  Goal
  <2>1. p \notin Barred /\ HandOut(p) /\ has_catalog' = has_catalog
    BY <1>c, <1>5 DEF GetRecycledPage, Offered
  <2>2. Offered' \subseteq Offered
    BY <1>t, <1>5, OfferedLists DEF GetRecycledPage, Offered
  <2>3. holders'[0] = 0 /\ pending' \notin Reserved' /\ CatalogHeld'
    BY <1>o, <2>1
  <2> QED BY <1>c, <1>k, <1>5, <2>1, <2>2, <2>3 DEF GetRecycledPage
<1>6. ASSUME NEW p \in PageIds, MarkPageFree(p)
      PROVE  Goal
  <2>1. p \notin Barred /\ has_catalog' = has_catalog
    BY <1>c, <1>6 DEF MarkPageFree, Held, Barred
  <2>2. Offered' \subseteq Offered \cup {p}
    BY <1>t, <1>6, OfferedLists DEF MarkPageFree, Offered
  <2>3. holders'[0] = 0 /\ CatalogHeld'
    BY <1>d, <1>6, <2>1 DEF MarkPageFree
  <2> QED BY <1>c, <1>k, <1>z, <1>6, <2>1, <2>2, <2>3 DEF MarkPageFree
<1>7. CASE GetFreshPage
  <2> DEFINE p == (highest_page + 1) % PAGE_IDS
  <2>1. p \in PageIds /\ p = highest_page + 1 /\ HandOut(p) /\ has_catalog' = has_catalog
    BY <1>7, <1>t, <1>n, FreshNumbers, Widths DEF GetFreshPage, header
  <2>2. p \notin Barred
    BY <1>n, <1>c, <2>1, ReservedAre DEF Barred
  <2>3. holders'[0] = 0 /\ pending' \notin Reserved' /\ CatalogHeld'
    BY <1>o, <2>1, <2>2
  <2> QED BY <1>7, <1>c, <1>k, <2>1, <2>3 DEF GetFreshPage, header, memory, Offered
<1>8. CASE AllocateNewDbPage
  <2>1. /\ is_open /\ file_pages % PAGE_IDS = file_pages /\ has_catalog' = has_catalog
        /\ Offered' = Offered /\ highest_page' = highest_page /\ file_pages' = file_pages + 1
    BY <1>8, <1>t, FreshNumbers DEF AllocateNewDbPage, header, memory, Offered
  <2>2. file_pages \in PageIds /\ file_pages \notin Barred /\ HandOut(file_pages)
    <3>1. file_pages \in PageIds
      BY <1>n, <2>1, Widths
    <3>2. file_pages # 0
      BY <1>c, <1>n, <2>1
    <3>3. file_pages \notin Barred
      BY <1>c, <1>n, <3>2, ReservedAre DEF Barred
    <3> QED BY <1>8, <2>1, <3>1, <3>2, <3>3 DEF AllocateNewDbPage
  <2>3. holders'[0] = 0 /\ pending' \notin Reserved' /\ CatalogHeld'
    BY <1>o, <2>1, <2>2
  <2>4. has_catalog' => highest_page' >= 3 /\ file_pages' >= 5
    BY <1>c, <1>n, <2>1
  <2> QED BY <1>c, <1>k, <2>1, <2>3, <2>4
<1>9. CASE InitDataPage
  <2>1. /\ Offered' \subseteq Offered /\ has_catalog' = has_catalog /\ holders' = holders
        /\ pending' = 0 /\ file_pages' = file_pages /\ highest_page' \in {highest_page, pending}
        /\ highest_page' = (IF pending > highest_page THEN pending ELSE highest_page)
    BY <1>9 DEF InitDataPage, HighestAfter, Offered
  <2>2. has_catalog' => highest_page' >= 3 /\ file_pages' >= 5
    BY <1>c, <1>n, <2>1
  <2> QED BY <1>c, <1>k, <1>u, <1>z, <2>1, <2>2
<1>10. CASE InitIndexPage
  BY <1>c, <1>k, <1>u, <1>z, <1>10 DEF InitIndexPage, header, memory, Offered
<1>11. CASE InitPastEnd
  <2>1. pending # 0 /\ pending \in PageIds /\ pending \notin Barred
    BY <1>t, <1>c, <1>n, <1>11 DEF InitPastEnd, TypeOK, Barred
  <2>2. holders'[0] = 0 /\ CatalogHeld' /\ has_catalog' = has_catalog
    BY <1>d, <1>11, <2>1 DEF InitPastEnd, header
  <2> QED BY <1>c, <1>k, <1>z, <1>11, <2>2 DEF InitPastEnd, header, Offered
<1>12. CASE UseAsItIs
  BY <1>c, <1>k, <1>u, <1>z, <1>12 DEF UseAsItIs, header, memory, Offered
<1>13. CASE Crash
  BY <1>n, <1>g, <1>13 DEF Crash
<1>14. CASE CrashInGrow
  <2>1. is_open /\ Dies /\ free_page_list' = free_page_list /\ file_pages' = file_pages + 1
    BY <1>14 DEF CrashInGrow
  <2>2. file_pages' \in Nat /\ file_pages' >= file_pages
    BY <1>n, <2>1
  <2> QED BY <1>g, <2>1, <2>2
<1>15. CASE CrashInSyncFreePageList
  BY <1>n, <1>t, <1>g, <1>15, OfferedLists DEF CrashInSyncFreePageList
<1>16. ASSUME NEW p \in PageIds, NEW n \in 1 .. FREE_PAGE_LIST_SIZE, CrashInGetFreePage(p, n)
       PROVE  Goal
  <2>1. Entries(free_page_list') \subseteq Entries(free_page_list)
    BY <1>t, <1>16, OfferedLists DEF CrashInGetFreePage
  <2> QED BY <1>n, <1>g, <1>16, <2>1 DEF CrashInGetFreePage
<1>17. CASE UNCHANGED vars
  BY <1>c, <1>k, <1>u, <1>17 DEF vars, header, memory, callers, Offered
<1> HIDE DEF Goal
<1> QED BY <1>1, <1>2, <1>3, <1>4, <1>5, <1>6, <1>7, <1>8, <1>9, <1>10, <1>11, <1>12,
           <1>13, <1>14, <1>15, <1>16, <1>17 DEF Next

\* The header page is never free and never handed out, and neither are the
\* catalog roots once page 0 reserves them: by no allocator, to callers that
\* initialise data or index pages, after crashes at any of the modelled places,
\* those of an unfinished pager_init_new_db among them.
THEOREM CatalogNeverOffered == ASSUME FileFits PROVE Spec => []CatalogSafe
<1>1. CatalogInv => CatalogSafe
  BY DEF CatalogInv
<1>2. CatalogInv /\ [Next]_vars => CatalogInv'
  BY CatalogNext
<1> QED BY <1>1, <1>2, CatalogInit, PTL DEF Spec

----------------------------------------------------------------------------
(* Callers that initialise what they take as data pages, and a process     *)
(* that does not die inside the shift loop.                                *)

DataCallers == FileFits /\ InitKinds \subseteq {"data"} /\ ~CrashInShift

NoRepeats(s) == \A i, j \in DOMAIN s : i # j => s[i] # s[j]

\* A page handed out twice needs a page that is held and on offer, or one that
\* is held and above highest_page: the three safety properties hold together,
\* with an in-memory tree that knows every entry of the list.
SharingInv ==
    /\ CatalogInv
    /\ HeldOnce
    /\ FreeListSafe
    /\ HighestCovers
    /\ NoRepeats(free_page_list)
    /\ is_open => Entries(free_page_list) \subseteq tree
    /\ file_pages = 0 => highest_page = 0 /\ Entries(free_page_list) = {}

\* Without repetitions the shift loop takes its page out of the list.
LEMMA WithoutRemoves ==
    ASSUME NEW s \in Seq(PageIds), NEW p, NoRepeats(s)
    PROVE  NoRepeats(Without(s, p)) /\ p \notin Entries(Without(s, p))
<1>1. CASE p \notin Entries(s)
  BY <1>1 DEF Without
<1>2. CASE p \in Entries(s)
  <2> DEFINE k == CHOOSE i \in DOMAIN s : s[i] = p /\ \A j \in 1 .. i - 1 : s[j] # p
             n == Len(s) - 1
             t == [i \in 1 .. n |-> IF i < k THEN s[i] ELSE s[i + 1]]
  <2>1. n \in Nat /\ DOMAIN s = 1 .. n + 1
    BY <1>2 DEF Entries
  <2>2. Without(s, p) = t
    BY <1>2 DEF Without
  <2>3. PICK m \in DOMAIN s : s[m] = p
    BY <1>2 DEF Entries
  <2>4. \A j \in 1 .. m - 1 : s[j] # p
    BY <2>1, <2>3 DEF NoRepeats
  <2>5. k \in DOMAIN s /\ s[k] = p
    BY <2>3, <2>4
  <2> HIDE DEF k
  <2>6. k \in 1 .. n + 1
    BY <2>1, <2>5
  <2>7. \A i \in 1 .. n : (i < k /\ t[i] = s[i]) \/ (i >= k /\ t[i] = s[i + 1])
    BY <2>6
  <2>8. \A i \in 1 .. n : t[i] # p
    <3> TAKE i \in 1 .. n
    <3>1. i \in DOMAIN s /\ i + 1 \in DOMAIN s
      BY <2>1
    <3>2. (i < k => i # k) /\ (i >= k => i + 1 # k)
      BY <2>6
    <3> QED BY <2>5, <2>7, <3>1, <3>2 DEF NoRepeats
  <2>9. ASSUME NEW i \in 1 .. n, NEW j \in 1 .. n, i # j
        PROVE  t[i] # t[j]
    <3>1. /\ i \in DOMAIN s /\ i + 1 \in DOMAIN s /\ j \in DOMAIN s /\ j + 1 \in DOMAIN s
          /\ i + 1 # j + 1
      BY <2>1, <2>9
    <3>2. (i < k /\ j >= k => i # j + 1) /\ (j < k /\ i >= k => j # i + 1)
      BY <2>6
    <3> QED BY <2>7, <2>9, <3>1, <3>2 DEF NoRepeats
  <2>10. DOMAIN t = 1 .. n
    OBVIOUS
  <2> HIDE DEF t
  <2> QED BY <2>2, <2>8, <2>9, <2>10 DEF NoRepeats, Entries
<1> QED BY <1>1, <1>2

\* An entry more does not repeat, if it was not in the list.
LEMMA ListedRepeatsNone ==
    ASSUME NEW s \in Seq(PageIds), NEW p \in PageIds, NoRepeats(s), p \notin Entries(s)
    PROVE  NoRepeats(Listed(s, p))
<1>1. NoRepeats(Append(s, p))
  BY DEF NoRepeats, Entries
<1> QED BY <1>1 DEF Listed

LEMMA SharingInit == Init => SharingInv
<1> SUFFICES ASSUME Init PROVE SharingInv
  OBVIOUS
<1>1. Offered = {} /\ NoRepeats(free_page_list) /\ Entries(free_page_list) = {}
  BY DEF Init, Offered, Entries, NoRepeats
<1>2. \A p \in PageIds : holders[p] = 0
  BY DEF Init
<1>3. Held = {} /\ HeldOnce
  BY <1>2 DEF Held, HeldOnce
<1>4. FreeListSafe
  BY <1>3 DEF FreeListSafe
<1>5. HighestCovers
  BY <1>1, <1>3 DEF HighestCovers, InUse, Offered, Init
<1> QED BY <1>1, <1>3, <1>4, <1>5, CatalogInit DEF SharingInv, Init

\* The three properties by the pages on offer and the pages held.
Covered == \A p \in InUse \cup Offered : p <= highest_page

LEMMA SharingSplit ==
    /\ FreeListSafe <=> Offered \cap Held = {}
    /\ FreeListSafe' <=> Offered' \cap Held' = {}
    /\ HighestCovers <=> Covered /\ (file_pages > 0 => highest_page < file_pages)
    /\ HighestCovers' <=> Covered' /\ (file_pages' > 0 => highest_page' < file_pages')
BY DEF FreeListSafe, HighestCovers, Covered, Offered

\* A page that nobody holds and that leaves the pages on offer gets its holder.
LEMMA HandedOutOnce ==
    ASSUME SharingInv, NEW p \in PageIds, holders[p] = 0, pending = 0, HandOut(p),
           Offered' \subseteq Offered \ {p}, highest_page' = highest_page
    PROVE  HeldOnce' /\ FreeListSafe' /\ Covered'
<1>1. /\ holders \in [PageIds -> Nat] /\ holders[0] = 0
      /\ \A q \in PageIds : holders[q] <= 1
      /\ Offered \cap Held = {} /\ Covered
  BY SharingSplit, CatalogSplit DEF SharingInv, CatalogInv, TypedInv, TypeOK, HeldOnce
<1>2. /\ holders' = [holders EXCEPT ![p] = @ + 1] /\ pending' = p
  BY DEF HandOut
<1>3. \A q \in PageIds : holders'[q] = IF q = p THEN 1 ELSE holders[q]
  BY <1>1, <1>2
<1>4. HeldOnce'
  BY <1>1, <1>3 DEF HeldOnce
<1>5. Held' = Held \cup {p}
  BY <1>1, <1>3 DEF Held
<1>6. InUse' \subseteq InUse
  BY <1>1, <1>2, <1>5 DEF InUse, Held
<1> QED BY <1>1, <1>4, <1>5, <1>6, SharingSplit DEF Covered

\* The process dies, or a page past the end is written: the pending page is
\* nobody's, and no page more is on offer.
LEMMA PendingDropped ==
    ASSUME SharingInv, pending # 0, holders' = [holders EXCEPT ![pending] = @ - 1],
           pending' = 0, Offered' \subseteq Offered, highest_page' = highest_page
    PROVE  HeldOnce' /\ FreeListSafe' /\ Covered'
<1>1. /\ holders \in [PageIds -> Nat] /\ holders[0] = 0 /\ pending \in PageIds
      /\ \A q \in PageIds : holders[q] <= 1
      /\ holders[pending] > 0
      /\ Offered \cap Held = {} /\ Covered
  BY SharingSplit, CatalogSplit DEF SharingInv, CatalogInv, TypedInv, TypeOK, HeldOnce
<1>2. \A q \in PageIds : holders'[q] = IF q = pending THEN 0 ELSE holders[q]
  BY <1>1
<1>3. Held' = InUse
  BY <1>1, <1>2 DEF Held, InUse
<1>4. HeldOnce'
  BY <1>1, <1>2 DEF HeldOnce
<1> QED BY <1>1, <1>3, <1>4, SharingSplit DEF Covered, InUse

\* The same where nothing was pending, or where the callers do not change.
LEMMA CallersKept ==
    ASSUME SharingInv, holders' = holders, pending' = pending \/ pending = 0,
           pending' = pending \/ pending' = 0,
           Offered' \subseteq Offered, highest_page' = highest_page
    PROVE  HeldOnce' /\ FreeListSafe' /\ Covered'
<1>1. Offered \cap Held = {} /\ Covered /\ HeldOnce
  BY SharingSplit DEF SharingInv
<1>2. Held' = Held /\ InUse' = InUse
  BY DEF Held, InUse
<1> QED BY <1>1, <1>2, SharingSplit DEF Covered, HeldOnce

LEMMA SharingNext == DataCallers /\ SharingInv /\ [Next]_vars => SharingInv'
<1> SUFFICES ASSUME DataCallers, SharingInv, [Next]_vars PROVE SharingInv'
  BY DEF DataCallers, FileFits
<1>t. /\ FileFits /\ CatalogInv /\ CatalogInv' /\ TypeOK /\ TypedInv
      /\ free_page_list \in Seq(PageIds)
  BY CatalogNext DEF SharingInv, CatalogInv, TypedInv, TypeOK, DataCallers
<1> DEFINE Rest == /\ file_pages' > 0 => highest_page' < file_pages'
                   /\ NoRepeats(free_page_list')
                   /\ is_open' => Entries(free_page_list') \subseteq tree'
                   /\ file_pages' = 0 => highest_page' = 0 /\ Entries(free_page_list') = {}
           Goal == HeldOnce' /\ FreeListSafe' /\ Covered' /\ Rest
<1>s. SUFFICES Goal
  BY <1>t, SharingSplit DEF SharingInv
<1>n. highest_page \in Nat /\ pending \in Nat /\ file_pages \in Nat
  BY <1>t, TypedNumbers
<1>c. /\ Offered \cap Held = {} /\ Covered /\ HeldOnce
      /\ file_pages > 0 => highest_page < file_pages
      /\ NoRepeats(free_page_list)
      /\ is_open => Entries(free_page_list) \subseteq tree
      /\ is_open => file_pages > 0
      /\ ~is_open => pending = 0
      /\ file_pages = 0 => highest_page = 0 /\ Entries(free_page_list) = {}
  BY <1>t, <1>n, SharingSplit DEF SharingInv, TypedInv
<1>h. holders \in [PageIds -> Nat] /\ PageIds \subseteq Nat /\ 0 \in PageIds /\ holders[0] = 0
  BY <1>t, Beginnings, CatalogSplit DEF TypeOK, CatalogInv
<1>e. NoRepeats(<<>>) /\ Entries(<<>>) = {}
  BY DEF NoRepeats, Entries
<1>l. ASSUME NEW s \in Collected(tree)
      PROVE  NoRepeats(s) /\ Entries(s) \subseteq tree
  BY <1>t, CollectedList DEF TypeOK, NoRepeats
<1>g. ASSUME Dies, Entries(free_page_list') \subseteq Entries(free_page_list)
      PROVE  HeldOnce' /\ FreeListSafe' /\ Covered' /\ highest_page' = highest_page
  <2>1. Offered' \subseteq Offered /\ highest_page' = highest_page
    BY <1>g DEF Dies, ProcessGone, Offered
  <2> QED BY <1>g, <2>1, PendingDropped, CallersKept DEF Dies, ProcessGone
<1>1. ASSUME CreateFile \/ InitNewDb \/ CrashInInitNewDb
      PROVE  Goal
  <2>1. CASE CreateFile
    <3>1. ~is_open /\ pending = 0 /\ UNCHANGED callers
      BY <1>n, <1>c, <2>1 DEF CreateFile
    <3>2. Offered' \subseteq Offered /\ highest_page' = highest_page
      BY <2>1 DEF CreateFile, header, Offered
    <3>3. HeldOnce' /\ FreeListSafe' /\ Covered'
      BY <3>1, <3>2, CallersKept DEF callers
    <3>4. highest_page = 0 /\ Entries(free_page_list) = {}
      BY <1>t, <2>1 DEF CreateFile, SharingInv
    <3> QED BY <1>c, <2>1, <3>3, <3>4 DEF CreateFile, header
  <2>2. ASSUME is_open, Untouched, free_page_list' = <<>>, tree' = {}, pending' = pending,
               highest_page' >= 0, highest_page' \in Nat,
               file_pages' > highest_page',
               \/ holders' = holders
               \/ /\ holders' = [p \in PageIds |-> IF p \in CatalogPages THEN 1 ELSE 0]
                  /\ highest_page' >= 3
        PROVE  Goal
    <3>1. Held = {} /\ \A p \in PageIds : holders[p] = 0
      BY <1>h, <2>2 DEF Untouched, Held
    <3>2. \A p \in PageIds : holders'[p] \in {0, 1} /\ (holders'[p] = 1 => p <= highest_page')
      <4>1. CASE holders' = holders
        BY <1>h, <3>1, <4>1
      <4>2. CASE /\ holders' = [p \in PageIds |-> IF p \in CatalogPages THEN 1 ELSE 0]
                 /\ highest_page' >= 3
        BY <2>2, <4>2 DEF CatalogPages
      <4> QED BY <2>2, <4>1, <4>2
    <3>3. HeldOnce' /\ \A p \in Held' : p <= highest_page'
      BY <3>2 DEF HeldOnce, Held
    <3>4. Offered' = {}
      BY <1>e, <2>2 DEF Offered
    <3>5. Covered' /\ FreeListSafe'
      BY <3>3, <3>4, SharingSplit DEF Covered, InUse
    <3> QED BY <1>e, <2>2, <3>3, <3>5
  <2>3. CASE InitNewDb
    <3>1. tree' = {} /\ highest_page' = 3 /\ file_pages' = file_pages + 4 /\ is_open
      BY <2>3 DEF InitNewDb, Untouched, memory, ReservedPages
    <3>2. file_pages' > 3
      BY <1>n, <1>c, <3>1
    <3> QED BY <2>2, <2>3, <3>1, <3>2 DEF InitNewDb
  <2>4. CASE CrashInInitNewDb
    <3>1. /\ file_pages' = file_pages + 4 /\ tree' = {} /\ free_page_list' = <<>>
          /\ is_open /\ Untouched /\ pending' = pending
          /\ \/ highest_page' \in {highest_page, 0} /\ holders' = holders
             \/ /\ holders' = [p \in PageIds |-> IF p \in CatalogPages THEN 1 ELSE 0]
                /\ highest_page' = 3
      BY <2>4 DEF CrashInInitNewDb, Untouched, ReservedPages
    <3>2. highest_page' \in Nat /\ file_pages' > highest_page'
      BY <1>n, <1>c, <3>1
    <3> QED BY <2>2, <3>1, <3>2
  <2> HIDE DEF Goal
  <2> QED BY <1>1, <2>1, <2>3, <2>4
<1>2. CASE OpenDb
  <2>1. Offered' \subseteq Offered /\ highest_page' = highest_page /\ UNCHANGED callers
    BY <1>2 DEF OpenDb, header, Offered
  <2>2. HeldOnce' /\ FreeListSafe' /\ Covered'
    BY <2>1, CallersKept DEF callers
  <2>3. 0 \notin Entries(free_page_list)
    BY <1>t, CatalogSplit DEF CatalogInv, Offered, Barred
  <2>4. Rest
    BY <1>2, <1>c, <2>3 DEF OpenDb, header
  <2> QED BY <2>2, <2>4
<1>3. CASE CloseDb
  <2>1. NoRepeats(free_page_list') /\ Entries(free_page_list') \subseteq tree
    BY <1>3, <1>l DEF CloseDb
  <2>2. Offered' \subseteq Offered /\ highest_page' = highest_page /\ UNCHANGED callers
    BY <1>3, <2>1 DEF CloseDb, memory, Offered
  <2>3. HeldOnce' /\ FreeListSafe' /\ Covered'
    BY <2>2, CallersKept DEF callers
  <2>4. file_pages' = file_pages /\ file_pages # 0
    BY <1>3, <1>c, <1>n DEF CloseDb
  <2>5. is_open' => tree' = tree
    BY <1>3 DEF CloseDb, memory
  <2>6. Rest
    BY <1>c, <2>1, <2>2, <2>4, <2>5
  <2> QED BY <2>3, <2>6
<1>4. CASE SyncFreePageList
  <2>1. NoRepeats(free_page_list') /\ Entries(free_page_list') \subseteq tree
    BY <1>4, <1>l DEF SyncFreePageList
  <2>2. Offered' \subseteq Offered /\ highest_page' = highest_page /\ UNCHANGED callers
    BY <1>4, <2>1 DEF SyncFreePageList, memory, Offered
  <2>3. HeldOnce' /\ FreeListSafe' /\ Covered'
    BY <2>2, CallersKept DEF callers
  <2>4. Rest
    BY <1>4, <1>c, <2>1 DEF SyncFreePageList, memory
  <2> QED BY <2>3, <2>4
<1>5. ASSUME NEW p \in PageIds, GetRecycledPage(p)
      PROVE  Goal
  <2>1. p \in Offered /\ HandOut(p) /\ pending = 0
    BY <1>5 DEF GetRecycledPage, Offered
  <2>2. holders[p] = 0
    BY <1>c, <1>h, <2>1 DEF Held
  <2>3. free_page_list' = Without(free_page_list, p) /\ tree' = tree \ {p}
    BY <1>5 DEF GetRecycledPage
  <2>4. /\ NoRepeats(free_page_list') /\ p \notin Entries(free_page_list')
        /\ Entries(free_page_list') \subseteq Entries(free_page_list)
    BY <1>t, <1>c, <2>3, WithoutRemoves, OfferedLists
  <2>5. Offered' \subseteq Offered \ {p} /\ highest_page' = highest_page
    BY <1>5, <2>3, <2>4 DEF GetRecycledPage, Offered
  <2>6. HeldOnce' /\ FreeListSafe' /\ Covered'
    BY <2>1, <2>2, <2>5, HandedOutOnce
  <2>7. Rest
    BY <1>5, <1>c, <2>3, <2>4 DEF GetRecycledPage
  <2> QED BY <2>6, <2>7
<1>6. ASSUME NEW p \in PageIds, MarkPageFree(p)
      PROVE  Goal
  <2>1. p \in Held /\ pending = 0 /\ pending' = 0 /\ highest_page' = highest_page
    BY <1>6 DEF MarkPageFree
  <2>2. p \in InUse /\ p \notin Offered
    BY <1>h, <1>c, <2>1 DEF InUse, Held
  <2>3. \A q \in PageIds : holders'[q] = IF q = p THEN 0 ELSE holders[q]
    <3>1. holders[p] = 1 /\ holders' = [holders EXCEPT ![p] = @ - 1]
      BY <1>6, <1>h, <1>c, <2>1 DEF Held, HeldOnce, MarkPageFree
    <3> QED BY <1>h, <3>1
  <2>4. Held' = Held \ {p} /\ HeldOnce'
    <3>1. Held' = Held \ {p}
      BY <2>3 DEF Held
    <3>2. \A q \in PageIds : holders'[q] <= 1
      BY <1>c, <2>3 DEF HeldOnce
    <3> QED BY <3>1, <3>2 DEF HeldOnce
  <2>5. free_page_list' = Listed(free_page_list, p) /\ tree' = tree \cup {p}
    BY <1>6 DEF MarkPageFree
  <2>6. Entries(free_page_list') \subseteq Entries(free_page_list) \cup {p}
    BY <1>t, <2>5, OfferedLists
  <2>7. Offered' \subseteq Offered \cup {p}
    BY <2>5, <2>6 DEF Offered
  <2>8. FreeListSafe'
    BY <1>c, <2>4, <2>7, SharingSplit
  <2>9. Covered'
    BY <1>c, <2>1, <2>2, <2>4, <2>7 DEF Covered, InUse
  <2>10. NoRepeats(free_page_list')
    BY <1>t, <1>c, <2>2, <2>5, ListedRepeatsNone DEF Offered
  <2>11. Rest
    BY <1>6, <1>c, <2>5, <2>6, <2>10 DEF MarkPageFree
  <2> QED BY <2>4, <2>8, <2>9, <2>11
<1>7. CASE GetFreshPage
  <2>1. (highest_page + 1) % PAGE_IDS = highest_page + 1 /\ highest_page + 1 \in PageIds
    <3>1. (highest_page + 1) % PAGE_IDS \in PageIds
      BY <1>n, Widths
    <3> QED BY <1>7, <1>t, <3>1, FreshNumbers DEF GetFreshPage
  <2>2. HandOut(highest_page + 1) /\ pending = 0
    BY <1>7, <2>1 DEF GetFreshPage
  <2>3. highest_page + 1 \notin InUse \cup Offered
    BY <1>n, <1>c DEF Covered
  <2>4. holders[highest_page + 1] = 0
    BY <1>h, <1>n, <2>1, <2>2, <2>3 DEF InUse, Held
  <2>5. Offered' \subseteq Offered \ {highest_page + 1} /\ highest_page' = highest_page
    BY <1>7, <2>3 DEF GetFreshPage, header, memory, Offered
  <2>6. HeldOnce' /\ FreeListSafe' /\ Covered'
    BY <2>1, <2>2, <2>4, <2>5, HandedOutOnce
  <2>7. Rest
    BY <1>7, <1>c DEF GetFreshPage, header, memory
  <2> QED BY <2>6, <2>7
<1>8. CASE AllocateNewDbPage
  <2>1. file_pages % PAGE_IDS = file_pages /\ file_pages \in PageIds /\ file_pages > 0
    <3>1. file_pages % PAGE_IDS = file_pages
      BY <1>8, <1>t, FreshNumbers DEF AllocateNewDbPage
    <3>2. file_pages > 0
      BY <1>8, <1>c DEF AllocateNewDbPage
    <3> QED BY <1>n, <3>1, <3>2, Widths
  <2>2. HandOut(file_pages) /\ pending = 0
    BY <1>8, <1>n, <2>1 DEF AllocateNewDbPage
  <2>3. file_pages \notin InUse \cup Offered
    BY <1>n, <1>c, <2>1 DEF Covered
  <2>4. holders[file_pages] = 0
    BY <1>h, <1>n, <2>1, <2>2, <2>3 DEF InUse, Held
  <2>5. Offered' \subseteq Offered \ {file_pages} /\ highest_page' = highest_page
    BY <1>8, <2>3 DEF AllocateNewDbPage, header, memory, Offered
  <2>6. HeldOnce' /\ FreeListSafe' /\ Covered'
    BY <2>1, <2>2, <2>4, <2>5, HandedOutOnce
  <2>7. Rest
    BY <1>8, <1>n, <1>c, <2>1 DEF AllocateNewDbPage, header, memory
  <2> QED BY <2>6, <2>7
<1>9. CASE InitDataPage
  <2>1. /\ highest_page' = IF pending > highest_page THEN pending ELSE highest_page
        /\ pending < file_pages /\ file_pages' = file_pages /\ pending' = 0
        /\ holders' = holders /\ free_page_list' = free_page_list
        /\ tree' = tree \ {pending}
    BY <1>9 DEF InitDataPage, HighestAfter
  <2>2. Offered' \subseteq Offered /\ Held' = Held /\ InUse' \subseteq InUse \cup {pending}
    BY <2>1 DEF Offered, Held, InUse
  <2>3. HeldOnce' /\ FreeListSafe'
    BY <1>c, <2>1, <2>2, SharingSplit DEF HeldOnce
  <2>4. pending <= highest_page' /\ highest_page <= highest_page' /\ highest_page' \in Nat
    BY <1>n, <2>1
  <2>5. InUse \cup Offered \subseteq Nat
    <3>1. \A i \in DOMAIN free_page_list : free_page_list[i] \in PageIds
      BY <1>t
    <3>2. tree \subseteq PageIds
      BY <1>t DEF TypeOK
    <3> QED BY <1>h, <3>1, <3>2 DEF InUse, Held, Offered, Entries
  <2>6. Covered'
    BY <1>n, <1>c, <2>2, <2>4, <2>5 DEF Covered
  <2>7. pending \notin Offered
    <3>1. pending \in Held
      BY <1>9, <1>t DEF InitDataPage, TypedInv, TypeOK, Held
    <3> QED BY <1>c, <3>1
  <2>8. Rest
    BY <1>9, <1>n, <1>c, <2>1, <2>7 DEF InitDataPage, Offered
  <2> QED BY <2>3, <2>6, <2>8
<1>10. CASE InitIndexPage
  BY <1>10 DEF InitIndexPage, DataCallers
<1>11. CASE InitPastEnd
  <2>1. pending # 0 /\ highest_page' = highest_page
    BY <1>c, <1>n, <1>11 DEF InitPastEnd, header
  <2>2. Offered' \subseteq Offered
    BY <1>11 DEF InitPastEnd, header, Offered
  <2>3. HeldOnce' /\ FreeListSafe' /\ Covered'
    BY <1>11, <2>1, <2>2, PendingDropped DEF InitPastEnd
  <2>4. Rest
    BY <1>c, <1>11 DEF InitPastEnd, header
  <2> QED BY <2>3, <2>4
<1>12. CASE UseAsItIs
  <2>1. Held' = Held /\ InUse' \subseteq InUse \cup {pending} /\ Offered' = Offered
        /\ pending <= highest_page /\ highest_page' = highest_page
    BY <1>12 DEF UseAsItIs, header, memory, Held, InUse, Offered
  <2>2. HeldOnce' /\ FreeListSafe' /\ Covered'
    BY <1>c, <1>12, <2>1, SharingSplit DEF HeldOnce, Covered, UseAsItIs
  <2>3. Rest
    BY <1>c, <1>12 DEF UseAsItIs, header, memory
  <2> QED BY <2>2, <2>3
<1>13. CASE Crash
  BY <1>c, <1>n, <1>g, <1>13 DEF Crash, Dies, ProcessGone
<1>14. CASE CrashInGrow
  <2>1. is_open /\ file_pages' = file_pages + 1 /\ Dies /\ free_page_list' = free_page_list
    BY <1>14 DEF CrashInGrow
  <2>2. HeldOnce' /\ FreeListSafe' /\ Covered' /\ highest_page' = highest_page
    BY <1>g, <2>1
  <2>3. highest_page' < file_pages' /\ file_pages' # 0
    BY <1>c, <1>n, <2>1, <2>2
  <2> QED BY <1>c, <2>1, <2>2, <2>3 DEF Dies, ProcessGone
<1>15. CASE CrashInSyncFreePageList
  BY <1>c, <1>e, <1>n, <1>g, <1>15 DEF CrashInSyncFreePageList, Dies, ProcessGone
<1>16. ASSUME NEW p \in PageIds, NEW n \in 1 .. FREE_PAGE_LIST_SIZE, CrashInGetFreePage(p, n)
       PROVE  Goal
  BY <1>16 DEF CrashInGetFreePage, DataCallers
<1>17. CASE UNCHANGED vars
  <2>1. Offered' = Offered /\ UNCHANGED callers /\ highest_page' = highest_page
    BY <1>17 DEF vars, header, memory, Offered
  <2>2. HeldOnce' /\ FreeListSafe' /\ Covered'
    BY <2>1, CallersKept DEF callers
  <2>3. Rest
    BY <1>c, <1>17 DEF vars, header, memory
  <2> QED BY <2>2, <2>3
<1> HIDE DEF Goal
<1> QED BY <1>1, <1>2, <1>3, <1>4, <1>5, <1>6, <1>7, <1>8, <1>9, <1>10, <1>11, <1>12,
           <1>13, <1>14, <1>15, <1>16, <1>17 DEF Next

LEMMA SharingAlways == ASSUME DataCallers PROVE Spec => []SharingInv
<1>1. SharingInv /\ [Next]_vars => SharingInv'
  BY SharingNext
<1> QED BY <1>1, SharingInit, PTL DEF Spec

\* No page is handed out to two callers, by whichever allocator, before or
\* after crashes: for callers that initialise data pages.
THEOREM PagesHeldOnce == ASSUME DataCallers PROVE Spec => []HeldOnce
<1>1. SharingInv => HeldOnce
  BY DEF SharingInv
<1> QED BY <1>1, SharingAlways, PTL

\* No page in use is in the tree or in the header's list.
THEOREM FreePagesUnused == ASSUME DataCallers PROVE Spec => []FreeListSafe
<1>1. SharingInv => FreeListSafe
  BY DEF SharingInv
<1> QED BY <1>1, SharingAlways, PTL

\* highest_page bounds the pages that are or were in use and stays in the file.
THEOREM HighestBounds == ASSUME DataCallers PROVE Spec => []HighestCovers
<1>1. SharingInv => HighestCovers
  BY DEF SharingInv
<1> QED BY <1>1, SharingAlways, PTL

=============================================================================
