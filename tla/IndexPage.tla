----------------------------- MODULE IndexPage -----------------------------
(***************************************************************************)
(* src/pager/db/index/index_page.c, the slots of one index page: a page as *)
(* a record and the four slot functions as operators on it.  The directory *)
(* lists, in insertion order, the id and the key of each slot; a slot's    *)
(* payload travels with its key and is left out.  Sizes are byte counts,   *)
(* as in the code, and constants so that a page can be made small.         *)
(***************************************************************************)
EXTENDS Integers, Sequences, FiniteSets, SequencesExt

CONSTANTS
    MAX_USABLE_PAGE_SIZE,  \* 4032
    HEADER_SIZE,           \* sizeof(DBPageHeader): 34
    SLOT_ENTRY_SIZE,       \* sizeof(SlotEntry): 24
    KEY_SIZE,              \* MAX_DATA_PER_INDEX_SLOT: 16
    INDEX_SLOT_DATA_SIZE,  \* the key and 7 bytes of pointers: 23
    FREE_SLOT_LIST_SIZE,   \* 16
    Pages,                 \* the pages of the file
    NoPage,                \* page number 0
    Keys,                  \* the keys callers use
    AnyKey                 \* the keys memory that nobody wrote may hold

ASSUME SizesAreSizes ==
    /\ MAX_USABLE_PAGE_SIZE \in Nat /\ HEADER_SIZE \in Nat
    /\ SLOT_ENTRY_SIZE \in Nat      /\ KEY_SIZE \in Nat
    /\ INDEX_SLOT_DATA_SIZE \in Nat \ {0}
    /\ KEY_SIZE <= INDEX_SLOT_DATA_SIZE
    /\ HEADER_SIZE <= MAX_USABLE_PAGE_SIZE
    /\ FREE_SLOT_LIST_SIZE \in Nat

\* A page can never be written so often that an 8-bit slot id wraps, and a page
\* below the threshold has room for a slot.
ASSUME PageIsShort ==
    MAX_USABLE_PAGE_SIZE - HEADER_SIZE < 255 * INDEX_SLOT_DATA_SIZE
ASSUME SlotHasRoom ==
    5 * (INDEX_SLOT_DATA_SIZE + SLOT_ENTRY_SIZE) <= MAX_USABLE_PAGE_SIZE

\* An IndexSlotData is a caller's, the zeroes of "= {0}" or never written.
ASSUME KeysAreNumbers == Keys \subseteq Nat \ {0} /\ Keys \cup {0} \subseteq AnyKey /\ AnyKey \subseteq Nat
ASSUME NoPageIsNoPage == NoPage \notin Pages

SlotIds == 0 .. 255                                              \* uint8_t

\* "torn" is no flag of the code and stops none of it: on a torn page a write
\* has laid the directory and the data over each other, or the free list has
\* run into the fields behind it.  Bound: no call is followed on a torn page.
Kinds == {"unused", "leaf", "internal", "torn"}

PageRecords ==
    [kind    : Kinds,
     slots   : Seq([id : SlotIds, key : AnyKey]),   \* SlotEntry[total_slots]
     free    : Seq(SlotIds),                        \* free_slot_list
     highest : SlotIds,
     used    : Int,                                 \* USED_SPACE
     end     : Int,                                 \* free_end
     sibling : Pages \cup {NoPage}]

EmptyPage(kind) ==
    [kind |-> kind, slots |-> <<>>, free |-> <<>>, highest |-> 0,
     used |-> HEADER_SIZE, end |-> MAX_USABLE_PAGE_SIZE, sibling |-> NoPage]

Total(pg)        == Len(pg.slots)
Ids(pg)          == {e.id : e \in Range(pg.slots)}
Rows(pg)         == {<<e.id, e.key>> : e \in Range(pg.slots)}
IdAt(pg, i)      == pg.slots[i].id
FreeTotal(pg)    == MAX_USABLE_PAGE_SIZE - pg.used

\* INDEX_FULL_OCCUPANCY is 0.8: the two sides of the comparison of an integer
\* with MAX_USABLE_PAGE_SIZE * 0.8, times five.
ReachesFull(pg)  == 5 * pg.used >= 4 * MAX_USABLE_PAGE_SIZE
ExceedsFull(pg)  == 5 * pg.used > 4 * MAX_USABLE_PAGE_SIZE

\* The slots a read by id gives: only those with an id below total_slots.
Readable(pg, id) == id < Total(pg) /\ id \in Ids(pg)

\* The keys read_index_slot may leave in the caller's record.  An id it does
\* not find leaves the record as it was, and no caller but one cleared it.
ReadSlot_MarksMissing(pg, id) ==
    IF Readable(pg, id)
    THEN {pg.slots[i].key : i \in {j \in DOMAIN pg.slots : IdAt(pg, j) = id}}
    ELSE {-1}
ReadSlot(pg, id) ==
    IF Readable(pg, id)
    THEN {pg.slots[i].key : i \in {j \in DOMAIN pg.slots : IdAt(pg, j) = id}}
    ELSE AnyKey

\* No id is twice in a page's directory, twice in its free list or in both,
\* and each has been handed out.
IdsDistinct(pg) ==
    /\ \A i, j \in DOMAIN pg.slots : i # j => IdAt(pg, i) # IdAt(pg, j)
    /\ \A i, j \in DOMAIN pg.free : i # j => pg.free[i] # pg.free[j]
    /\ \A i \in DOMAIN pg.slots, j \in DOMAIN pg.free : IdAt(pg, i) # pg.free[j]
    /\ \A i \in DOMAIN pg.slots : IdAt(pg, i) \in 1 .. pg.highest
    /\ \A j \in DOMAIN pg.free : pg.free[j] \in 1 .. pg.highest

\* What the header counts after n writes: the data area has given each of them
\* its own bytes, and USED_SPACE counts what a free gives back once for every
\* slot in the directory and the rest of a slot once for every write.
Accounted(pg) ==
    \E n \in 0 .. 255 :
        /\ pg.end = MAX_USABLE_PAGE_SIZE - INDEX_SLOT_DATA_SIZE * n
        /\ pg.highest <= n /\ Total(pg) <= n
        /\ HEADER_SIZE + (KEY_SIZE + SLOT_ENTRY_SIZE) * Total(pg)
               + (INDEX_SLOT_DATA_SIZE - KEY_SIZE) * n <= pg.used
        /\ pg.used <= MAX_USABLE_PAGE_SIZE

----------------------------------------------------------------------------
NoSlot == 0

\* The id find_empty_index_slot returns and the page it leaves.
SlotFromList_NotPopped(pg) == [id |-> Last(pg.free), page |-> pg]
SlotFromList(pg) == [id |-> Last(pg.free), page |-> [pg EXCEPT !.free = Front(@)]]
SlotAbove(pg) ==
    LET id == (pg.highest + 1) % 256
    IN  [id |-> id, page |-> [pg EXCEPT !.highest = id]]

FindEmptySlot(pg) ==
    IF pg.free # <<>> THEN SlotFromList(pg)
    ELSE IF ~ReachesFull(pg) /\ FreeTotal(pg) >= INDEX_SLOT_DATA_SIZE + SLOT_ENTRY_SIZE
         THEN SlotAbove(pg)
         ELSE [id |-> NoSlot, page |-> pg]

\* The positions the search for the insertion point may end at: it reads the
\* slots by their ids and passes those whose key is not above k.
InsertPositions(pg, k) ==
    {p \in 1 .. Total(pg) + 1 :
        /\ \A i \in 1 .. p - 1 : \E key \in ReadSlot(pg, IdAt(pg, i)) : key <= k
        /\ p <= Total(pg) => \E key \in ReadSlot(pg, IdAt(pg, p)) : k < key}

\* The directory with one entry more reaches into the data with one row more.
DirectoryMeetsData(pg) ==
    HEADER_SIZE + SLOT_ENTRY_SIZE * (Total(pg) + 1) > pg.end - INDEX_SLOT_DATA_SIZE

PutSlot_EntryNotDebited(pg, id, p, k) ==
    [pg EXCEPT !.slots = InsertAt(@, p, [id |-> id, key |-> k]),
               !.used  = @ + INDEX_SLOT_DATA_SIZE,
               !.end   = @ - INDEX_SLOT_DATA_SIZE]
PutSlot(pg, id, p, k) ==
    [pg EXCEPT !.slots = InsertAt(@, p, [id |-> id, key |-> k]),
               !.used  = @ + INDEX_SLOT_DATA_SIZE + SLOT_ENTRY_SIZE,
               !.end   = @ - INDEX_SLOT_DATA_SIZE]

TornIf(bad, pg) == IF bad THEN [pg EXCEPT !.kind = "torn"] ELSE pg

\* The pages write_index_slot may leave: it asks find_empty_index_slot for
\* room and never looks whether the directory meets the data.
WriteSlot(pg, k) ==
    LET found == FindEmptySlot(pg)
    IN  IF ReachesFull(pg) THEN {pg}
        ELSE IF found.id = NoSlot THEN {found.page}
        ELSE {TornIf(DirectoryMeetsData(pg), PutSlot(found.page, found.id, p, k)) :
                  p \in InsertPositions(found.page, k)}

Freed_NextEntryDropped(pg, id) ==
    LET i == CHOOSE j \in DOMAIN pg.slots : IdAt(pg, j) = id
    IN  [pg EXCEPT !.slots = RemoveAt(@, i + 1),
                   !.free  = Append(@, id),
                   !.used  = @ - (KEY_SIZE + SLOT_ENTRY_SIZE)]
Freed(pg, id) ==
    LET i == CHOOSE j \in DOMAIN pg.slots : IdAt(pg, j) = id
    IN  [pg EXCEPT !.slots = RemoveAt(@, i),
                   !.free  = Append(@, id),
                   !.used  = @ - (KEY_SIZE + SLOT_ENTRY_SIZE)]

\* The list is full, and so is the byte of padding behind it.
FreeListOverruns(pg) == Len(pg.free) > FREE_SLOT_LIST_SIZE

\* The pages free_index_slot may leave: an id it cannot read is left alone, and
\* one that no longer fits the list is stored into right_sibling_page_id.
FreeSlot(pg, id) ==
    IF ~Readable(pg, id) THEN {pg}
    ELSE IF ~FreeListOverruns(pg) THEN {Freed(pg, id)}
    ELSE {[Freed(pg, id) EXCEPT !.kind = "torn", !.sibling = s] : s \in Pages}
=============================================================================
