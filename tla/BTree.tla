------------------------------- MODULE BTree -------------------------------
(***************************************************************************)
(* src/pager/db/index/index_page.c, the tree of one table: creation,       *)
(* insertion with the split of a leaf, search, deletion and the iterator.  *)
(* Callers pass the page btree_init gave them as the root of every call;   *)
(* no call tells them of another one, so that page is always a leaf, and   *)
(* the branches that descend through internal pages or rebalance below a   *)
(* parent are never taken.  Pages come from get_free_page: one that was    *)
(* freed, or highest_page + 1.  Nothing here marks a page used, so the one *)
(* answered as highest_page + 1 is answered again (pager.c:195), be it the *)
(* very leaf that splits.  Bounds: nobody else raises highest_page, and    *)
(* when the callers' own page becomes an internal one in this way, no call *)
(* on the tree is followed any more.                                       *)
(***************************************************************************)
EXTENDS IndexPage

CONSTANT Asked    \* the keys callers look for, as the stored keys they match

\* Only key_size bytes of a key looked for are compared: it matches every
\* stored key that begins with them, from the first such key to the last.
ASSUME AskedAreSpans ==
    Asked \subseteq {a \in [first : Nat, last : Nat] : a.first <= a.last}

VARIABLES
    pages,    \* the index pages of the file
    fallback, \* the one get_free_page answers as highest_page + 1, once it has
    reused,   \* whether get_free_page has answered a page in use
    root,     \* the page the table's callers use, NoPage before btree_init
    split,    \* the loop of btree_split_leaf, while it runs
    cursor,   \* the iterator
    answer    \* what the last search found, while the slot is the caller's

vars == <<pages, fallback, reused, root, split, cursor, answer>>

NoSplit  == [i |-> 0, count |-> 0, leaf |-> NoPage, new |-> NoPage]
NoKey    == [first |-> -1, last |-> -1]
NoAnswer == [key |-> NoKey, slot |-> NoSlot]
NoCursor == [page |-> NoPage, slot |-> 0, whole |-> FALSE, seen |-> {}]

Unused == {p \in Pages : pages[p].kind = "unused"}
Idle   == split = NoSplit
Intact == Idle /\ root # NoPage /\ pages[root].kind = "leaf"

\* The leaves of the table: those the right siblings lead to from the callers'.
Leaves ==
    {p \in Pages : \A S \in SUBSET Pages :
        root \in S /\ (\A q \in S : pages[q].sibling # NoPage => pages[q].sibling \in S)
            => p \in S}

\* Bound: the caller has a search's answer or an iterator, never both.
\* A write ends the scan an iterator could promise anything about.
ScanDisturbed == cursor' = [cursor EXCEPT !.whole = FALSE, !.seen = {}]

\* get_free_page answers p.
GetFreePage(p) ==
    /\ p \in Unused \cup {fallback}
    /\ fallback' \in {fallback} \cup (IF fallback = NoPage THEN {p} ELSE {})
    /\ reused' = (reused \/ p \notin Unused)

----------------------------------------------------------------------------
Init ==
    /\ pages = [p \in Pages |-> EmptyPage("unused")]
    /\ fallback = NoPage
    /\ reused = FALSE
    /\ root = NoPage
    /\ split = NoSplit
    /\ cursor = NoCursor
    /\ answer = NoAnswer

\* btree_init; when the catalog refuses the table the page is given back.
BtreeInit ==
    /\ root = NoPage
    /\ \E p \in Pages :
          /\ GetFreePage(p)
          /\ \/ pages' = [pages EXCEPT ![p] = EmptyPage("leaf")] /\ root' = p
             \/ pages' = [pages EXCEPT ![p] = EmptyPage("unused")] /\ UNCHANGED root
    /\ UNCHANGED <<split, cursor, answer>>

----------------------------------------------------------------------------
\* btree_split_leaf up to its loop: the new leaf is cleared, which may clear
\* the full one, then comes behind it; only now are the slots counted.
StartSplit_SiblingSetFirst(leaf, pg, new) ==
    LET cleared == [pages EXCEPT ![leaf] = pg, ![new] = EmptyPage("leaf")]
        linked  == [cleared EXCEPT ![leaf].sibling = new]
        count   == Total(cleared[leaf])
    IN  /\ pages' = [linked EXCEPT ![new].sibling = linked[leaf].sibling]
        /\ split' = [i |-> count \div 2, count |-> count, leaf |-> leaf, new |-> new]

StartSplit(leaf, pg, new) ==
    LET cleared == [pages EXCEPT ![leaf] = pg, ![new] = EmptyPage("leaf")]
        linked  == [cleared EXCEPT ![new].sibling = cleared[leaf].sibling]
        count   == Total(cleared[leaf])
    IN  /\ pages' = [linked EXCEPT ![leaf].sibling = new]
        /\ split' = [i |-> count \div 2, count |-> count, leaf |-> leaf, new |-> new]

\* btree_insert into leaf, whose page is pg after the row was written, or not
\* written because the page was full.  There may be nothing to split, or no
\* page to be had.
InsertInto(leaf, pg) ==
    \/ /\ pages' = [pages EXCEPT ![leaf] = pg]
       /\ UNCHANGED <<fallback, reused, split>>
    \/ /\ ExceedsFull(pg)
       /\ pg.kind # "torn"
       /\ \E new \in Pages : GetFreePage(new) /\ StartSplit(leaf, pg, new)

Insert(k) ==
    /\ Intact
    /\ \E pg \in WriteSlot(pages[root], k) : InsertInto(root, pg)
    /\ answer' = IF split' = NoSplit THEN answer ELSE NoAnswer
    /\ ScanDisturbed
    /\ UNCHANGED root

\* btree_insert with a root of 0 makes a page of its own, whose number it
\* keeps to itself.  Bound: one such page, before the table's own.
InsertWithoutRoot(k) ==
    /\ Unused = Pages
    /\ \E p \in Pages :
          /\ GetFreePage(p)
          /\ \E pg \in WriteSlot(EmptyPage("leaf"), k) : pages' = [pages EXCEPT ![p] = pg]
    /\ UNCHANGED <<root, split, cursor, answer>>

\* One round of the loop: slot i of the leaf is read, written to the new
\* leaf and freed.
SplitRound ==
    /\ ~Idle
    /\ split.i < split.count
    /\ pages[split.leaf].kind = "leaf" /\ pages[split.new].kind = "leaf"
    /\ \E k \in ReadSlot(pages[split.leaf], split.i) :
          \E written \in WriteSlot(pages[split.new], k),
             freed \in FreeSlot(pages[split.leaf], split.i) :
                pages' = [pages EXCEPT ![split.leaf] = freed, ![split.new] = written]
    /\ split' = [split EXCEPT !.i = @ + 1]
    /\ UNCHANGED <<fallback, reused, root, cursor, answer>>

\* The two rows btree_insert gives a new internal root: their keys stay zero,
\* because a read of slot 0 finds nothing.
RootPages ==
    UNION {WriteSlot(pg, 0) : pg \in WriteSlot(EmptyPage("internal"), 0)}

\* The end of the split: the leaf keeps the first half of the count.  The new
\* root may be either of the two leaves.
SplitEnd ==
    /\ ~Idle
    /\ split.i = split.count
    /\ pages[split.leaf].kind = "leaf"
    /\ LET kept == [pages EXCEPT ![split.leaf].slots = SubSeq(@, 1, split.count \div 2)]
       IN  \/ pages' = kept /\ UNCHANGED <<fallback, reused>>
           \/ \E r \in Pages :
                 /\ GetFreePage(r)
                 /\ \E pg \in RootPages : pages' = [kept EXCEPT ![r] = pg]
    /\ split' = NoSplit
    /\ UNCHANGED <<root, cursor, answer>>

----------------------------------------------------------------------------
Begins(key, a) == a.first <= key /\ key <= a.last

\* btree_search tries slot ids 0, 1, ... and stops at a key above its own.
Passes(pg, i, a) == \A j \in 0 .. i - 1 : \E key \in ReadSlot(pg, j) : key < a.first
FoundAt_NotBelow(pg, a) ==
    {i \in 0 .. Total(pg) - 1 :
        Passes(pg, i, a) /\ \E key \in ReadSlot(pg, i) : a.first <= key}
FoundAt(pg, a) ==
    {i \in 0 .. Total(pg) - 1 :
        Passes(pg, i, a) /\ \E key \in ReadSlot(pg, i) : Begins(key, a)}

\* A slot named out of a record that was never set tells nothing.
Search(a) ==
    /\ Intact
    /\ cursor = NoCursor
    /\ \E i \in FoundAt(pages[root], a) :
          answer' = IF Readable(pages[root], i) THEN [key |-> a, slot |-> i] ELSE NoAnswer
    /\ UNCHANGED <<pages, fallback, reused, root, split, cursor>>

SearchFails(a) ==
    /\ Intact
    /\ cursor = NoCursor
    /\ \E i \in 0 .. Total(pages[root]) :
          /\ Passes(pages[root], i, a)
          /\ i < Total(pages[root]) => \E key \in ReadSlot(pages[root], i) : a.last < key
    /\ answer' = NoAnswer
    /\ UNCHANGED <<pages, fallback, reused, root, split, cursor>>

\* btree_delete frees the first slot id whose key matches.
DeletedAt(pg, a) ==
    {i \in 0 .. Total(pg) :
        /\ \A j \in 0 .. i - 1 : \E key \in ReadSlot(pg, j) : ~Begins(key, a)
        /\ i < Total(pg) => \E key \in ReadSlot(pg, i) : Begins(key, a)}

\* Some stored key matches both.
Overlap(a, b) == a.first <= b.last /\ b.first <= a.last

Delete(a) ==
    /\ Intact
    /\ \E i \in DeletedAt(pages[root], a) : \E freed \in FreeSlot(pages[root], i) :
          pages' = [pages EXCEPT ![root] = freed]
    /\ answer' = IF Overlap(answer.key, a) THEN NoAnswer ELSE answer
    /\ ScanDisturbed
    /\ UNCHANGED <<fallback, reused, root, split>>

----------------------------------------------------------------------------
\* btree_iterator_create, or btree_iterator_range without keys.
IteratorCreate ==
    /\ Intact
    /\ answer = NoAnswer
    /\ cursor' = [page |-> root, slot |-> 0, whole |-> TRUE, seen |-> {}]
    /\ UNCHANGED <<pages, fallback, reused, root, split, answer>>

\* btree_iterator_range: a start key is searched for; one that is not found,
\* or none, starts at the beginning.
IteratorRange(start) ==
    /\ Intact
    /\ answer = NoAnswer
    /\ \E i \in {0} \cup FoundAt(pages[root], start) :
          cursor' = [page |-> root, slot |-> i, whole |-> FALSE, seen |-> {}]
    /\ UNCHANGED <<pages, fallback, reused, root, split, answer>>

AtPageEnd == cursor.slot >= Total(pages[cursor.page])
NextPlace_SlotKept ==
    IF AtPageEnd THEN [page |-> pages[cursor.page].sibling, slot |-> cursor.slot]
                 ELSE [page |-> cursor.page, slot |-> cursor.slot]
NextPlace ==
    IF AtPageEnd THEN [page |-> pages[cursor.page].sibling, slot |-> 0]
                 ELSE [page |-> cursor.page, slot |-> cursor.slot]

\* btree_iterator_next: it returns 0 at the end of the chain, and where the
\* key lies behind the end of its range, which is not followed here; it looks
\* neither at the flag of a page nor whether the one it moves to has any slots.
IteratorNext ==
    /\ Idle
    /\ cursor.page # NoPage
    /\ NextPlace.page # NoPage
    /\ LET place == NextPlace
           pg    == pages[place.page]
       IN  /\ pages[cursor.page].kind # "torn" /\ pg.kind # "torn"
           /\ \E stops \in {FALSE, ~cursor.whole} :
                 cursor' = [cursor EXCEPT
                    !.page = place.page,
                    !.slot = IF stops THEN place.slot ELSE (place.slot + 1) % 256,
                    !.seen = IF cursor.whole /\ Readable(pg, place.slot)
                             THEN @ \cup {<<place.page, place.slot>>} ELSE @]
    /\ UNCHANGED <<pages, fallback, reused, root, split, answer>>

IteratorDestroy ==
    /\ cursor # NoCursor
    /\ cursor' = NoCursor
    /\ UNCHANGED <<pages, fallback, reused, root, split, answer>>

----------------------------------------------------------------------------
Next ==
    \/ BtreeInit
    \/ \E k \in Keys : Insert(k)
    \/ \E k \in Keys : InsertWithoutRoot(k)
    \/ SplitRound
    \/ SplitEnd
    \/ \E a \in Asked : Search(a)
    \/ \E a \in Asked : SearchFails(a)
    \/ \E a \in Asked : Delete(a)
    \/ IteratorCreate
    \/ \E start \in Asked : IteratorRange(start)
    \/ IteratorNext
    \/ IteratorDestroy

Spec == Init /\ [][Next]_vars

----------------------------------------------------------------------------
\* The variables hold what the code's fields can: ids of eight bits, keys, pages.
TypeOK ==
    /\ pages \in [Pages -> PageRecords]
    /\ fallback \in Pages \cup {NoPage}
    /\ reused \in BOOLEAN
    /\ root \in Pages \cup {NoPage}
    /\ split \in [i : 0 .. 255, count : 0 .. 255,
                  leaf : Pages \cup {NoPage}, new : Pages \cup {NoPage}]
    /\ cursor \in [page : Pages \cup {NoPage}, slot : SlotIds,
                   whole : BOOLEAN, seen : SUBSET (Pages \X SlotIds)]
    /\ answer \in [key : Asked \cup {NoKey}, slot : SlotIds]

\* find_empty_index_slot hands out a slot id once: no id is twice in a page's
\* directory, twice in its free list or in both, and id 0, "no slot", never,
\* as long as the directory and the free list keep to their own bytes.
SlotIdsDistinct == \A p \in Pages : pages[p].kind # "torn" => IdsDistinct(pages[p])

\* The accounts of write_index_slot and free_index_slot agree over any mix of
\* writes, frees, reused ids and cuts: free_end has given every write bytes of
\* its own, USED_SPACE counts the slots in the directory and what each write
\* took for ever, and free_total never falls below zero.  That the directory
\* keeps off the data it does not say: nothing in the code sees to it.
SpaceAccounted == \A p \in Pages : Accounted(pages[p])

\* The right siblings form a chain without a cycle: a sibling is a leaf, only
\* one page points to it, and none points to the callers' page.  It holds as
\* long as get_free_page finds pages that are not in use: a split that is given
\* a leaf's own page (index_page.c:390) makes it its own sibling.
ChainIntact ==
    ~reused =>
      LET linked == {p \in Pages : pages[p].kind # "torn" /\ pages[p].sibling # NoPage}
      IN  /\ \A p \in linked :
               /\ pages[pages[p].sibling].kind \in {"leaf", "torn"}
               /\ pages[p].sibling \notin {p, root}
          /\ \A p, q \in linked : p # q => pages[p].sibling # pages[q].sibling

\* btree_search: a slot it names holds a key that begins with the one asked
\* for, and goes on to hold it through later calls until such a key is deleted,
\* its leaf splits or the directory and the data overlap.
AnswerHolds ==
    answer # NoAnswer /\ pages[root].kind # "torn"
        => \E r \in Rows(pages[root]) : r[1] = answer.slot /\ Begins(r[2], answer.key)

\* btree_iterator_next: a scan that no write disturbs and that has come to the
\* end of the chain has returned every slot that can be read in it.
ScanCoversReadable ==
    cursor.whole /\ AtPageEnd /\ pages[cursor.page].sibling = NoPage
        => \A p \in Leaves : \A id \in Ids(pages[p]) :
               Readable(pages[p], id) => <<p, id>> \in cursor.seen

\* A call changes at most one slot of a page: the rows of all other ids stay
\* under their ids, however the directory around them moves, and an id that
\* leaves the directory goes to the free list.  Only a page that get_free_page
\* answers while it is in use loses all of its rows.
OtherSlotsKeepTheirRows ==
    [][Idle => \A p \in Pages :
          \/ pages[p].kind = "unused" \/ pages'[p].kind = "torn"
          \/ reused' /\ p = fallback /\ Total(pages'[p]) = 0
          \/ /\ Cardinality(SymDiff(Rows(pages[p]), Rows(pages'[p]))) <= 1
             /\ Ids(pages[p]) \cup Range(pages[p].free)
                    \subseteq Ids(pages'[p]) \cup Range(pages'[p].free)]_vars

\* index_page.c:403: the split moves half of the slots to the new page, so no
\* key of the table is lost by it, even where every page was free to be used.
KeysOf(set) == UNION {{r[2] : r \in Rows(pages[p])} : p \in set}
SplitKeepsKeys ==
    [][~Idle /\ ~reused' => KeysOf(Leaves) \subseteq KeysOf(Leaves)']_vars
=============================================================================
