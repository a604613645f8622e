----------------------------- MODULE FreeSpace -----------------------------
(***************************************************************************)
(* Page allocation in src/pager/pager.c.  Page 0 of the database file      *)
(* holds the free-page list and the highest allocated page; while the      *)
(* database is open the free pages are also kept in memory, in a radix     *)
(* tree with a counter of its own.  The tree is the set that RadixTree     *)
(* implements (no caller here frees page 0).                               *)
(*                                                                         *)
(* The file is mapped MAP_SHARED: a store to page 0 survives the death of  *)
(* the process, whatever is only in memory does not.                       *)
(*                                                                         *)
(* The callers (index_page.c, test/test_pager.c) take one page at a time:  *)
(* they initialise it, or use it as it is, before they ask for the next,   *)
(* and free only pages they hold.                                          *)
(***************************************************************************)
EXTENDS Integers, Sequences, FiniteSets

CONSTANTS
    PAGE_IDS,               \* page numbers are taken modulo PAGE_IDS (2^16)
    FREE_PAGE_LIST_SIZE,    \* capacity of free_page_list in page 0 (32)
    FREES_WIDTH,            \* num_frees counts modulo FREES_WIDTH (2^8)
    MaxFilePages,           \* bound of the model: pages in the file
    MaxHolders,             \* bound of the model: callers that share one page
    InitKinds,              \* "data": allocate_page, "index": init of index_page.c
    CrashInShift,           \* may the process die inside get_free_page's shift loop
    CrashInSync             \* may the process die inside sync_free_page_list

ASSUME ParametersAssumption ==
    /\ PAGE_IDS \in Nat /\ PAGE_IDS > 4
    /\ FREE_PAGE_LIST_SIZE \in Nat
    /\ FREES_WIDTH \in Nat \ {0}
    /\ MaxFilePages \in Nat /\ MaxHolders \in Nat \ {0}
    /\ InitKinds \subseteq {"data", "index"}
    /\ CrashInShift \in BOOLEAN /\ CrashInSync \in BOOLEAN

VARIABLES
    file_pages,         \* length of the database file in pages; 0 before creation
    free_page_list,     \* page 0: the first free_page_count entries
    highest_page,       \* page 0
    has_catalog,        \* page 0: written by pager_init_new_db, up to highest_page
    is_open,
    tree,               \* memory: the free pages in the radix tree
    num_frees,          \* memory: uint8_t counter next to the tree
    holders,            \* how many uses of each page the callers believe they have
    pending             \* the page handed out last and not yet put to use; 0: none

header  == <<free_page_list, highest_page, has_catalog>>
memory  == <<is_open, tree, num_frees>>
callers == <<holders, pending>>
vars    == <<file_pages, header, memory, callers>>

PageIds      == 0 .. PAGE_IDS - 1
CatalogPages == {1, 2, 3}
Reserved     == IF has_catalog THEN CatalogPages ELSE {}
Held         == {p \in PageIds : holders[p] > 0}
InUse        == Held \ {pending}
Entries(s)   == {s[i] : i \in DOMAIN s}

----------------------------------------------------------------------------
(* The pieces of the handlers.                                             *)

\* Mutants: the page stays in the list; one entry too many is written to it.
LeftInList(s, p) == s
ListedPastEnd(s, p) == IF Len(s) <= FREE_PAGE_LIST_SIZE THEN Append(s, p) ELSE s

\* Mutants: highest_page is never raised, is overwritten by every page put to
\* use, starts at 0.
HighestKept(p) == highest_page
HighestOverwritten(p) == p
NoReservedPages == 0

\* The header of a new database reserves the catalog pages.
ReservedPages == 3

\* mark_page_used: highest_page follows the pages put to use.
HighestAfter(p) == IF p > highest_page THEN p ELSE highest_page

\* mark_page_free: an entry more, while there is room.
Listed(s, p) == IF Len(s) < FREE_PAGE_LIST_SIZE THEN Append(s, p) ELSE s

\* The list with the first entry p taken out by the shift loop; a list
\* without p stays as it is.
Without(s, p) ==
    IF p \notin Entries(s) THEN s
    ELSE LET k == CHOOSE i \in DOMAIN s : s[i] = p /\ \A j \in 1 .. i - 1 : s[j] # p
         IN  [i \in 1 .. Len(s) - 1 |-> IF i < k THEN s[i] ELSE s[i + 1]]

\* The same loop cut short after n >= 1 assignments: free_page_count is not
\* yet decremented, so the entry copied last is in the list twice.
CutShift(s, p, n) ==
    LET k == CHOOSE i \in DOMAIN s : s[i] = p /\ \A j \in 1 .. i - 1 : s[j] # p
    IN  [i \in DOMAIN s |-> IF k <= i /\ i < k + n /\ i < Len(s)
                            THEN s[i + 1] ELSE s[i]]

\* radix_to_freelist: the smallest pages of S in ascending order, as many as
\* the header has room for.
Collected(S) ==
    LET size == IF Cardinality(S) < FREE_PAGE_LIST_SIZE
                THEN Cardinality(S) ELSE FREE_PAGE_LIST_SIZE
    IN  {s \in [1 .. size -> S] :
            /\ \A i, j \in 1 .. size : i < j => s[i] < s[j]
            /\ \A p \in S \ Entries(s) : \A i \in 1 .. size : s[i] < p}

Decremented(n) == IF n > 0 THEN n - 1 ELSE n

----------------------------------------------------------------------------
Init ==
    /\ file_pages = 0
    /\ free_page_list = <<>> /\ highest_page = 0
    /\ has_catalog = FALSE
    /\ is_open = FALSE /\ tree = {} /\ num_frees = 0
    /\ holders = [p \in PageIds |-> 0] /\ pending = 0

\* init_pager on an empty file: a page of zeros, in which get_free_page would
\* read highest_page = 0.
CreateFile ==
    /\ file_pages = 0 /\ MaxFilePages > 0
    /\ file_pages' = 1
    /\ is_open' = TRUE /\ tree' = {} /\ num_frees' = 0
    /\ UNCHANGED <<header, callers>>

\* Callers initialise a database that nobody has taken a page of.
Untouched == Held = {} /\ tree = {} /\ num_frees = 0 /\ free_page_list = <<>>

\* pager_init_new_db: four more pages, a new header, the three
\* catalog pages.  If the file cannot grow, PSQL_NOMEM, and nothing is changed.
InitNewDb ==
    /\ is_open /\ Untouched /\ file_pages + 4 <= MaxFilePages
    /\ file_pages' = file_pages + 4
    /\ free_page_list' = <<>> /\ highest_page' = ReservedPages
    /\ has_catalog' = TRUE
    /\ holders' = [p \in PageIds |-> IF p \in CatalogPages THEN 1 ELSE 0]
    /\ UNCHANGED <<memory, pending>>

\* init_pager on an existing file: init_free_page_map counts list entries.
OpenDb ==
    /\ ~is_open /\ file_pages > 0
    /\ is_open' = TRUE
    /\ tree' = Entries(free_page_list) \ {0}
    /\ num_frees' =
           Cardinality({i \in DOMAIN free_page_list : free_page_list[i] > 0}) % FREES_WIDTH
    /\ UNCHANGED <<file_pages, header, callers>>

\* A page is handed to a caller.
HandOut(p) ==
    /\ holders[p] < MaxHolders
    /\ holders' = [holders EXCEPT ![p] = @ + 1] /\ pending' = p

\* get_free_page when num_frees > 0 and pop_min finds a page.
GetRecycledPage(p) ==
    /\ is_open /\ pending = 0
    /\ num_frees > 0 /\ p \in tree /\ \A q \in tree : p <= q
    /\ tree' = tree \ {p} /\ num_frees' = num_frees - 1
    /\ free_page_list' = Without(free_page_list, p)
    /\ HandOut(p)
    /\ UNCHANGED <<file_pages, highest_page, has_catalog, is_open>>

\* get_free_page otherwise: highest_page + 1, which is reserved nowhere.  The
\* sum wraps to 0, and callers take 0 for "no page".
GetFreshPage ==
    LET p == (highest_page + 1) % PAGE_IDS
    IN  /\ is_open /\ pending = 0
        /\ num_frees = 0 \/ tree = {}
        /\ p # 0 /\ HandOut(p)
        /\ UNCHANGED <<file_pages, header, memory>>

\* allocate_new_db_page: the file grows by a page whatever number that is.
AllocateNewDbPage ==
    LET p == file_pages % PAGE_IDS
    IN  /\ is_open /\ pending = 0 /\ file_pages < MaxFilePages
        /\ file_pages' = file_pages + 1
        /\ IF p = 0 THEN UNCHANGED callers ELSE HandOut(p)
        /\ UNCHANGED <<header, memory>>

\* init_data_page, init_overflow_page (allocate_page, then mark_page_used): the
\* counter goes down a second time for a page that came from the tree.  The
\* memset runs two bytes into what follows the page; where that is the end of
\* the mapping the process may die there, which Crash covers.
InitDataPage ==
    /\ "data" \in InitKinds
    /\ is_open /\ pending # 0 /\ pending < file_pages
    /\ tree' = tree \ {pending}
    /\ num_frees' = Decremented(num_frees)
    /\ highest_page' = HighestAfter(pending)
    /\ pending' = 0
    /\ UNCHANGED <<file_pages, free_page_list, has_catalog, is_open, holders>>

\* init_index_leaf_page and init_index_internal_page of index_page.c: they
\* write the page's own header and mark nothing as used.
InitIndexPage ==
    /\ "index" \in InitKinds
    /\ is_open /\ pending # 0 /\ pending < file_pages
    /\ pending' = 0
    /\ UNCHANGED <<file_pages, header, memory, holders>>

\* The first store to a page past the end of the file: the page is outside the
\* mapped region and the process dies.
InitPastEnd ==
    /\ is_open /\ pending >= file_pages
    /\ is_open' = FALSE /\ tree' = {} /\ num_frees' = 0
    /\ holders' = [holders EXCEPT ![pending] = @ - 1] /\ pending' = 0
    /\ UNCHANGED <<file_pages, header>>

\* A caller puts a recycled page back to use without initialising it.
UseAsItIs ==
    /\ is_open /\ pending # 0 /\ pending <= highest_page
    /\ pending' = 0
    /\ UNCHANGED <<file_pages, header, memory, holders>>

\* mark_page_free for a page in use.
MarkPageFree(p) ==
    /\ is_open /\ pending = 0 /\ p \in Held \ Reserved
    /\ tree' = tree \cup {p} /\ num_frees' = (num_frees + 1) % FREES_WIDTH
    /\ free_page_list' = Listed(free_page_list, p)
    /\ holders' = [holders EXCEPT ![p] = @ - 1]
    /\ UNCHANGED <<file_pages, highest_page, has_catalog, is_open, pending>>

\* sync_free_page_list on its own, as FREE_PAGE_LIST_BATCH_SIZE intends it.
SyncFreePageList ==
    /\ is_open /\ pending = 0
    /\ free_page_list' \in Collected(tree)
    /\ UNCHANGED <<file_pages, highest_page, has_catalog, memory, callers>>

\* pager_close_db: sync the list.  If msync or munmap fails after that the
\* database is still open.  Once the file
\* is unmapped and closed, radix_tree_destroy frees what malloc never returned
\* (the tree was copied into its tracker): a death there leaves the same.
CloseDb ==
    /\ is_open /\ pending = 0
    /\ free_page_list' \in Collected(tree)
    /\ \/ is_open' = FALSE /\ tree' = {} /\ num_frees' = 0
       \/ UNCHANGED memory
    /\ UNCHANGED <<file_pages, highest_page, has_catalog, callers>>

\* What a process that dies leaves behind: page 0 and the pages in use.
ProcessGone ==
    /\ is_open' = FALSE /\ tree' = {} /\ num_frees' = 0
    /\ holders' = IF pending = 0 THEN holders ELSE [holders EXCEPT ![pending] = @ - 1]
    /\ pending' = 0

Dies == ProcessGone /\ UNCHANGED <<highest_page, has_catalog>>

Crash == is_open /\ Dies /\ UNCHANGED <<file_pages, free_page_list>>

\* pager_init_new_db stops once the file has grown: mmap fails and leaves
\* mem_start dangling, or the process dies before or after the header is
\* cleared, or after its highest_page is written.
CrashInInitNewDb ==
    /\ is_open /\ Untouched /\ file_pages + 4 <= MaxFilePages
    /\ file_pages' = file_pages + 4
    /\ \/ highest_page' \in {highest_page, 0} /\ UNCHANGED <<has_catalog, holders>>
       \/ /\ highest_page' = ReservedPages /\ has_catalog' = TRUE
          /\ holders' = [p \in PageIds |-> IF p \in CatalogPages THEN 1 ELSE 0]
    /\ is_open' = FALSE /\ tree' = {} /\ num_frees' = 0
    /\ UNCHANGED <<free_page_list, pending>>

\* allocate_new_db_page after a successful ftruncate: mmap fails, mem_start is
\* left dangling and the next access to page 0 is fatal.
CrashInGrow ==
    /\ is_open /\ pending = 0 /\ file_pages < MaxFilePages
    /\ file_pages' = file_pages + 1
    /\ Dies /\ UNCHANGED free_page_list

\* The process dies in get_free_page after n assignments of the shift loop.
CrashInGetFreePage(p, n) ==
    /\ CrashInShift
    /\ is_open /\ pending = 0
    /\ num_frees > 0 /\ p \in tree /\ \A q \in tree : p <= q
    /\ p \in Entries(free_page_list)
    /\ free_page_list' = CutShift(free_page_list, p, n)
    /\ Dies /\ UNCHANGED file_pages

\* The process dies in sync_free_page_list: free_page_count is 0 until the end.
CrashInSyncFreePageList ==
    /\ CrashInSync
    /\ is_open /\ pending = 0
    /\ free_page_list' = <<>>
    /\ Dies /\ UNCHANGED file_pages

Next ==
    \/ CreateFile \/ InitNewDb \/ CrashInInitNewDb \/ OpenDb \/ CloseDb \/ SyncFreePageList
    \/ \E p \in PageIds : GetRecycledPage(p) \/ MarkPageFree(p)
    \/ GetFreshPage \/ AllocateNewDbPage
    \/ InitDataPage \/ InitIndexPage \/ InitPastEnd \/ UseAsItIs
    \/ Crash \/ CrashInGrow \/ CrashInSyncFreePageList
    \/ \E p \in PageIds, n \in 1 .. FREE_PAGE_LIST_SIZE : CrashInGetFreePage(p, n)

Spec == Init /\ [][Next]_vars

----------------------------------------------------------------------------
TypeOK ==
    /\ file_pages \in 0 .. MaxFilePages
    /\ free_page_list \in Seq(PageIds) /\ Len(free_page_list) <= FREE_PAGE_LIST_SIZE
    /\ highest_page \in PageIds
    /\ has_catalog \in BOOLEAN
    /\ is_open \in BOOLEAN
    /\ tree \subseteq PageIds /\ IsFiniteSet(tree)
    /\ num_frees \in 0 .. FREES_WIDTH - 1
    /\ holders \in [PageIds -> Nat] /\ pending \in PageIds

\* No page is handed out to two callers, by whichever of the two allocators
\* (get_free_page, allocate_new_db_page), before or after crashes.
HeldOnce == \A p \in PageIds : holders[p] <= 1

\* A page in use is neither in the tree nor in the header's list, so neither
\* get_free_page now nor init_free_page_map after a crash offers it again.
FreeListSafe == (tree \cup Entries(free_page_list)) \cap Held = {}

\* highest_page ("Highest allocated page - allows for fall back if there are no
\* free pages cached") bounds every page that is or was in use, and such pages
\* are inside the file.
HighestCovers ==
    /\ \A p \in InUse \cup tree \cup Entries(free_page_list) : p <= highest_page
    /\ file_pages > 0 => highest_page < file_pages

\* The header page is never free and never handed out, and once a header that
\* reserves the catalog roots is in the file, neither are they; each of them
\* keeps its one user.  Before that, get_free_page answers page 1, so a file
\* left behind by an init_pager without its pager_init_new_db, which OpenDb
\* takes as it is, gives the catalog's pages to the callers.
CatalogSafe ==
    /\ 0 \notin tree \cup Entries(free_page_list) /\ holders[0] = 0
    /\ (tree \cup Entries(free_page_list)) \cap Reserved = {}
    /\ pending \notin Reserved /\ \A p \in Reserved : holders[p] = 1

=============================================================================
