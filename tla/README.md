# PreSeQL: a verification development

PreSeQL is a small SQL database in C: a client that reads statements, a compiler
(tokenizer, parser, code generator), a virtual machine for the generated
programs, and a pager that keeps slotted pages, B+ trees, a free-page list and a
rollback journal in memory-mapped files. This directory holds TLA+ models of its
parts, the TLC configurations that check them and TLAPS proofs about them.
Paths are relative to `src/src/`, where the C code is.

The program is one thread of one process and has no scheduler, no messages and
no timers. What is hard in it is order and failure: long sequences of legal calls
that bring two records of the same fact apart, system calls that fail half way
through a function, and a process that dies between two stores to a file that is
mapped `MAP_SHARED` and therefore keeps every store made so far.

At this commit the `Makefile` compiles the client, the compiler and
`algorithm/`; the pager, the journal and the B+ tree are being written and are
exercised by `test/test_pager.c` in intent only (`pager/constants.h` defines page
flags as `= 0x02`, so files that use them do not compile yet). The models read
what the functions say.

## Inventory

| Component | Sources | State | Operations | What makes it correct |
| --- | --- | --- | --- | --- |
| Radix tree | `algorithm/radix_tree.c` | 4-level 16-way tree of 16-bit page numbers, nodes in an arena | insert, lookup, delete, peek_min, pop_min, walk, conversion to and from an array | It is a set: the tree is exactly the paths of its pages, the first-child descent finds the smallest one |
| Free space and page allocation | `pager/pager.c`, `pager/db/free_space.h` | page 0 (`DatabaseHeader`: `free_page_list[32]`, `free_page_count`, `highest_page`), file length, radix tree and `num_frees` in memory | `init_pager`, `pager_init_new_db`, `pager_close_db`, `get_free_page`, `mark_page_free`, `mark_page_used`, `allocate_page`, `allocate_new_db_page`, `sync_free_page_list`, `resize_mmap` | A page has one user; a page in use is on no free list, in memory or in the file; `highest_page` bounds what is in use; the header page is never handed out, nor a catalog page once it is written |
| Rollback journal | `pager/journal/journal.c` | the journal file (header with `highest_txn_id` and `checksum`, page images), `journal_fd`, `journal_mem`, `journal_size` | init, close, begin, add page, commit, rollback, is_valid | The process knows where the file ends; images stay and keep the order of their transactions until they may go; the file stays readable |
| B+ tree index pages | `pager/db/index/index_page.c` | slotted pages: slot directory, slot data, free slots, sibling links | slot find/read/write/free, search, insert, delete, split, iterate, destroy | An inserted key is found, a deleted one is not, directory and data keep apart, leaves form one chain (not all of which the code achieves, see below) |
| Page layout and vacuum | `pager/pager.c` (`vacuum_page`), `pager/db/{data,overflow}` | slots of one page | compaction; data and overflow pages have headers only | Compaction moves slots and loses none |
| Catalog | `pager/db/catalog` | tables, columns, foreign keys | declared only | - |
| Tokenizer | `compiler/tokenizer.c` | position in the text, tokens so far | `tokenize` (seven tests per prefix, longest match) | The tokens cover the text, no literal is cut or joined to another, no word ends before a letter or digit; a text is refused only for a character that begins no token outside a literal; it ends |
| Parser | `compiler/parser.c` | position in the token array, statement being built | one function per statement kind | Returns the meaning of the statement that was written (its numbers as `atoi` reads them), refuses at the first wrong token |
| Code generator | `compiler/generator.c` | growing instruction array | one emitter per statement kind | The program says all of the statement and keeps to the user's transaction |
| Virtual machine | `vm_engine/vm_interface.c` | program counter, registers, status | `psql_step`, jump table | Every emitted opcode has a handler, halts |
| Client | `client.c` | `statement_buffer`, filled line by line | read, run, print | A statement is run when a line holds a semicolon, and the buffer starts anew after it |
| CRC-32 | `algorithm/crc.c` | a table of 256 words | `init_crc32_table`, `calculate_crc32` | The table does what the shift register of the polynomial does; an altered byte is noticed |
| Arena | `allocator/arena.h` | - | vendored | Not modelled |

How they interact: the client (`psql_prepare`) hands text to the tokenizer, the
token array to the parser and the statement to the generator; nothing runs the
program yet (`client.c:44`). The VM is to run it, calling the
B+ tree, which calls the pager for pages (`get_free_page`, `mark_page_free`,
`pager_get_page`) and the journal before it changes one. The pager reaches the
radix tree through `db_pager.free_page_map`, and page 0 through the mapping. All
calls are synchronous. Shared state is page 0 (written by open, close, allocation
and freeing), the radix tree, and the static variables of `journal.c`.

Hard behaviours, with their lines, are listed under `hazards` in `PROJECT.json`.

## Modules

### FreePageSet and RadixTree

`FreePageSet` is the promise: a set of positive page numbers that can be read in
ascending order and drained from the smallest element. `RadixTree` is the code. A node
is named by its level and by the digits on the way to it, so a non-NULL `children[i]` is
an element `<<level, prefix>>` of `nodes`, and the state of a tree is a set of such
pairs; `radix_tree_delete` clears the leaf and then prunes level by level,
`radix_tree_peek_min` descends to the first child without backtracking,
`radix_to_freelist` walks depth first (`WalkNode` is one call of `walk_radix`, children
by rising index) and drops what the array has no room for. Each call is one action. The
arena never reuses a node, so a pruned node is just unreachable.

### FreeSpace

`FreeSpace` puts the two page allocators of `pager.c` in one state: the file's
length (`allocate_new_db_page`) and `highest_page` with the free pages
(`get_free_page`). Page 0 is `free_page_list`, `highest_page` and `has_catalog`, which
says that `pager_init_new_db` has written its header; the memory of an open database is `tree` and `num_frees`; `holders` counts, for each
page, how many users believe it is theirs, and `pending` is the page handed out
and not yet initialised, because `get_free_page` reserves nothing: only
`mark_page_used`, called when the page is initialised, raises `highest_page`. The
radix tree appears as the set `RadixTree` implements.

A database is made in two calls, as in the code: `CreateFile` is `init_pager` on an
empty file, which leaves one page of zeros, `InitNewDb` is `pager_init_new_db`, which a
caller may or may not come to. Its failures before the file has grown change nothing
(`PSQL_NOMEM`); if it dies after that, or `mmap` fails, `CrashInInitNewDb` leaves the pages
without the header, or with it. `OpenDb` opens whatever is there, so a file that was made
only half is used with `highest_page` 0.

Environment actions are the
callers: `InitDataPage` (through `allocate_page`), `InitIndexPage` (the functions
of `index_page.c`, which never call `mark_page_used`), `UseAsItIs`. A process can
die between any two calls (`Crash`), after the file has grown (`CrashInGrow`), in
the middle of the shift loop of `get_free_page` (`CrashInGetFreePage`, switched by
`CrashInShift`) and while `sync_free_page_list` rewrites the list
(`CrashInSyncFreePageList`, switched by `CrashInSync`); a store to a page past the
mapping is fatal (`InitPastEnd`). Two deaths are left out: one inside
`free_page_list[free_page_count++] = page_no` (`pager.c:128`), where the count could be
stored before the entry, and the one `radix_tree_destroy` may cause in `pager_close_db`
(`pager.c:416` hands it the tree inside the tracker), which comes after the file is
unmapped and leaves what a close leaves.

Assumptions of the model, all read from the code: callers free pages they hold and
no catalog page, take one page at a time, and treat 0 as "no page"; `munmap` of a
live mapping does not fail; what lies behind `free_page_count` in the list is
never read; `pager_init_new_db` is called before anybody takes a page (`Untouched`, as
in `test/test_pager.c:31-39`). The header's `checksum` is left out: only
`pager_verify_db` compares it, and nothing uses its answer.

### Journal

`Journal` has the file (`entries`, `highest_txn_id`, and `sealed`: the stored
checksum fits) and the static variables of the process. `journal_size` is counted
in entries. An entry carries its transaction, its page and whether its image was
copied to the end. Each function of `journal.c` is an action with its early
returns (`Refused`, `journal_close_unmapped`), and each of its system calls may
fail where failing leaves a state of its own: before anything is done
(`FailsFirst`), after `ftruncate` and `munmap` (`AddPageUnmapped`,
`TruncateUnmapped`: the mapping is gone, the descriptor stays open), in the last
`msync` (the second disjunct of `Returns`). `msync` of a new entry starts at the
entry, and fails unless that address is a multiple of the OS page; since the
header has 24 bytes the first entry never is (`AlignedAt` lists the ones that
are). The process may die between calls and between the stores of a call. The size
of `RollbackJournalPage` is not fixed by the sources, so nothing depends on it.

A second `journal_init` of an open journal leaks the first mapping; the model's
caller opens once. The caller uses ids from 1 on.

### Compiler

`Compiler` is `psql_prepare` behind the tokenizer. The parser looks one token ahead
and never steps back, so it is a machine over places: a place is a point of
`parser.c` that asks for a token, and each `parse_...` function is a set of triples
(place, token type, next place). `peek`, `match`, `expect` and `advance` all reduce
to "is there a triple" (`Take`) or none (`Reject`, also for the end of the stream).
The environment supplies the token, any of the 22 types at every place. `Noted` is
what the code stores when it reads the token. Of a number that is the int `atoi` makes of
the lexeme (`parser.c:186` for a value, `:268` for the length of a VARCHAR); `atoi` is a
constant, any function from the lexemes to the ints of the instance, since leading zeros are
lost and what a number beyond `int` becomes is the library's. The generator is one operator
per `generate_...` function; `generate_insert` has one instruction per column name and takes
the value of the same index, so with fewer values it reads past the array (`Overread`: any
int, a text of garbage, no instruction at all; or the pointer leads nowhere and the client
dies, the second disjunct of `Generate`). `session` is the programs of
the statements one client has compiled. Errors free or leak memory and nothing
else; memory is not modelled.

Against it stands the abstract syntax, twice: `Sentences` are the statements as they are
written, numbers as lexemes and lengths that may be missing, `Statements` the trees the
compiler works on, with ints. `Spelling` writes a sentence out, `Meaning` is its tree, and
`Beginnings` is every prefix of a sentence that is spelled and closed. Two sentences may have
one meaning. `SELECT` is closed by any token (`Closers`), because `parse_select` ignores
the result of its last `expect`.

### IndexPage and BTree

`IndexPage` is one slotted page as a record and the four slot functions as
operators on it. `slots` is the slot directory, which holds the id and the key of
each slot in the order of the keys; `free` is the list of freed ids, `highest` the
highest id handed out, `used` is `USED_SPACE`, `end` is `free_end`, `sibling` the
right sibling of a leaf. Payloads travel with their keys and are left out. Sizes
are byte counts as in the code, and constants, so that a page can be made small;
the threshold of 80% is the code's.

Three things of the code shape the model:

* `read_index_slot` finds a slot only while its id is below `total_slots`, and an
  id it does not find leaves the caller's record as it was. Ids begin at 1 and stay
  with their rows, so on every page some ids cannot be read, and callers compare
  a record nobody set. `ReadSlot` is then any key of `AnyKey`.
* `free_index_slot` pushes to the list of free slots without a bound (the byte of
  padding behind the list takes one more, the id after that goes into
  `right_sibling_page_id`), and `write_index_slot` computes the data's offset without
  looking where the directory ends, so it lays one over the other. Both steps are taken as
  the code takes them, accounts and all; the page they leave is `torn`, with any page for a
  sibling in the first case. `torn` is no flag of the code. It is where the model ends: no
  call on a torn page is followed, and what is said of rows, ids and siblings is said of
  pages that are not torn.
* A full page gives `write_index_slot` nothing to write to, and none of its
  callers looks at the result.

`BTree` is the tree of one table. Callers pass the page `btree_init` gave them as
the root of every call and are never told of another, so that page stays a leaf:
the descents through internal pages, the rebalancing and `btree_split_internal`
are reached by no call and are left out, as is `btree_destroy`.

Pages come from `get_free_page` (`GetFreePage`): any page not in use, as one that was freed,
or the one above `highest_page`. No function of `index_page.c` marks a page as used, so
once a page was answered as `highest_page + 1` it is answered again and again: `fallback`
is that page, and `reused` says that a page in use has been answered. It may be the very
leaf that splits (`StartSplit` then clears the leaf and makes it its own sibling), one of the
two leaves that get a new root (`SplitEnd`), or the page an earlier call made for another table.
`reused` decides nothing; two properties speak of the time before it or of the page it
happened to. Bounds: nobody else raises `highest_page` in between, so there is one such page,
and when the callers' own page has become an internal one no further call on the tree is
followed.

Callers look for keys of `key_size` bytes, and only these are compared, so a short key matches
every stored key that begins with it. Stored keys are numbers in their order, and a key
asked for is the span of stored keys it matches (`Asked`, `Begins`); `btree_search` names, and
`btree_delete` frees, the first slot in that span.

The loop of `btree_split_leaf` is taken in rounds (`SplitRound`, `SplitEnd`), because each
round frees a slot and so changes which ids the next one can read. `InsertWithoutRoot` is `btree_insert`
with root 0, which makes a page and keeps its number to itself; the model does it
at most once. A reader keeps the answer of its last search or an iterator, not both.
The end key of `btree_iterator_range` is any place to stop.

### Tokenizer

`Tokenizer` is the client's prompt and the loop of `tokenize`. One character
stands for each class the seven tests tell apart. `mode` says where the program
is: at the prompt, in the loop, behind it with tokens or with an error, or left.
Lines are joined without their newlines, as the client does, so the last word of a
line and the first of the next are one word; the model keeps that. A token is the
longest prefix that passes a test; `IsVarchar` requires quotes inside a literal to
come in runs of even length (`InnerRuns`). What comes out is the token array
`Compiler` begins with. `candidate_lexeme` has 1024 bytes and is not bounded by the
code; the model's texts are shorter (`MaxText`).

### Crc

A 32-bit word is the set of its one bits, so xor is the symmetric difference and a
shift moves the elements. Three computations run side by side: `calculate_crc32`
over a message, the plain shift register of the polynomial over the same message,
and `calculate_crc32` over a copy in which one byte is altered.

## Runs

| Run | Checks | Bounds |
| --- | --- | --- |
| `radix_tree` | `TypeOK`, `PathsComplete`, `LeftmostIsSmallest`, `PopMinRemovesSmallest`, and that `RadixTree` implements `FreePageSet` | six pages that part at the first, second, third and last digit, so every round of the pruning loop stops and goes on; arrays with zeros and repetitions; capacities 0, 2, 32. Every subset of the pages is reached. |
| `free_space` | `TypeOK`, `HeldOnce`, `FreeListSafe`, `HighestCovers` for callers that initialise data pages | eight page numbers, a list of two entries, a counter modulo four: four free pages overflow both the list and the counter, the file reaches its end, databases are made whole or half. `MaxHolders = 2` is one more than `HeldOnce` allows, so it hides nothing. |
| `free_space_hostile` | `CatalogSafe` with index pages and crashes in the shift loop too | six numbers, so two pages next to header and catalog in a whole database and five in a half-made one; a list of two (the loop makes one store), two users per page |
| `journal` | `TypeOK`, `SizeMatchesFile`, `EntriesOrdered`, `CallsKeepJournalReadable`, `ImagesKept` | ids modulo 4 (1, 2, 3 used, so 3 is followed by the wrap), two pages, three entries: two transactions with entries in one journal and an aligned entry |
| `compiler` | `TypeOK`, `AcceptedIsSpelled`, `RefusedAtFirstWrongToken`, `ProgramTellsStatement` | two names; the numbers 0 (which also fills unused fields), 255 and 0255 (one int, the default length of a VARCHAR) and 4294967295 (cut to -1, the length an INT has); one text, four ints; up to two items in a list, which takes every loop of the parser once and once again; sessions of one statement, since nothing of a statement is kept for the next |
| `btree` | `TypeOK`, `SlotIdsDistinct`, `SpaceAccounted`, `ChainIntact`, `AnswerHolds`, `ScanCoversReadable`, `OtherSlotsKeepTheirRows` | three pages of 235 bytes with a header of 81: a leaf splits at its third row, onto a free page or onto itself, and splits again while a chain grows, and at the fourth write to a leaf directory and data meet; a free list of its padding byte only, so it overruns at the second id; two keys, so keys repeat; keys asked for are the two and one prefix of both; an unset record holds either key or 0 |
| `tokenizer` | `TypeOK`, `TokensCoverText`, `RefusedForStrangeCharacter`, `LiteralsKept`, `WordsWhole`, `AlwaysReturns` | every text of up to five characters over eight: a literal with a doubled quote needs four, and one with something behind it five; typed in any lines |
| `crc` | `TypeOK`, `TableIsShiftRegister`, `AlteredByteNoticed` | messages of up to five bytes, one more than the word has, over four bytes: zero, lowest bit, highest bit, all bits |
| `index_pages` | violation of `HeldOnce` with index pages | as `free_space` |
| `journal_rollback` | violation of `RollbackUndoesOneTransaction` | as `journal` |
| `compiler_transactions` | violation of `UsersTransactionHolds` | one item per list, sessions of three statements |
| `btree_split` | violation of `SplitKeepsKeys` | three pages of 271 bytes with the code's header of 34, so a leaf splits at its fourth row; a free list of one id and its padding byte |

What they show:

* The radix tree is a set, in every order of calls. It has one soft spot: it
  accepts page 0 (the guard in `radix_tree_insert` is commented out), which
  `radix_tree_pop_min` then answers for ever. `FreePageSet` is implemented for
  callers that never free page 0, and `0 \notin Pages` is an assumption of the
  theorem that needs it.
* For callers that initialise what they take as data pages, the two allocators
  agree: no page has two users and no page in use is offered again, even though
  `num_frees` drifts from the tree, `get_free_page` reserves nothing and a crash
  may lose the list. What keeps them apart is that `highest_page` stays below the
  file's length and above every page in use.
* It is lost when the initialisers in `index_page.c` take pages, because they do not
  mark them as used: two B+ trees get the same page (`index_pages`). A crash inside
  the shift loop also lets a page be taken twice. What survives even then is
  `CatalogSafe`: the header page is never given away, nor are the catalog's once
  `pager_init_new_db` has written its header. Before that they are: a file left by an
  `init_pager` alone has `highest_page` 0, is opened as any other, and `get_free_page` answers
  page 1. The drift of `num_frees`, decremented by `get_free_page` and again by
  `mark_page_used`, makes the allocator pass over free pages; it costs space only.
* The journal always knows its end and keeps its images in order and in place,
  through failed calls, crashes and reopening. It does not do what a comment
  says: rolling back one transaction drops the whole images of the transactions
  below it too (`journal_rollback`), so calling it once more for them undoes nothing. A journal without entries also forgets the highest id when it
  is reopened.
* A process that dies inside `journal_init` (which zeroes the checksum in the
  mapped file while it verifies it) or inside `journal_begin_transaction` can leave a
  journal that is refused for ever; nothing else can.
* The parser is exact: it returns the meaning of the sentence that was written, no more and
  no less than `atoi` leaves of its numbers, and refuses at
  the first token with which no statement can go on. Programs tell SELECT, CREATE and control
  statements apart; of an INSERT they keep less, since a text value takes the place
  of its column's name, and with fewer values than columns the generator reads
  past the values, with more it drops the rest. Every
  INSERT or CREATE commits on its own, inside a user's transaction too
  (`compiler_transactions`).
* An index page keeps its books: ids are handed out once, each write gets bytes of its own
  from `free_end`, and `USED_SPACE` counts every slot in the directory and what each write took
  for ever. The books do not keep directory and data apart: a delete gives back 40 of the 47
  bytes a write took, and `free_end` never rises, so on a page of many writes and deletes the
  directory reaches the data while `USED_SPACE` is below the threshold. Nothing is promised of
  the rows then.
* A search names a slot whose key begins with the key asked for, and the answer is good until
  such a key is deleted or the leaf splits. A delete of a short key may take a row whose key
  is longer.
* The split loses rows even onto a page that nobody uses (`btree_split`): the loop frees the
  slot it has just copied, which makes the highest ids unreadable for the next round, and
  afterwards cuts the directory at the middle of the old count. The chain of leaves survives
  that, and a scan returns every row that can still be read. The chain does not survive a
  `get_free_page` that answers a page in use, which in this code is the first split's when no
  page was freed before: the leaf is cleared and becomes its own sibling. `ChainIntact` is
  promised until then, the other properties hold beyond it; of the rows of such a page
  `OtherSlotsKeepTheirRows` says that they go all at once.
* The tokenizer's longest match agrees with a description that has no longest match in
  it: characters are in a literal if an odd number of quotes stands before them
  and one behind, words end where no letter or digit follows (an identifier also ends at an
  underscore behind its first character, `tokenizer.c:178`), and only a strange
  character outside literals refuses a text.
* The CRC's table is right, and no single altered byte escapes it.

Liveness: this code schedules nothing, and what happens next is a caller's or a
user's choice, with one exception. Once a statement is typed, `tokenize` is a loop of
one thread that waits for nothing, so `Tokenizer` assumes `WF_vars(Tokenize)` and
`AlwaysReturns` says that every statement leads back to the prompt. Lines and
`exit` have no fairness. No other module states any.

Deadlock is checked except in `btree` and `btree_split` (a page may be torn, or the
file full with nothing to read), `tokenizer` (`exit` ends the program) and `crc`
(a message ends).

## Proofs

`RadixTree_proofs` proves, for every set `Pages` of 16-bit numbers:

* `TreeIsPathsOfItsPages`: `PathsComplete` always holds. The inductive invariant
  is `\E K : nodes = Paths(K)` with `K` a set of page numbers. The work is in
  `PruneRound`: if before a round the tree is the paths of `K` and the stump of
  the deleted page down to some level, after it the stump is one level shorter,
  because `has_children` answers exactly whether another page needs the node.
* `DescentFindsSmallest`: the first child of the smallest prefix leads to the
  smallest prefix one level down (`DescentRound`), four times.
* `PopMinIsExact`: with `0 \notin Pages`, `radix_tree_pop_min` removes the smallest page
  and no other.
* `TypesHold`: no node lies off the paths of page numbers, every answer is a sequence of
  pages.
* `TreeImplementsSet`: with `0 \notin Pages`, `RadixTree` implements `FreePageSet`, one step
  of the set or none for each call. The hard step is the walk: that the recursive function
  exists at all (it is built from the leaves up, level by level), and that what a
  node collects is exactly the pages below it, in ascending order, since the pages below
  two children lie in disjoint intervals of the same order as the children.

`Journal_proofs` proves, for any ids, pages, alignment and number of entries:

* `JournalTyped`, `JournalSizeMatchesFile`, `JournalEntriesOrdered`: the three are
  inductive only together (`JInv`): `journal_add_page` writes at `journal_size`, so
  the order of the entries needs `SizeMatchesFile` (lemma `AddAppends`), and
  that a new transaction is above all entries needs `EntriesOrdered`'s bound by
  the header's id and the arithmetic of a wrap the caller never crosses
  (`ContiguousIsNext`).
* `JournalImagesKept`: the action property, from `JInv`.
* `CallsKeepReadable`: from a second invariant, that a mapped journal has a valid
  header checksum.

`FreeSpace_proofs` proves, for any number of pages and any sizes of the list and of
`num_frees`:

* `FreeSpaceTyped`, for all callers and crashes.
* `CatalogNeverOffered`: for all callers and crashes, in a file of at most `PAGE_IDS` pages
  (`FileFits`; beyond that page numbers wrap and the allocator comes back to page 0).
  The invariant is `CatalogInv`: `CatalogSafe`, and with `has_catalog` the file has five pages
  and `highest_page` is not below the catalog, so the page after it is none of the catalog's.
  Until `has_catalog` only the header page is promised.
* `PagesHeldOnce`, `FreePagesUnused`, `HighestBounds`: for callers that initialise data
  pages and processes that die anywhere but inside the shift loop (`DataCallers`), by
  `SharingInv`. None of the three is inductive alone: the page above `highest_page` is
  unused because `highest_page` bounds what is in use, a page from the tree because
  the tree holds no page in use, a page from the list because the list repeats
  none and, while the database is open, is part of the tree.

`Crc_proofs` proves for messages of any length over any bytes:

* `TableRight`: a round is linear over xor, and eight rounds of a word with an empty
  low byte are a shift, so the rounds of a word are the table's entry for its low
  byte xor the word shifted.
* `WordsOf32Bits`: the checksums stay 32-bit words.
* `AlteredByteAlwaysNoticed`: a round can be undone, since the highest bit of its result
  tells whether the polynomial was added. So `Update` is injective in the word and
  in the byte, and two words that differ go on to differ.

`BTree_proofs` proves, for any number of pages, any keys and any sizes that meet the
assumptions (the lemmas on the slot functions of `IndexPage` come first):

* `BTreeTyped`, `SlotIdsOnce`, `SlotSpaceAccounted`, `LeavesStayChained`, `AnswersStayTrue` and
  `CallsKeepOtherRows`, all from one invariant `IInv`. Its core is `PageOK`, the books of
  one page, which every slot function preserves (`PutSlotOK` and its like), together with
  `KeptApart`: until a page is torn its directory ends before its data. `PageGranted` says what
  an answer of `get_free_page` may be; `ChainStable` and `ChainCleared` keep the chain over
  the calls that move no sibling and over a page that is cleared, `SplitStarted` over a
  split, where a page that was not in use takes over the old sibling. An answer outlives
  a delete because a delete takes the first row of its span, and the answer is dropped when
  the two spans share a key (`DeletedRow`). The
  split needs a part of its own: `SplitEnd` sets `total_slots` to half of the old count,
  so at least that many slots must be left. The proof follows the loop (`SplitRuns`:
  slots left and the loop's index together are at least one and a half times the
  count; a leaf that was given to its own split has no slots and nothing to move).
* `ScansCoverTheLeaves`, from `IInv` and `ScanOK`: behind an undisturbed scan lies a set
  of leaves whose siblings are in the set or are the leaf the scan is on, all of whose readable
  slots were returned, and on that leaf the slots below its own were. At the end of the chain
  that set is closed under siblings, so it holds every leaf; that a chain ends is not
  needed, as a scan of one that closes on itself never gets there.
* Assumed are `PageIsShort` (fewer than 255 slots' data fit a page, so an 8-bit id
  never wraps; with the code's sizes 173 do) and `SlotHasRoom` (a page under the threshold has
  room for a slot); both hold for the sizes in `constants.h`. The keys asked for are spans of
  stored keys (`AskedAreSpans`).

`Tokenizer_proofs` proves, for any characters, keywords and length of text:

* `TypesHold`, `TextCovered`, `WordsStayWhole`, `RefusalExplained` and `LiteralsAreKept`, from one
  invariant `IInv`: where the program is says how far it has come (`Where`), and what was
  done so far is good (`Good`). Each token is the longest match at its place (`Taken`), only
  blanks are between them (`Covered`), no literal is open at the position, except that
  a quote left open has no other behind it (`Balanced`), and up to there
  the characters in literals are those of the varchar tokens (`LiteralsSoFar`). A round
  keeps `Balanced` because a quote that opens a literal and has another behind it has a match, and
  the longest one ends at a quote that no quote follows.
* Assumed is `ClassesApart`: no character is in two of the classes the tests tell apart.

`Compiler_proofs` proves, for any names, literals, texts and length of lists:

* `ParserReads`: the invariant `Kept /\ Read` of the parser. `Shape` says for each of
  the parser's places which sentence, as far as it goes, the tokens that lead there spell, and
  `Read` that the statement built is the meaning of that sentence. The step of each place
  leads from its shape to the next one's, the loops over columns and values included, and
  what a token adds to the statement is the meaning of what it adds to the sentence
  (`NotedIsMeant`), which is where `atoi` comes in.
* `AcceptedAsWritten` is that shape at the accepting places, `TypesHold` follows from it
  and from the generator's programs having at most one instruction per column and four
  more.
* `ProgramsTellApart`: of two programs of statements, whose numbers are ints, that are equal the opcodes give the kind of the
  statements, the operands the table, the columns and the flags.
* `RefusedInTime`: a token stream takes the parser one way only (`GoesOneWay`), and
  every spelling leads to its end place (`SpellingReached`). Not too early: where the
  parser has a move, the tokens so far and this one begin some statement (`Possible`),
  since from every place the parser can reach an end (`CanEnd`). Not too late: a stream
  that begins a statement takes the parser along that statement's places, where it has a
  move (invariant `Led`).
* Assumed is that there is at least one name and one number, without which a statement
  begun could have no end, and of `atoi` only that it makes some int of every number.

`SeqLemmas` has what several of these need: induction over the natural numbers and over
the levels of a loop, for the set of the numbers with the property (from the library's
theorem that `<` is well founded), and what appending, inserting and removing do to a
sequence.

Assumed throughout: the `ASSUME`s of the modules, evaluated by TLC in every run that reaches
them. Six theorems have a hypothesis of their own, named above: `0 \notin Pages`
(`PopMinIsExact`, `TreeImplementsSet`), `FileFits` (`CatalogNeverOffered`) and `DataCallers`
(`PagesHeldOnce`, `FreePagesUnused`, `HighestBounds`). The constants of the runs that check the
same properties meet them.

Every invariant and action property of a passing run is proved. Only model-checked is
`AlwaysReturns`, that `tokenize` ends for every text: liveness under fairness is beyond
the provers, as is `ENABLED`. The four violation runs are counterexamples and stay with TLC.

## Not modelled

* Virtual machine: `vm_engine` is left out of the build. `psql_step` returns no value,
  its handlers only print, BEGIN, COMMIT, ROLLBACK and NOP have no entry in the
  jump table, HALT sets a status equal to the busy one, nothing calls it and
  nothing tells it how long a program is. There is no behaviour to promise yet.
* `vacuum_page`: nothing calls it, it lays the new slot table over the compacted data
  and reads the table at an offset no other function keeps.
* The catalog, data pages and overflow pages: declared only.
* `btree_destroy` and the branches for internal pages: no caller can name an internal
  root. The rebalancing of `btree_delete` below a parent follows once a caller keeps the root a
  split makes.
* `allocate_page` clears two bytes more than a page; page contents are not in
  `FreeSpace`.
* The header's checksum and the answer of `pager_verify_db`, which nothing uses.
* What calls do on an index page whose directory and data overlap, or whose list of freed
  slots has run into its sibling: the model shows that such pages arise and stops there.
* The arena (vendored) and `main.old.c` (superseded, not built).

Next, when the code gets there: a `Storage` module that composes `Journal`, `FreeSpace` and
`BTree` under the transactions the generator emits, which nothing binds at this commit.
