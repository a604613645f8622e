------------------------------ MODULE Journal ------------------------------
(***************************************************************************)
(* The rollback journal, src/pager/journal/journal.c: a file that holds a  *)
(* header (the highest transaction id and its checksum) and the page       *)
(* images of the open transactions, and the static variables through which *)
(* a process reaches it.  The file is mapped MAP_SHARED, so it keeps every *)
(* store of a process that dies.                                           *)
(*                                                                         *)
(* ftruncate and msync may fail, and mmap may fail once the old mapping is *)
(* gone; munmap of a live mapping does not.  The caller is to be the VM:   *)
(* it may make any call with any transaction id from TxnIds.               *)
(***************************************************************************)
EXTENDS Integers, Sequences

CONSTANTS
    TXN_IDS,        \* transaction ids are computed modulo TXN_IDS (2^32)
    TxnIds,         \* the ids the caller uses; it counts from 1
    PageNos,        \* the pages it journals
    AlignedAt,      \* the entry counts whose end is a multiple of the OS page
    MaxEntries      \* bound of the model: entries in the file

\* The header is 24 bytes long, so the first entry never starts on an OS page.
ASSUME JournalAssumption ==
    /\ TXN_IDS \in Nat \ {0} /\ TxnIds \subseteq 1 .. TXN_IDS - 1
    /\ PageNos \subseteq Nat \ {0}
    /\ AlignedAt \subseteq Nat \ {0}
    /\ MaxEntries \in Nat

VARIABLES
    entries,            \* file: the journal entries behind the header
    highest_txn_id,     \* file: header field
    sealed,             \* file: the header's checksum is that of its fields
    journal_fd,         \* process: the file is open
    journal_mem,        \* process: and mapped
    journal_size,       \* process: what it takes for the number of entries
    status              \* what the last call returned

file    == <<entries, highest_txn_id, sealed>>
process == <<journal_fd, journal_mem, journal_size>>
vars    == <<file, process, status>>

Ids == 0 .. TXN_IDS - 1

\* An entry is whole once its page image is in it.
Entry(txn, page, whole) == [txn |-> txn, page |-> page, whole |-> whole]

Attached == journal_fd /\ journal_mem

Returns(s) == status' = s

Contiguous(txn) == txn = (highest_txn_id + 1) % TXN_IDS

\* Mutants: the size is not taken back to the header's, or is the header's
\* whatever the file holds; every journal is taken for a new one.
StaleSize == journal_size
SizeOfHeader == 0
AlwaysNew == TRUE

\* journal_size once the file is truncated, and as fstat reports it.
TruncatedSize == 0
FileSize == Len(entries)

\* journal_init: the file is no longer than a header.
IsNew == entries = <<>>

----------------------------------------------------------------------------
\* A file that is empty or all header is (re)initialised when it is opened.
Init ==
    /\ entries = <<>> /\ highest_txn_id = 0 /\ sealed = TRUE
    /\ journal_fd = FALSE /\ journal_mem = FALSE /\ journal_size = 0
    /\ status = "PSQL_OK"

\* A header without entries is written anew, one with entries is verified.
\* The caller opens one journal at a time: nothing in the code stops a second call.
journal_init ==
    /\ ~Attached
    /\ IF IsNew
       THEN /\ highest_txn_id' = 0 /\ sealed' = TRUE
            /\ Returns("PSQL_OK")
       ELSE /\ UNCHANGED <<highest_txn_id, sealed>>
            /\ Returns(IF sealed THEN "PSQL_OK" ELSE "PSQL_CORRUPT")
    /\ journal_fd' = (status' = "PSQL_OK") /\ journal_mem' = (status' = "PSQL_OK")
    /\ journal_size' = FileSize
    /\ UNCHANGED entries

\* open, fstat, ftruncate or mmap fails, or the msync of a new header.
journal_init_fails ==
    /\ ~Attached
    /\ \/ UNCHANGED file
       \/ IsNew /\ highest_txn_id' = 0 /\ sealed' = TRUE /\ UNCHANGED entries
    /\ journal_fd' = FALSE /\ journal_mem' = FALSE
    /\ journal_size' \in {journal_size, FileSize}
    /\ Returns("PSQL_IOERR")

\* Mutant: journal_mem is not reset.
CloseKeepsMem ==
    /\ Attached
    /\ journal_fd' = FALSE /\ journal_size' = 0
    /\ Returns("PSQL_OK") /\ UNCHANGED <<file, journal_mem>>

journal_close ==
    /\ Attached
    /\ journal_fd' = FALSE /\ journal_mem' = FALSE /\ journal_size' = 0
    /\ Returns("PSQL_OK") /\ UNCHANGED file

\* "Already closed": without a mapping there is nothing to do.
journal_close_unmapped ==
    /\ ~Attached
    /\ Returns("PSQL_OK") /\ UNCHANGED <<file, process>>

\* Mutant: the checksum is not renewed.
BeginUnsealed(txn) ==
    /\ Attached
    /\ IF Contiguous(txn) THEN UNCHANGED <<entries, journal_size>>
       ELSE entries' = <<>> /\ journal_size' = TruncatedSize
    /\ highest_txn_id' = txn /\ sealed' = FALSE
    /\ Returns("PSQL_OK")
    /\ UNCHANGED <<journal_fd, journal_mem>>

\* A non-contiguous id clears the journal first.  The final msync may fail.
journal_begin_transaction(txn) ==
    /\ Attached
    /\ IF Contiguous(txn) THEN UNCHANGED <<entries, journal_size>>
       ELSE entries' = <<>> /\ journal_size' = TruncatedSize
    /\ highest_txn_id' = txn /\ sealed' = TRUE
    /\ \/ Returns("PSQL_OK")
       \/ Returns("PSQL_IOERR")
    /\ UNCHANGED <<journal_fd, journal_mem>>

\* The entry goes where the process believes the file to end.  The msync that
\* follows starts at that entry: unless it starts an OS page, it fails.
journal_add_page(txn, page) ==
    /\ Attached /\ txn = highest_txn_id
    /\ journal_size < MaxEntries
    /\ entries' = [i \in 1 .. journal_size + 1 |->
                       IF i = journal_size + 1 THEN Entry(txn, page, TRUE)
                       ELSE IF i \in DOMAIN entries THEN entries[i]
                       ELSE Entry(0, 0, FALSE)]
    /\ journal_size' = journal_size + 1
    /\ Returns(IF journal_size \in AlignedAt THEN "PSQL_OK" ELSE "PSQL_IOERR")
    /\ UNCHANGED <<highest_txn_id, sealed, journal_fd, journal_mem>>

\* Both truncate the journal to its header, whoever the entries belong to.
Truncate(txn, highest) ==
    /\ Attached /\ txn = highest_txn_id
    /\ entries' = <<>> /\ journal_size' = TruncatedSize
    /\ highest_txn_id' = highest /\ sealed' = TRUE
    /\ \/ Returns("PSQL_OK")
       \/ Returns("PSQL_IOERR")
    /\ UNCHANGED <<journal_fd, journal_mem>>

journal_commit_transaction(txn) == Truncate(txn, txn)

journal_rollback_transaction(txn) == Truncate(txn, (txn - 1) % TXN_IDS)

\* journal_is_valid_transaction changes nothing but answers.
journal_is_valid_transaction(txn) ==
    /\ Returns(IF Attached /\ Contiguous(txn) THEN "PSQL_OK" ELSE "PSQL_ERROR")
    /\ UNCHANGED <<file, process>>

\* Calls without a mapping, or for a transaction that is not the highest.
Refused(txn) ==
    /\ ~Attached \/ txn # highest_txn_id
    /\ Returns("PSQL_ERROR") /\ UNCHANGED <<file, process>>

\* ftruncate, or the msync of journal_close, fails before anything is done.
FailsFirst ==
    /\ Attached
    /\ Returns("PSQL_IOERR") /\ UNCHANGED <<file, process>>

\* mmap fails after ftruncate and munmap: the descriptor stays open, the
\* header as it was.
AddPageUnmapped(txn) ==
    /\ Attached /\ txn = highest_txn_id /\ journal_size < MaxEntries
    /\ entries' = Append(entries, Entry(0, 0, FALSE))
    /\ journal_mem' = FALSE
    /\ Returns("PSQL_IOERR")
    /\ UNCHANGED <<highest_txn_id, sealed, journal_fd, journal_size>>

TruncateUnmapped(txn) ==
    /\ Attached /\ txn = highest_txn_id
    /\ entries' = <<>>
    /\ journal_mem' = FALSE /\ journal_size' = TruncatedSize
    /\ Returns("PSQL_IOERR")
    /\ UNCHANGED <<highest_txn_id, sealed, journal_fd>>

----------------------------------------------------------------------------
(* The process dies: between calls, or between two stores of one.          *)

ProcessGone ==
    /\ journal_fd' = FALSE /\ journal_mem' = FALSE /\ journal_size' = 0
    /\ UNCHANGED status

Crash == journal_fd /\ ProcessGone /\ UNCHANGED file

\* journal_init sets the checksum to 0 while it computes the one to expect.
CrashInInit ==
    /\ ~Attached /\ entries # <<>>
    /\ sealed' = FALSE
    /\ ProcessGone /\ UNCHANGED <<entries, highest_txn_id>>

\* The journal is cleared, the id steps back, the id is set, each store before
\* the checksum is renewed; it still fits an id that was the highest before.
CrashInBegin(txn) ==
    /\ Attached
    /\ entries' = IF Contiguous(txn) THEN entries ELSE <<>>
    /\ \/ ~Contiguous(txn) /\ UNCHANGED <<highest_txn_id, sealed>>
       \/ ~Contiguous(txn) /\ highest_txn_id' = (txn - 1) % TXN_IDS /\ sealed' = FALSE
       \/ highest_txn_id' = txn /\ sealed' = (sealed /\ txn = highest_txn_id)
    /\ ProcessGone

\* The file has grown, the new entry is not filled in to the end.
CrashInAdd(txn, page) ==
    /\ Attached /\ txn = highest_txn_id /\ journal_size < MaxEntries
    /\ \E torn \in {Entry(0, 0, FALSE), Entry(txn, 0, FALSE), Entry(txn, page, FALSE)} :
           entries' = Append(entries, torn)
    /\ ProcessGone /\ UNCHANGED <<highest_txn_id, sealed>>

\* The entries are gone, the header is not yet updated, or not yet sealed.
CrashInTruncate(txn) ==
    /\ Attached /\ txn = highest_txn_id
    /\ entries' = <<>>
    /\ \/ UNCHANGED <<highest_txn_id, sealed>>
       \/ highest_txn_id' = (txn - 1) % TXN_IDS /\ sealed' = FALSE
    /\ ProcessGone

Next ==
    \/ journal_init \/ journal_init_fails \/ journal_close \/ journal_close_unmapped
    \/ FailsFirst \/ Crash \/ CrashInInit
    \/ \E txn \in TxnIds :
           \/ journal_begin_transaction(txn) \/ journal_is_valid_transaction(txn)
           \/ journal_commit_transaction(txn) \/ journal_rollback_transaction(txn)
           \/ Refused(txn) \/ AddPageUnmapped(txn) \/ TruncateUnmapped(txn)
           \/ CrashInBegin(txn) \/ CrashInTruncate(txn)
           \/ \E page \in PageNos : journal_add_page(txn, page) \/ CrashInAdd(txn, page)

Spec == Init /\ [][Next]_vars

----------------------------------------------------------------------------
TypeOK ==
    /\ entries \in Seq([txn : Ids, page : PageNos \cup {0}, whole : BOOLEAN])
    /\ highest_txn_id \in Ids
    /\ sealed \in BOOLEAN
    /\ journal_fd \in BOOLEAN /\ journal_mem \in BOOLEAN /\ (journal_mem => journal_fd)
    /\ journal_size \in Nat
    /\ status \in {"PSQL_OK", "PSQL_ERROR", "PSQL_IOERR", "PSQL_CORRUPT"}

\* The process and the file agree on where the journal ends, after every
\* failed call, crash and reopening: journal_add_page writes there.
SizeMatchesFile == Attached => journal_size = Len(entries)

\* The images stand in the order of their transactions, and none belongs to a
\* transaction above the header's: the whole ones, applied backwards, restore
\* the state before the oldest of them.  (The caller counts from 1 and stops
\* at TXN_IDS - 1: the step of highest_txn_id to 0 would break the order.)
EntriesOrdered ==
    /\ \A i \in DOMAIN entries : entries[i].txn <= highest_txn_id
    /\ \A i, j \in DOMAIN entries :
           i < j /\ entries[i].whole /\ entries[j].whole => entries[i].txn <= entries[j].txn

\* journal_init accepts a header without entries or with a valid checksum.
Readable == entries = <<>> \/ sealed

\* Whatever system call fails in it, a call that returns leaves a journal that
\* journal_init accepts; only a process that dies inside journal_init or
\* journal_begin_transaction leaves one that every later journal_init refuses.
CallsKeepJournalReadable ==
    [][Readable /\ ~Readable' =>
          CrashInInit \/ \E txn \in TxnIds : CrashInBegin(txn)]_vars

\* The calls that clear the journal: the end of its highest transaction, or an
\* id that does not follow the highest one.
Cleared(txn) ==
    \/ journal_commit_transaction(txn) \/ journal_rollback_transaction(txn)
    \/ TruncateUnmapped(txn) \/ CrashInTruncate(txn)
    \/ /\ txn # (highest_txn_id + 1) % TXN_IDS
       /\ journal_begin_transaction(txn) \/ CrashInBegin(txn)

\* A page image once in the journal stays where it is, across failed calls,
\* crashes and reopening, until one of those calls.
ImagesKept ==
    [][\/ /\ Len(entries) <= Len(entries')
          /\ \A i \in DOMAIN entries : entries'[i] = entries[i]
       \/ \E txn \in TxnIds : Cleared(txn)]_vars

----------------------------------------------------------------------------
(* What the comments of the code say and the code does not do.             *)

\* journal_rollback_transaction: "Rollback a transaction - 1 transaction at a
\* time", "call this more than once" for several: the whole images of the
\* transactions below the one rolled back are what the next call needs.
RollbackUndoesOneTransaction ==
    [][\A txn \in TxnIds :
          journal_rollback_transaction(txn) =>
              \A i \in DOMAIN entries : entries[i].whole /\ entries[i].txn < txn =>
                  \E j \in DOMAIN entries' : entries'[j] = entries[i]]_vars
=============================================================================
