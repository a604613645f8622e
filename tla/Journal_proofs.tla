--------------------------- MODULE Journal_proofs ---------------------------
(***************************************************************************)
(* Proofs about Journal, for any set of transaction ids below the wrap,    *)
(* any pages, any entry size and any number of entries.  The inductive     *)
(* invariant is the conjunction of the three that TLC checks: to write     *)
(* where the journal ends the process must know its size, and to stay      *)
(* ordered the journal must be written at its end only.                    *)
(***************************************************************************)
EXTENDS Journal, SequenceTheorems, TLAPS

EntrySet == [txn : Ids, page : PageNos \cup {0}, whole : BOOLEAN]

ScalarsOK ==
    /\ highest_txn_id \in Ids /\ sealed \in BOOLEAN
    /\ journal_fd \in BOOLEAN /\ journal_mem \in BOOLEAN /\ (journal_mem => journal_fd)
    /\ journal_size \in Nat
    /\ status \in {"PSQL_OK", "PSQL_ERROR", "PSQL_IOERR", "PSQL_CORRUPT"}

\* The type invariant, with the set of entries by name.
LEMMA TypeSplit ==
    /\ TypeOK <=> entries \in Seq(EntrySet) /\ ScalarsOK
    /\ TypeOK' <=> entries' \in Seq(EntrySet) /\ ScalarsOK'
BY DEF TypeOK, ScalarsOK, EntrySet

\* The increment and the decrement of a transaction id stay inside the 32 bits.
LEMMA IdArithmetic ==
    /\ \A a \in Ids : (a + 1) % TXN_IDS \in Ids
    /\ \A a \in Ids : (a + 1) % TXN_IDS # 0 => (a + 1) % TXN_IDS = a + 1
    /\ \A a \in TxnIds : (a - 1) % TXN_IDS = a - 1 /\ a - 1 \in Ids
    /\ TxnIds \subseteq Ids /\ 0 \in Ids
<1> USE JournalAssumption DEF Ids
<1>1. \A a, b \in Nat : a < b => a % b = a
  OBVIOUS
<1>2. \A b \in Nat \ {0} : b % b = 0
  OBVIOUS
<1>3. ASSUME NEW a \in Ids
      PROVE  (a + 1) % TXN_IDS \in Ids /\ ((a + 1) % TXN_IDS # 0 => (a + 1) % TXN_IDS = a + 1)
  <2>1. CASE a + 1 < TXN_IDS
    <3>1. (a + 1) % TXN_IDS = a + 1
      BY <1>1, <2>1
    <3> QED BY <3>1, <2>1
  <2>2. CASE a + 1 = TXN_IDS
    <3>1. (a + 1) % TXN_IDS = 0
      BY <1>2, <2>2
    <3> QED BY <3>1
  <2> QED BY <2>1, <2>2
<1>4. ASSUME NEW a \in TxnIds
      PROVE  (a - 1) % TXN_IDS = a - 1 /\ a - 1 \in Ids
  <2>1. a - 1 \in Nat /\ a - 1 < TXN_IDS
    OBVIOUS
  <2> QED BY <1>1, <2>1
<1> QED BY <1>3, <1>4

\* An id that follows the highest one is larger by one: the caller never uses
\* the id 0 that the wrap leads to.
LEMMA ContiguousIsNext ==
    ASSUME highest_txn_id \in Ids, NEW txn \in TxnIds, Contiguous(txn)
    PROVE  txn = highest_txn_id + 1
<1>1. txn # 0
  BY JournalAssumption
<1> QED BY <1>1, IdArithmetic DEF Contiguous

\* A sequence of entries grows by one entry at its end.
LEMMA AppendEntry ==
    ASSUME NEW s \in Seq(EntrySet), NEW e \in EntrySet
    PROVE  /\ Append(s, e) \in Seq(EntrySet)
           /\ Len(Append(s, e)) = Len(s) + 1
           /\ \A i \in DOMAIN s : Append(s, e)[i] = s[i]
           /\ Append(s, e)[Len(s) + 1] = e
           /\ DOMAIN Append(s, e) = 1 .. Len(s) + 1
           /\ DOMAIN s = 1 .. Len(s)
OBVIOUS

\* Where journal_size is right, journal_add_page appends.
LEMMA AddAppends ==
    ASSUME TypeOK, SizeMatchesFile, NEW txn \in TxnIds, NEW page \in PageNos,
           journal_add_page(txn, page)
    PROVE  entries' = Append(entries, Entry(txn, page, TRUE))
<1> DEFINE e == Entry(txn, page, TRUE)
           n == Len(entries)
<1>1. entries \in Seq(EntrySet)
  BY DEF TypeOK, EntrySet
<1>2. journal_size = n
  BY DEF journal_add_page, SizeMatchesFile
<1>3. n \in Nat /\ DOMAIN entries = 1 .. n
  BY <1>1
<1>4. entries' = [i \in 1 .. n + 1 |-> IF i = n + 1 THEN e
                                      ELSE IF i \in DOMAIN entries THEN entries[i]
                                      ELSE Entry(0, 0, FALSE)]
  BY <1>2 DEF journal_add_page
<1>5. Append(entries, e) = [i \in 1 .. n + 1 |-> IF i = n + 1 THEN e ELSE entries[i]]
  <2> DEFINE t == Append(entries, e)
  <2>1. e \in EntrySet
    BY IdArithmetic DEF Entry, EntrySet
  <2> HIDE DEF e
  <2>2. /\ t \in Seq(EntrySet) /\ Len(t) = n + 1
        /\ t[n + 1] = e /\ \A i \in 1 .. n : t[i] = entries[i]
    BY <1>1, <2>1, AppendEntry
  <2>3. t \in [1 .. n + 1 -> EntrySet]
    BY <2>2, LenProperties
  <2>4. \A i \in 1 .. n + 1 : t[i] = IF i = n + 1 THEN e ELSE entries[i]
    BY <1>3, <2>2
  <2> HIDE DEF t, n
  <2>5. t = [i \in 1 .. n + 1 |-> t[i]]
    BY <2>3
  <2>6. t = [i \in 1 .. n + 1 |-> IF i = n + 1 THEN e ELSE entries[i]]
    BY <2>4, <2>5
  <2> QED BY <2>6 DEF t
<1>6. \A i \in 1 .. n + 1 : i = n + 1 \/ i \in DOMAIN entries
  BY <1>3
<1> HIDE DEF e, n
<1>7. [i \in 1 .. n + 1 |-> IF i = n + 1 THEN e
                             ELSE IF i \in DOMAIN entries THEN entries[i]
                             ELSE Entry(0, 0, FALSE)]
        = [i \in 1 .. n + 1 |-> IF i = n + 1 THEN e ELSE entries[i]]
  BY <1>6
<1> QED BY <1>4, <1>5, <1>7 DEF e

\* An entry of the highest transaction, or of none, keeps the order.
LEMMA AppendKeepsOrder ==
    ASSUME TypeOK, EntriesOrdered, NEW e \in EntrySet,
           e.txn = highest_txn_id \/ (e.txn = 0 /\ ~e.whole),
           entries' = Append(entries, e), highest_txn_id' = highest_txn_id
    PROVE  EntriesOrdered'
<1>1. entries \in Seq(EntrySet)
  BY DEF TypeOK, EntrySet
<1>2. highest_txn_id \in Nat
  BY JournalAssumption DEF TypeOK, Ids
<1>3. e.txn <= highest_txn_id
  BY <1>2
<1> DEFINE n == Len(entries)
<1>4. /\ n \in Nat /\ DOMAIN entries = 1 .. n /\ DOMAIN entries' = 1 .. n + 1
      /\ \A i \in 1 .. n : entries'[i] = entries[i]
      /\ entries'[n + 1] = e
  BY <1>1, AppendEntry
<1>5. \A i \in DOMAIN entries' : entries'[i].txn <= highest_txn_id'
  <2> SUFFICES ASSUME NEW i \in 1 .. n + 1 PROVE entries'[i].txn <= highest_txn_id
    BY <1>4
  <2>1. CASE i = n + 1
    BY <2>1, <1>3, <1>4
  <2>2. CASE i \in 1 .. n
    BY <2>2, <1>4 DEF EntriesOrdered
  <2> QED BY <2>1, <2>2, <1>4
<1>6. \A i, j \in DOMAIN entries' :
          i < j /\ entries'[i].whole /\ entries'[j].whole => entries'[i].txn <= entries'[j].txn
  <2> SUFFICES ASSUME NEW i \in 1 .. n + 1, NEW j \in 1 .. n + 1, i < j,
                      entries'[i].whole, entries'[j].whole
               PROVE  entries'[i].txn <= entries'[j].txn
    BY <1>4
  <2>1. i \in 1 .. n /\ entries'[i] = entries[i]
    BY <1>4
  <2>2. CASE j = n + 1
    <3>1. e.txn = highest_txn_id
      BY <2>2, <1>4
    <3>2. entries[i].txn <= highest_txn_id
      BY <2>1, <1>4 DEF EntriesOrdered
    <3> QED BY <2>1, <2>2, <3>1, <3>2, <1>4
  <2>3. CASE j \in 1 .. n
    BY <2>1, <2>3, <1>4 DEF EntriesOrdered
  <2> QED BY <2>2, <2>3, <1>4
<1> QED BY <1>5, <1>6 DEF EntriesOrdered

\* A journal without entries is in order and has its size.
LEMMA EmptyIsOrdered ==
    ASSUME entries' = <<>>
    PROVE  EntriesOrdered' /\ Len(entries') = 0
BY DEF EntriesOrdered

JInv == TypeOK /\ SizeMatchesFile /\ EntriesOrdered

\* The empty journal before its first use.
LEMMA JInvInit == Init => JInv
<1> SUFFICES ASSUME Init PROVE JInv
  OBVIOUS
<1>1. TypeOK
  <2>1. entries \in Seq(EntrySet)
    BY DEF Init
  <2>2. ScalarsOK
    BY IdArithmetic DEF Init, ScalarsOK
  <2> QED BY <2>1, <2>2, TypeSplit
<1>2. SizeMatchesFile /\ EntriesOrdered
  BY DEF Init, SizeMatchesFile, Attached, EntriesOrdered
<1> QED BY <1>1, <1>2 DEF JInv

\* Calls and crashes that leave the journal's entries and highest id alone:
\* the order stands.
LEMMA OrderStands ==
    ASSUME EntriesOrdered, UNCHANGED <<entries, highest_txn_id>>
    PROVE  EntriesOrdered'
BY DEF EntriesOrdered

\* Opening and closing the journal.
LEMMA OpenCloseStep ==
    ASSUME JInv, journal_init \/ journal_init_fails \/ journal_close \/ journal_close_unmapped
    PROVE  JInv'
<1>1. entries \in Seq(EntrySet) /\ Len(entries) \in Nat /\ ScalarsOK
  BY TypeSplit DEF JInv
<1>2. CASE journal_init
  <2>1. TypeOK'
    <3>1. ScalarsOK'
      BY <1>1, <1>2, IdArithmetic DEF ScalarsOK, journal_init, IsNew, FileSize, Returns
    <3>2. entries' = entries
      BY <1>2 DEF journal_init, IsNew, FileSize, Returns
    <3> QED BY <1>1, <3>1, <3>2, TypeSplit
  <2>2. SizeMatchesFile'
    BY <1>2 DEF journal_init, FileSize, SizeMatchesFile
  <2>3. EntriesOrdered'
    BY <1>2, EmptyIsOrdered, OrderStands DEF JInv, journal_init, IsNew
  <2> QED BY <2>1, <2>2, <2>3 DEF JInv
<1>3. CASE journal_init_fails
  <2>1. TypeOK'
    <3>1. ScalarsOK'
      BY <1>1, <1>3, IdArithmetic DEF ScalarsOK, journal_init_fails, IsNew, FileSize, Returns, file
    <3>2. entries' = entries
      BY <1>3 DEF journal_init_fails, IsNew, FileSize, Returns, file
    <3> QED BY <1>1, <3>1, <3>2, TypeSplit
  <2>2. SizeMatchesFile'
    BY <1>3 DEF journal_init_fails, SizeMatchesFile, Attached
  <2>3. EntriesOrdered'
    BY <1>3, EmptyIsOrdered, OrderStands DEF JInv, journal_init_fails, IsNew, file
  <2> QED BY <2>1, <2>2, <2>3 DEF JInv
<1>4. CASE journal_close
  <2>1. TypeOK'
    <3>1. ScalarsOK'
      BY <1>1, <1>4 DEF ScalarsOK, journal_close, Returns, file
    <3>2. entries' = entries
      BY <1>4 DEF journal_close, Returns, file
    <3> QED BY <1>1, <3>1, <3>2, TypeSplit
  <2>2. SizeMatchesFile'
    BY <1>4 DEF journal_close, SizeMatchesFile, Attached
  <2>3. EntriesOrdered'
    BY <1>4, OrderStands DEF JInv, journal_close, file
  <2> QED BY <2>1, <2>2, <2>3 DEF JInv
<1>5. CASE journal_close_unmapped
  <2>1. TypeOK'
    <3>1. ScalarsOK'
      BY <1>1, <1>5 DEF ScalarsOK, journal_close_unmapped, Returns, file, process
    <3>2. entries' = entries
      BY <1>5 DEF journal_close_unmapped, Returns, file, process
    <3> QED BY <1>1, <3>1, <3>2, TypeSplit
  <2>2. SizeMatchesFile'
    BY <1>5 DEF JInv, journal_close_unmapped, SizeMatchesFile, Attached, file, process
  <2>3. EntriesOrdered'
    BY <1>5, OrderStands DEF JInv, journal_close_unmapped, file
  <2> QED BY <2>1, <2>2, <2>3 DEF JInv
<1> QED BY <1>2, <1>3, <1>4, <1>5

\* A new transaction follows the highest one or clears the journal.
LEMMA BeginStep ==
    ASSUME JInv, NEW txn \in TxnIds, journal_begin_transaction(txn) \/ CrashInBegin(txn)
    PROVE  JInv'
<1>1. entries \in Seq(EntrySet) /\ ScalarsOK
  BY TypeSplit DEF JInv
<1>2. \/ Contiguous(txn) /\ entries' = entries /\ highest_txn_id' = txn
      \/ entries' = <<>>
  BY DEF journal_begin_transaction, CrashInBegin
<1>3. EntriesOrdered'
  <2>1. CASE Contiguous(txn) /\ entries' = entries /\ highest_txn_id' = txn
    <3>1. txn = highest_txn_id + 1
      BY <1>1, <2>1, ContiguousIsNext DEF ScalarsOK
    <3>2. highest_txn_id \in Nat /\ \A i \in DOMAIN entries : entries[i].txn \in Nat
      <4>1. \A e \in EntrySet : e.txn \in Nat
        BY JournalAssumption DEF EntrySet, Ids
      <4>2. \A i \in DOMAIN entries : entries[i] \in EntrySet
        BY <1>1
      <4>3. highest_txn_id \in Nat
        BY <1>1, JournalAssumption DEF ScalarsOK, Ids
      <4> QED BY <4>1, <4>2, <4>3
    <3>3. \A i \in DOMAIN entries : entries[i].txn <= highest_txn_id + 1
      BY <3>2 DEF JInv, EntriesOrdered
    <3> QED BY <2>1, <3>1, <3>3 DEF JInv, EntriesOrdered
  <2>2. CASE entries' = <<>>
    BY <2>2, EmptyIsOrdered
  <2> QED BY <1>2, <2>1, <2>2
<1>4. TypeOK'
  <2>1. entries' \in Seq(EntrySet)
    <3>1. <<>> \in Seq(EntrySet) /\ (entries' = entries \/ entries' = <<>>)
      BY <1>2
    <3> QED BY <1>1, <3>1
  <2>2. highest_txn_id' \in Ids
    <3>1. txn \in Ids /\ (txn - 1) % TXN_IDS \in Ids
      BY IdArithmetic
    <3>2. \/ highest_txn_id' = txn \/ highest_txn_id' = (txn - 1) % TXN_IDS
          \/ highest_txn_id' = highest_txn_id
      BY DEF journal_begin_transaction, CrashInBegin
    <3> QED BY <1>1, <3>1, <3>2 DEF ScalarsOK
  <2>3. ScalarsOK'
    <3>1. CASE journal_begin_transaction(txn)
      <4>1. sealed' \in BOOLEAN
        BY <3>1 DEF journal_begin_transaction
      <4>2. journal_size' \in Nat
        BY <1>1, <3>1 DEF ScalarsOK, journal_begin_transaction, TruncatedSize
      <4>3. UNCHANGED <<journal_fd, journal_mem>>
        BY <3>1 DEF journal_begin_transaction
      <4>4. status' \in {"PSQL_OK", "PSQL_IOERR"}
        BY <3>1 DEF journal_begin_transaction, Returns
      <4> QED BY <1>1, <2>2, <4>1, <4>2, <4>3, <4>4 DEF ScalarsOK
    <3>2. CASE CrashInBegin(txn)
      <4>1. sealed' \in BOOLEAN
        BY <1>1, <3>2 DEF ScalarsOK, CrashInBegin
      <4>2. ProcessGone
        BY <3>2 DEF CrashInBegin
      <4> QED BY <1>1, <2>2, <4>1, <4>2 DEF ScalarsOK, ProcessGone
    <3> QED BY <3>1, <3>2
  <2> QED BY <2>1, <2>3, TypeSplit
<1>5. SizeMatchesFile'
  BY DEF JInv, journal_begin_transaction, CrashInBegin, ProcessGone, SizeMatchesFile,
         Attached, TruncatedSize
<1> QED BY <1>3, <1>4, <1>5 DEF JInv

\* An entry is added whole, or is left behind by a failed or cut call.
LEMMA AddStep ==
    ASSUME JInv, NEW txn \in TxnIds,
           \/ AddPageUnmapped(txn)
           \/ \E page \in PageNos : journal_add_page(txn, page) \/ CrashInAdd(txn, page)
    PROVE  JInv'
<1>1. entries \in Seq(EntrySet) /\ txn \in Ids /\ 0 \in Ids
  BY IdArithmetic, TypeSplit DEF JInv
<1>2. /\ Entry(0, 0, FALSE) \in EntrySet
      /\ Entry(txn, 0, FALSE) \in EntrySet
      /\ \A page \in PageNos : /\ Entry(txn, page, TRUE) \in EntrySet
                                /\ Entry(txn, page, FALSE) \in EntrySet
  BY <1>1 DEF Entry, EntrySet
<1>3. PICK e \in EntrySet :
         /\ entries' = Append(entries, e)
         /\ e.txn = highest_txn_id \/ (e.txn = 0 /\ ~e.whole)
  <2>1. CASE AddPageUnmapped(txn)
    <3>1. Entry(0, 0, FALSE).txn = 0 /\ ~Entry(0, 0, FALSE).whole
      BY DEF Entry
    <3>2. entries' = Append(entries, Entry(0, 0, FALSE))
      BY <2>1 DEF AddPageUnmapped
    <3> QED BY <1>2, <3>1, <3>2
  <2>2. ASSUME NEW page \in PageNos, journal_add_page(txn, page)
        PROVE  \E e \in EntrySet :
                   /\ entries' = Append(entries, e)
                   /\ e.txn = highest_txn_id
    <3>1. entries' = Append(entries, Entry(txn, page, TRUE))
      BY <2>2, AddAppends DEF JInv
    <3>2. Entry(txn, page, TRUE).txn = highest_txn_id
      BY <2>2 DEF journal_add_page, Entry
    <3>3. Entry(txn, page, TRUE) \in EntrySet
      BY <1>2
    <3> QED BY <3>1, <3>2, <3>3
  <2>3. ASSUME NEW page \in PageNos, CrashInAdd(txn, page)
        PROVE  \E e \in EntrySet :
                   /\ entries' = Append(entries, e)
                   /\ e.txn = highest_txn_id \/ (e.txn = 0 /\ ~e.whole)
    <3>1. PICK torn \in {Entry(0, 0, FALSE), Entry(txn, 0, FALSE), Entry(txn, page, FALSE)} :
             entries' = Append(entries, torn)
      BY <2>3 DEF CrashInAdd
    <3>2. torn \in EntrySet
      BY <1>2
    <3>3. torn.txn = txn \/ (torn.txn = 0 /\ ~torn.whole)
      BY DEF Entry
    <3>4. txn = highest_txn_id
      BY <2>3 DEF CrashInAdd
    <3> QED BY <3>1, <3>2, <3>3, <3>4
  <2> QED BY <2>1, <2>2, <2>3
<1>4. highest_txn_id' = highest_txn_id /\ sealed' = sealed
  BY DEF journal_add_page, AddPageUnmapped, CrashInAdd
<1>5. EntriesOrdered'
  BY <1>3, <1>4, AppendKeepsOrder DEF JInv
<1>6. entries' \in Seq(EntrySet) /\ Len(entries') = Len(entries) + 1
  BY <1>1, <1>3, AppendEntry
<1>7. TypeOK'
  <2>1. ScalarsOK
    BY TypeSplit DEF JInv
  <2>2. CASE AddPageUnmapped(txn)
    BY <1>4, <1>6, <2>1, <2>2, TypeSplit DEF ScalarsOK, AddPageUnmapped, Returns
  <2>3. ASSUME NEW page \in PageNos, journal_add_page(txn, page)
        PROVE  TypeOK'
    <3>1. journal_size' \in Nat
      BY <2>1, <2>3 DEF ScalarsOK, journal_add_page
    <3> QED BY <1>4, <1>6, <2>1, <2>3, <3>1, TypeSplit DEF ScalarsOK, journal_add_page, Returns
  <2>4. ASSUME NEW page \in PageNos, CrashInAdd(txn, page)
        PROVE  TypeOK'
    BY <1>4, <1>6, <2>1, <2>4, TypeSplit DEF ScalarsOK, CrashInAdd, ProcessGone
  <2> QED BY <2>2, <2>3, <2>4
<1>8. SizeMatchesFile'
  BY <1>6 DEF JInv, journal_add_page, AddPageUnmapped, CrashInAdd, ProcessGone,
              SizeMatchesFile, Attached
<1> QED BY <1>5, <1>7, <1>8 DEF JInv

\* The journal is cut back to its header.
LEMMA TruncateStep ==
    ASSUME JInv, NEW txn \in TxnIds,
           \/ journal_commit_transaction(txn) \/ journal_rollback_transaction(txn)
           \/ TruncateUnmapped(txn) \/ CrashInTruncate(txn)
    PROVE  JInv'
<1>1. entries' = <<>>
  BY DEF journal_commit_transaction, journal_rollback_transaction, Truncate,
         TruncateUnmapped, CrashInTruncate
<1>2. EntriesOrdered' /\ Len(entries') = 0
  BY <1>1, EmptyIsOrdered
<1>3. TypeOK'
  <2>1. ScalarsOK
    BY TypeSplit DEF JInv
  <2>2. highest_txn_id' \in Ids
    BY <2>1, IdArithmetic
    DEF ScalarsOK, journal_commit_transaction, journal_rollback_transaction, Truncate,
        TruncateUnmapped, CrashInTruncate
  <2>3. ScalarsOK'
    <3>1. ASSUME NEW highest, Truncate(txn, highest) PROVE ScalarsOK'
      <4>1. sealed' \in BOOLEAN /\ journal_size' \in Nat /\ UNCHANGED <<journal_fd, journal_mem>>
        BY <3>1 DEF Truncate, TruncatedSize
      <4>2. status' \in {"PSQL_OK", "PSQL_IOERR"}
        BY <3>1 DEF Truncate, Returns
      <4> QED BY <2>1, <2>2, <4>1, <4>2 DEF ScalarsOK
    <3>2. CASE TruncateUnmapped(txn)
      <4>1. /\ UNCHANGED <<sealed, journal_fd>> /\ journal_mem' = FALSE
            /\ journal_size' = 0 /\ status' = "PSQL_IOERR"
        BY <3>2 DEF TruncateUnmapped, TruncatedSize, Returns
      <4> QED BY <2>1, <2>2, <4>1 DEF ScalarsOK
    <3>3. CASE CrashInTruncate(txn)
      <4>1. sealed' \in BOOLEAN /\ ProcessGone
        BY <2>1, <3>3 DEF ScalarsOK, CrashInTruncate
      <4> QED BY <2>1, <2>2, <4>1 DEF ScalarsOK, ProcessGone
    <3> QED BY <3>1, <3>2, <3>3 DEF journal_commit_transaction, journal_rollback_transaction
  <2>4. entries' \in Seq(EntrySet)
    BY <1>1
  <2> QED BY <2>3, <2>4, TypeSplit
<1>4. SizeMatchesFile'
  BY <1>2 DEF journal_commit_transaction, journal_rollback_transaction, Truncate,
              TruncateUnmapped, CrashInTruncate, ProcessGone, TruncatedSize,
              SizeMatchesFile, Attached
<1> QED BY <1>2, <1>3, <1>4 DEF JInv

\* Calls that only answer, and crashes that touch neither entries nor ids.
LEMMA IdleStep ==
    ASSUME JInv,
           \/ FailsFirst \/ Crash \/ CrashInInit \/ UNCHANGED vars
           \/ \E txn \in TxnIds : journal_is_valid_transaction(txn) \/ Refused(txn)
    PROVE  JInv'
<1>1. UNCHANGED <<entries, highest_txn_id>>
  BY DEF FailsFirst, Crash, CrashInInit, vars, journal_is_valid_transaction, Refused, file
<1>2. EntriesOrdered'
  BY <1>1, OrderStands DEF JInv
<1>3. TypeOK'
  <2>1. entries \in Seq(EntrySet) /\ ScalarsOK
    BY TypeSplit DEF JInv
  <2>2. CASE Crash \/ CrashInInit
    <3>1. sealed' \in BOOLEAN /\ ProcessGone
      BY <2>1, <2>2 DEF ScalarsOK, Crash, CrashInInit, file
    <3>2. ScalarsOK'
      BY <1>1, <2>1, <3>1 DEF ScalarsOK, ProcessGone
    <3> QED BY <1>1, <2>1, <3>2, TypeSplit
  <2>3. CASE FailsFirst \/ \E txn \in TxnIds : Refused(txn)
    BY <2>1, <2>3, TypeSplit DEF ScalarsOK, FailsFirst, Refused, file, process, Returns
  <2>4. CASE \E txn \in TxnIds : journal_is_valid_transaction(txn)
    BY <2>1, <2>4, TypeSplit
    DEF ScalarsOK, journal_is_valid_transaction, file, process, Returns
  <2>5. CASE UNCHANGED vars
    BY <2>1, <2>5, TypeSplit DEF ScalarsOK, vars, file, process
  <2> QED BY <2>2, <2>3, <2>4, <2>5
<1>4. SizeMatchesFile'
  BY DEF JInv, SizeMatchesFile, Attached, FailsFirst, Crash, CrashInInit, vars,
         journal_is_valid_transaction, Refused, file, process, ProcessGone
<1> QED BY <1>2, <1>3, <1>4 DEF JInv

\* Every step keeps the three invariants together.
LEMMA JInvNext == JInv /\ [Next]_vars => JInv'
<1> SUFFICES ASSUME JInv, [Next]_vars PROVE JInv'
  OBVIOUS
<1>1. CASE journal_init \/ journal_init_fails \/ journal_close \/ journal_close_unmapped
  BY <1>1, OpenCloseStep
<1>2. CASE FailsFirst \/ Crash \/ CrashInInit \/ UNCHANGED vars
  BY <1>2, IdleStep
<1>3. CASE \E txn \in TxnIds : journal_is_valid_transaction(txn) \/ Refused(txn)
  BY <1>3, IdleStep
<1>4. ASSUME NEW txn \in TxnIds, journal_begin_transaction(txn) \/ CrashInBegin(txn)
      PROVE  JInv'
  BY <1>4, BeginStep
<1>5. ASSUME NEW txn \in TxnIds, \/ journal_commit_transaction(txn)
                                 \/ journal_rollback_transaction(txn)
                                 \/ TruncateUnmapped(txn) \/ CrashInTruncate(txn)
      PROVE  JInv'
  BY <1>5, TruncateStep
<1>6. ASSUME NEW txn \in TxnIds,
             \/ AddPageUnmapped(txn)
             \/ \E page \in PageNos : journal_add_page(txn, page) \/ CrashInAdd(txn, page)
      PROVE  JInv'
  BY <1>6, AddStep
<1> QED BY <1>1, <1>2, <1>3, <1>4, <1>5, <1>6 DEF Next

LEMMA JInvAlways == Spec => []JInv
BY JInvInit, JInvNext, PTL DEF Spec

\* Every call, crash and failing system call leaves the journal and the
\* variables of journal.c inside their types; a mapping implies an open file.
THEOREM JournalTyped == Spec => []TypeOK
<1>1. JInv => TypeOK
  BY DEF JInv
<1> QED BY <1>1, JInvAlways, PTL

\* Whenever the journal is mapped, journal_size is where the file ends: the
\* next journal_add_page writes behind the last entry and nowhere else.
THEOREM JournalSizeMatchesFile == Spec => []SizeMatchesFile
<1>1. JInv => SizeMatchesFile
  BY DEF JInv
<1> QED BY <1>1, JInvAlways, PTL

\* The page images stand in the order of their transactions and below the
\* header's highest id, so that applying them backwards undoes the newest first.
THEOREM JournalEntriesOrdered == Spec => []EntriesOrdered
<1>1. JInv => EntriesOrdered
  BY DEF JInv
<1> QED BY <1>1, JInvAlways, PTL

\* The journal keeps what it holds.
ImagesStand == Len(entries) <= Len(entries') /\ \A i \in DOMAIN entries : entries'[i] = entries[i]

LEMMA StepKeepsImages ==
    ASSUME JInv, [Next]_vars
    PROVE  ImagesStand \/ \E txn \in TxnIds : Cleared(txn)
<1>1. entries \in Seq(EntrySet) /\ Len(entries) \in Nat
  BY TypeSplit DEF JInv
<1>2. entries' = entries => ImagesStand
  BY <1>1 DEF ImagesStand
<1>3. \A e \in EntrySet : entries' = Append(entries, e) => ImagesStand
  BY <1>1, AppendEntry DEF ImagesStand
<1>4. CASE \/ journal_init \/ journal_init_fails \/ journal_close \/ journal_close_unmapped
           \/ FailsFirst \/ Crash \/ CrashInInit \/ UNCHANGED vars
           \/ \E txn \in TxnIds : journal_is_valid_transaction(txn) \/ Refused(txn)
  BY <1>2, <1>4
  DEF journal_init, journal_init_fails, journal_close, journal_close_unmapped, FailsFirst, Crash,
      CrashInInit, vars, journal_is_valid_transaction, Refused, file
<1>5. ASSUME NEW txn \in TxnIds, journal_begin_transaction(txn) \/ CrashInBegin(txn)
      PROVE  ImagesStand \/ Cleared(txn)
  BY <1>2, <1>5 DEF journal_begin_transaction, CrashInBegin, Contiguous, Cleared
<1>6. ASSUME NEW txn \in TxnIds, \/ journal_commit_transaction(txn)
                                 \/ journal_rollback_transaction(txn)
                                 \/ TruncateUnmapped(txn) \/ CrashInTruncate(txn)
      PROVE  Cleared(txn)
  BY <1>6 DEF Cleared
<1>7. ASSUME NEW txn \in TxnIds,
             \/ AddPageUnmapped(txn)
             \/ \E page \in PageNos : journal_add_page(txn, page) \/ CrashInAdd(txn, page)
      PROVE  ImagesStand
  <2>1. 0 \in Ids /\ txn \in Ids
    BY IdArithmetic
  <2>2. /\ Entry(0, 0, FALSE) \in EntrySet /\ Entry(txn, 0, FALSE) \in EntrySet
        /\ \A page \in PageNos, whole \in BOOLEAN : Entry(txn, page, whole) \in EntrySet
    BY <2>1 DEF Entry, EntrySet
  <2>3. CASE AddPageUnmapped(txn)
    BY <1>3, <2>2, <2>3 DEF AddPageUnmapped
  <2>4. ASSUME NEW page \in PageNos, journal_add_page(txn, page) PROVE ImagesStand
    BY <1>3, <2>2, <2>4, AddAppends DEF JInv
  <2>5. ASSUME NEW page \in PageNos, CrashInAdd(txn, page) PROVE ImagesStand
    BY <1>3, <2>2, <2>5 DEF CrashInAdd
  <2> QED BY <1>7, <2>3, <2>4, <2>5
<1> QED BY <1>4, <1>5, <1>6, <1>7 DEF Next

\* A page image in the journal stays where it is, whatever call fails and
\* wherever the process dies, until its transaction ends or an id that does not
\* follow the highest one clears the journal.
THEOREM JournalImagesKept == Spec => ImagesKept
<1>1. JInv /\ [Next]_vars =>
          [\/ /\ Len(entries) <= Len(entries')
              /\ \A i \in DOMAIN entries : entries'[i] = entries[i]
           \/ \E txn \in TxnIds : Cleared(txn)]_vars
  BY StepKeepsImages DEF ImagesStand
<1> QED BY <1>1, JInvAlways, PTL DEF Spec, ImagesKept

\* A mapped journal has a header with a valid checksum.
SealedWhenAttached == Attached => sealed

LEMMA SealedStep == SealedWhenAttached /\ [Next]_vars => SealedWhenAttached'
<1> SUFFICES ASSUME SealedWhenAttached, [Next]_vars PROVE SealedWhenAttached'
  OBVIOUS
<1> USE DEF SealedWhenAttached, Attached
<1>1. CASE journal_init \/ journal_init_fails \/ journal_close \/ journal_close_unmapped
  BY <1>1
  DEF journal_init, journal_init_fails, journal_close, journal_close_unmapped, Returns, file, process
<1>2. CASE FailsFirst \/ Crash \/ CrashInInit \/ UNCHANGED vars
  <2>1. CASE FailsFirst \/ UNCHANGED vars
    <3>1. UNCHANGED <<sealed, journal_fd, journal_mem>>
      BY <2>1 DEF FailsFirst, vars, file, process
    <3> QED BY <3>1
  <2>2. CASE Crash \/ CrashInInit
    <3>1. journal_mem' = FALSE
      BY <2>2 DEF Crash, CrashInInit, ProcessGone
    <3> QED BY <3>1
  <2> QED BY <1>2, <2>1, <2>2
<1>3. ASSUME NEW txn \in TxnIds,
             \/ journal_begin_transaction(txn)
             \/ journal_commit_transaction(txn) \/ journal_rollback_transaction(txn)
      PROVE  SealedWhenAttached'
  <2>1. sealed' = TRUE
    BY <1>3 DEF journal_begin_transaction, journal_commit_transaction,
                journal_rollback_transaction, Truncate
  <2> QED BY <2>1
<1>4. ASSUME NEW txn \in TxnIds, journal_is_valid_transaction(txn) \/ Refused(txn)
      PROVE  SealedWhenAttached'
  BY <1>4 DEF journal_is_valid_transaction, Refused, file, process
<1>5. ASSUME NEW txn \in TxnIds,
             \/ AddPageUnmapped(txn) \/ TruncateUnmapped(txn)
             \/ CrashInBegin(txn) \/ CrashInTruncate(txn)
      PROVE  SealedWhenAttached'
  <2>1. journal_mem' = FALSE
    BY <1>5 DEF AddPageUnmapped, TruncateUnmapped, CrashInBegin, CrashInTruncate, ProcessGone
  <2> QED BY <2>1
<1>6. ASSUME NEW txn \in TxnIds, NEW page \in PageNos,
             journal_add_page(txn, page) \/ CrashInAdd(txn, page)
      PROVE  SealedWhenAttached'
  BY <1>6 DEF journal_add_page, CrashInAdd, ProcessGone
<1> QED BY <1>1, <1>2, <1>3, <1>4, <1>5, <1>6 DEF Next

LEMMA StepKeepsReadable ==
    ASSUME SealedWhenAttached, [Next]_vars, Readable, ~Readable'
    PROVE  CrashInInit \/ \E txn \in TxnIds : CrashInBegin(txn)
<1>1. entries' # <<>> /\ sealed' # TRUE /\ ~sealed' /\ (entries = <<>> \/ sealed)
  BY DEF Readable
<1>2. ~UNCHANGED file
  BY <1>1 DEF file
<1>3. CASE journal_init \/ journal_init_fails
  BY <1>1, <1>2, <1>3 DEF journal_init, journal_init_fails, IsNew
<1>4. CASE journal_close \/ journal_close_unmapped \/ FailsFirst \/ Crash \/ UNCHANGED vars
  BY <1>2, <1>4 DEF journal_close, journal_close_unmapped, FailsFirst, Crash, vars
<1>5. ASSUME NEW txn \in TxnIds,
             \/ journal_begin_transaction(txn) \/ journal_is_valid_transaction(txn)
             \/ journal_commit_transaction(txn) \/ journal_rollback_transaction(txn)
             \/ Refused(txn) \/ TruncateUnmapped(txn) \/ CrashInTruncate(txn)
      PROVE  FALSE
  BY <1>1, <1>2, <1>5
  DEF journal_begin_transaction, journal_is_valid_transaction, journal_commit_transaction,
      journal_rollback_transaction, Truncate, Refused, TruncateUnmapped, CrashInTruncate
<1>6. ASSUME NEW txn \in TxnIds,
             \/ AddPageUnmapped(txn)
             \/ \E page \in PageNos : journal_add_page(txn, page) \/ CrashInAdd(txn, page)
      PROVE  FALSE
  BY <1>1, <1>6
  DEF AddPageUnmapped, journal_add_page, CrashInAdd, SealedWhenAttached
<1> QED BY <1>3, <1>4, <1>5, <1>6 DEF Next

\* A call that returns, with whatever system call failing in it, leaves a
\* journal that journal_init accepts; only dying inside journal_init or
\* journal_begin_transaction does not.
THEOREM CallsKeepReadable == Spec => CallsKeepJournalReadable
<1>1. Init => SealedWhenAttached
  BY DEF Init, SealedWhenAttached, Attached
<1>2. SealedWhenAttached /\ [Next]_vars =>
          [Readable /\ ~Readable' => CrashInInit \/ \E txn \in TxnIds : CrashInBegin(txn)]_vars
  BY StepKeepsReadable
<1> QED BY <1>1, <1>2, SealedStep, PTL DEF Spec, CallsKeepJournalReadable

=============================================================================
