SPECIFICATION Spec
CONSTANTS
    TXN_IDS    = 4
    TxnIds     <- MCTxnIds
    PageNos    <- MCPageNos
    AlignedAt  <- MCAlignedAt
    MaxEntries = 3
INVARIANTS
    TypeOK
    SizeMatchesFile
    EntriesOrdered
PROPERTIES
    CallsKeepJournalReadable
    ImagesKept
