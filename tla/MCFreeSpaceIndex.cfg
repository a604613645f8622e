SPECIFICATION Spec
CONSTANTS
    PAGE_IDS            = 8
    FREE_PAGE_LIST_SIZE = 2
    FREES_WIDTH         = 4
    MaxFilePages        = 8
    MaxHolders          = 2
    InitKinds           <- MCBothKinds
    CrashInShift        = FALSE
    CrashInSync         = FALSE
INVARIANTS
    HeldOnce
