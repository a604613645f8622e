SPECIFICATION Spec
CONSTANTS
    PAGE_IDS            = 6
    FREE_PAGE_LIST_SIZE = 2
    FREES_WIDTH         = 4
    MaxFilePages        = 6
    MaxHolders          = 2
    InitKinds           <- MCBothKinds
    CrashInShift        = TRUE
    CrashInSync         = TRUE
INVARIANTS
    CatalogSafe
