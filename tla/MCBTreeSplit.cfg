SPECIFICATION Spec
CONSTANTS
    MAX_USABLE_PAGE_SIZE = 271
    HEADER_SIZE = 34
    SLOT_ENTRY_SIZE = 24
    KEY_SIZE = 16
    INDEX_SLOT_DATA_SIZE = 23
    FREE_SLOT_LIST_SIZE = 1
    Pages = {p1, p2, p3}
    NoPage = NoPage
    Keys <- MCKeys
    AnyKey <- MCAnyKey
    Asked <- MCAsked
SYMMETRY MCSymmetry
PROPERTY SplitKeepsKeys
CHECK_DEADLOCK FALSE
