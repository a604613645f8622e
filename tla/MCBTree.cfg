SPECIFICATION Spec
CONSTANTS
    MAX_USABLE_PAGE_SIZE = 235
    HEADER_SIZE = 81
    SLOT_ENTRY_SIZE = 24
    KEY_SIZE = 16
    INDEX_SLOT_DATA_SIZE = 23
    FREE_SLOT_LIST_SIZE = 0
    Pages = {p1, p2, p3}
    NoPage = NoPage
    Keys <- MCKeys
    AnyKey <- MCAnyKey
    Asked <- MCAsked
SYMMETRY MCSymmetry
INVARIANTS TypeOK SlotIdsDistinct SpaceAccounted ChainIntact  ScanCoversReadable
PROPERTY OtherSlotsKeepTheirRows
CHECK_DEADLOCK FALSE
