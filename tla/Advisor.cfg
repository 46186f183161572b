SPECIFICATION Spec
CONSTANTS
    c1 = c1
    c2 = c2
    Call = {c1, c2}
    Letter <- MCLetter
    LT = "<"
    GT = ">"
    LowerOf <- MCLowerOf
    Width <- MCWidth
    Marker <- MCMarker
    Note <- MCNote
    MAX_FIELD_LEN = 3
    MAX_LIST_ITEMS = 2
    Reasons <- MCReasons
    Notice <- MCNotice
    Body <- MCBody
INVARIANTS
    AdviceIsClean
    NothingElseRemoved
    CountersExplained
PROPERTIES
    EveryCallAnswered
CHECK_DEADLOCK FALSE
