SPECIFICATION Spec
CONSTANTS
    BlockSize = 3
    Direct = 3
    Entries = 1
    FileSize = 13
    Untouched = Untouched
    Beyond = Beyond
    Foreign = Foreign
INVARIANTS WriteContent
CHECK_DEADLOCK FALSE
