SPECIFICATION Spec
CONSTANTS
    BlockSize = 3
    Direct = 3
    Entries = 2
    FileSize = 16
    Untouched = Untouched
    Beyond = Beyond
    Foreign = Foreign
INVARIANTS TypeOK ReadsCorrect AlignedWritesCorrect Succeeds
CHECK_DEADLOCK FALSE
