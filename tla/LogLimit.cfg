SPECIFICATION Spec
CONSTANTS
    EXT2_MAX_ERRORS = 3
    EXT2_DELETE_CYCLE = 2
    MaxMessages = 5
INVARIANTS LimitKept
