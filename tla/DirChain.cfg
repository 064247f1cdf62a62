SPECIFICATION Spec
CONSTANTS
    BlockBytes = 64
    FirstBlock = 64
    EXT2_NAME_LEN = 16
    Name <- MCName
    Inode = {11, 12, 13}
    Self = 3
    Parent = 2
    Leftovers <- MCLeftovers
    Memory <- MCMemory
INVARIANTS TypeOK WalkEnds EntriesFit
PROPERTIES LookupStable
CHECK_DEADLOCK FALSE
