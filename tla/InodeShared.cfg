SPECIFICATION Spec
CONSTANTS
    GroupCount = 1
    InodesPerGroup = 8
    BitsPerByte = 2
    BlockBytes = 8
    ReservedInodes = 2
    File = {f1, f2, f3, f4, f5}
    M16 = 16
    M32 = 64
INVARIANTS InodesDistinct
SYMMETRY FileSymmetry
