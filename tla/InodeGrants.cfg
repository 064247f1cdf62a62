SPECIFICATION Spec
CONSTANTS
    GroupCount = 1
    InodesPerGroup = 7
    BitsPerByte = 2
    BlockBytes = 5
    ReservedInodes = 3
    File = {f1, f2, f3, f4, f5}
    M16 = 16
    M32 = 64
INVARIANTS TypeOK ReservedNeverGranted IntactUntilDelete GrantsUntilDelete CountsBalance
SYMMETRY FileSymmetry
CHECK_DEADLOCK FALSE
