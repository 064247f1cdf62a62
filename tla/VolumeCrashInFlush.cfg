SPECIFICATION Spec
CONSTANTS
    o1 = o1
    o2 = o2
    Owner <- MCOwner
    MkfsUsed <- MCMkfsUsed
    Clobbered = Clobbered
    GroupCount = 2
    BlocksPerGroup = 3
    BlockSize = 1024
    DescriptorsPerSector = 16
    M16 = 8
    M32 = 16
    EXT2_WRITE_FAILED = 3
    WriteMayFail = FALSE
    ReadMayFail = FALSE
    MaxSessions = 1
CHECK_DEADLOCK FALSE
INVARIANT Mountable
