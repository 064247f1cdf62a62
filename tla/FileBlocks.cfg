SPECIFICATION Spec
CONSTANTS
    BlockSize = 2
    Direct = 2
    Entries = 2
    BlockNumber = 8
    File = {f1, f2}
    Sizes = {0, 1, 3, 6, 10}
INVARIANTS TypeOK NoSharing ReferencedAreMarked Covered Deletable
PROPERTIES GrowKeepsDirect
SYMMETRY FileSymmetry
VIEW Seen
CHECK_DEADLOCK FALSE
