SPECIFICATION Spec
CONSTANTS
    Point <- MCPoint
    File = {f1, f2}
    Stdin = Stdin
    Request = {"unlock", "eject"}
    MaxMounts = 2
    MaxHandles = 2
    Lba <- MCLba
    SectorLimit = 2
    Places <- MCPlaces
    NameRoom = 3
    Decimal <- MCDecimal
    MaxPartitions = 3
    f1 = f1
    f2 = f2
SYMMETRY Files
INVARIANTS TypeOK AtHome SuperblocksAtHome NameLeadsBack
PROPERTIES DrivesRefined
CHECK_DEADLOCK FALSE
