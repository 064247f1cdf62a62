SPECIFICATION Spec
CONSTANTS
    Inode = {2, 12, 13, 14}
    Root = 2
    Block = {30, 31, 32}
    Name = {n1, n2}
    Dot = Dot
    DotDot = DotDot
    Depth = 2
    DirRoom = 2
    MaxCrashes = 1
    n1 = n1
    n2 = n2
INVARIANTS TypeOK LinkedInUse LinksDistinct BlocksOwned DeleteSucceeds
PROPERTIES DataKept NamespaceRefined CallEnds
CHECK_DEADLOCK FALSE
