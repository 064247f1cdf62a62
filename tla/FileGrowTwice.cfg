SPECIFICATION Spec
CONSTANTS
    BlockSize = 2
    Direct = 2
    Entries = 2
    BlockNumber = 9
    File = {f1}
    Sizes = {0, 1, 5, 9}
PROPERTIES GrowKeepsBlocks
