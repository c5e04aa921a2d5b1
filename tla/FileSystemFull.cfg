SPECIFICATION Spec
CONSTANTS
    DeviceSize = 10
    BLOCK_SECTOR_SIZE = 2
    DIRECT_BLOCKS_COUNT = 2
    INDIRECT_BLOCKS_PER_SECTOR = 2
    a = a
    b = b
    none = none
    Name <- MCTwo
    NoName = none
    Size <- MCEmptyOrThree
    MAX_FILES_IN_DIRECTORY = 2
    EntrySize = 1
    FreeMapSize = 2
    MaxLength = 4
    MaxLost = 2
    MaxOpen = 1
SYMMETRY MCSymmetry
VIEW MCView
INVARIANTS
    NoSharing
    ClosingLosesNothing
PROPERTIES
    ImplementsNamedFiles
CHECK_DEADLOCK FALSE
