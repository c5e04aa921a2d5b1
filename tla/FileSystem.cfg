SPECIFICATION Spec
CONSTANTS
    DeviceSize = 26
    BLOCK_SECTOR_SIZE = 2
    DIRECT_BLOCKS_COUNT = 1
    INDIRECT_BLOCKS_PER_SECTOR = 2
    a = a
    b = b
    none = none
    Name <- MCTwo
    NoName = none
    Size <- MCFive
    MAX_FILES_IN_DIRECTORY = 2
    EntrySize = 1
    FreeMapSize = 2
    MaxLength = 8
    MaxLost = 0
    MaxOpen = 1
SYMMETRY MCSymmetry
VIEW MCView
INVARIANTS
    NoSharing
    OnlyFailuresLose
PROPERTIES
    DefragmentPacks
