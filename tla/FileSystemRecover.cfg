SPECIFICATION RecoverSpec
CONSTANTS
    DeviceSize = 16
    BLOCK_SECTOR_SIZE = 2
    DIRECT_BLOCKS_COUNT = 3
    INDIRECT_BLOCKS_PER_SECTOR = 2
    a = a
    b = b
    none = none
    Name <- MCTwo
    NoName = none
    Size <- MCEmptyOrThree
    MAX_FILES_IN_DIRECTORY = 2
    EntrySize = 1
    FreeMapSize = 2
    MaxLength = 6
    MaxLost = 4
    MaxOpen = 2
INVARIANT
    RemovalReleasesMarked
CHECK_DEADLOCK FALSE
