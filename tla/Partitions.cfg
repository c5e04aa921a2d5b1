SPECIFICATION FairSpec
CONSTANTS
    DeviceSize = 6
    Word = 16
    Reach = 8
    Tables <- MCTables
    MaxDepth = 4
INVARIANTS
    FilesStayInside
    DriveIsLastCandidate
PROPERTIES
    ScanEnds
CHECK_DEADLOCK FALSE
