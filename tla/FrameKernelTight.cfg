SPECIFICATION Spec
CONSTANTS
    THRESHOLD = 9
    VARMEMSIZE = 2
    None = None
    PAGE_TABLE_SIZE = 3
    x = x
    v1 = v1
    v2 = v2
    Script <- MCTight
    Lines <- MCLines
    Trailing <- MCNone
    Missing <- MCGone
    Var <- MCVar
    Val <- MCVal
    MaxPid = 3
    MaxTimer = 16
CHECK_DEADLOCK FALSE
INVARIANTS
    FramesDistinct
PROPERTIES
    OwnLinesOnly
