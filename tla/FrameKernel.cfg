SPECIFICATION FairSpec
CONSTANTS
    THRESHOLD = 36
    VARMEMSIZE = 2
    None = None
    PAGE_TABLE_SIZE = 3
    x = x
    v1 = v1
    v2 = v2
    Script <- MCRoomy
    Lines <- MCLines
    Trailing <- MCNone
    Missing <- MCGone
    Var <- MCVar
    Val <- MCVal
    MaxPid = 3
    MaxTimer = 60
CHECK_DEADLOCK FALSE
INVARIANTS
    PagesInPlace
PROPERTIES
    ImplementsScriptRunner
    ExecReturns
