SPECIFICATION FairSpec
CONSTANTS
    FRAME_STORE_SIZE = 19
    VAR_STORE_SIZE = 3
    None = None
    x = x
    y = y
    v1 = v1
    v2 = v2
    Script <- MCScript
    Lines <- MCLines
    Trailing <- MCNone
    Missing <- MCGone
    Var <- MCVar
    Val <- MCVal
    MaxPid = 3
CHECK_DEADLOCK FALSE
INVARIANTS
    LruListsResidents
    PagesIntact
    NoFrameLeft
PROPERTIES
    PagingKeepsVariables
    OnlyUsedUpPagesEvicted
    NoOvertaking
    FreeingClearsAtMostTwo
    ImplementsScriptRunner
    ExecReturns
