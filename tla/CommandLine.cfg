SPECIFICATION FairSpec
CONSTANTS
    Line <- MCLine
    Text <- MCText
    MaxCount = 5
CHECK_DEADLOCK FALSE
INVARIANTS
    SectionsInOrder
    OwnScripts
    StoreReady
PROPERTIES
    PromptReturns
