SPECIFICATION Spec
CONSTANTS
    Line <- MCLine
    Text <- MCText
    MaxCount = 5
CHECK_DEADLOCK FALSE
INVARIANTS
    EverySectionInterpreted
