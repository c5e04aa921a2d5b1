SPECIFICATION FairSpec
CONSTANTS
    Typed <- MCTyped
    Chains <- MCChains
    Script <- MCScript
    Trailing = {"s"}
    Dollar <- MCDollar
    MemSize = 2
    MAX_ARGS_SIZE = 20
    FopenMax = 3
INVARIANTS LastValueCounts
PROPERTIES RunsChosenArm LineReturns
CHECK_DEADLOCK FALSE
