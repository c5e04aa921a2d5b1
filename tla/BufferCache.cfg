SPECIFICATION FairSpec
CONSTANTS
    BUFFER_CACHE_SIZE = 2
    DeviceSize = 3
    FirstRecovered = 1
    d0 = d0
    d1 = d1
    none = none
    Data <- MCData
    ZeroData = d0
    NoData = none
INVARIANTS
    TypeOK
    Coherent
PROPERTIES
    ImplementsSectorStore
    EvictsOnlyWhenFull
    VictimIsFirstCold
    CallReturns
