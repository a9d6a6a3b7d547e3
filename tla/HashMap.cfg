SPECIFICATION FairSpec
CONSTANTS
    k1 = k1
    k2 = k2
    k3 = k3
    Keys <- MCKeys
    Vals = {v1, v2}
    NoKey = NoKey
    NoVal = NoVal
    Hash <- MCHash
    INIT_SIZE = 1
    HIGH_WATERMARK = 70
    LOW_WATERMARK = 50
    GrowBy = 1
    FixedCapacity = 5
INVARIANTS
    TypeOK
    EveryEntryFound
    NeverFull
PROPERTIES
    IsAMap
    PutReturns
CHECK_DEADLOCK FALSE
