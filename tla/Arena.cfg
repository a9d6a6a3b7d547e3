SPECIFICATION PoolSpec
CONSTANTS
    BlockSize = 16
    FirstSizes = {16, 32}
    Sizes <- MCSizes
    Word = 64
    MaxAllocs = 12
    PoolArrays <- MCPoolArrays
    ListArrays <- MCListArrays
    ElemSize <- MCElemSize
    GrowBy = 1
    MaxAppends = 6
INVARIANTS
    PoolTypeOK
    AllocationsInBlock
    AllocationsDisjoint
    NothingLost
CHECK_DEADLOCK FALSE
