SPECIFICATION PoolSpec
CONSTANTS
    BlockSize = 8
    FirstSizes = {8, 16}
    Sizes <- MCSizes
    Word = 64
    MaxAllocs = 12
    PoolArrays <- MCPoolArrays
    ListArrays <- MCListArrays
    ElemSize <- MCElemSize
    GrowBy = 1
    MaxAppends = 4
INVARIANT AllocationsInBlock
CHECK_DEADLOCK FALSE
