SPECIFICATION FairSpec
CONSTANT Inputs <- MCInputs
INVARIANTS
    TypeOK
    CursorSound
    DepthBounded
    OperatorsBind
    CallChain
    SingleOwner
    TreeKeepsTokens
PROPERTY StopsOrStuckInArguments
CHECK_DEADLOCK FALSE
