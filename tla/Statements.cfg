SPECIFICATION StmtSpec
CONSTANT Inputs <- MCInputs
INVARIANTS
    StmtTypeOK
    TreeKeepsLiterals
    ElseToNearestIf
    StatementsTerminated
PROPERTIES
    LookaheadAgrees
    StatementsStop
CHECK_DEADLOCK FALSE
