SPECIFICATION Spec
CONSTANTS
    Strs = {s1, s2}
    Chars = {"a", "b"}
    NUL = NUL
    Untouched = Untouched
    Literals <- MCLiterals
    GrowBy = 2
    MaxLen = 3
    MaxBlocks = 3
INVARIANTS
    TypeOK
    Terminated
PROPERTY IsText
CHECK_DEADLOCK FALSE
