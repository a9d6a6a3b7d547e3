SPECIFICATION Spec
CONSTANTS
    Strs = {s1, s2}
    Chars = {"a", "b"}
    NUL = NUL
    Untouched = Untouched
    Literals <- MCLiterals
    GrowBy = 2
    MaxLen = 3
    MaxBlocks = 3
INVARIANT WritesStayInBlock
CHECK_DEADLOCK FALSE
