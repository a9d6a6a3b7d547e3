SPECIFICATION StackSpec
CONSTANTS
    Names = {x, y}
    Symbols = {s1, s2}
    MaxScopes = 3
INVARIANT StackTypeOK
PROPERTY IsScoped
