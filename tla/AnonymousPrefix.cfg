SPECIFICATION FrontSpec
CONSTANT Inputs <- MCInputs
INVARIANT NoNameStartsWithDot
CHECK_DEADLOCK FALSE
