SPECIFICATION FrontSpec
CONSTANT Inputs <- MCInputs
INVARIANTS
    FrontTypeOK
    DeclaratorShape
    RegisteredNames
    PassesAgree
    FieldsPrinted
PROPERTY FrontEndStops
CHECK_DEADLOCK FALSE
