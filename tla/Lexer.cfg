SPECIFICATION FairSpec
CONSTANT Sources <- MCSources
INVARIANTS
    TypeOK
    TokensTile
    LongestMatch
    EofLast
    LocationExact
PROPERTY LexerStops
CHECK_DEADLOCK FALSE
