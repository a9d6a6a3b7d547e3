SPECIFICATION FairSpec
CONSTANT Sources <- MCSources
INVARIANT LineOfAsserts
CHECK_DEADLOCK FALSE
