SPECIFICATION FairSpec
CONSTANT MaxProcs = 2
PROPERTY TimeoutBounds
CHECK_DEADLOCK FALSE
