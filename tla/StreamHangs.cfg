SPECIFICATION FairSpec
CONSTANTS
    MaxSteps = 1
    MaxExecs = 1
    Losable = {}
PROPERTIES
    ActiveStreamEnds
CHECK_DEADLOCK FALSE
