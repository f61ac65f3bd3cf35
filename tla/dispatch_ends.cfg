CONSTANTS
    MaxCycles = 2
    HardSeconds = 1
    MaxSeconds = 1
SPECIFICATION FairSpec
PROPERTY Ends
CHECK_DEADLOCK FALSE
