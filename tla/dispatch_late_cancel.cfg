CONSTANTS
    MaxCycles = 2
    HardSeconds = 1
    MaxSeconds = 2
SPECIFICATION Spec
INVARIANT CandidateExact
CHECK_DEADLOCK FALSE
