CONSTANTS
    MaxCycles = 2
    HardSeconds = 1
    MaxSeconds = 2
SPECIFICATION Spec
INVARIANTS TypeOK Reaped RecordTrue BudgetKept
PROPERTY TerminalStays
CHECK_DEADLOCK FALSE
