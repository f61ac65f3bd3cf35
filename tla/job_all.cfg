CONSTANTS
    c0 = c0
    e1 = e1
    e2 = e2
    Clean = c0
    Edits = {e1, e2}
    Discards = {TRUE, FALSE}
    MaxRuns = 2
    MaxFaults = 2
SPECIFICATION FairSpec
INVARIANTS TypeOK DestructionExact StateTrue
PROPERTIES EvidenceKept Resumes
CHECK_DEADLOCK FALSE
