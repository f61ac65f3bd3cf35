CONSTANTS
    v1 = v1
    v2 = v2
    r1 = r1
    Versions = {v1}
    Releases = {r1}
    MaxInstalls = 1
    MaxProbes = 1
    MaxEdits = 1
    MaxFaults = 1
SPECIFICATION Spec
INVARIANT NotifiedOnChange
CHECK_DEADLOCK FALSE
