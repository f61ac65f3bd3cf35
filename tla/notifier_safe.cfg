CONSTANTS
    v1 = v1
    v2 = v2
    r1 = r1
    Versions = {v1, v2}
    Releases = {r1}
    MaxInstalls = 2
    MaxProbes = 1
    MaxEdits = 1
    MaxFaults = 3
SPECIFICATION FairSpec
INVARIANTS TypeOK LoadedOwned CleanSlate CheckHonest
PROPERTY UninstallResumes
CHECK_DEADLOCK FALSE
