SPECIFICATION FairSpec
CONSTANTS
    MaxCert = 3
    MaxDeploys = 2
    FaultKinds = {"write", "read", "patch", "crash"}
    MaxFaults = 3
INVARIANTS StampIsLoaded
PROPERTIES RollsForward KeepsContract
CHECK_DEADLOCK FALSE
