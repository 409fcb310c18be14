SPECIFICATION FairSpec
CONSTANTS
    MaxCert = 3
    MaxDeploys = 2
    FaultKinds = {"before", "ensure", "after", "patch", "crash"}
    MaxFaults = 3
INVARIANTS CurrentAtRest
PROPERTIES RestartsOnce
CHECK_DEADLOCK FALSE
