SPECIFICATION FairSpec
CONSTANTS
    MaxCert = 3
    MaxDeploys = 1
    FaultKinds = {"patch"}
    MaxFaults = 1
PROPERTIES KeepsContract
CHECK_DEADLOCK FALSE
