SPECIFICATION FairSpec
CONSTANTS
    rbac = rbac
    deployment = deployment
    Manifests <- MCManifests
    Operator = deployment
    Chart <- MCChart
    Deletion <- MCDeletion
    Skippable = {rbac}
    VerifyChoices = {0, 1}
    FaultKinds = {"unseen", "install", "apply", "marker", "crRead", "crDelete", "delete", "crash"}
    MaxFaults = 3
    MaxLives = 2
INVARIANTS GoneStaysGone
PROPERTIES OperatorOutlivesCR CRGone InstalledAtFirst KeepsLifecycle
CHECK_DEADLOCK FALSE
