SPECIFICATION FairSpec
CONSTANTS
    rbac = rbac
    deployment = deployment
    Manifests <- MCManifests
    Operator = deployment
    Chart <- MCChart
    Deletion <- MCDeletion
    Skippable = {}
    VerifyChoices = {0}
    FaultKinds = {}
    MaxFaults = 0
    MaxLives = 2
PROPERTIES InstalledWhereDeployed
CHECK_DEADLOCK FALSE
