SPECIFICATION FairSpec
CONSTANTS
    GitOpsClusters = {g1}
    Clusters = {c1, c2}
    LocalClusters = {c2}
    Namespaces = {ns}
    NamespaceOf <- MCNamespaceOf
    FaultKinds = {"early", "apply", "crash"}
    MaxFaults = 2
    EditKinds = {"placement", "lifecycle"}
    MaxEdits = 3
    Returning = FALSE
INVARIANTS ServedOrTold RemovedAtRest
PROPERTIES SelectedAreServed DroppedAreClean
CHECK_DEADLOCK FALSE
