SPECIFICATION Spec
CONSTANTS
    GitOpsClusters = {g1}
    Clusters = {c1, c2}
    LocalClusters = {c2}
    Namespaces = {ns}
    NamespaceOf <- MCNamespaceOf
    FaultKinds = {"early", "read", "apply", "delete", "status", "crash"}
    MaxFaults = 1
    EditKinds = {"placement", "customCR", "lifecycle"}
    MaxEdits = 2
    Returning = TRUE
INVARIANTS TypeOK AddonHasConfig
PROPERTIES CleanupSparesSelection ImportedMeansImported OnlyDroppedClustersAreRemoved
CHECK_DEADLOCK FALSE
