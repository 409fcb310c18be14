SPECIFICATION Spec
CONSTANTS
    GitOpsClusters = {g1, g2}
    Clusters = {c1, c2}
    LocalClusters = {}
    Namespaces = {ns}
    NamespaceOf <- MCNamespaceOf
    FaultKinds = {}
    MaxFaults = 0
    EditKinds = {}
    MaxEdits = 0
    Returning = FALSE
PROPERTIES OnlyDroppedClustersAreRemoved
CHECK_DEADLOCK FALSE
