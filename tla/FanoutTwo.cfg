SPECIFICATION FairSpec
CONSTANTS
    GitOpsClusters = {g1, g2}
    Clusters = {c1}
    LocalClusters = {}
    Namespaces = {ns}
    NamespaceOf <- MCNamespaceOf
    FaultKinds = {}
    MaxFaults = 0
    EditKinds = {"placement", "lifecycle"}
    MaxEdits = 2
    Returning = TRUE
INVARIANTS CleanedMeansRemoved
PROPERTIES Settles 
CHECK_DEADLOCK FALSE
