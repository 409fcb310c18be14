SPECIFICATION FairSpec
CONSTANTS
    Clusters = {c1}
    LocalClusters = {}
    CAValidity = 20
    TargetValidity = 5
    Skew = 1
    StartTime = 15
    MaxTime = 23
    FaultKinds = {"lapse", "delete", "ca", "load", "issue", "entry", "work", "crash"}
    MaxFaults = 1
INVARIANTS SignerOutlivesClient EntryUnexpired TwoRoundsAgree
PROPERTIES Agreement
