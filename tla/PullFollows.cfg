SPECIFICATION FairSpec
CONSTANTS
    Clusters = {c1, c2}
    Homes = {c1}
    NoApp = NoApp
    EditKinds = {"spec", "move", "operation", "unlabel", "delete"}
    MaxUid = 2
    MaxEdits = 2
    MaxReports = 1
    MaxFaults = 1
INVARIANTS TypeOK WorkAtRest
PROPERTIES LiveWorksStay  OperationHandedOver ProgressingFirst WorkFollows OrphansGo StatusFollows
