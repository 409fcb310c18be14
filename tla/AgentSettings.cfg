SPECIFICATION FairSpec
CONSTANTS
    GitOpsClusters = {g1, g2}
    Addresses = {a1, a2}
    Namespaces = {n1}
    Images = {i1}
    MaxVersion = 2
    Default = argocd
    Unset = unset
    MaxEdits = 2
    FaultKinds = {"discover", "jwt", "principal", "template", "tolerations",
                  "caWork", "crWork", "config", "addon", "service", "image", "crash"}
    MaxFaults = 1
 
PROPERTIES DeliveredWhenReady UserSettingsStay SettingsFollow PrincipalCovers
CHECK_DEADLOCK FALSE
