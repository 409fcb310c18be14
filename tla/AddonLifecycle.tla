---------------------------- MODULE AddonLifecycle ----------------------------
(***************************************************************************)
(* The contract between hub and managed cluster.  All they share is a      *)
(* ManagedClusterAddOn and a ManifestWork with the ArgoCD CR.  The hub     *)
(* makes and deletes them (EnsureManagedClusterAddon,                      *)
(* createArgoCDCRManifestWork, cleanupRemovedClusters); each then waits    *)
(* for a finalizer, until the cleanup job or the Argo CD operator has done *)
(* its part on the managed cluster (uninstallArgoCDAgentInternal).  The    *)
(* hub takes no deletion back that is under way, and the managed cluster   *)
(* brings every one of them to its end.                                    *)
(***************************************************************************)
VARIABLES
    addon,  \* the ManagedClusterAddOn
    work    \* the ManifestWork of the ArgoCD CR

Presence == {"absent", "live", "deleting"}

Init == addon \in {"absent", "live"} /\ work \in {"absent", "live"}

\* Each of these is a step of either object; both may step at once.
Made(before, after) == before = "absent" /\ after = "live"
Deleted(before, after) == before = "live" /\ after = "deleting"
Finalized(before, after) == before = "deleting" /\ after = "absent"

\* A work whose CR has never been applied, or not held by its operator, goes at once.
Vanishes(before, after) == before = "live" /\ after = "absent"

MovesOn(before, after) ==
    Made(before, after) \/ Deleted(before, after) \/ Finalized(before, after)

Next ==
    /\ MovesOn(addon, addon') \/ UNCHANGED addon
    /\ MovesOn(work, work') \/ Vanishes(work, work') \/ UNCHANGED work

Safe == Init /\ [][Next]_<<addon, work>>

\* Every deletion ends.
Ends == []<>(addon # "deleting") /\ []<>(work # "deleting")

Spec == Safe /\ Ends
=============================================================================
