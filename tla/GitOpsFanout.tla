----------------------------- MODULE GitOpsFanout -----------------------------
(***************************************************************************)
(* The hub's GitOpsCluster controller (internal/controller): one worker    *)
(* takes GitOpsClusters from a queue and fans each of them out to the      *)
(* clusters its Placement selects.  For every selected cluster it makes an *)
(* Argo CD cluster secret, a ManifestWork with the agent CA, a             *)
(* ManifestWork with the ArgoCD CR, an AddOnDeploymentConfig and a         *)
(* ManagedClusterAddOn; for every other cluster with an addon it takes     *)
(* these away again.  Each call to the API server is a step of its own, so *)
(* placements, specs and finalizers move between any two of them, a call   *)
(* may fail, and the process may die.                                      *)
(*                                                                         *)
(* A reconcile is retried because it returned an error (steps 0 to 7), or  *)
(* because one of its writes to the status changed something: the watch on *)
(* GitOpsCluster has no predicate, so the controller wakes itself up.      *)
(* Nothing else it creates is watched.                                     *)
(***************************************************************************)
EXTENDS Naturals, FiniteSets

CONSTANTS
    GitOpsClusters,  \* the GitOpsCluster resources users may create
    Clusters,        \* the managed clusters
    LocalClusters,   \* those named "local-cluster": no ManifestWork for them
    Namespaces,      \* namespaces of the hub
    NamespaceOf,     \* the namespace of each GitOpsCluster
    FaultKinds,      \* the failures that may happen in this instance
    MaxFaults,       \* bound on their number
    EditKinds,       \* the edits users make in this instance
    MaxEdits,        \* bound on their number
    Returning        \* whether a placement may select a cluster it dropped

AllFaultKinds == {"early", "read", "apply", "delete", "status", "crash"}
AllEditKinds == {"placement", "customCR", "lifecycle"}

ASSUME FanoutAssumption ==
    /\ GitOpsClusters # {}
    /\ IsFiniteSet(Clusters)
    /\ LocalClusters \subseteq Clusters
    /\ NamespaceOf \in [GitOpsClusters -> Namespaces]
    /\ FaultKinds \subseteq AllFaultKinds
    /\ MaxFaults \in Nat
    /\ EditKinds \subseteq AllEditKinds
    /\ MaxEdits \in Nat
    /\ Returning \in BOOLEAN

VARIABLES
    \* what users and OCM decide
    present,    \* the GitOpsClusters that exist
    decisions,  \* the PlacementDecision of each GitOpsCluster's placement
    customCR,   \* whether its ArgoCDCRManifestWork, if any, passes validation
    dropped,    \* history: the clusters a placement ever let go
    \* what the controller has made
    secret,     \* Argo CD cluster secrets, by namespace
    caWork,     \* ManifestWork argocd-agent-ca-mw, by cluster
    crWork,     \* ManifestWork of the ArgoCD CR, by GitOpsCluster and cluster
    config,     \* the clusters with an AddOnDeploymentConfig
    addon,      \* ManagedClusterAddOn, by cluster
    status,     \* the conditions of each GitOpsCluster
    \* the controller process
    queue,      \* the work queue: a set, since equal requests are merged
    pc,         \* where the reconcile under way is
    cur,        \* the GitOpsCluster it is about
    valid,      \* customCR[cur] as read at its start
    stale,      \* cur was written by somebody else since it was read
    mem,        \* its in-memory copy of status[cur]
    sel,        \* the clusters it takes as selected
    todo,       \* the clusters the loop under way has still to handle
    failed,     \* the clusters for which that loop met an error
    target,     \* the cluster, if any, whose loop body of several calls runs
    cleaned,    \* the clusters counted as removed
    \* bookkeeping of the bounds
    faults, edits

wishes == <<present, decisions, customCR, dropped>>
products == <<secret, caWork, crWork, config, addon>>
frame == <<cur, valid, stale, mem, sel, todo, failed, target, cleaned>>
vars == <<wishes, products, status, queue, pc, frame, faults, edits>>

-----------------------------------------------------------------------------
(* Data.                                                                   *)

\* An object with a finalizer is "deleting" from its deletion until the
\* finalizer's owner (addon framework, work agent) lets it go.
Presence == {"absent", "live", "deleting"}
\* (EnsuredAfresh: written over whatever is there.)
EnsuredAfresh(p) == "live"
Ensured(p) == IF p = "absent" THEN "live" ELSE p
Deleted(p) == IF p = "live" THEN "deleting" ELSE p

\* "Prepared" stands for the conditions of steps 0 to 6, which fail alike.
ConditionTypes ==
    {"Prepared", "PlacementEvaluated", "ClustersImported", "ManifestWorkCreated",
     "ArgoCDCRDelivered", "RemovedClustersCleanedUp", "AddonConfigured"}

\* A message either counts clusters or names the ones that failed.
Condition == [status : {"None", "Unknown", "True", "False"},
              count : Nat, names : SUBSET Clusters]

Plain(s) == [status |-> s, count |-> 0, names |-> {}]
Counted(S) == [status |-> "True", count |-> Cardinality(S), names |-> {}]
\* Faulty variants, for the mutation runs: the reason where the status belongs,
\* and a report that forgets the failures.
VerdictByReason(S, F) ==
    IF F = {} THEN Counted(S) ELSE [status |-> "Failed", count |-> 0, names |-> F]
VerdictOfSelection(S, F) == Counted(S)

Verdict(S, F) ==
    IF F = {} THEN Counted(S) ELSE [status |-> "False", count |-> 0, names |-> F]

NoStatus == [t \in ConditionTypes |-> Plain("None")]

\* RemovedClustersCleanedUp appears only once something was removed.
Initialized(s) ==
    [t \in ConditionTypes |->
        IF s[t].status = "None" /\ t # "RemovedClustersCleanedUp"
        THEN Plain("Unknown") ELSE s[t]]

Nobody == CHOOSE g \in GitOpsClusters : TRUE

Labels == {"idle", "init", "prepare", "prepareError", "placement",
           "placementError", "selected", "import", "caWork", "reject", "crWork",
           "list", "listError", "cleanup", "cleanCA", "cleanCR", "cleanSecret",
           "config", "addon", "done"}

TypeOK ==
    /\ present \subseteq GitOpsClusters
    /\ decisions \in [GitOpsClusters -> SUBSET Clusters]
    /\ customCR \in [GitOpsClusters -> BOOLEAN]
    /\ dropped \in [GitOpsClusters -> SUBSET Clusters]
    /\ secret \in [Namespaces -> SUBSET Clusters]
    /\ caWork \in [Clusters -> Presence]
    /\ crWork \in [GitOpsClusters -> [Clusters -> Presence]]
    /\ config \subseteq Clusters
    /\ addon \in [Clusters -> Presence]
    /\ status \in [GitOpsClusters -> [ConditionTypes -> Condition]]
    /\ queue \subseteq GitOpsClusters
    /\ pc \in Labels
    /\ cur \in GitOpsClusters
    /\ valid \in BOOLEAN
    /\ stale \in BOOLEAN
    /\ mem \in [ConditionTypes -> Condition]
    /\ sel \subseteq Clusters
    /\ todo \subseteq Clusters
    /\ failed \subseteq Clusters
    /\ target \subseteq Clusters
    /\ cleaned \subseteq Clusters
    /\ faults \in 0 .. MaxFaults
    /\ edits \in 0 .. MaxEdits

\* A hub where GitOpsClusters and placements have just been made: the worker's
\* informers report every GitOpsCluster once.
Init ==
    /\ present = GitOpsClusters
    /\ decisions \in [GitOpsClusters -> SUBSET Clusters]
    /\ customCR = [g \in GitOpsClusters |-> TRUE]
    /\ dropped = [g \in GitOpsClusters |-> {}]
    /\ secret = [n \in Namespaces |-> {}]
    /\ caWork = [c \in Clusters |-> "absent"]
    /\ crWork = [g \in GitOpsClusters |-> [c \in Clusters |-> "absent"]]
    /\ config = {}
    /\ addon = [c \in Clusters |-> "absent"]
    /\ status = [g \in GitOpsClusters |-> NoStatus]
    /\ queue = GitOpsClusters
    /\ pc = "idle"
    /\ cur = Nobody
    /\ valid = TRUE
    /\ stale = FALSE
    /\ mem = NoStatus
    /\ sel = {} /\ todo = {} /\ failed = {} /\ target = {} /\ cleaned = {}
    /\ faults = 0
    /\ edits = 0

-----------------------------------------------------------------------------
(* Users, OCM's placement controller and the owners of finalizers.         *)

Edit(kind) == kind \in EditKinds /\ edits < MaxEdits /\ edits' = edits + 1

\* Writing a GitOpsCluster makes the running reconcile's copy of it stale.
Touch(g) == stale' = (stale \/ (pc # "idle" /\ cur = g))

\* placementDecisionMapper turns the change into requests for the
\* GitOpsClusters that refer to the placement.
Reschedule(g, S) ==
    /\ Edit("placement")
    /\ S # decisions[g]
    /\ Returning \/ S \cap dropped[g] = {}
    /\ decisions' = [decisions EXCEPT ![g] = S]
    /\ dropped' = [dropped EXCEPT ![g] = @ \cup (decisions[g] \ S)]
    /\ queue' = queue \cup ({g} \cap present)
    /\ UNCHANGED <<present, customCR, products, status, pc, frame, faults>>

EditCustomCR(g) ==
    /\ Edit("customCR")
    /\ g \in present
    /\ customCR' = [customCR EXCEPT ![g] = ~@]
    /\ queue' = queue \cup {g}
    /\ Touch(g)
    /\ UNCHANGED <<present, decisions, dropped, products, status, pc, cur, valid,
                   mem, sel, todo, failed, target, cleaned, faults>>

\* No finalizer and no owner reference: the object is gone at once, and what
\* was made for it stays.
DeleteGitOpsCluster(g) ==
    /\ Edit("lifecycle")
    /\ g \in present
    /\ present' = present \ {g}
    /\ status' = [status EXCEPT ![g] = NoStatus]
    /\ queue' = queue \cup {g}
    /\ Touch(g)
    /\ UNCHANGED <<decisions, customCR, dropped, products, pc, cur, valid, mem,
                   sel, todo, failed, target, cleaned, faults>>

CreateGitOpsCluster(g) ==
    /\ Edit("lifecycle")
    /\ g \notin present
    /\ present' = present \cup {g}
    /\ queue' = queue \cup {g}
    /\ Touch(g)
    /\ UNCHANGED <<decisions, customCR, dropped, products, status, pc, cur, valid,
                   mem, sel, todo, failed, target, cleaned, faults>>

\* The addon framework has run the spoke's cleanup job.
AddonFinalized(c) ==
    /\ addon[c] = "deleting"
    /\ addon' = [addon EXCEPT ![c] = "absent"]
    /\ UNCHANGED <<wishes, secret, caWork, crWork, config, status, queue, pc,
                   frame, faults, edits>>

\* The spoke's work agent has removed what a ManifestWork delivered.
CAWorkFinalized(c) ==
    /\ caWork[c] = "deleting"
    /\ caWork' = [caWork EXCEPT ![c] = "absent"]
    /\ UNCHANGED <<wishes, secret, crWork, config, addon, status, queue, pc,
                   frame, faults, edits>>

CRWorkFinalized(g, c) ==
    /\ crWork[g][c] = "deleting"
    /\ crWork' = [crWork EXCEPT ![g][c] = "absent"]
    /\ UNCHANGED <<wishes, secret, caWork, config, addon, status, queue, pc,
                   frame, faults, edits>>

-----------------------------------------------------------------------------
(* The reconcile: getting started, and steps 0 to 7.                       *)

Fault(kind) == kind \in FaultKinds /\ faults < MaxFaults /\ faults' = faults + 1

\* setCondition and initializeConditions: the in-memory status is written as a
\* whole.  A conflict or any other error is logged and forgotten; a write that
\* changes something comes back as an event of the watch.
\* (WriteStatusAfresh: with a new timestamp every time, so every write counts.)
WriteStatusAfresh(new, requeue) ==
    /\ mem' = new
    /\ status' = [status EXCEPT ![cur] = new]
    /\ queue' = queue \cup {cur}
    /\ UNCHANGED faults

WriteStatus(new, requeue) ==
    /\ mem' = new
    /\ \/ /\ ~stale
          /\ status' = [status EXCEPT ![cur] = new]
          /\ queue' = queue \cup requeue \cup (IF new = status[cur] THEN {} ELSE {cur})
          /\ UNCHANGED faults
       \/ /\ \/ stale /\ UNCHANGED faults
             \/ ~stale /\ Fault("status")
          /\ queue' = queue \cup requeue
          /\ UNCHANGED status

With(type, condition) == [mem EXCEPT ![type] = condition]

Dequeue(g) ==
    /\ pc = "idle"
    /\ g \in queue
    /\ g \in present
    /\ queue' = queue \ {g}
    /\ pc' = "init"
    /\ cur' = g
    /\ valid' = customCR[g]
    /\ mem' = status[g]
    /\ UNCHANGED <<wishes, products, status, stale, sel, todo, failed, target,
                   cleaned, faults, edits>>

\* Not found, so nothing to do.
DequeueDeleted(g) ==
    /\ pc = "idle"
    /\ g \in queue \ present
    /\ queue' = queue \ {g}
    /\ UNCHANGED <<wishes, products, status, pc, frame, faults, edits>>

InitializeConditions ==
    /\ pc = "init"
    /\ WriteStatus(Initialized(mem), {})
    /\ pc' = "prepare"
    /\ UNCHANGED <<wishes, products, cur, valid, stale, sel, todo, failed, target,
                   cleaned, edits>>

\* RBAC, server discovery, JWT, CA, certificates and AddOnTemplate.
Prepare ==
    /\ pc = "prepare"
    /\ WriteStatus(With("Prepared", Counted({})), {})
    /\ pc' = "placement"
    /\ UNCHANGED <<wishes, products, cur, valid, stale, sel, todo, failed, target,
                   cleaned, edits>>

\* Any of these steps fails, or reading the placement and its decisions.
EarlyFailure ==
    /\ pc \in {"prepare", "placement"}
    /\ Fault("early")
    /\ pc' = IF pc = "prepare" THEN "prepareError" ELSE "placementError"
    /\ UNCHANGED <<wishes, products, status, queue, frame, edits>>

\* The error goes into a condition and back to the queue, which retries.
ReportEarlyFailure ==
    /\ pc \in {"prepareError", "placementError"}
    /\ LET type == IF pc = "prepareError" THEN "Prepared" ELSE "PlacementEvaluated"
       IN  WriteStatus(With(type, Plain("False")), {cur})
    /\ pc' = "done"
    /\ UNCHANGED <<wishes, products, cur, valid, stale, sel, todo, failed, target,
                   cleaned, edits>>

\* getManagedClustersFromPlacement: a ManagedCluster that cannot be read is
\* logged and left out, as if the placement had not selected it.
SelectClusters ==
    /\ pc = "placement"
    /\ \/ sel' = decisions[cur] /\ UNCHANGED faults
       \/ /\ Fault("read")
          /\ \E c \in decisions[cur] : sel' = decisions[cur] \ {c}
    /\ pc' = "selected"
    /\ UNCHANGED <<wishes, products, status, queue, cur, valid, stale, mem, todo,
                   failed, target, cleaned, edits>>

\* Step 9.5 starts with validateArgoCDCRManifestWork.
\* (AfterCAWorkIfAny: returning early when nothing is selected.)
AfterCAWorkIfAny ==
    IF sel = {} THEN "done" ELSE IF valid THEN "crWork" ELSE "reject"

AfterCAWork == IF valid THEN "crWork" ELSE "reject"

ReportSelected ==
    /\ pc = "selected"
    /\ WriteStatus(With("PlacementEvaluated", Counted(sel)), {})
    /\ pc' = IF sel = {} THEN AfterCAWork ELSE "import"
    /\ todo' = sel
    /\ UNCHANGED <<wishes, products, cur, valid, stale, sel, failed, target,
                   cleaned, edits>>

-----------------------------------------------------------------------------
(* Steps 8 to 9.5: what every selected cluster gets before its addon.  An  *)
(* error is remembered in a condition, and the loop goes on.               *)

\* The iteration for c: its call succeeds, or it fails and c is remembered.
Succeeds == UNCHANGED <<failed, faults>>
Fails(c) == Fault("apply") /\ failed' = failed \cup {c}

\* Step 8: createArgoCDClusterSecret.
ImportCluster(c) ==
    /\ pc = "import"
    /\ c \in todo
    /\ todo' = todo \ {c}
    /\ \/ Succeeds /\ secret' = [secret EXCEPT ![NamespaceOf[cur]] = @ \cup {c}]
       \/ Fails(c) /\ UNCHANGED secret
    /\ UNCHANGED <<wishes, caWork, crWork, config, addon, status, queue, pc, cur,
                   valid, stale, mem, sel, target, cleaned, edits>>

ReportImported ==
    /\ pc = "import"
    /\ todo = {}
    /\ WriteStatus(With("ClustersImported", Verdict(sel, failed)), {})
    /\ pc' = "caWork"
    /\ todo' = sel
    /\ failed' = {}
    /\ UNCHANGED <<wishes, products, cur, valid, stale, sel, target, cleaned, edits>>

\* Step 9: createArgoCDAgentManifestWork, which passes over local-cluster.
DeliverCA(c) ==
    /\ pc = "caWork"
    /\ c \in todo
    /\ todo' = todo \ {c}
    /\ \/ Succeeds /\ caWork' = IF c \in LocalClusters THEN caWork
                                ELSE [caWork EXCEPT ![c] = Ensured(@)]
       \/ c \notin LocalClusters /\ Fails(c) /\ UNCHANGED caWork
    /\ UNCHANGED <<wishes, secret, crWork, config, addon, status, queue, pc, cur,
                   valid, stale, mem, sel, target, cleaned, edits>>

ReportCADelivered ==
    /\ pc = "caWork"
    /\ todo = {}
    /\ WriteStatus(With("ManifestWorkCreated", Verdict(sel, failed)), {})
    /\ pc' = AfterCAWork
    /\ todo' = sel
    /\ failed' = {}
    /\ UNCHANGED <<wishes, products, cur, valid, stale, sel, target, cleaned, edits>>

\* An invalid ArgoCDCRManifestWork ends the reconcile without an error: no
\* requeue, and neither cleanup nor addons this time.
RejectCustomCR ==
    /\ pc = "reject"
    /\ WriteStatus(With("ArgoCDCRDelivered", Plain("False")), {})
    /\ pc' = "done"
    /\ UNCHANGED <<wishes, products, cur, valid, stale, sel, todo, failed, target,
                   cleaned, edits>>

\* Step 9.5: createArgoCDCRManifestWork, one ManifestWork per GitOpsCluster.
DeliverCR(c) ==
    /\ pc = "crWork"
    /\ c \in todo
    /\ todo' = todo \ {c}
    /\ \/ Succeeds /\ crWork' = IF c \in LocalClusters THEN crWork
                                ELSE [crWork EXCEPT ![cur][c] = Ensured(@)]
       \/ c \notin LocalClusters /\ Fails(c) /\ UNCHANGED crWork
    /\ UNCHANGED <<wishes, secret, caWork, config, addon, status, queue, pc, cur,
                   valid, stale, mem, sel, target, cleaned, edits>>

ReportCRDelivered ==
    /\ pc = "crWork"
    /\ todo = {}
    /\ WriteStatus(With("ArgoCDCRDelivered", Verdict(sel \ LocalClusters, failed)), {})
    /\ pc' = "list"
    /\ failed' = {}
    /\ UNCHANGED <<wishes, products, cur, valid, stale, sel, todo, target, cleaned, edits>>

-----------------------------------------------------------------------------
(* Step 10: cleanupRemovedClusters.  It finds the clusters to clean by     *)
(* their addons, whoever asked for those, and deletes the addon first.     *)

\* (EveryAddon: without the test for the current clusters.)
EveryAddon == {c \in Clusters : addon[c] # "absent"}
Strangers == {c \in Clusters : addon[c] # "absent"} \ sel

ListAddons ==
    /\ pc = "list"
    /\ \/ pc' = "cleanup" /\ todo' = Strangers /\ UNCHANGED faults
       \/ pc' = "listError" /\ Fault("apply") /\ UNCHANGED todo
    /\ UNCHANGED <<wishes, products, status, queue, cur, valid, stale, mem, sel,
                   failed, target, cleaned, edits>>

AfterCleanup == IF sel = {} THEN "done" ELSE "config"

ReportListFailure ==
    /\ pc = "listError"
    /\ WriteStatus(With("RemovedClustersCleanedUp", Plain("False")), {})
    /\ pc' = AfterCleanup
    /\ todo' = sel
    /\ UNCHANGED <<wishes, products, cur, valid, stale, sel, failed, target,
                   cleaned, edits>>

\* The AddOnDeploymentConfig stays: the addon's finalizer needs it.
DeleteAddon(c) ==
    /\ pc = "cleanup"
    /\ c \in todo
    /\ todo' = todo \ {c}
    /\ \/ /\ addon' = [addon EXCEPT ![c] = Deleted(@)]
          /\ pc' = "cleanCA"
          /\ target' = {c}
          /\ UNCHANGED faults
       \/ Fault("delete") /\ UNCHANGED <<addon, pc, target>>
    /\ UNCHANGED <<wishes, secret, caWork, crWork, config, status, queue, cur,
                   valid, stale, mem, sel, failed, cleaned, edits>>

\* The three deletions that follow: an error is logged, and no more.
DeleteCAWork ==
    /\ pc = "cleanCA"
    /\ pc' = "cleanCR"
    /\ \/ /\ caWork' = [c \in Clusters |->
                           IF c \in target THEN Deleted(caWork[c]) ELSE caWork[c]]
          /\ UNCHANGED faults
       \/ Fault("delete") /\ UNCHANGED caWork
    /\ UNCHANGED <<wishes, secret, crWork, config, addon, status, queue, frame, edits>>

\* (DeleteCRWorkByPrefix: under a name without the GitOpsCluster's own.)
DeleteCRWorkByPrefix ==
    /\ pc = "cleanCR"
    /\ pc' = "cleanSecret"
    /\ crWork' = [crWork EXCEPT ![Nobody] =
                     [c \in Clusters |-> IF c \in target THEN Deleted(@[c]) ELSE @[c]]]
    /\ UNCHANGED <<wishes, secret, caWork, config, addon, status, queue, frame,
                   faults, edits>>

DeleteCRWork ==
    /\ pc = "cleanCR"
    /\ pc' = "cleanSecret"
    /\ \/ /\ crWork' = [crWork EXCEPT ![cur] =
                           [c \in Clusters |-> IF c \in target THEN Deleted(@[c]) ELSE @[c]]]
          /\ UNCHANGED faults
       \/ Fault("delete") /\ UNCHANGED crWork
    /\ UNCHANGED <<wishes, secret, caWork, config, addon, status, queue, frame, edits>>

DeleteSecret ==
    /\ pc = "cleanSecret"
    /\ pc' = "cleanup"
    /\ \/ /\ secret' = [secret EXCEPT ![NamespaceOf[cur]] = @ \ target]
          /\ UNCHANGED faults
       \/ Fault("delete") /\ UNCHANGED secret
    /\ cleaned' = cleaned \cup target
    /\ target' = {}
    /\ UNCHANGED <<wishes, caWork, crWork, config, addon, status, queue, cur, valid,
                   stale, mem, sel, todo, failed, edits>>

ReportCleaned ==
    /\ pc = "cleanup"
    /\ todo = {}
    /\ IF cleaned = {}
       THEN UNCHANGED <<mem, status, queue, faults>>
       ELSE WriteStatus(With("RemovedClustersCleanedUp", Counted(cleaned)), {})
    /\ pc' = AfterCleanup
    /\ todo' = sel
    /\ UNCHANGED <<wishes, products, cur, valid, stale, sel, failed, target,
                   cleaned, edits>>

-----------------------------------------------------------------------------
(* Step 11: the addon's configuration, then the addon.                     *)

\* (EnsureConfigGoingOn: without the "continue" after a failure.)
EnsureConfigGoingOn(c) ==
    /\ pc = "config"
    /\ c \in todo
    /\ todo' = todo \ {c}
    /\ pc' = "addon"
    /\ target' = {c}
    /\ \/ Succeeds /\ config' = config \cup {c}
       \/ Fails(c) /\ UNCHANGED config
    /\ UNCHANGED <<wishes, secret, caWork, crWork, addon, status, queue, cur, valid,
                   stale, mem, sel, cleaned, edits>>

EnsureConfig(c) ==
    /\ pc = "config"
    /\ c \in todo
    /\ todo' = todo \ {c}
    /\ \/ Succeeds /\ config' = config \cup {c} /\ pc' = "addon" /\ target' = {c}
       \/ Fails(c) /\ UNCHANGED <<config, pc, target>>
    /\ UNCHANGED <<wishes, secret, caWork, crWork, addon, status, queue, cur, valid,
                   stale, mem, sel, cleaned, edits>>

\* An addon that exists is kept, one being deleted too.
EnsureAddon ==
    /\ pc = "addon"
    /\ pc' = "config"
    /\ \E c \in target :
          \/ Succeeds /\ addon' = [addon EXCEPT ![c] = Ensured(@)]
          \/ Fails(c) /\ UNCHANGED addon
    /\ target' = {}
    /\ UNCHANGED <<wishes, secret, caWork, crWork, config, status, queue, cur, valid,
                   stale, mem, sel, todo, cleaned, edits>>

ReportAddons ==
    /\ pc = "config"
    /\ todo = {}
    /\ WriteStatus(With("AddonConfigured", Verdict(sel, failed)), {})
    /\ pc' = "done"
    /\ UNCHANGED <<wishes, products, cur, valid, stale, sel, todo, failed, target,
                   cleaned, edits>>

-----------------------------------------------------------------------------
(* The end of a reconcile, and of the process.                             *)

Forget ==
    /\ pc' = "idle"
    /\ cur' = Nobody
    /\ valid' = TRUE
    /\ stale' = FALSE
    /\ mem' = NoStatus
    /\ sel' = {} /\ todo' = {} /\ failed' = {} /\ target' = {} /\ cleaned' = {}

\* (ReturnSettled: the requests that came in meanwhile taken as served.)
ReturnSettled ==
    /\ pc = "done"
    /\ Forget
    /\ queue' = queue \ {cur}
    /\ UNCHANGED <<wishes, products, status, faults, edits>>

Return ==
    /\ pc = "done"
    /\ Forget
    /\ UNCHANGED <<wishes, products, status, queue, faults, edits>>

\* The process stops anywhere and starts again: its informers list every
\* GitOpsCluster.
Crash ==
    /\ Fault("crash")
    /\ Forget
    /\ queue' = present
    /\ UNCHANGED <<wishes, products, status, edits>>

-----------------------------------------------------------------------------
Environment ==
    \/ \E g \in GitOpsClusters :
          \/ \E S \in SUBSET Clusters : Reschedule(g, S)
          \/ EditCustomCR(g)
          \/ DeleteGitOpsCluster(g)
          \/ CreateGitOpsCluster(g)
    \/ Crash

Finalize ==
    \E c \in Clusters :
        \/ AddonFinalized(c)
        \/ CAWorkFinalized(c)
        \/ \E g \in GitOpsClusters : CRWorkFinalized(g, c)

Work ==
    \/ \E g \in GitOpsClusters : Dequeue(g) \/ DequeueDeleted(g)
    \/ \E c \in Clusters :
          \/ ImportCluster(c)
          \/ DeliverCA(c)
          \/ DeliverCR(c)
          \/ DeleteAddon(c)
          \/ EnsureConfig(c)
    \/ InitializeConditions
    \/ Prepare
    \/ EarlyFailure
    \/ ReportEarlyFailure
    \/ SelectClusters
    \/ ReportSelected
    \/ ReportImported
    \/ ReportCADelivered
    \/ RejectCustomCR
    \/ ReportCRDelivered
    \/ ListAddons
    \/ ReportListFailure
    \/ DeleteCAWork
    \/ DeleteCRWork
    \/ DeleteSecret
    \/ ReportCleaned
    \/ EnsureAddon
    \/ ReportAddons
    \/ Return

Next == Environment \/ Finalize \/ Work

Spec == Init /\ [][Next]_vars

\* The worker runs, and the owners of finalizers finish.  Users, placements
\* and crashes owe nothing; MaxFaults and MaxEdits bound them.
Fairness ==
    /\ WF_vars(Work)
    /\ \A c \in Clusters :
          /\ WF_vars(AddonFinalized(c))
          /\ WF_vars(CAWorkFinalized(c))
          /\ \A g \in GitOpsClusters : WF_vars(CRWorkFinalized(g, c))

FairSpec == Spec /\ Fairness

-----------------------------------------------------------------------------
(* Safety.                                                                 *)

\* The finalizer of an addon runs the spoke's cleanup with the namespaces of
\* its AddOnDeploymentConfig: an addon, also one being deleted, has its config.
\* Step 11 makes the config first, gives up on the cluster when that fails, and
\* step 10 leaves the config behind (gitopscluster_controller.go:308-321, 432-435).
AddonHasConfig == \A c \in Clusters : addon[c] # "absent" => c \in config

\* The cleanup of a reconcile and the fan-out of the same reconcile work on
\* different clusters, whatever the placement does meanwhile: what steps 8 to 9.5
\* have just made, step 10 does not delete (gitopscluster_controller.go:402-424).
SelectionSpared ==
    \A c \in Clusters :
        \/ addon[c] = "live" /\ addon'[c] = "deleting"
        \/ caWork[c] = "live" /\ caWork'[c] = "deleting"
        \/ crWork[cur][c] = "live" /\ crWork'[cur][c] = "deleting"
        \/ c \in secret[NamespaceOf[cur]] /\ c \notin secret'[NamespaceOf[cur]]
        => c \notin sel
CleanupSparesSelection == [][SelectionSpared]_vars

\* What cleanup counts as removed is removed, as long as no call failed: no live
\* addon, no live ManifestWork of this GitOpsCluster and no cluster secret
\* (gitopscluster_controller.go:424-468).
Removed(g, c) ==
    /\ addon[c] # "live"
    /\ caWork[c] # "live"
    /\ crWork[g][c] # "live"
    /\ c \notin secret[NamespaceOf[g]]
CleanedMeansRemoved == faults = 0 => \A c \in cleaned : Removed(cur, c)

\* When ClustersImported turns True, or its count changes, every cluster the
\* reconcile selected has its Argo CD secret: one failed import among several is
\* not lost between the loop and the report (gitopscluster_controller.go:211-228).
ImportReported ==
    \A g \in GitOpsClusters :
        LET type == "ClustersImported"
        IN  status'[g][type] # status[g][type] /\ status'[g][type].status = "True"
            => sel \subseteq secret[NamespaceOf[g]]
ImportedMeansImported == [][ImportReported]_vars

\* "cleanupRemovedClusters removes addons from clusters that are no longer in
\* the placement" (gitopscluster_controller.go:400): as long as no call failed,
\* the reconciled GitOpsCluster's placement had selected the cluster, and let it go.
OnlyDroppedClustersAreRemoved ==
    [][\A c \in Clusters :
          faults = 0 /\ addon[c] = "live" /\ addon'[c] = "deleting"
          => c \in dropped[cur]]_vars

-----------------------------------------------------------------------------
(* Liveness.                                                               *)

Served(g, c) ==
    /\ c \in secret[NamespaceOf[g]]
    /\ c \in config
    /\ addon[c] = "live"
    /\ c \notin LocalClusters => caWork[c] = "live" /\ crWork[g][c] = "live"

Clean(g, c) ==
    /\ c \notin secret[NamespaceOf[g]]
    /\ addon[c] = "absent"
    /\ caWork[c] = "absent"
    /\ crWork[g][c] = "absent"

\* The controller, which wakes itself up with every status it changes, comes to
\* rest once users, placements and faults do (gitopscluster_controller.go:590-614,
\* 671-680).
Settles == <>[](pc = "idle" /\ queue = {})

\* "Deploys argocd-agent to all selected clusters" (README.md:207): every selected
\* cluster ends up with its addon and all that goes with it, as long as no more than one
\* call has failed: a failure is retried only because it changes the status, which a second
\* one of the same kind does not (gitopscluster_controller.go:334, 590-614).
SelectedAreServed ==
    <>[](faults <= 1 => \A g \in present : \A c \in decisions[g] : Served(g, c))

\* Every cluster a placement let go ends up without any of it, except for the
\* AddOnDeploymentConfig, as long as no call failed and the process did not die
\* (gitopscluster_controller.go:402-472).
DroppedAreClean ==
    <>[](faults = 0 => \A g \in present : \A c \in dropped[g] \ decisions[g] : Clean(g, c))

-----------------------------------------------------------------------------
(* At rest.                                                                *)

FanoutConditions ==
    {"ClustersImported", "ManifestWorkCreated", "ArgoCDCRDelivered", "AddonConfigured"}

\* The status names the cluster among the failed ones, or says that the custom CR was
\* rejected, which is a "False" that names none.
Told(g, c) ==
    \/ \E t \in FanoutConditions : status[g][t].status = "False" /\ c \in status[g][t].names
    \/ status[g]["ArgoCDCRDelivered"] = Plain("False")

\* No request is lost and no failure is silent: whenever a GitOpsCluster is neither
\* queued nor being reconciled, every cluster that its placement selects and never let go
\* has all it should have, or the status says it has not.  Reconciles of steps 8 to 11
\* end without an error and are retried only through the status they change
\* (gitopscluster_controller.go:205-334, 590-614, 671-680).
ServedOrTold ==
    pc = "idle" => \A g \in present \ queue : \A c \in decisions[g] \ dropped[g] :
                       Served(g, c) \/ Told(g, c)

\* What a cluster was given before it had an addon is still found by way of the addon: at
\* rest, a cluster the placement let go keeps nothing, unless a call failed or the process
\* died, at whatever call of the fan-out it was let go (gitopscluster_controller.go:402-472).
RemovedAtRest ==
    faults = 0 /\ pc = "idle" =>
        \A g \in present \ queue : \A c \in dropped[g] \ decisions[g] : Removed(g, c)

-----------------------------------------------------------------------------
(* What makes the safety properties inductive.                             *)

CleanupPcs == {"cleanup", "cleanCA", "cleanCR", "cleanSecret"}

\* Between the two calls of step 11 for a cluster, the first one has succeeded.
ConfigInv == AddonHasConfig /\ (pc = "addon" => target \subseteq config)

\* Cleanup works outside the selection, step 11 inside it.
CleanupInv ==
    /\ pc \in CleanupPcs => (todo \cup target) \cap sel = {}
    /\ pc \in {"config", "addon"} => todo \cup target \subseteq sel
    /\ pc \notin {"cleanCA", "cleanCR", "cleanSecret", "addon"} => target = {}

\* How far the cleanup of a cluster has come, and that nothing done later in the
\* same reconcile brings back what it removed.
CleanedInv ==
    /\ cleaned # {} => pc \in CleanupPcs \cup {"config", "addon", "done"}
    /\ cleaned \cap sel = {}
    /\ CleanedMeansRemoved
    /\ faults = 0 => \A c \in target :
          /\ pc \in {"cleanCA", "cleanCR", "cleanSecret"} => addon[c] # "live"
          /\ pc \in {"cleanCR", "cleanSecret"} => caWork[c] # "live"
          /\ pc = "cleanSecret" => crWork[cur][c] # "live"

\* Clusters leave the import loop imported or remembered as failed; and a
\* "True" not yet written to the API server is still true of the secrets.
ImportInv ==
    LET type == "ClustersImported"
    IN  /\ pc = "import" => sel \subseteq todo \cup failed \cup secret[NamespaceOf[cur]]
        /\ pc # "idle" /\ ~stale /\ mem[type].status = "True" /\ mem[type] # status[cur][type]
           => /\ sel \subseteq secret[NamespaceOf[cur]]
              /\ pc \notin {"init", "prepare", "prepareError", "placement",
                            "placementError", "selected", "import"}

IInv == ConfigInv /\ CleanupInv /\ CleanedInv /\ ImportInv

\* Towards each managed cluster the reconciles of all GitOpsClusters together keep the
\* contract: none makes an object anew, or whole again, whose deletion another has begun,
\* at whatever call they interleave (addon_management.go:50-56,
\* gitopscluster_controller.go:421-447, argocd_cr_manifest_work.go:352-374).
Lifecycle(g, c) == INSTANCE AddonLifecycle WITH addon <- addon[c], work <- crWork[g][c]
SafeLifecycle ==
    /\ \A g \in GitOpsClusters, c \in Clusters : Lifecycle(g, c)!Init
    /\ [][\A g \in GitOpsClusters, c \in Clusters : Lifecycle(g, c)!Next]_vars
KeepsLifecycle ==
    SafeLifecycle /\ \A g \in GitOpsClusters, c \in Clusters : Lifecycle(g, c)!Ends
=============================================================================
