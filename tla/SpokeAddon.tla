------------------------------ MODULE SpokeAddon ------------------------------
(***************************************************************************)
(* The addon on one managed cluster (internal/addon).  Two processes work  *)
(* on the same objects: the addon controller, which applies the chart of   *)
(* the Argo CD operator at every interval, and the cleanup job, which the  *)
(* addon framework starts when the hub deletes the addon and which takes   *)
(* the ArgoCD CR and the operator away.  They share nothing but a          *)
(* ConfigMap, the pause marker: the job writes it, the controller looks    *)
(* for it when a reconcile begins, and not again before it ends.           *)
(*                                                                         *)
(* Around them: the Argo CD operator, whose finalizer holds the ArgoCD CR; *)
(* the work agent, which applies and deletes the CR for the hub; and the   *)
(* framework, which runs the job until it exits with 0 and then takes the  *)
(* controller away.                                                        *)
(***************************************************************************)
EXTENDS Naturals, Sequences

CONSTANTS
    Manifests,     \* the objects of the operator chart
    Operator,      \* the one that is the operator's Deployment
    Chart,         \* Manifests in the order in which they are applied
    Deletion,      \* Manifests in the order in which cleanup deletes them
    Skippable,     \* those users may have brought themselves, marked "skip"
    VerifyChoices, \* settings of CLEANUP_VERIFICATION_WAIT_SECONDS, in rounds of 20 s
    FaultKinds,    \* the failures that may happen in this instance
    MaxFaults,     \* bound on their number
    MaxLives       \* bound on how often the hub installs the addon

AllFaultKinds == {"unseen", "install", "apply", "marker", "crRead", "crDelete",
                  "timeout", "delete", "withdraw", "crash"}

ASSUME SpokeAssumption ==
    /\ Operator \in Manifests
    /\ Chart \in Seq(Manifests)
    /\ Deletion \in Seq(Manifests)
    /\ \A m \in Manifests : \E i \in 1 .. Len(Deletion) : Deletion[i] = m
    /\ Skippable \subseteq Manifests
    /\ VerifyChoices \subseteq Nat
    /\ VerifyChoices # {}
    /\ FaultKinds \subseteq AllFaultKinds
    /\ MaxFaults \in Nat
    /\ MaxLives \in Nat \ {0}

VARIABLES
    \* what the hub wants
    phase,    \* the addon on this cluster: "deployed", "removing" or "gone"
    crWork,   \* whether the hub's ManifestWork of the ArgoCD CR is in force
    lives,    \* how often the addon has been deployed
    verify,   \* the rounds of step 3 the job is set up for; 0 unless set
    \* objects on the cluster
    base,     \* the CRDs and the namespaces exist
    object,   \* the chart's objects
    cr,       \* the ArgoCD CR
    marker,   \* the pause marker
    \* the addon controller
    ctl,      \* where its reconcile is
    chart,    \* the manifests it has still to apply
    \* the cleanup job
    job,      \* where it is
    doomed,   \* the manifests it has still to delete
    rounds,   \* the rounds of step 3 it has still to do
    flawed,   \* it has recorded an error and will exit with 1
    quiet,    \* history: no reconcile was under way when it began to delete
    faults

hub == <<phase, crWork, lives, verify>>
objects == <<base, object, cr, marker>>
controller == <<ctl, chart>>
cleanup == <<job, doomed, rounds, flawed, quiet>>
vars == <<hub, objects, controller, cleanup, faults>>

-----------------------------------------------------------------------------
\* "managed" objects carry the label app.kubernetes.io/managed-by of the addon;
\* "skipped" ones belong to a user and carry the skip annotation.
ObjectStates == {"absent", "managed", "skipped"}

\* The CR is "held" once the operator has put its finalizer on it.
CRStates == {"absent", "new", "held", "deleting"}

JobLabels == {"none", "marker", "getCR", "wait", "finalCheck", "delete", "verifyCR",
              "verify", "exit", "succeeded", "failed"}

TypeOK ==
    /\ phase \in {"deployed", "removing", "gone"}
    /\ crWork \in BOOLEAN
    /\ lives \in 1 .. MaxLives
    /\ verify \in VerifyChoices
    /\ base \in BOOLEAN
    /\ object \in [Manifests -> ObjectStates]
    /\ cr \in CRStates
    /\ marker \in BOOLEAN
    /\ ctl \in {"off", "idle", "install", "apply"}
    /\ chart \in Seq(Manifests)
    /\ job \in JobLabels
    /\ doomed \in Seq(Manifests)
    /\ rounds \in 0 .. verify
    /\ flawed \in BOOLEAN
    /\ quiet \in BOOLEAN
    /\ faults \in 0 .. MaxFaults

\* The framework has just delivered the addon.
Init ==
    /\ phase = "deployed"
    /\ crWork = TRUE
    /\ lives = 1
    /\ verify \in VerifyChoices
    /\ base = FALSE
    /\ object \in [Manifests -> {"absent", "skipped"}]
    /\ \A m \in Manifests \ Skippable : object[m] = "absent"
    /\ cr = "absent"
    /\ marker = FALSE
    /\ ctl = "idle"
    /\ chart = << >>
    /\ job = "none"
    /\ doomed = << >>
    /\ rounds = 0
    /\ flawed = FALSE
    /\ quiet = FALSE
    /\ faults = 0

Fault(kind) == kind \in FaultKinds /\ faults < MaxFaults /\ faults' = faults + 1
Fine == UNCHANGED faults

OperatorRuns == object[Operator] # "absent"
Installing == ctl \in {"install", "apply"}

-----------------------------------------------------------------------------
(* The hub, the framework, the work agent and the Argo CD operator.        *)

\* The hub deletes the addon and then the ManifestWork of the CR; the second
\* deletion may fail, which the hub logs and forgets.
Remove ==
    /\ phase = "deployed"
    /\ phase' = "removing"
    /\ \/ crWork' = FALSE /\ Fine
       \/ Fault("withdraw") /\ UNCHANGED crWork
    /\ UNCHANGED <<lives, verify, objects, controller, cleanup>>

\* A Job with restart policy Never: a new pod after every exit with 1.
\* (StartJobFlawed: with the errors of the last one.)
StartJobFlawed ==
    /\ phase = "removing"
    /\ job \in {"none", "failed"}
    /\ job' = "marker"
    /\ doomed' = << >>
    /\ rounds' = verify
    /\ quiet' = FALSE
    /\ UNCHANGED <<hub, objects, controller, flawed, faults>>

StartJob ==
    /\ phase = "removing"
    /\ job \in {"none", "failed"}
    /\ job' = "marker"
    /\ doomed' = << >>
    /\ rounds' = verify
    /\ flawed' = FALSE
    /\ quiet' = FALSE
    /\ UNCHANGED <<hub, objects, controller, faults>>

\* Only now does the framework delete what it delivered: the controller dies,
\* be it in the middle of a reconcile.
Withdraw ==
    /\ phase = "removing"
    /\ job = "succeeded"
    /\ phase' = "gone"
    /\ ctl' = "off"
    /\ chart' = << >>
    /\ UNCHANGED <<crWork, lives, verify, objects, cleanup, faults>>

\* The cluster is selected once more.
Redeploy ==
    /\ phase = "gone"
    /\ lives < MaxLives
    /\ lives' = lives + 1
    /\ phase' = "deployed"
    /\ crWork' = TRUE
    /\ ctl' = "idle"
    /\ job' = "none"
    /\ UNCHANGED <<verify, objects, chart, doomed, rounds, flawed, quiet, faults>>

ApplyCR ==
    /\ crWork
    /\ base
    /\ cr = "absent"
    /\ cr' = "new"
    /\ UNCHANGED <<hub, base, object, marker, controller, cleanup, faults>>

\* A CR without finalizer is gone when it is deleted.
Doomed(s) == IF s = "new" THEN "absent" ELSE "deleting"

WithdrawCR ==
    /\ ~crWork
    /\ cr \in {"new", "held"}
    /\ cr' = Doomed(cr)
    /\ UNCHANGED <<hub, base, object, marker, controller, cleanup, faults>>

HoldCR ==
    /\ OperatorRuns
    /\ cr = "new"
    /\ cr' = "held"
    /\ UNCHANGED <<hub, base, object, marker, controller, cleanup, faults>>

ReleaseCR ==
    /\ OperatorRuns
    /\ cr = "deleting"
    /\ cr' = "absent"
    /\ UNCHANGED <<hub, base, object, marker, controller, cleanup, faults>>

-----------------------------------------------------------------------------
(* The addon controller.                                                   *)

\* IsPaused fails open: a marker it cannot read, or that its cache does not
\* have yet, does not pause.
Begin ==
    /\ ctl = "idle"
    /\ \/ ~marker /\ Fine
       \/ marker /\ Fault("unseen")
    /\ ctl' = "install"
    /\ UNCHANGED <<hub, objects, chart, cleanup>>

\* CRDs, both namespaces and the rendering of the chart; an error waits for the
\* next interval.
Install ==
    /\ ctl = "install"
    /\ \/ base' = TRUE /\ ctl' = "apply" /\ chart' = Chart /\ Fine
       \/ Fault("install") /\ ctl' = "idle" /\ UNCHANGED <<base, chart>>
    /\ UNCHANGED <<hub, object, cr, marker, cleanup>>

\* applyManifest; an error is logged and the next manifest is applied.
Apply ==
    /\ ctl = "apply"
    /\ chart # << >>
    /\ chart' = Tail(chart)
    /\ \/ /\ object' = [object EXCEPT ![Head(chart)] =
                           IF @ = "skipped" THEN @ ELSE "managed"]
          /\ Fine
       \/ Fault("apply") /\ UNCHANGED object
    /\ UNCHANGED <<hub, base, cr, marker, ctl, cleanup>>

\* (FinishForGood: without the periodic reconciles.)
FinishForGood ==
    /\ ctl = "apply"
    /\ chart = << >>
    /\ ctl' = "off"
    /\ UNCHANGED <<hub, objects, chart, cleanup, faults>>

Finish ==
    /\ ctl = "apply"
    /\ chart = << >>
    /\ ctl' = "idle"
    /\ UNCHANGED <<hub, objects, chart, cleanup, faults>>

Crash ==
    /\ Installing
    /\ Fault("crash")
    /\ ctl' = "idle"
    /\ chart' = << >>
    /\ UNCHANGED <<hub, objects, cleanup>>

-----------------------------------------------------------------------------
(* The cleanup job.                                                        *)

\* Step 0, in the operator's namespace.  Without a marker the job goes on, and
\* exits with 1 in the end.
CreateMarker ==
    /\ job = "marker"
    /\ job' = "getCR"
    /\ \/ base /\ marker' = TRUE /\ Fine /\ UNCHANGED flawed
       \/ /\ \/ ~base /\ Fine
             \/ ~marker /\ Fault("marker")
          /\ flawed' = TRUE
          /\ UNCHANGED marker
    /\ UNCHANGED <<hub, base, object, cr, controller, doomed, rounds, quiet>>

ToDelete ==
    /\ job' = "delete"
    /\ doomed' = Deletion
    /\ quiet' = (marker /\ ~Installing)

Deleted == IF cr \in {"new", "held"} THEN Doomed(cr) ELSE cr

\* Step 1.  Without its CRD the CR cannot be read.
\* (DeleteCRAndGo: without waiting for it to be gone.)
DeleteCRAndGo ==
    /\ job = "getCR"
    /\ cr' = Deleted
    /\ ToDelete
    /\ UNCHANGED <<hub, base, object, marker, controller, rounds, flawed, faults>>

DeleteCR ==
    /\ job = "getCR"
    /\ \/ base /\ cr = "absent" /\ ToDelete /\ Fine /\ UNCHANGED cr
       \/ cr # "absent" /\ cr' = Deleted /\ job' = "wait" /\ Fine
          /\ UNCHANGED <<doomed, quiet>>
       \/ /\ \/ ~base /\ Fine
             \/ Fault("crRead")
             \/ cr # "absent" /\ Fault("crDelete")
          /\ job' = "failed"
          /\ UNCHANGED <<cr, doomed, quiet>>
    /\ UNCHANGED <<hub, base, object, marker, controller, rounds, flawed>>

\* The wait ends when the CR is gone, or after two minutes.
WaitForCR ==
    /\ job = "wait"
    /\ job' = "finalCheck"
    /\ \/ cr = "absent" /\ Fine
       \/ cr # "absent" /\ Fault("timeout")
    /\ UNCHANGED <<hub, objects, controller, doomed, rounds, flawed, quiet>>

\* A CR that is still there, or there again, is only warned about.
FinalCheck ==
    /\ job = "finalCheck"
    /\ \/ ToDelete /\ Fine
       \/ Fault("crRead") /\ job' = "failed" /\ UNCHANGED <<doomed, quiet>>
    /\ UNCHANGED <<hub, objects, controller, rounds, flawed>>

\* Step 2, and again in step 3: objects are found by the label managed-by, which
\* the marker does not have.  Errors are logged and not reported.
\* (DeleteObjectAndMarker: were it to have that label.)
DeleteObjectAndMarker ==
    /\ job = "delete"
    /\ doomed # << >>
    /\ doomed' = Tail(doomed)
    /\ object' = [object EXCEPT ![Head(doomed)] = IF @ = "managed" THEN "absent" ELSE @]
    /\ marker' = FALSE
    /\ UNCHANGED <<hub, base, cr, controller, job, rounds, flawed, quiet, faults>>

DeleteObject ==
    /\ job = "delete"
    /\ doomed # << >>
    /\ doomed' = Tail(doomed)
    /\ \/ /\ object' = [object EXCEPT ![Head(doomed)] = IF @ = "managed" THEN "absent" ELSE @]
          /\ Fine
       \/ Fault("delete") /\ UNCHANGED object
    /\ UNCHANGED <<hub, base, cr, marker, controller, job, rounds, flawed, quiet>>

DeletionDone ==
    /\ job = "delete"
    /\ doomed = << >>
    /\ job' = IF verify = 0 THEN "exit" ELSE "verifyCR"
    /\ UNCHANGED <<hub, objects, controller, doomed, rounds, flawed, quiet, faults>>

\* Step 3, a round: a CR that is there is deleted again, and not waited for.
VerifyCR ==
    /\ job = "verifyCR"
    /\ rounds > 0
    /\ job' = "verify"
    /\ \/ cr' = Deleted /\ Fine
       \/ cr # "absent" /\ (Fault("crRead") \/ Fault("crDelete")) /\ UNCHANGED cr
    /\ UNCHANGED <<hub, base, object, marker, controller, doomed, rounds, flawed, quiet>>

\* Only Deployments are looked for; a failed look counts as none.
VerifyOperator ==
    /\ job = "verify"
    /\ rounds' = rounds - 1
    /\ \/ object[Operator] = "managed" /\ ToDelete /\ Fine
       \/ /\ \/ object[Operator] # "managed" /\ Fine
             \/ object[Operator] = "managed" /\ Fault("delete")
          /\ job' = "verifyCR"
          /\ UNCHANGED <<doomed, quiet>>
    /\ UNCHANGED <<hub, objects, controller, flawed>>

VerifyDone ==
    /\ job = "verifyCR"
    /\ rounds = 0
    /\ job' = "exit"
    /\ \/ flawed' = (flawed \/ cr # "absent" \/ object[Operator] = "managed") /\ Fine
       \/ Fault("crRead") /\ UNCHANGED flawed
    /\ UNCHANGED <<hub, objects, controller, doomed, rounds, quiet>>

Exit ==
    /\ job = "exit"
    /\ job' = IF flawed THEN "failed" ELSE "succeeded"
    /\ UNCHANGED <<hub, objects, controller, doomed, rounds, flawed, quiet, faults>>

JobCrash ==
    /\ job \notin {"none", "succeeded", "failed"}
    /\ Fault("crash")
    /\ job' = "failed"
    /\ UNCHANGED <<hub, objects, controller, doomed, rounds, flawed, quiet>>

-----------------------------------------------------------------------------
Control == Begin \/ Install \/ Apply \/ Finish

Job ==
    \/ CreateMarker
    \/ DeleteCR
    \/ WaitForCR
    \/ FinalCheck
    \/ DeleteObject
    \/ DeletionDone
    \/ VerifyCR
    \/ VerifyOperator
    \/ VerifyDone
    \/ Exit

Next ==
    \/ Remove
    \/ StartJob
    \/ Withdraw
    \/ Redeploy
    \/ ApplyCR
    \/ WithdrawCR
    \/ HoldCR
    \/ ReleaseCR
    \/ Control
    \/ Crash
    \/ Job
    \/ JobCrash

Spec == Init /\ [][Next]_vars

\* The controller's timer, the job's pod, the framework, the work agent and the
\* operator keep running; the hub decides when it likes.
Fairness ==
    /\ WF_vars(Control)
    /\ WF_vars(Job)
    /\ WF_vars(StartJob)
    /\ WF_vars(Withdraw)
    /\ WF_vars(ApplyCR)
    /\ WF_vars(WithdrawCR)
    /\ WF_vars(HoldCR)
    /\ WF_vars(ReleaseCR)

FairSpec == Spec /\ Fairness

-----------------------------------------------------------------------------
(* Properties.                                                             *)

\* Once the job has exited with 0, the operator's objects are gone and stay gone,
\* as long as no call failed and no reconcile of the controller was under way
\* when the job began to delete: the marker keeps the controller from bringing
\* them back, and no step removes the marker (addon_cleanup.go:63-69, 119-124;
\* addon_controller.go:111-115).
GoneStaysGone ==
    job = "succeeded" /\ quiet /\ faults = 0
    => \A m \in Manifests : object[m] # "managed"

\* "only deletes operator after ArgoCD CR is gone" (addon_cleanup.go:41): the
\* operator, whose finalizer the CR carries, is not taken away before it has
\* released the CR, however often the job is retried.
OperatorOutlivesCR ==
    [][object[Operator] = "managed" /\ object'[Operator] = "absent" => cr = "absent"]_vars

\* Removing the addon ends with the ArgoCD CR gone: it does not hang in its
\* finalizer after the operator has left (addon_cleanup.go:71-117).
CRGone == <>[](phase # "deployed" => cr = "absent")

\* An addon installed for the first time ends up with a running operator, though
\* calls fail and the controller dies (addon_controller.go:91-102, 117-122).
InstalledAtFirst == <>[](phase = "deployed" /\ lives = 1 => OperatorRuns)

\* "Deploys argocd-agent to all selected clusters" (README.md:207): also on a
\* cluster that had been selected before, and dropped.
InstalledWhereDeployed == <>[](phase = "deployed" => OperatorRuns)

\* What the hub sees of this cluster keeps the contract with it: the addon goes only
\* after a deletion, and every deletion of addon and ManifestWork ends, although the job
\* fails and is started again and although the CR waits for the operator that the same
\* job takes away (addon_cleanup.go:71-145).
HubAddon == [deployed |-> "live", removing |-> "deleting", gone |-> "absent"][phase]
HubWork == IF crWork THEN "live" ELSE IF cr = "absent" THEN "absent" ELSE "deleting"
Lifecycle == INSTANCE AddonLifecycle WITH addon <- HubAddon, work <- HubWork
KeepsLifecycle == Lifecycle!Spec
=============================================================================
