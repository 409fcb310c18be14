------------------------------ MODULE AgentCert ------------------------------
(***************************************************************************)
(* The agent's client certificate on a managed cluster (addon_install.go): *)
(* at every interval the addon controller copies the certificate that OCM  *)
(* issued into the secret the agent reads, and then compares its digest    *)
(* with the one recorded on the agent's Deployment; if they differ it      *)
(* patches the Deployment, which records the digest and rolls the pod in   *)
(* one.  Level-triggered: what matters is the difference, not the change.  *)
(***************************************************************************)
EXTENDS CertConsumer

CONSTANTS
    MaxCert,     \* bound on the revisions OCM issues
    FaultKinds,  \* the failures that may happen in this instance
    MaxFaults    \* bound on their number

ASSUME AgentCertAssumption ==
    /\ MaxDeploys \in Nat
    /\ MaxCert \in Nat
    /\ FaultKinds \subseteq {"write", "read", "patch", "crash"}
    /\ MaxFaults \in Nat

VARIABLES
    source,  \* the secret OCM maintains: its revision, 0 for none
    target,  \* the secret the agent reads
    stamp,   \* the digest recorded on the Deployment, 0 for none
    pc,      \* where copyClientCertificate is
    want,    \* the revision it has read from source
    faults

vars == <<consumer, source, target, stamp, pc, want, faults>>

Revisions == 0 .. MaxCert

TypeOK ==
    /\ ConsumerTypeOK(Revisions)
    /\ source \in Revisions
    /\ target \in Revisions
    /\ stamp \in Revisions
    /\ pc \in {"idle", "write", "check", "patch"}
    /\ want \in Revisions
    /\ faults \in 0 .. MaxFaults

Init ==
    /\ ConsumerInit
    /\ source = 0
    /\ target = 0
    /\ stamp = 0
    /\ pc = "idle"
    /\ want = 0
    /\ faults = 0

Fault(kind) == kind \in FaultKinds /\ faults < MaxFaults /\ faults' = faults + 1
Fine == UNCHANGED faults

-----------------------------------------------------------------------------
\* OCM's registration agent issues and renews.
Issue ==
    /\ source < MaxCert
    /\ source' = source + 1
    /\ UNCHANGED <<consumer, target, stamp, pc, want, faults>>

DeployAgent == Deploy /\ stamp' = 0 /\ UNCHANGED <<source, target, pc, want, faults>>
UndeployAgent == Undeploy /\ stamp' = 0 /\ UNCHANGED <<source, target, pc, want, faults>>
AgentStarts == PodStarts(target) /\ UNCHANGED <<source, target, stamp, pc, want, faults>>

\* Nothing to do before the first issuance.
ReadSource ==
    /\ pc = "idle"
    /\ source > 0
    /\ want' = source
    /\ pc' = "write"
    /\ UNCHANGED <<consumer, source, target, stamp, faults>>

\* Created or updated, every time; only a secret that is written is rolled out.
\* (WriteTargetIfNew: "restart if the secret changed".  WriteTargetOrNot: rolling
\* out in spite of a failed write.)
WriteTargetIfNew ==
    /\ pc = "write"
    /\ \/ target' = want /\ Fine /\ pc' = IF target = want THEN "idle" ELSE "check"
       \/ Fault("write") /\ pc' = "idle" /\ UNCHANGED target
    /\ UNCHANGED <<consumer, source, stamp, want>>

WriteTargetOrNot ==
    /\ pc = "write"
    /\ pc' = "check"
    /\ \/ target' = want /\ Fine
       \/ Fault("write") /\ UNCHANGED target
    /\ UNCHANGED <<consumer, source, stamp, want>>

WriteTarget ==
    /\ pc = "write"
    /\ \/ target' = want /\ Fine /\ pc' = "check"
       \/ Fault("write") /\ pc' = "idle" /\ UNCHANGED target
    /\ UNCHANGED <<consumer, source, stamp, want>>

\* A Deployment that is missing or cannot be read is not patched.
\* (CheckExistence: without comparing digests.)
CheckExistence ==
    /\ pc = "check"
    /\ \/ pc' = (IF exists THEN "patch" ELSE "idle") /\ Fine
       \/ Fault("read") /\ pc' = "idle"
    /\ UNCHANGED <<consumer, source, target, stamp, want>>

Check ==
    /\ pc = "check"
    /\ \/ pc' = (IF exists /\ stamp # want THEN "patch" ELSE "idle") /\ Fine
       \/ Fault("read") /\ pc' = "idle"
    /\ UNCHANGED <<consumer, source, target, stamp, want>>

\* A merge patch: whatever the Deployment has become in between, the digest is
\* set; a new digest is a new pod template.
Patch ==
    /\ pc = "patch"
    /\ pc' = "idle"
    /\ \/ exists /\ stamp' = want /\ Roll /\ Fine
       \/ /\ \/ ~exists /\ Fine
             \/ Fault("patch")
          /\ UNCHANGED <<consumer, stamp>>
    /\ UNCHANGED <<source, target, want>>

Crash ==
    /\ pc # "idle"
    /\ Fault("crash")
    /\ pc' = "idle"
    /\ UNCHANGED <<consumer, source, target, stamp, want>>

Copy == ReadSource \/ WriteTarget \/ Check \/ Patch

Next ==
    \/ Issue
    \/ DeployAgent
    \/ UndeployAgent
    \/ AgentStarts
    \/ Copy
    \/ Crash

Spec == Init /\ [][Next]_vars

\* The addon controller runs at every interval; the operator makes the Deployment
\* the CR asks for; Kubernetes finishes rollouts.  Restarts without a rollout are
\* owed by nobody.
Fairness ==
    /\ WF_vars(Copy)
    /\ WF_vars(DeployAgent)
    /\ WF_vars(rolling /\ AgentStarts)

FairSpec == Spec /\ Fairness

-----------------------------------------------------------------------------
(* Properties.                                                             *)

\* The digest on the Deployment does not claim too much: once its rollout is
\* over, the pod has read that revision or a later one, whatever failed or was
\* renewed meanwhile ("acting before a failed Update would roll the agent onto
\* the same stale cert and log a success", addon_install.go:310-311).
StampIsLoaded == exists /\ ~rolling => stamp <= loaded

\* The controller rolls the agent for a revision it has not been rolled for, and
\* never backwards: "the periodic reconcile does not roll the agent every
\* interval" (addon_install.go:349-351).
RolledForward == exists /\ ~rolling /\ rolling' => stamp' > stamp
RollsForward == [][RolledForward]_vars

\* The contract: the agent ends up with the certificate OCM issued last.
Contract == INSTANCE CertRollout WITH current <- source, running <- loaded
KeepsContract == Contract!Spec

-----------------------------------------------------------------------------
(* What makes StampIsLoaded and RollsForward inductive: no copy runs ahead *)
(* of what it was copied from, and the revision a reconcile has in hand    *)
(* catches the others up in the order in which it writes them.             *)

Ordered == loaded <= target /\ stamp <= target /\ target <= source

InHand ==
    /\ pc # "idle" => 0 < want /\ want <= source
    /\ pc = "write" => target <= want
    /\ pc \in {"check", "patch"} => target = want
    /\ pc = "patch" => stamp < want

IInv == Ordered /\ InHand /\ StampIsLoaded
=============================================================================
