----------------------------- MODULE PrincipalCert -----------------------------
(***************************************************************************)
(* The principal's TLS certificate on the hub                              *)
(* (argocd_agent_certificates.go, EnsurePrincipalCertificate): a reconcile *)
(* of the GitOpsCluster reads the secret, has certrotation renew it when   *)
(* it is due, reads it again and patches the principal's Deployment if the *)
(* two differ.  Edge-triggered: the change is seen by the reconcile that   *)
(* made it, and by no other.                                               *)
(***************************************************************************)
EXTENDS CertConsumer

CONSTANTS
    MaxCert,     \* bound on the revisions issued
    FaultKinds,  \* the failures that may happen in this instance
    MaxFaults    \* bound on their number

ASSUME PrincipalCertAssumption ==
    /\ MaxDeploys \in Nat
    /\ MaxCert \in Nat
    /\ FaultKinds \subseteq {"before", "ensure", "after", "patch", "crash"}
    /\ MaxFaults \in Nat

VARIABLES
    due,     \* the certificate is to be renewed: age, or other host names
    cert,    \* the revision in the secret, 0 for none
    pc,      \* where EnsurePrincipalCertificate is
    before,  \* what it read first: a revision, or Unread
    rolled,  \* history: the revision the controller has last rolled out
    faults

vars == <<consumer, due, cert, pc, before, rolled, faults>>

Revisions == 0 .. MaxCert
Unread == MaxCert + 1

TypeOK ==
    /\ ConsumerTypeOK(Revisions)
    /\ due \in BOOLEAN
    /\ cert \in Revisions
    /\ pc \in {"idle", "ensure", "after", "patch"}
    /\ before \in Revisions \cup {Unread}
    /\ rolled \in Revisions
    /\ due => cert < MaxCert
    /\ faults \in 0 .. MaxFaults

Init ==
    /\ ConsumerInit
    /\ due = FALSE
    /\ cert = 0
    /\ pc = "idle"
    /\ before = Unread
    /\ rolled = 0
    /\ faults = 0

Fault(kind) == kind \in FaultKinds /\ faults < MaxFaults /\ faults' = faults + 1
Fine == UNCHANGED faults

-----------------------------------------------------------------------------
Expire ==
    /\ cert \in 1 .. MaxCert - 1
    /\ due' = TRUE
    /\ UNCHANGED <<consumer, cert, pc, before, rolled, faults>>

DeployPrincipal == Deploy /\ UNCHANGED <<due, cert, pc, before, rolled, faults>>
UndeployPrincipal == Undeploy /\ UNCHANGED <<due, cert, pc, before, rolled, faults>>
PrincipalStarts ==
    PodStarts(cert) /\ UNCHANGED <<due, cert, pc, before, rolled, faults>>

\* A missing secret is read as no bytes, which is not an error.
ReadBefore ==
    /\ pc = "idle"
    /\ pc' = "ensure"
    /\ \/ before' = cert /\ Fine
       \/ Fault("before") /\ before' = Unread
    /\ UNCHANGED <<consumer, due, cert, rolled>>

\* An error is returned, and the reconcile is retried.
EnsureTarget ==
    /\ pc = "ensure"
    /\ \/ /\ cert' = IF due \/ (cert = 0 /\ cert < MaxCert) THEN cert + 1 ELSE cert
          /\ due' = FALSE
          /\ pc' = "after"
          /\ Fine
       \/ Fault("ensure") /\ pc' = "idle" /\ UNCHANGED <<cert, due>>
    /\ UNCHANGED <<consumer, before, rolled>>

\* An error of either read is not a change.
\* (CompareAll: taking it for one.  CompareRenewals: leaving out first issuance.)
CompareAll ==
    /\ pc = "after"
    /\ \/ pc' = (IF before # cert THEN "patch" ELSE "idle") /\ Fine
       \/ Fault("after") /\ pc' = "patch"
    /\ UNCHANGED <<consumer, due, cert, before, rolled>>

CompareRenewals ==
    /\ pc = "after"
    /\ \/ pc' = (IF before \notin {0, Unread, cert} THEN "patch" ELSE "idle") /\ Fine
       \/ Fault("after") /\ pc' = "idle"
    /\ UNCHANGED <<consumer, due, cert, before, rolled>>

Compare ==
    /\ pc = "after"
    /\ \/ pc' = (IF before \notin {Unread, cert} THEN "patch" ELSE "idle") /\ Fine
       \/ Fault("after") /\ pc' = "idle"
    /\ UNCHANGED <<consumer, due, cert, before, rolled>>

\* A missing Deployment, or a failed patch, is logged.
Restart ==
    /\ pc = "patch"
    /\ pc' = "idle"
    /\ \/ exists /\ Roll /\ rolled' = cert /\ Fine
       \/ /\ \/ ~exists /\ Fine
             \/ Fault("patch")
          /\ UNCHANGED <<consumer, rolled>>
    /\ UNCHANGED <<due, cert, before>>

Crash ==
    /\ pc # "idle"
    /\ Fault("crash")
    /\ pc' = "idle"
    /\ UNCHANGED <<consumer, due, cert, before, rolled>>

EnsurePrincipalCertificate == ReadBefore \/ EnsureTarget \/ Compare \/ Restart

Next ==
    \/ Expire
    \/ DeployPrincipal
    \/ UndeployPrincipal
    \/ PrincipalStarts
    \/ EnsurePrincipalCertificate
    \/ Crash

Spec == Init /\ [][Next]_vars

\* Every resync of the informers reconciles each GitOpsCluster again; the rest as
\* for the agent.
Fairness ==
    /\ WF_vars(EnsurePrincipalCertificate)
    /\ WF_vars(DeployPrincipal)
    /\ WF_vars(rolling /\ PrincipalStarts)

FairSpec == Spec /\ Fairness

-----------------------------------------------------------------------------
(* Properties.                                                             *)

\* The controller restarts the principal for a revision it has not been restarted
\* for: "a stable cert produces NO restart", and neither does a read that failed
\* (argocd_agent_certificates.go:182-185, 204-213).
RestartedOnce == exists /\ ~rolling /\ rolling' => rolled < cert
RestartsOnce == [][RestartedOnce]_vars

\* Whenever the controller rests and no restart is under way, with no call failed and no
\* crash, the principal runs the certificate in the secret, also when it was running before
\* there was any: each reconcile answers for the change it has made itself, be the
\* Deployment made, deleted or restarted by others meanwhile
\* (argocd_agent_certificates.go:199-223).
CurrentAtRest == faults = 0 /\ pc = "idle" /\ exists /\ ~rolling => loaded = cert

\* The contract: the principal ends up with the certificate in the secret.
\* "Failed to restart principal after certificate change (non-fatal; will retry
\* next resync)" (argocd_agent_certificates.go:220).
Contract == INSTANCE CertRollout WITH current <- cert, running <- loaded
KeepsContract == Contract!Spec

-----------------------------------------------------------------------------
(* What makes RestartsOnce inductive: a revision read before the renewal   *)
(* and different from the one in the secret is older than it, and so is    *)
(* the one rolled out last.                                                *)

Ordered == loaded <= cert /\ rolled <= cert

InHand ==
    /\ pc = "ensure" => before \in {cert, Unread}
    /\ pc = "after" => rolled <= before /\ (before <= cert \/ before = Unread)
    /\ pc = "patch" => rolled < cert

IInv == Ordered /\ InHand
=============================================================================
