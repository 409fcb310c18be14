----------------------------- MODULE CertConsumer -----------------------------
(***************************************************************************)
(* The workload of a certificate: a Deployment which the Argo CD operator  *)
(* makes from the ArgoCD CR, and whose pods read the certificate's secret  *)
(* once, when they start.  None of this is code of the repository: it is   *)
(* what the two rollouts rely on.                                          *)
(***************************************************************************)
EXTENDS Naturals

CONSTANT MaxDeploys  \* bound on how often the Deployment is made

VARIABLES
    exists,   \* the Deployment is there
    rolling,  \* its pod template is newer than its pod
    loaded,   \* the revision its pod has read; 0 for none
    deploys   \* how often it has been made

consumer == <<exists, rolling, loaded, deploys>>

ConsumerTypeOK(revisions) ==
    /\ exists \in BOOLEAN
    /\ rolling \in BOOLEAN
    /\ loaded \in revisions
    /\ deploys \in 0 .. MaxDeploys

ConsumerInit ==
    /\ exists = FALSE
    /\ rolling = FALSE
    /\ loaded = 0
    /\ deploys = 0

Deploy ==
    /\ ~exists
    /\ deploys < MaxDeploys
    /\ deploys' = deploys + 1
    /\ exists' = TRUE
    /\ rolling' = TRUE
    /\ UNCHANGED loaded

\* The CR is deleted and will be made again.  What the last pod had read is
\* kept for comparison.
Undeploy ==
    /\ exists
    /\ deploys < MaxDeploys
    /\ exists' = FALSE
    /\ rolling' = FALSE
    /\ UNCHANGED <<loaded, deploys>>

\* The rollout reaches the pod, or the pod is restarted for another reason.
PodStarts(secret) ==
    /\ exists
    /\ rolling' = FALSE
    /\ loaded' = secret
    /\ UNCHANGED <<exists, deploys>>

Roll == rolling' = TRUE /\ UNCHANGED <<exists, loaded, deploys>>
=============================================================================
