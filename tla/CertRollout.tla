----------------------------- MODULE CertRollout -----------------------------
(***************************************************************************)
(* What both certificate rollouts promise.  Certificates are reissued, and *)
(* a workload that reads its certificate only when a pod starts is         *)
(* restarted, so that in the end it runs the current one.  This is the     *)
(* contract of copyClientCertificate with ensureAgentRestartedForCert (the *)
(* agent, on a managed cluster) and of EnsurePrincipalCertificate (the     *)
(* principal, on the hub).                                                 *)
(***************************************************************************)
EXTENDS Naturals

CONSTANT MaxCert  \* bound on the revisions issued

VARIABLES
    current,  \* the revision issued last; 0 before the first
    running   \* the revision the workload has read; 0 for none

Init == current = 0 /\ running = 0

Reissue ==
    /\ current < MaxCert
    /\ current' = current + 1
    /\ UNCHANGED running

\* A pod may start before the revision it reads has become the current one.
Load ==
    /\ \E r \in (running + 1) .. current : running' = r
    /\ UNCHANGED current

Next == Reissue \/ Load

Safe == Init /\ [][Next]_<<current, running>>
Spec == Safe /\ WF_<<current, running>>(Load)
=============================================================================
