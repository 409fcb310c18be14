-------------------------- MODULE PrincipalCertProofs --------------------------
(***************************************************************************)
(* The principal's rollout, proved for every number of revisions, faults   *)
(* and Deployments.  What is proved is safety: the model checker shows     *)
(* that the other half of the contract does not hold.                      *)
(***************************************************************************)
EXTENDS PrincipalCert, TLAPS

\* Types are kept by every action.
LEMMA TypeStep ==
    ASSUME TypeOK, [Next]_vars
    PROVE  TypeOK'
<1> USE PrincipalCertAssumption DEF TypeOK, ConsumerTypeOK, Revisions
<1>1. CASE Expire
    BY <1>1 DEF Expire, consumer
<1>2. CASE DeployPrincipal
    BY <1>2 DEF DeployPrincipal, Deploy
<1>3. CASE UndeployPrincipal
    <2>1. exists' \in BOOLEAN /\ rolling' \in BOOLEAN
        BY <1>3, Zenon DEF UndeployPrincipal, Undeploy
    <2> QED
        BY <1>3, <2>1 DEF UndeployPrincipal, Undeploy
<1>4. CASE PrincipalStarts
    BY <1>4 DEF PrincipalStarts, PodStarts
<1>5. CASE ReadBefore
    BY <1>5 DEF ReadBefore, consumer, Fault, Fine
<1>6. CASE EnsureTarget
    <2>1. due' \in BOOLEAN /\ exists' \in BOOLEAN /\ rolling' \in BOOLEAN
        BY <1>6, Zenon DEF EnsureTarget, consumer
    <2>2. cert' \in Revisions /\ (due' => cert' < MaxCert) /\ before' = before
        BY <1>6 DEF EnsureTarget
    <2> QED
        BY <1>6, <2>1, <2>2 DEF EnsureTarget, consumer, Fault, Fine
<1>7. CASE Compare
    BY <1>7 DEF Compare, consumer, Fault, Fine
<1>8. CASE Restart
    <2>1. exists' \in BOOLEAN /\ rolling' \in BOOLEAN
        BY <1>8, Zenon DEF Restart, consumer, Roll
    <2> QED
        BY <1>8, <2>1 DEF Restart, consumer, Fault, Fine, Roll
<1>9. CASE Crash
    BY <1>9 DEF Crash, consumer, Fault
<1>10. CASE UNCHANGED vars
    BY <1>10 DEF vars, consumer
<1> QED
    BY <1>1, <1>2, <1>3, <1>4, <1>5, <1>6, <1>7, <1>8, <1>9, <1>10
    DEF Next, EnsurePrincipalCertificate

\* Every state of the rollout is well typed.
THEOREM TypeCorrect == Spec => []TypeOK
<1>1. ASSUME Init
      PROVE  TypeOK
    <2>1. exists \in BOOLEAN /\ rolling \in BOOLEAN /\ due \in BOOLEAN
        BY <1>1, Zenon DEF Init, ConsumerInit
    <2> QED
        BY <1>1, <2>1, PrincipalCertAssumption
        DEF Init, ConsumerInit, TypeOK, ConsumerTypeOK, Revisions, Unread
<1> QED
    BY <1>1, TypeStep, PTL DEF Spec

\* One step of the inductive invariant, action by action.
LEMMA InvStep ==
    ASSUME TypeOK, IInv, [Next]_vars
    PROVE  IInv'
<1> USE PrincipalCertAssumption
    DEF IInv, Ordered, InHand, TypeOK, ConsumerTypeOK, Revisions, Unread
<1>1. CASE Expire
    BY <1>1 DEF Expire, consumer
<1>2. CASE DeployPrincipal
    BY <1>2 DEF DeployPrincipal, Deploy
<1>3. CASE UndeployPrincipal
    BY <1>3 DEF UndeployPrincipal, Undeploy
<1>4. CASE PrincipalStarts
    BY <1>4 DEF PrincipalStarts, PodStarts
<1>5. CASE ReadBefore
    BY <1>5 DEF ReadBefore, consumer
<1>6. CASE EnsureTarget
    BY <1>6 DEF EnsureTarget, consumer
<1>7. CASE Compare
    BY <1>7 DEF Compare, consumer
<1>8. CASE Restart
    BY <1>8 DEF Restart, consumer, Roll
<1>9. CASE Crash
    BY <1>9 DEF Crash, consumer
<1>10. CASE UNCHANGED vars
    BY <1>10 DEF vars, consumer
<1> QED
    BY <1>1, <1>2, <1>3, <1>4, <1>5, <1>6, <1>7, <1>8, <1>9, <1>10
    DEF Next, EnsurePrincipalCertificate

\* The inductive invariant holds in every reachable state.
LEMMA Invariant == Spec => [](TypeOK /\ IInv)
<1>1. Init => IInv
    BY DEF Init, ConsumerInit, IInv, Ordered, InHand
<1> QED
    BY <1>1, InvStep, TypeCorrect, PTL DEF Spec

\* The controller restarts the principal at most once for a revision, failed
\* reads or not (argocd_agent_certificates.go:182-185, 204-213).
THEOREM PrincipalRestartsOnce == Spec => RestartsOnce
<1>1. ASSUME TypeOK, IInv, [Next]_vars
      PROVE  [RestartedOnce]_vars
    <2> SUFFICES ASSUME exists, ~rolling, rolling'
                 PROVE  rolled < cert
        BY DEF RestartedOnce
    <2>1. Restart
        BY <1>1 DEF Next, EnsurePrincipalCertificate, Expire, DeployPrincipal, Deploy,
            UndeployPrincipal, Undeploy, PrincipalStarts, PodStarts, ReadBefore,
            EnsureTarget, Compare, Crash, vars, consumer
    <2> QED
        BY <1>1, <2>1 DEF Restart, IInv, InHand
<1> QED
    BY <1>1, Invariant, PTL DEF Spec, RestartsOnce

\* The safety half of the contract: the revision the principal runs moves forward
\* only, and never past the one in the secret.
THEOREM PrincipalKeepsContract == Spec => Contract!Safe
<1>1. Init => Contract!Init
    BY DEF Init, ConsumerInit, Contract!Init
<1>2. ASSUME TypeOK, IInv, [Next]_vars
      PROVE  [Contract!Next]_<<cert, loaded>>
    <2>1. CASE EnsureTarget
        <3>1. loaded' = loaded
            BY <2>1 DEF EnsureTarget, consumer
        <3>2. cert' = cert \/ (cert' = cert + 1 /\ cert < MaxCert)
            BY <1>2, <2>1, TypeStep, PrincipalCertAssumption
            DEF EnsureTarget, TypeOK, Revisions
        <3> QED
            BY <3>1, <3>2 DEF Contract!Next, Contract!Reissue
    <2>2. CASE PrincipalStarts
        <3>1. loaded <= cert
            BY <1>2 DEF IInv, Ordered
        <3>2. loaded' = cert /\ cert' = cert
            BY <2>2 DEF PrincipalStarts, PodStarts
        <3>3. CASE loaded = cert
            BY <3>2, <3>3
        <3>4. CASE loaded # cert
            <4>1. cert \in (loaded + 1) .. cert
                BY <1>2, <3>1, <3>4 DEF TypeOK, ConsumerTypeOK, Revisions
            <4> QED
                BY <3>2, <4>1 DEF Contract!Next, Contract!Load
        <3> QED
            BY <3>3, <3>4
    <2>3. CASE ~EnsureTarget /\ ~PrincipalStarts
        BY <1>2, <2>3 DEF Next, EnsurePrincipalCertificate, Expire, DeployPrincipal,
            Deploy, UndeployPrincipal, Undeploy, ReadBefore, Compare, Restart, Roll,
            Crash, vars, consumer
    <2> QED
        BY <2>1, <2>2, <2>3
<1> QED
    BY <1>1, <1>2, Invariant, PTL DEF Spec, Contract!Safe

\* As long as nothing has failed, a pod that is not being replaced runs the certificate in
\* the secret, or the reconcile under way has seen that it does not.
AnswerInv ==
    faults = 0 =>
        /\ pc = "ensure" => before = cert
        /\ pc = "after" => before \in Revisions
        /\ exists /\ ~rolling =>
              loaded = cert \/ (pc = "after" /\ before # cert) \/ pc = "patch"

LEMMA AnswerStep ==
    ASSUME TypeOK, AnswerInv, [Next]_vars
    PROVE  AnswerInv'
<1> USE PrincipalCertAssumption DEF AnswerInv, Revisions, Unread
<1>0. faults \in Nat /\ cert \in Revisions
    BY DEF TypeOK
<1>1. CASE Expire \/ UNCHANGED vars
    BY <1>1 DEF Expire, consumer, vars
<1>2. CASE DeployPrincipal \/ UndeployPrincipal
    BY <1>2 DEF DeployPrincipal, Deploy, UndeployPrincipal, Undeploy
<1>3. CASE PrincipalStarts
    BY <1>3 DEF PrincipalStarts, PodStarts
<1>4. CASE ReadBefore
    BY <1>0, <1>4 DEF ReadBefore, consumer, Fault, Fine
<1>5. CASE EnsureTarget
    BY <1>0, <1>5 DEF EnsureTarget, consumer, Fault, Fine
<1>6. CASE Compare
    BY <1>0, <1>6 DEF Compare, consumer, Fault, Fine
<1>7. CASE Restart
    BY <1>0, <1>7 DEF Restart, consumer, Roll, Fault, Fine
<1>8. CASE Crash
    BY <1>0, <1>8 DEF Crash, Fault
<1> QED
    BY <1>1, <1>2, <1>3, <1>4, <1>5, <1>6, <1>7, <1>8 DEF Next, EnsurePrincipalCertificate

\* Before anything fails, the principal runs the certificate in the secret whenever the
\* controller rests and no restart is under way (argocd_agent_certificates.go:186-223).
THEOREM PrincipalCurrentAtRest == Spec => []CurrentAtRest
<1>1. Init => AnswerInv
    BY DEF Init, ConsumerInit, AnswerInv
<1>2. TypeOK /\ AnswerInv /\ [Next]_vars => AnswerInv'
    BY AnswerStep
<1>3. AnswerInv => CurrentAtRest
    BY DEF AnswerInv, CurrentAtRest
<1> QED
    BY TypeCorrect, <1>1, <1>2, <1>3, PTL DEF Spec
=============================================================================
