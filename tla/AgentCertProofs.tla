---------------------------- MODULE AgentCertProofs ----------------------------
(***************************************************************************)
(* The agent's rollout, proved for every number of revisions, faults and   *)
(* Deployments: types, the two safety properties, and that every step of   *)
(* the code is a step of the contract or none.                             *)
(***************************************************************************)
EXTENDS AgentCert, TLAPS

\* Types are kept by every action.
LEMMA TypeStep ==
    ASSUME TypeOK, [Next]_vars
    PROVE  TypeOK'
<1> USE AgentCertAssumption DEF TypeOK, ConsumerTypeOK, Revisions
<1>1. CASE Issue
    BY <1>1 DEF Issue, consumer
<1>2. CASE DeployAgent
    BY <1>2 DEF DeployAgent, Deploy
<1>3. CASE UndeployAgent
    <2>1. exists' \in BOOLEAN /\ rolling' \in BOOLEAN
        BY <1>3, Zenon DEF UndeployAgent, Undeploy
    <2> QED
        BY <1>3, <2>1 DEF UndeployAgent, Undeploy
<1>4. CASE AgentStarts
    BY <1>4 DEF AgentStarts, PodStarts
<1>5. CASE ReadSource
    BY <1>5 DEF ReadSource, consumer
<1>6. CASE WriteTarget
    BY <1>6 DEF WriteTarget, consumer, Fault, Fine
<1>7. CASE Check
    BY <1>7 DEF Check, consumer, Fault, Fine
<1>8. CASE Patch
    <2>1. exists' \in BOOLEAN /\ rolling' \in BOOLEAN
        BY <1>8, Zenon DEF Patch, consumer, Roll
    <2> QED
        BY <1>8, <2>1 DEF Patch, consumer, Fault, Fine, Roll
<1>9. CASE Crash
    BY <1>9 DEF Crash, consumer, Fault
<1>10. CASE UNCHANGED vars
    BY <1>10 DEF vars, consumer
<1> QED
    BY <1>1, <1>2, <1>3, <1>4, <1>5, <1>6, <1>7, <1>8, <1>9, <1>10 DEF Next, Copy

\* Every state of the rollout is well typed.
THEOREM TypeCorrect == Spec => []TypeOK
<1>1. ASSUME Init
      PROVE  TypeOK
    <2>1. exists \in BOOLEAN /\ rolling \in BOOLEAN
        BY <1>1, Zenon DEF Init, ConsumerInit
    <2> QED
        BY <1>1, <2>1, AgentCertAssumption
        DEF Init, ConsumerInit, TypeOK, ConsumerTypeOK, Revisions
<1> QED
    BY <1>1, TypeStep, PTL DEF Spec

\* One step of the inductive invariant, action by action.
LEMMA InvStep ==
    ASSUME TypeOK, IInv, [Next]_vars
    PROVE  IInv'
<1> USE DEF IInv, Ordered, InHand, StampIsLoaded, TypeOK, ConsumerTypeOK, Revisions
<1>1. CASE Issue
    BY <1>1, AgentCertAssumption DEF Issue, consumer
<1>2. CASE DeployAgent
    BY <1>2 DEF DeployAgent, Deploy
<1>3. CASE UndeployAgent
    BY <1>3 DEF UndeployAgent, Undeploy
<1>4. CASE AgentStarts
    BY <1>4 DEF AgentStarts, PodStarts
<1>5. CASE ReadSource
    BY <1>5 DEF ReadSource, consumer
<1>6. CASE WriteTarget
    BY <1>6 DEF WriteTarget, consumer
<1>7. CASE Check
    BY <1>7 DEF Check, consumer
<1>8. CASE Patch
    BY <1>8 DEF Patch, consumer, Roll
<1>9. CASE Crash
    BY <1>9 DEF Crash, consumer
<1>10. CASE UNCHANGED vars
    BY <1>10 DEF vars, consumer
<1> QED
    BY <1>1, <1>2, <1>3, <1>4, <1>5, <1>6, <1>7, <1>8, <1>9, <1>10 DEF Next, Copy

\* The inductive invariant holds in every reachable state.
LEMMA Invariant == Spec => [](TypeOK /\ IInv)
<1>1. Init => IInv
    BY DEF Init, ConsumerInit, IInv, Ordered, InHand, StampIsLoaded
<1> QED
    BY <1>1, InvStep, TypeCorrect, PTL DEF Spec

\* A rollout that is over has brought the recorded revision, or a later one, to
\* the pod (addon_install.go:310-311).
THEOREM StampTellsTheTruth == Spec => []StampIsLoaded
<1>1. IInv => StampIsLoaded
    BY DEF IInv
<1> QED
    BY <1>1, Invariant, PTL

\* The controller rolls the agent only forward, once per revision
\* (addon_install.go:349-351).
THEOREM AgentRollsForward == Spec => RollsForward
<1>1. ASSUME TypeOK, IInv, [Next]_vars
      PROVE  [RolledForward]_vars
    <2> SUFFICES ASSUME exists, ~rolling, rolling'
                 PROVE  stamp' > stamp
        BY DEF RolledForward
    <2>1. Patch
        BY <1>1 DEF Next, Copy, Issue, DeployAgent, Deploy, UndeployAgent, Undeploy,
            AgentStarts, PodStarts, ReadSource, WriteTarget, Check, Crash, vars, consumer
    <2> QED
        BY <1>1, <2>1 DEF Patch, Roll, consumer, IInv, InHand, TypeOK, Revisions
<1> QED
    BY <1>1, Invariant, PTL DEF Spec, RollsForward

\* The safety half of the contract: whatever fails, the revision the agent runs
\* moves forward only, and never past what OCM issued.
THEOREM AgentKeepsContract == Spec => Contract!Safe
<1>1. Init => Contract!Init
    BY DEF Init, ConsumerInit, Contract!Init
<1>2. ASSUME TypeOK, IInv, [Next]_vars
      PROVE  [Contract!Next]_<<source, loaded>>
    <2>1. CASE Issue
        BY <2>1 DEF Issue, consumer, Contract!Next, Contract!Reissue
    <2>2. CASE AgentStarts
        <3>1. loaded <= target /\ target <= source
            BY <1>2 DEF IInv, Ordered
        <3>2. loaded' = target /\ source' = source
            BY <2>2 DEF AgentStarts, PodStarts
        <3>3. CASE loaded = target
            BY <3>2, <3>3
        <3>4. CASE loaded # target
            <4>1. target \in (loaded + 1) .. source
                BY <1>2, <3>1, <3>4 DEF TypeOK, ConsumerTypeOK, Revisions
            <4> QED
                BY <3>2, <4>1 DEF Contract!Next, Contract!Load
        <3> QED
            BY <3>3, <3>4
    <2>3. CASE ~Issue /\ ~AgentStarts
        BY <1>2, <2>3 DEF Next, Copy, DeployAgent, Deploy, UndeployAgent, Undeploy,
            ReadSource, WriteTarget, Check, Patch, Roll, Crash, vars, consumer
    <2> QED
        BY <2>1, <2>2, <2>3
<1> QED
    BY <1>1, <1>2, Invariant, PTL DEF Spec, Contract!Safe
=============================================================================
