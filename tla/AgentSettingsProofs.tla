------------------------- MODULE AgentSettingsProofs -------------------------
(***************************************************************************)
(* Theorems about AgentSettings, for all GitOpsClusters, addresses,        *)
(* namespaces and images, and for all bounds.                              *)
(***************************************************************************)
EXTENDS AgentSettings, TLAPS

-----------------------------------------------------------------------------
(* Types.                                                                  *)

LEMMA Fresh == FreshSpec \in Specs /\ NoWork \in Works /\ NoConfig \in Configs
<1>1. FreshSpec \in Specs
  BY DEF FreshSpec, Specs, CRKinds
<1>2. NoWork \in Works
  BY DEF NoWork, Works
<1>3. NoConfig \in Configs
  BY DEF NoConfig, Configs
<1> QED
  BY <1>1, <1>2, <1>3

LEMMA InitTypes == Init => TypeOK
<1> SUFFICES ASSUME Init PROVE TypeOK
  OBVIOUS
<1>1. WorldType
  BY Fresh, SettingsAssumption DEF Init, WorldType
<1>2. SharedType
  BY DEF Init, SharedType
<1>3. OwnType
  BY Fresh, SettingsAssumption DEF Init, OwnType
<1>4. AddonType
  BY Fresh DEF Init, AddonType
<1>5. WorkerType
  BY Fresh DEF Init, WorkerType, Statuses
<1>6. CountType
  <2>1. missed \in BOOLEAN
    BY DEF Init
  <2> QED
    BY <2>1, SettingsAssumption DEF Init, CountType
<1> QED
  BY <1>1, <1>2, <1>3, <1>4, <1>5, <1>6 DEF TypeOK

\* Discovery writes what it has found into a spec that is as it was read.
LEMMA Discovery ==
  ASSUME TypeOK, EnsureServerAddressAndPort, spec' # spec
  PROVE  /\ cur \in GitOpsClusters
         /\ service \in Addresses
         /\ ~Addressed(spec[cur])
         /\ mem' = [spec[cur] EXCEPT !.address = service, !.port = TRUE]
         /\ mem' \in Specs
         /\ spec' = [spec EXCEPT ![cur] = mem']
<1>1. cur \in GitOpsClusters /\ mem \in Specs
  BY DEF EnsureServerAddressAndPort, TypeOK, WorkerType, Steps
<1>2. /\ service # Unset /\ ~Addressed(mem) /\ spec[cur] = mem
      /\ mem' = [mem EXCEPT !.address = service, !.port = TRUE]
      /\ spec' = [spec EXCEPT ![cur] = mem']
  BY DEF EnsureServerAddressAndPort
<1>3. service \in Addresses
  BY <1>2 DEF TypeOK, WorldType
<1>4. mem' \in Specs
  BY <1>1, <1>2, <1>3 DEF Specs
<1> QED
  BY <1>1, <1>2, <1>3, <1>4

\* A step leaves the world alone, or it is a user's, or discovery's.
LEMMA WorldStep ==
  ASSUME TypeOK, [Next]_vars
  PROVE  WorldType'
<1>1. CASE UNCHANGED world
  BY <1>1 DEF TypeOK, WorldType, world
<1>2. CASE \E g \in GitOpsClusters : EditSpec(g) \/ Annotate(g)
  <2>1. PICK g \in GitOpsClusters : EditSpec(g) \/ Annotate(g)
    BY <1>2
  <2>2. CASE EditSpec(g)
    <3>1. spec[g] \in Specs
      BY DEF TypeOK, WorldType
    <3>2. \A a \in Addresses, p \in BOOLEAN :
             [spec[g] EXCEPT !.address = a, !.port = p] \in Specs
      BY <3>1 DEF Specs
    <3>3. \A n \in Namespaces : [spec[g] EXCEPT !.namespace = n] \in Specs
      BY <3>1 DEF Specs
    <3>4. \A k \in CRKinds : [spec[g] EXCEPT !.cr = k] \in Specs
      BY <3>1 DEF Specs
    <3>5. [spec[g] EXCEPT !.sync = ~@] \in Specs
      BY <3>1 DEF Specs
    <3>6. \E t \in Specs : spec' = [spec EXCEPT ![g] = t]
      <4>1. CASE \E a \in Addresses, p \in BOOLEAN :
                    spec' = [spec EXCEPT ![g].address = a, ![g].port = p]
        BY <4>1, <3>2 DEF TypeOK, WorldType
      <4>2. CASE \E n \in Namespaces : spec' = [spec EXCEPT ![g].namespace = n]
        BY <4>2, <3>3
      <4>3. CASE \E k \in CRKinds : spec' = [spec EXCEPT ![g].cr = k]
        BY <4>3, <3>4
      <4>4. CASE spec' = [spec EXCEPT ![g].sync = ~@]
        BY <4>4, <3>5
      <4> QED
        BY <2>2, <4>1, <4>2, <4>3, <4>4 DEF EditSpec
    <3> QED
      BY <2>2, <3>6 DEF EditSpec, TypeOK, WorldType
  <2>3. CASE Annotate(g)
    BY <2>3 DEF Annotate, TypeOK, WorldType
  <2> QED
    BY <2>1, <2>2, <2>3
<1>3. CASE ChangeService \/ BumpImage \/ Upgrade
  BY <1>3, SettingsAssumption DEF ChangeService, BumpImage, Upgrade, Restart, TypeOK, WorldType
<1>4. CASE EnsureServerAddressAndPort
  <2>1. spec' \in [GitOpsClusters -> Specs]
    BY <1>4, Discovery DEF TypeOK, WorldType
  <2> QED
    BY <1>4, <2>1 DEF EnsureServerAddressAndPort, TypeOK, WorldType
<1>5. CASE EditConfig \/ SyncConfig \/ Crash \/ UNCHANGED vars
  BY <1>1, <1>5 DEF EditConfig, SyncConfig, Crash, Restart, vars, world
<1>6. CASE \/ \E g \in GitOpsClusters : Dequeue(g)
           \/ EnsureAddonManagerRole \/ EnsureAddonManagerRoleBinding
           \/ EnsureArgoCDAgentJWTSecret \/ EnsurePrincipalCertificate \/ EnsureAddOnTemplate
           \/ EnsurePlacementTolerations \/ CreateCAWork \/ CreateCRWork
           \/ EnsureAddOnDeploymentConfig \/ EnsureManagedClusterAddon \/ Return
  BY <1>1, <1>6 DEF Dequeue, EnsureAddonManagerRole, EnsureAddonManagerRoleBinding,
     EnsureArgoCDAgentJWTSecret, EnsureReady, EnsurePrincipalCertificate, EnsureAddOnTemplate,
     EnsurePlacementTolerations, CreateCAWork, CreateCRWork, EnsureAddOnDeploymentConfig,
     EnsureManagedClusterAddon, Return
<1> QED
  BY <1>2, <1>3, <1>4, <1>5, <1>6 DEF Next, Work, Environment

\* What the GitOpsClusters share on the hub.
LEMMA SharedStep ==
  ASSUME TypeOK, [Next]_vars
  PROVE  SharedType'
<1>1. CASE UNCHANGED shared
  BY <1>1 DEF TypeOK, SharedType, shared
<1>2. CASE EnsureAddonManagerRole \/ EnsureAddonManagerRoleBinding \/ EnsureArgoCDAgentJWTSecret
  BY <1>2 DEF EnsureAddonManagerRole, EnsureAddonManagerRoleBinding, EnsureArgoCDAgentJWTSecret,
     EnsureReady, TypeOK, SharedType
<1>3. CASE EnsurePrincipalCertificate
  <2>1. HostNames \subseteq Addresses /\ {mem.address} \ {Unset} \subseteq Addresses
    BY DEF HostNames, TypeOK, WorldType, WorkerType, Specs
  <2>2. san' \in {san, HostNames, {mem.address} \ {Unset}}
    BY <1>3 DEF EnsurePrincipalCertificate, Breaks, Goes
  <2>3. UNCHANGED <<ready, tolerant, caWork>>
    BY <1>3 DEF EnsurePrincipalCertificate
  <2> QED
    BY <2>1, <2>2, <2>3 DEF TypeOK, SharedType
<1>4. CASE EnsurePlacementTolerations
  <2>1. ready' = ready /\ san' = san /\ caWork' = caWork
    BY <1>4 DEF EnsurePlacementTolerations
  <2>2. tolerant' \in {TRUE, tolerant}
    BY <1>4, Zenon DEF EnsurePlacementTolerations
  <2>3. tolerant' \in BOOLEAN
    BY <2>2, Zenon DEF TypeOK, SharedType
  <2> QED
    BY <2>1, <2>3 DEF TypeOK, SharedType
<1>5. CASE CreateCAWork
  <2>1. SpokeNamespace(mem) \in Namespaces \cup {Default, Unset}
    BY DEF SpokeNamespace, TypeOK, WorkerType, Specs
  <2> QED
    BY <1>5, <2>1 DEF CreateCAWork, TypeOK, SharedType
<1>6. CASE Environment \/ SyncConfig \/ Crash \/ UNCHANGED vars
  BY <1>1, <1>6 DEF Environment, EditSpec, Annotate, ChangeService, BumpImage, EditConfig, Upgrade,
     SyncConfig, Crash, Restart, vars, shared
<1>7. CASE \/ \E g \in GitOpsClusters : Dequeue(g)
           \/ EnsureServerAddressAndPort \/ EnsureAddOnTemplate \/ CreateCRWork
           \/ EnsureAddOnDeploymentConfig \/ EnsureManagedClusterAddon \/ Return
  BY <1>1, <1>7 DEF Dequeue, EnsureServerAddressAndPort, EnsureAddOnTemplate, CreateCRWork,
     EnsureAddOnDeploymentConfig, EnsureManagedClusterAddon, Return
<1> QED
  BY <1>2, <1>3, <1>4, <1>5, <1>6, <1>7 DEF Next, Work

LEMMA WorkTypes ==
  ASSUME TypeOK, NEW read \in Images \cup {Unset}
  PROVE  ArgoCDCR(mem, read) \in Works
<1>1. mem \in Specs
  BY DEF TypeOK, WorkerType
<1>2. /\ mem.address \in Addresses \cup {Unset}
      /\ SpokeNamespace(mem) \in Namespaces \cup {Default, Unset}
      /\ mem.cr \in CRKinds
  BY <1>1 DEF Specs, SpokeNamespace
<1>3. (IF mem.sync THEN read ELSE Unset) \in Images \cup {Unset}
  OBVIOUS
<1>4. CASE mem.cr = "default"
  BY <1>2, <1>3, <1>4 DEF ArgoCDCR, Works
<1>5. CASE mem.cr = "open"
  BY <1>2, <1>5 DEF ArgoCDCR, Works, NoWork
<1>6. CASE mem.cr = "pinned"
  BY <1>6, Fresh DEF ArgoCDCR
<1> QED
  BY <1>2, <1>4, <1>5, <1>6 DEF CRKinds

\* What each GitOpsCluster has of its own.
LEMMA OwnStep ==
  ASSUME TypeOK, [Next]_vars
  PROVE  OwnType'
<1>1. CASE UNCHANGED own
  BY <1>1 DEF TypeOK, OwnType, own
<1>2. CASE EnsureAddOnTemplate
  BY <1>2, SettingsAssumption DEF EnsureAddOnTemplate, TypeOK, OwnType, WorldType
<1>3. CASE CreateCRWork
  <2>1. ArgoCDCR(mem, image) \in Works /\ ArgoCDCR(mem, Unset) \in Works
    BY WorkTypes DEF TypeOK, WorldType
  <2> QED
    BY <1>3, <2>1 DEF CreateCRWork, TypeOK, OwnType
<1>4. CASE Environment \/ SyncConfig \/ Crash \/ UNCHANGED vars
  BY <1>1, <1>4 DEF Environment, EditSpec, Annotate, ChangeService, BumpImage, EditConfig, Upgrade,
     SyncConfig, Crash, Restart, vars, own
<1>5. CASE \/ \E g \in GitOpsClusters : Dequeue(g)
           \/ EnsureAddonManagerRole \/ EnsureAddonManagerRoleBinding
           \/ EnsureArgoCDAgentJWTSecret \/ EnsurePrincipalCertificate
           \/ EnsureServerAddressAndPort \/ EnsurePlacementTolerations \/ CreateCAWork
           \/ EnsureAddOnDeploymentConfig \/ EnsureManagedClusterAddon \/ Return
  BY <1>1, <1>5 DEF Dequeue, EnsureAddonManagerRole, EnsureAddonManagerRoleBinding,
     EnsureArgoCDAgentJWTSecret, EnsureReady, EnsurePrincipalCertificate,
     EnsureServerAddressAndPort, EnsurePlacementTolerations, CreateCAWork,
     EnsureAddOnDeploymentConfig, EnsureManagedClusterAddon, Return
<1> QED
  BY <1>2, <1>3, <1>4, <1>5 DEF Next, Work

LEMMA MergeTypes ==
  ASSUME NEW old \in Configs, NEW namespace \in Namespaces \cup {Unset}
  PROVE  Merge(old, namespace) \in Configs
BY DEF Merge, Configs, Variables

\* The objects of the addon.
LEMMA AddonStep ==
  ASSUME TypeOK, [Next]_vars
  PROVE  AddonType'
<1>1. CASE UNCHANGED addon
  BY <1>1 DEF TypeOK, AddonType, addon
<1>2. CASE EditConfig
  <2>1. PICK v \in Variables, n \in Namespaces \cup {Default} :
               config' = [config EXCEPT !.value[v] = n]
    BY <1>2 DEF EditConfig
  <2>2. config' \in Configs
    BY <2>1 DEF TypeOK, AddonType, Configs
  <2> QED
    BY <1>2, <2>2 DEF EditConfig, TypeOK, AddonType
<1>3. CASE EnsureAddOnDeploymentConfig
  <2>1. Merge(seen, mem.namespace) \in Configs
    BY MergeTypes DEF TypeOK, AddonType, WorkerType, Specs
  <2> QED
    BY <1>3, <2>1 DEF EnsureAddOnDeploymentConfig, TypeOK, AddonType
<1>4. CASE EnsureManagedClusterAddon
  <2>1. cur \in GitOpsClusters
    BY <1>4 DEF EnsureManagedClusterAddon, TypeOK, WorkerType
  <2>2. Append(refs, cur) \in Seq(GitOpsClusters)
    BY <2>1 DEF TypeOK, AddonType
  <2> QED
    BY <1>4, <2>2 DEF EnsureManagedClusterAddon, TypeOK, AddonType
<1>5. CASE SyncConfig \/ Crash \/ Upgrade
  BY <1>5 DEF SyncConfig, Crash, Upgrade, Restart, TypeOK, AddonType
<1>6. CASE \/ \E g \in GitOpsClusters : EditSpec(g) \/ Annotate(g)
           \/ ChangeService \/ BumpImage \/ UNCHANGED vars
  BY <1>1, <1>6 DEF EditSpec, Annotate, ChangeService, BumpImage, vars, addon
<1>7. CASE \/ \E g \in GitOpsClusters : Dequeue(g)
           \/ EnsureAddonManagerRole \/ EnsureAddonManagerRoleBinding
           \/ EnsureArgoCDAgentJWTSecret \/ EnsurePrincipalCertificate
           \/ EnsureServerAddressAndPort \/ EnsureAddOnTemplate
           \/ EnsurePlacementTolerations \/ CreateCAWork \/ CreateCRWork \/ Return
  BY <1>1, <1>7 DEF Dequeue, EnsureAddonManagerRole, EnsureAddonManagerRoleBinding,
     EnsureArgoCDAgentJWTSecret, EnsureReady, EnsurePrincipalCertificate, EnsureAddOnTemplate,
     EnsureServerAddressAndPort, EnsurePlacementTolerations, CreateCAWork, CreateCRWork, Return
<1> QED
  BY <1>2, <1>3, <1>4, <1>5, <1>6, <1>7 DEF Next, Work, Environment

\* What the worker has in hand.
LEMMA WorkerStep ==
  ASSUME TypeOK, [Next]_vars
  PROVE  WorkerType'
<1>1. CASE UNCHANGED worker
  BY <1>1 DEF TypeOK, WorkerType, worker
<1>2. CASE Abandon /\ cur \in GitOpsClusters
  BY <1>2, Fresh DEF TypeOK, WorkerType, Abandon, PutDown
<1>3. CASE \E to \in Steps \cup {"return"} : Goes(to) /\ pc # "idle"
  BY <1>3 DEF TypeOK, WorkerType, Goes, Stay
<1>4. CASE \E kind \in Steps, to \in Steps \cup {"return"} : Skips(kind, to) /\ pc # "idle"
  BY <1>4 DEF TypeOK, WorkerType, Skips
<1>5. pc # "idle" => cur \in GitOpsClusters
  BY DEF TypeOK, WorkerType
<1>6. CASE EnsureAddonManagerRole \/ EnsureAddonManagerRoleBinding \/ EnsureArgoCDAgentJWTSecret
  BY <1>2, <1>3, <1>5, <1>6 DEF EnsureAddonManagerRole, EnsureAddonManagerRoleBinding,
     EnsureArgoCDAgentJWTSecret, EnsureReady, Breaks, Steps
<1>7. CASE EnsurePrincipalCertificate \/ EnsureAddOnTemplate
  <2>1. ASSUME pc' = "template", Stay
        PROVE  WorkerType'
    <3>1. pc # "idle"
      BY <1>7 DEF EnsurePrincipalCertificate, EnsureAddOnTemplate
    <3> QED
      BY <2>1, <3>1, <1>5 DEF Stay, TypeOK, WorkerType, Steps
  <2> QED
    BY <2>1, <1>2, <1>3, <1>5, <1>7
    DEF EnsurePrincipalCertificate, EnsureAddOnTemplate, Breaks, Steps
<1>8. CASE EnsurePlacementTolerations \/ CreateCAWork \/ EnsureManagedClusterAddon
  BY <1>3, <1>4, <1>8 DEF EnsurePlacementTolerations, CreateCAWork, EnsureManagedClusterAddon, Steps
<1>9. CASE CreateCRWork
  BY <1>3, <1>4, <1>9 DEF CreateCRWork, TypeOK, WorkerType, Stay, Steps
<1>10. CASE EnsureAddOnDeploymentConfig
  BY <1>3, <1>10 DEF EnsureAddOnDeploymentConfig, TypeOK, WorkerType, Steps
<1>11. CASE EnsureServerAddressAndPort
  <2>1. pc = "discover"
    BY <1>11 DEF EnsureServerAddressAndPort
  <2>2. CASE Goes("jwt")
    BY <1>3, <2>1, <2>2 DEF Steps
  <2>3. CASE Abandon
    BY <1>2, <1>5, <2>1, <2>3
  <2>4. CASE /\ ~Addressed(mem) /\ service # Unset
             /\ mem' = [mem EXCEPT !.address = service, !.port = TRUE]
             /\ queue' = queue \cup {cur} /\ pc' = "jwt"
             /\ UNCHANGED <<cur, skipped, told>>
    <3>1. [mem EXCEPT !.address = service, !.port = TRUE] \in Specs
      BY <2>4 DEF TypeOK, WorldType, WorkerType, Specs
    <3> QED
      BY <1>5, <2>1, <2>4, <3>1 DEF TypeOK, WorkerType, Steps
  <2> QED
    BY <1>11, <2>2, <2>3, <2>4 DEF EnsureServerAddressAndPort
<1>12. CASE \E g \in GitOpsClusters : Dequeue(g)
  BY <1>12 DEF Dequeue, TypeOK, WorldType, WorkerType, Steps
<1>13. CASE Return
  <2>1. [address |-> mem.address, skipped |-> skipped] \in Statuses
    BY DEF TypeOK, WorkerType, Specs, Statuses
  <2> QED
    BY <1>13, <2>1, Fresh DEF Return, PutDown, TypeOK, WorkerType
<1>14. CASE Crash \/ Upgrade
  BY <1>14, Fresh DEF Crash, Upgrade, Restart, PutDown, TypeOK, WorkerType
<1>15. CASE \E g \in GitOpsClusters : EditSpec(g) \/ Annotate(g)
  BY <1>15 DEF EditSpec, Annotate, TypeOK, WorkerType
<1>16. CASE ChangeService \/ BumpImage \/ EditConfig \/ SyncConfig \/ UNCHANGED vars
  BY <1>1, <1>16 DEF ChangeService, BumpImage, EditConfig, SyncConfig, vars, worker
<1> QED
  BY <1>6, <1>7, <1>8, <1>9, <1>10, <1>11, <1>12, <1>13, <1>14, <1>15, <1>16
  DEF Next, Work, Environment

\* Counters.
LEMMA CountStep ==
  ASSUME TypeOK, [Next]_vars
  PROVE  CountType'
<1>1. edits' \in 0 .. MaxEdits
  <2>1. edits' = edits \/ Edit
    BY DEF Next, Work, Environment, Dequeue, EnsureAddonManagerRole,
       EnsureAddonManagerRoleBinding, EnsureArgoCDAgentJWTSecret, EnsureReady,
       EnsureServerAddressAndPort, EnsurePrincipalCertificate, EnsureAddOnTemplate,
       EnsurePlacementTolerations, CreateCAWork, CreateCRWork, EnsureAddOnDeploymentConfig,
       EnsureManagedClusterAddon, Return, EditSpec, Annotate, ChangeService, BumpImage,
       EditConfig, Upgrade, SyncConfig, Crash, vars
  <2> QED
    BY <2>1, SettingsAssumption DEF Edit, TypeOK, CountType
<1>2. faults' \in 0 .. MaxFaults
  <2>1. faults' = faults \/ \E kind \in FaultKinds : Fault(kind)
    BY DEF Next, Work, Environment, Dequeue, EnsureAddonManagerRole,
       EnsureAddonManagerRoleBinding, EnsureArgoCDAgentJWTSecret, EnsureReady,
       EnsureServerAddressAndPort, EnsurePrincipalCertificate, EnsureAddOnTemplate,
       EnsurePlacementTolerations, CreateCAWork, CreateCRWork, EnsureAddOnDeploymentConfig,
       EnsureManagedClusterAddon, Return, EditSpec, Annotate, ChangeService, BumpImage,
       EditConfig, Upgrade, SyncConfig, Crash, vars, Goes, Breaks, Skips, Fine, Fault
  <2> QED
    BY <2>1, SettingsAssumption DEF Fault, TypeOK, CountType
<1>3. missed' \in BOOLEAN
  <2>1. missed' \in {missed, TRUE}
    BY DEF Next, Work, Environment, Dequeue, EnsureAddonManagerRole,
       EnsureAddonManagerRoleBinding, EnsureArgoCDAgentJWTSecret, EnsureReady,
       EnsureServerAddressAndPort, EnsurePrincipalCertificate, EnsureAddOnTemplate,
       EnsurePlacementTolerations, CreateCAWork, CreateCRWork, EnsureAddOnDeploymentConfig,
       EnsureManagedClusterAddon, Return, EditSpec, Annotate, ChangeService, BumpImage,
       EditConfig, Upgrade, SyncConfig, Crash, Restart, vars
  <2> QED
    BY <2>1, Zenon DEF TypeOK, CountType
<1> QED
  BY <1>1, <1>2, <1>3 DEF CountType

LEMMA TypeStep == TypeOK /\ [Next]_vars => TypeOK'
BY WorldStep, SharedStep, OwnStep, AddonStep, WorkerStep, CountStep DEF TypeOK

\* Every variable keeps its type.
THEOREM TypeCorrect == Spec => []TypeOK
BY InitTypes, TypeStep, PTL DEF Spec

-----------------------------------------------------------------------------
(* Delivery.                                                               *)

\* Every step keeps what it takes before the delivery.
LEMMA ReadyStep ==
  ASSUME IInv, [Next]_vars
  PROVE  ReadyInv'
<1> USE DEF IInv, ReadyInv
<1>1. CASE UNCHANGED <<ready, san, template, software, pc, cur, mem>>
  BY <1>1
<1>2. CASE pc' = "idle"
  BY <1>2
<1>3. CASE Environment \/ SyncConfig \/ Crash \/ UNCHANGED vars
  BY <1>1, <1>2, <1>3 DEF Environment, EditSpec, Annotate, ChangeService, BumpImage, EditConfig,
     Upgrade, SyncConfig, Crash, Restart, PutDown, world, shared, own, worker, vars
<1>4. CASE \E g \in GitOpsClusters : Dequeue(g)
  BY <1>4 DEF Dequeue
<1>5. CASE EnsureAddonManagerRole \/ EnsureAddonManagerRoleBinding \/ EnsureArgoCDAgentJWTSecret
  BY <1>2, <1>5 DEF EnsureAddonManagerRole, EnsureAddonManagerRoleBinding,
     EnsureArgoCDAgentJWTSecret, EnsureReady, Goes, Breaks, Abandon, PutDown
<1>6. CASE EnsureServerAddressAndPort
  BY <1>2, <1>6 DEF EnsureServerAddressAndPort, Goes, Abandon, PutDown, shared
<1>7. CASE EnsurePrincipalCertificate
  <2>1. mem.address \in HostNames \cup {Unset}
    BY DEF HostNames
  <2> QED
    BY <1>2, <1>7, <2>1 DEF EnsurePrincipalCertificate, Goes, Stay, Breaks, Abandon, PutDown
<1>8. CASE EnsureAddOnTemplate
  <2>1. cur \in GitOpsClusters
    BY <1>8 DEF EnsureAddOnTemplate, TypeOK, WorkerType
  <2>2. template' = [template EXCEPT ![cur] = software] => template'[cur] = software
    BY <2>1 DEF TypeOK, OwnType
  <2> QED
    BY <1>2, <1>8, <2>2 DEF EnsureAddOnTemplate, Goes, Stay, Breaks, Abandon, PutDown, shared, world
<1>9. CASE EnsurePlacementTolerations \/ CreateCAWork
  BY <1>9 DEF EnsurePlacementTolerations, CreateCAWork, Goes, Stay, Skips, own, world
<1>10. CASE CreateCRWork
  BY <1>10 DEF CreateCRWork, Goes, Stay, Skips, shared
<1>11. CASE EnsureAddOnDeploymentConfig
  BY <1>11 DEF EnsureAddOnDeploymentConfig, Goes, Stay, shared
<1>12. CASE EnsureManagedClusterAddon
  BY <1>12 DEF EnsureManagedClusterAddon, Goes, Stay, Skips, shared
<1>13. CASE Return
  BY <1>2, <1>13 DEF Return, PutDown
<1> QED
  BY <1>3, <1>4, <1>5, <1>6, <1>7, <1>8, <1>9, <1>10, <1>11, <1>12, <1>13 DEF Next, Work

LEMMA Inv == Spec => []IInv
<1>1. Init => IInv
  BY InitTypes DEF Init, IInv, ReadyInv
<1>2. IInv /\ [Next]_vars => IInv'
  BY TypeStep, ReadyStep DEF IInv
<1> QED
  BY <1>1, <1>2, PTL DEF Spec

\* Only the delivery writes a work, and it writes the address it has in hand.
LEMMA OnlyDelivery ==
  ASSUME IInv, [Next]_vars, NEW g \in GitOpsClusters, crWork'[g] # crWork[g]
  PROVE  /\ pc = "crWork" /\ g = cur
         /\ crWork'[g].address \in {mem.address, Unset}
<1>1. CreateCRWork
  BY DEF Next, Work, Environment, Dequeue, EnsureAddonManagerRole,
     EnsureAddonManagerRoleBinding, EnsureArgoCDAgentJWTSecret, EnsureReady,
     EnsureServerAddressAndPort, EnsurePrincipalCertificate, EnsureAddOnTemplate,
     EnsurePlacementTolerations, CreateCAWork, EnsureAddOnDeploymentConfig,
     EnsureManagedClusterAddon, Return, EditSpec, Annotate, ChangeService, BumpImage,
     EditConfig, Upgrade, SyncConfig, Crash, Restart, own, vars
<1>2. PICK read : crWork' = [crWork EXCEPT ![cur] = ArgoCDCR(mem, read)]
  BY <1>1 DEF CreateCRWork
<1>3. g = cur /\ crWork'[g] = ArgoCDCR(mem, read)
  BY <1>2 DEF IInv, TypeOK, OwnType
<1>4. mem.cr \in CRKinds
  BY DEF IInv, TypeOK, WorkerType, Specs
<1>5. ArgoCDCR(mem, read).address \in {mem.address, Unset}
  BY <1>4 DEF ArgoCDCR, CRKinds, NoWork
<1> QED
  BY <1>1, <1>3, <1>5 DEF CreateCRWork

\* No address reaches a managed cluster before certificate, roles, key and template are
\* there for it.
THEOREM DeliveryWaits == Spec => DeliveredWhenReady
<1>1. IInv /\ [Next]_vars => [Delivers]_vars
  <2> SUFFICES ASSUME IInv, [Next]_vars PROVE Delivers
    OBVIOUS
  <2>1. SUFFICES ASSUME NEW g \in GitOpsClusters, crWork'[g] # crWork[g], crWork'[g].address # Unset
                 PROVE  /\ crWork'[g].address \in san
                        /\ ready = {"role", "binding", "jwt"}
                        /\ template[g] = software
    BY DEF Delivers
  <2>2. pc = "crWork" /\ g = cur /\ crWork'[g].address = mem.address
    BY <2>1, OnlyDelivery
  <2>3. ready \subseteq {"role", "binding", "jwt"}
    BY DEF IInv, TypeOK, SharedType
  <2> QED
    BY <2>1, <2>2, <2>3 DEF IInv, ReadyInv
<1> QED
  BY <1>1, Inv, PTL DEF Spec, DeliveredWhenReady

-----------------------------------------------------------------------------
(* The settings of users.                                                  *)

\* An edit counts as one.
LEMMA EditCounts == TypeOK /\ Edit => edits' # edits
BY DEF TypeOK, CountType, Edit

\* What discovery writes.
LEMMA SpecKept ==
  ASSUME TypeOK, [Next]_vars, ~Edit, NEW g \in GitOpsClusters, spec'[g] # spec[g]
  PROVE  /\ ~Addressed(spec[g])
         /\ \E a \in Addresses : spec'[g] = [spec[g] EXCEPT !.address = a, !.port = TRUE]
<1>1. EnsureServerAddressAndPort
  BY DEF Next, Work, Environment, Dequeue, EnsureAddonManagerRole,
     EnsureAddonManagerRoleBinding, EnsureArgoCDAgentJWTSecret, EnsureReady,
     CreateCRWork, EnsurePrincipalCertificate, EnsureAddOnTemplate,
     EnsurePlacementTolerations, CreateCAWork, EnsureAddOnDeploymentConfig,
     EnsureManagedClusterAddon, Return, EditSpec, Annotate, ChangeService, BumpImage,
     EditConfig, Upgrade, SyncConfig, Crash, Restart, world, vars
<1>2. g = cur /\ spec'[g] = mem'
  BY <1>1, Discovery DEF TypeOK, WorldType
<1> QED
  BY <1>1, <1>2, Discovery

\* What the merge writes.
LEMMA ConfigKept ==
  ASSUME TypeOK, [Next]_vars, ~Edit, NEW v \in Variables, config'.value[v] # config.value[v]
  PROVE  config.value[v] = Unset /\ v = "ARGOCD_NAMESPACE"
<1>1. EnsureAddOnDeploymentConfig
  BY DEF Next, Work, Environment, Dequeue, EnsureAddonManagerRole,
     EnsureAddonManagerRoleBinding, EnsureArgoCDAgentJWTSecret, EnsureReady,
     CreateCRWork, EnsurePrincipalCertificate, EnsureAddOnTemplate,
     EnsurePlacementTolerations, CreateCAWork, EnsureServerAddressAndPort,
     EnsureManagedClusterAddon, Return, EditSpec, Annotate, ChangeService, BumpImage,
     EditConfig, Upgrade, SyncConfig, Crash, Restart, addon, vars
<1>2. config' = Merge(config, mem.namespace)
  BY <1>1 DEF EnsureAddOnDeploymentConfig
<1>3. config \in Configs
  BY DEF TypeOK, AddonType
<1>4. v = "ARGOCD_NAMESPACE"
  BY <1>2, <1>3 DEF Merge, Configs, Variables
<1> QED
  BY <1>2, <1>3, <1>4 DEF Merge, Configs, Variables

\* Nothing that users have written is undone by the controller.
THEOREM UserSettingsKept == Spec => UserSettingsStay
<1>1. TypeOK /\ [Next]_vars => [Keeps]_vars
  <2> SUFFICES ASSUME TypeOK, [Next]_vars, edits' = edits PROVE Keeps
    BY DEF Keeps
  <2>1. ~Edit
    BY EditCounts
  <2> QED
    BY <2>1, SpecKept, ConfigKept DEF Keeps
<1> QED
  BY <1>1, TypeCorrect, PTL DEF Spec, UserSettingsStay

-----------------------------------------------------------------------------
(* What a GitOpsCluster at rest has, or has been told.                     *)

\* A config once made stays, and the cache holds it or an earlier state of it.
ConfigInv ==
    /\ config.exists \/ config = NoConfig
    /\ seen.exists \/ seen = NoConfig
    /\ seen.exists => config.exists

\* The spec in hand is the spec that is there, or the key is queued again; likewise the work.
CurInv ==
    pc # "idle" /\ cur \notin queue =>
        /\ mem = spec[cur]
        /\ pc \notin {"role", "binding", "discover"} => Addressed(spec[cur])
        /\ pc \in {"config", "addon", "return"} => CRFollows(cur) \/ "crWork" \in skipped

\* What the steps that are behind have left, or are named for.
PassedInv ==
    /\ pc \in {"tolerations", "caWork", "crWork", "config", "addon", "return"} =>
          template[cur] = software
    /\ pc \in {"caWork", "crWork", "config", "addon", "return"} =>
          tolerant \/ "tolerations" \in skipped
    /\ pc \in {"crWork", "config", "addon", "return"} => caWork # Unset \/ "caWork" \in skipped
    /\ pc = "addon" => config.exists
    /\ pc = "return" => (config.exists /\ Contains(refs, cur)) \/ "addon" \in skipped

RestInv == IInv /\ ConfigInv /\ CurInv /\ PassedInv /\ FollowedOrTold

\* Whoever changes a spec queues its key.
LEMMA SpecQueued ==
  ASSUME TypeOK, [Next]_vars, NEW g \in GitOpsClusters, g \notin queue'
  PROVE  spec'[g] = spec[g]
<1>1. CASE \E h \in GitOpsClusters : EditSpec(h)
  <2>1. PICK h \in GitOpsClusters : EditSpec(h)
    BY <1>1
  <2>2. h # g
    BY <2>1 DEF EditSpec
  <2>3. \E t : spec' = [spec EXCEPT ![h] = t]
    BY <2>1 DEF EditSpec
  <2> QED
    BY <2>2, <2>3 DEF TypeOK, WorldType
<1>2. CASE EnsureServerAddressAndPort
  <2>1. SUFFICES ASSUME spec' # spec PROVE spec'[g] = spec[g]
    OBVIOUS
  <2>2. spec' = [spec EXCEPT ![cur] = mem'] /\ g # cur
    BY <1>2, <2>1, Discovery DEF EnsureServerAddressAndPort
  <2> QED
    BY <2>2 DEF TypeOK, WorldType
<1>3. CASE ~(\E h \in GitOpsClusters : EditSpec(h)) /\ ~EnsureServerAddressAndPort
  BY <1>3 DEF Next, Work, Environment, Dequeue, EnsureAddonManagerRole,
     EnsureAddonManagerRoleBinding, EnsureArgoCDAgentJWTSecret, EnsureReady,
     CreateCRWork, EnsurePrincipalCertificate, EnsureAddOnTemplate,
     EnsurePlacementTolerations, CreateCAWork, EnsureAddOnDeploymentConfig,
     EnsureManagedClusterAddon, Return, Annotate, ChangeService, BumpImage,
     EditConfig, Upgrade, SyncConfig, Crash, Restart, world, vars
<1> QED
  BY <1>1, <1>2, <1>3

\* A template changes in its step alone, and a new version queues everything.
LEMMA TemplateKept ==
  ASSUME TypeOK, [Next]_vars, NEW g \in GitOpsClusters, template[g] = software,
         g \notin queue' \/ pc' # "idle"
  PROVE  template'[g] = software'
<1>1. software' = software
  BY DEF Next, Work, Environment, Dequeue, EnsureAddonManagerRole,
     EnsureAddonManagerRoleBinding, EnsureArgoCDAgentJWTSecret, EnsureReady,
     EnsureServerAddressAndPort, CreateCRWork, EnsurePrincipalCertificate, EnsureAddOnTemplate,
     EnsurePlacementTolerations, CreateCAWork, EnsureAddOnDeploymentConfig,
     EnsureManagedClusterAddon, Return, EditSpec, Annotate, ChangeService, BumpImage,
     EditConfig, Upgrade, SyncConfig, Crash, Restart, PutDown, world, vars
<1>2. template' = template \/ template' = [template EXCEPT ![cur] = software]
  BY DEF Next, Work, Environment, Dequeue, EnsureAddonManagerRole,
     EnsureAddonManagerRoleBinding, EnsureArgoCDAgentJWTSecret, EnsureReady,
     EnsureServerAddressAndPort, CreateCRWork, EnsurePrincipalCertificate, EnsureAddOnTemplate,
     EnsurePlacementTolerations, CreateCAWork, EnsureAddOnDeploymentConfig,
     EnsureManagedClusterAddon, Return, EditSpec, Annotate, ChangeService, BumpImage,
     EditConfig, Upgrade, SyncConfig, Crash, Restart, own, vars
<1> QED
  BY <1>1, <1>2 DEF TypeOK, OwnType

LEMMA SpokeNamespaceSet == \A s \in Specs : SpokeNamespace(s) # Unset
BY SettingsAssumption DEF SpokeNamespace

\* What the GitOpsClusters share, once there, stays.
LEMMA SharedKept ==
  ASSUME TypeOK, [Next]_vars
  PROVE  /\ tolerant => tolerant'
         /\ caWork # Unset => caWork' # Unset
<1>1. CASE UNCHANGED <<tolerant, caWork>>
  BY <1>1
<1>2. CASE EnsurePlacementTolerations
  BY <1>2 DEF EnsurePlacementTolerations
<1>3. CASE CreateCAWork
  BY <1>3 DEF CreateCAWork
<1>4. CASE ~EnsurePlacementTolerations /\ ~CreateCAWork
  BY <1>1, <1>4 DEF Next, Work, Environment, Dequeue, EnsureAddonManagerRole,
     EnsureAddonManagerRoleBinding, EnsureArgoCDAgentJWTSecret, EnsureReady,
     EnsureServerAddressAndPort, CreateCRWork, EnsurePrincipalCertificate, EnsureAddOnTemplate,
     EnsureAddOnDeploymentConfig, EnsureManagedClusterAddon, Return, EditSpec, Annotate,
     ChangeService, BumpImage, EditConfig, Upgrade, SyncConfig, Crash, Restart, shared, vars
<1> QED
  BY <1>2, <1>3, <1>4

LEMMA AppendContains ==
  ASSUME NEW S, NEW s \in Seq(S), NEW g, NEW h \in S, Contains(s, g) \/ g = h
  PROVE  Contains(Append(s, h), g)
<1>1. CASE Contains(s, g)
  <2>1. PICK i \in 1 .. Len(s) : s[i] = g
    BY <1>1 DEF Contains
  <2>2. i \in 1 .. Len(Append(s, h)) /\ Append(s, h)[i] = g
    BY <2>1
  <2> QED
    BY <2>2 DEF Contains
<1>2. CASE g = h
  <2>1. Len(s) + 1 \in 1 .. Len(Append(s, h)) /\ Append(s, h)[Len(s) + 1] = g
    BY <1>2
  <2> QED
    BY <2>1 DEF Contains
<1> QED
  BY <1>1, <1>2

\* So do the objects of the addon.
LEMMA AddonKept ==
  ASSUME TypeOK, ConfigInv, [Next]_vars
  PROVE  /\ config.exists => config'.exists
         /\ \A g \in GitOpsClusters : Contains(refs, g) => Contains(refs', g)
<1>1. config.exists => config'.exists
  <2>1. CASE EditConfig
    BY <2>1 DEF EditConfig, TypeOK, AddonType, Configs
  <2>2. CASE EnsureAddOnDeploymentConfig
    BY <2>2 DEF EnsureAddOnDeploymentConfig, Merge, TypeOK, AddonType, Configs
  <2>3. CASE ~EditConfig /\ ~EnsureAddOnDeploymentConfig
    BY <2>3 DEF Next, Work, Environment, Dequeue, EnsureAddonManagerRole,
       EnsureAddonManagerRoleBinding, EnsureArgoCDAgentJWTSecret, EnsureReady,
       EnsureServerAddressAndPort, CreateCRWork, EnsurePrincipalCertificate, EnsureAddOnTemplate,
       EnsurePlacementTolerations, CreateCAWork, EnsureManagedClusterAddon, Return, EditSpec,
       Annotate, ChangeService, BumpImage, Upgrade, SyncConfig, Crash, Restart, addon, vars
  <2> QED
    BY <2>1, <2>2, <2>3
<1>2. ASSUME NEW g \in GitOpsClusters, Contains(refs, g)
      PROVE  Contains(refs', g)
  <2>1. CASE EnsureManagedClusterAddon
    <3>1. cur \in GitOpsClusters
      BY <2>1 DEF EnsureManagedClusterAddon, TypeOK, WorkerType
    <3>2. Contains(Append(refs, cur), g)
      BY <1>2, <3>1, AppendContains DEF TypeOK, AddonType
    <3>3. refs' = refs \/ refs' = Append(refs, cur)
      BY <2>1 DEF EnsureManagedClusterAddon
    <3> QED
      BY <1>2, <3>2, <3>3
  <2>2. CASE ~EnsureManagedClusterAddon
    <3>1. refs' = refs
      BY <2>2 DEF Next, Work, Environment, Dequeue, EnsureAddonManagerRole,
         EnsureAddonManagerRoleBinding, EnsureArgoCDAgentJWTSecret, EnsureReady,
         EnsureServerAddressAndPort, CreateCRWork, EnsurePrincipalCertificate,
         EnsureAddOnTemplate, EnsurePlacementTolerations, CreateCAWork,
         EnsureAddOnDeploymentConfig, Return, EditSpec, Annotate, ChangeService, BumpImage,
         EditConfig, Upgrade, SyncConfig, Crash, Restart, addon, vars
    <3> QED
      BY <1>2, <3>1
  <2> QED
    BY <2>1, <2>2
<1> QED
  BY <1>1, <1>2

\* A work that says what it should still does, unless the GitOpsCluster is queued or at the
\* delivery: a new image makes all of them wait for their annotation.
LEMMA WorkKept ==
  ASSUME TypeOK, [Next]_vars, NEW g \in GitOpsClusters, g \notin queue',
         ~(pc = "crWork" /\ g = cur), CRFollows(g)
  PROVE  CRFollows(g)'
<1>1. spec'[g] = spec[g]
  BY SpecQueued
<1>2. crWork'[g] = crWork[g]
  <2>1. CASE CreateCRWork
    <3>1. g # cur
      BY <2>1 DEF CreateCRWork
    <3>2. crWork' = crWork \/ \E w : crWork' = [crWork EXCEPT ![cur] = w]
      BY <2>1 DEF CreateCRWork
    <3> QED
      BY <3>1, <3>2 DEF TypeOK, OwnType
  <2>2. CASE ~CreateCRWork
    BY <2>2 DEF Next, Work, Environment, Dequeue, EnsureAddonManagerRole,
       EnsureAddonManagerRoleBinding, EnsureArgoCDAgentJWTSecret, EnsureReady,
       EnsureServerAddressAndPort, EnsurePrincipalCertificate, EnsureAddOnTemplate,
       EnsurePlacementTolerations, CreateCAWork, EnsureAddOnDeploymentConfig,
       EnsureManagedClusterAddon, Return, EditSpec, Annotate, ChangeService, BumpImage,
       EditConfig, Upgrade, SyncConfig, Crash, Restart, own, vars
  <2> QED
    BY <2>1, <2>2
<1>3. missed' \in {missed, TRUE}
  BY DEF Next, Work, Environment, Dequeue, EnsureAddonManagerRole,
     EnsureAddonManagerRoleBinding, EnsureArgoCDAgentJWTSecret, EnsureReady,
     EnsureServerAddressAndPort, EnsurePrincipalCertificate, EnsureAddOnTemplate,
     EnsurePlacementTolerations, CreateCAWork, CreateCRWork, EnsureAddOnDeploymentConfig,
     EnsureManagedClusterAddon, Return, EditSpec, Annotate, ChangeService, BumpImage,
     EditConfig, Upgrade, SyncConfig, Crash, Restart, vars
<1>4. \/ image' = image /\ (g \in untold => g \in untold')
      \/ g \in untold'
  <2>1. CASE \E h \in GitOpsClusters : Annotate(h)
    BY <2>1 DEF Annotate
  <2>2. CASE BumpImage
    BY <2>2 DEF BumpImage
  <2>3. CASE ~BumpImage /\ ~(\E h \in GitOpsClusters : Annotate(h))
    BY <2>3 DEF Next, Work, Environment, Dequeue, EnsureAddonManagerRole,
       EnsureAddonManagerRoleBinding, EnsureArgoCDAgentJWTSecret, EnsureReady,
       EnsureServerAddressAndPort, EnsurePrincipalCertificate, EnsureAddOnTemplate,
       EnsurePlacementTolerations, CreateCAWork, CreateCRWork, EnsureAddOnDeploymentConfig,
       EnsureManagedClusterAddon, Return, EditSpec, ChangeService, EditConfig, Upgrade,
       SyncConfig, Crash, Restart, world, vars
  <2> QED
    BY <2>1, <2>2, <2>3
<1>5. \E i \in Images \cup {Unset} : crWork[g] = ArgoCDCR(spec[g], i)
  BY DEF CRFollows, TypeOK, WorldType
<1>6. CRFollows(g)' <=> \/ crWork'[g] = ArgoCDCR(spec'[g], image')
                        \/ /\ missed' \/ g \in untold'
                           /\ \E i \in Images \cup {Unset} : crWork'[g] = ArgoCDCR(spec'[g], i)
  BY DEF CRFollows, ArgoCDCR
<1>7. CASE g \in untold'
  BY <1>1, <1>2, <1>5, <1>6, <1>7
<1>8. CASE image' = image /\ (g \in untold => g \in untold')
  BY <1>1, <1>2, <1>3, <1>6, <1>8 DEF CRFollows
<1> QED
  BY <1>4, <1>7, <1>8

\* A key that is queued stays so until it is taken.
LEMMA QueueKept ==
  ASSUME TypeOK, [Next]_vars, NEW g \in GitOpsClusters, g \in queue, g \notin queue'
  PROVE  pc = "idle" /\ pc' = "role" /\ cur' = g /\ mem' = spec[g] /\ UNCHANGED spec
BY DEF Next, Work, Environment, Dequeue, EnsureAddonManagerRole,
   EnsureAddonManagerRoleBinding, EnsureArgoCDAgentJWTSecret, EnsureReady,
   EnsureServerAddressAndPort, EnsurePrincipalCertificate, EnsureAddOnTemplate,
   EnsurePlacementTolerations, CreateCAWork, CreateCRWork, EnsureAddOnDeploymentConfig,
   EnsureManagedClusterAddon, Return, EditSpec, Annotate, ChangeService, BumpImage,
   EditConfig, Upgrade, SyncConfig, Crash, Restart, Goes, Stay, Breaks, Abandon, Skips,
   world, worker, vars

LEMMA ConfigStep ==
  ASSUME TypeOK, ConfigInv, [Next]_vars
  PROVE  ConfigInv'
<1> USE DEF ConfigInv
<1>1. config.exists => config'.exists
  BY AddonKept
<1>2. CASE UNCHANGED <<config, seen>>
  BY <1>2
<1>3. CASE EditConfig
  BY <1>1, <1>3 DEF EditConfig
<1>4. CASE EnsureAddOnDeploymentConfig
  <2>1. config' = config \/ config' = Merge(seen, mem.namespace)
    BY <1>4 DEF EnsureAddOnDeploymentConfig
  <2>2. Merge(seen, mem.namespace).exists
    BY DEF Merge, TypeOK, AddonType, Configs
  <2> QED
    BY <1>1, <1>4, <2>1, <2>2 DEF EnsureAddOnDeploymentConfig
<1>5. CASE SyncConfig \/ Crash \/ Upgrade
  BY <1>5 DEF SyncConfig, Crash, Upgrade, Restart
<1>6. CASE ~EditConfig /\ ~EnsureAddOnDeploymentConfig /\ ~SyncConfig /\ ~Crash /\ ~Upgrade
  BY <1>2, <1>6 DEF Next, Work, Environment, Dequeue, EnsureAddonManagerRole,
     EnsureAddonManagerRoleBinding, EnsureArgoCDAgentJWTSecret, EnsureReady,
     EnsureServerAddressAndPort, CreateCRWork, EnsurePrincipalCertificate, EnsureAddOnTemplate,
     EnsurePlacementTolerations, CreateCAWork, EnsureManagedClusterAddon, Return, EditSpec,
     Annotate, ChangeService, BumpImage, addon, vars
<1> QED
  BY <1>3, <1>4, <1>5, <1>6

\* Everyone but the worker leaves the reconcile alone, or ends it.
LEMMA WorkerHeld ==
  ASSUME Environment \/ SyncConfig \/ Crash \/ UNCHANGED vars
  PROVE  pc' = "idle" \/ UNCHANGED <<pc, cur, mem, skipped>>
BY DEF Environment, EditSpec, Annotate, ChangeService, BumpImage, EditConfig, Upgrade,
   SyncConfig, Crash, Restart, PutDown, worker, vars

LEMMA PassedStep ==
  ASSUME TypeOK, ConfigInv, PassedInv, [Next]_vars, pc' # "idle"
  PROVE  PassedInv'
<1>1. cur' \in GitOpsClusters
  BY WorkerStep DEF WorkerType
<1> DEFINE Kept == /\ template[cur'] = software => template'[cur'] = software'
                   /\ tolerant => tolerant'
                   /\ caWork # Unset => caWork' # Unset
                   /\ config.exists => config'.exists
                   /\ Contains(refs, cur') => Contains(refs', cur')
<1>2. Kept
  BY <1>1, TemplateKept, SharedKept, AddonKept
<1> HIDE DEF Kept
<1> USE DEF PassedInv
<1>3. CASE UNCHANGED <<pc, cur, skipped>>
  BY <1>2, <1>3 DEF Kept
<1>4. CASE Environment \/ SyncConfig \/ Crash \/ UNCHANGED vars
  BY <1>3, <1>4, WorkerHeld
<1>5. CASE \/ \E g \in GitOpsClusters : Dequeue(g)
           \/ EnsureAddonManagerRole \/ EnsureAddonManagerRoleBinding
           \/ EnsureArgoCDAgentJWTSecret \/ EnsurePrincipalCertificate
           \/ EnsureServerAddressAndPort
  BY <1>5 DEF Dequeue, EnsureAddonManagerRole, EnsureAddonManagerRoleBinding,
     EnsureArgoCDAgentJWTSecret, EnsureReady, EnsureServerAddressAndPort,
     EnsurePrincipalCertificate, Goes, Breaks, Abandon, PutDown
<1>6. CASE EnsureAddOnTemplate
  <2>1. pc' = "tolerations" /\ cur' = cur /\ template' = [template EXCEPT ![cur] = software]
    BY <1>6 DEF EnsureAddOnTemplate, Goes, Stay, Breaks, Abandon, PutDown
  <2>2. software' = software
    BY <1>6 DEF EnsureAddOnTemplate, world
  <2> QED
    BY <1>1, <2>1, <2>2 DEF TypeOK, OwnType
<1>7. CASE EnsurePlacementTolerations
  <2>1. /\ pc = "tolerations" /\ pc' = "caWork" /\ cur' = cur
        /\ tolerant' \/ "tolerations" \in skipped'
    BY <1>7 DEF EnsurePlacementTolerations, Goes, Stay, Skips
  <2> QED
    BY <1>2, <2>1 DEF Kept
<1>8. CASE CreateCAWork
  <2>1. pc = "caWork" /\ pc' = "crWork" /\ cur' = cur /\ skipped \subseteq skipped'
    BY <1>8 DEF CreateCAWork, Goes, Stay, Skips
  <2>2. caWork' # Unset \/ "caWork" \in skipped'
    <3>1. SpokeNamespace(mem) # Unset
      BY SpokeNamespaceSet DEF TypeOK, WorkerType
    <3> QED
      BY <1>8, <3>1 DEF CreateCAWork, Skips
  <2> QED
    BY <1>2, <2>1, <2>2 DEF Kept
<1>9. CASE CreateCRWork
  <2>1. pc = "crWork" /\ pc' = "config" /\ cur' = cur /\ skipped \subseteq skipped'
    BY <1>9 DEF CreateCRWork, Goes, Stay, Skips
  <2> QED
    BY <1>2, <2>1 DEF Kept
<1>10. CASE EnsureAddOnDeploymentConfig
  <2>1. pc = "config" /\ pc' \in {"addon", "return"} /\ cur' = cur /\ skipped \subseteq skipped'
    BY <1>10 DEF EnsureAddOnDeploymentConfig, Goes, Stay
  <2>2. pc' = "return" => "addon" \in skipped'
    BY <1>10 DEF EnsureAddOnDeploymentConfig, Goes
  <2>3. ASSUME pc' = "addon" PROVE config'.exists
    <3>1. Merge(seen, mem.namespace).exists
      BY DEF Merge, TypeOK, AddonType, Configs
    <3>2. \/ config' = Merge(seen, mem.namespace)
          \/ /\ seen # config /\ config' = config
             /\ ~seen.exists \/ Merge(seen, mem.namespace) = seen
      BY <1>10, <2>3 DEF EnsureAddOnDeploymentConfig, Goes
    <3> QED
      BY <3>1, <3>2 DEF ConfigInv
  <2> QED
    BY <1>2, <2>1, <2>2, <2>3 DEF Kept
<1>11. CASE EnsureManagedClusterAddon
  <2>1. pc = "addon" /\ pc' = "return" /\ cur' = cur /\ skipped \subseteq skipped'
    BY <1>11 DEF EnsureManagedClusterAddon, Goes, Stay, Skips
  <2>2. Contains(Append(refs, cur), cur)
    BY <1>1, <2>1, AppendContains DEF TypeOK, AddonType
  <2>3. Contains(refs', cur) \/ "addon" \in skipped'
    BY <1>11, <2>2 DEF EnsureManagedClusterAddon, Skips
  <2> QED
    BY <1>2, <2>1, <2>3 DEF Kept
<1>12. CASE Return
  BY <1>12 DEF Return, PutDown
<1> QED
  BY <1>4, <1>5, <1>6, <1>7, <1>8, <1>9, <1>10, <1>11, <1>12 DEF Next, Work

\* What the delivery writes is what the spec in hand says.
LEMMA Delivered ==
  ASSUME TypeOK, CreateCRWork, mem = spec[cur]
  PROVE  CRFollows(cur)' \/ "crWork" \in skipped'
<1>1. cur \in GitOpsClusters /\ cur' = cur /\ spec' = spec /\ image' = image
  BY DEF CreateCRWork, TypeOK, WorkerType, Goes, Stay, Skips, world
<1>2. CRFollows(cur)' <=> \/ crWork'[cur'] = ArgoCDCR(spec'[cur'], image')
                          \/ /\ missed' \/ cur' \in untold'
                             /\ \E i \in Images \cup {Unset} :
                                   crWork'[cur'] = ArgoCDCR(spec'[cur'], i)
  BY DEF CRFollows, ArgoCDCR
<1>3. CASE crWork' = [crWork EXCEPT ![cur] = ArgoCDCR(mem, image)]
  BY <1>1, <1>2, <1>3 DEF TypeOK, OwnType
<1>4. CASE crWork' = [crWork EXCEPT ![cur] = ArgoCDCR(mem, Unset)] /\ missed'
  BY <1>1, <1>2, <1>4 DEF TypeOK, OwnType
<1> QED
  BY <1>3, <1>4 DEF CreateCRWork, Skips

LEMMA CurStep ==
  ASSUME TypeOK, CurInv, [Next]_vars
  PROVE  CurInv'
<1> SUFFICES ASSUME pc' # "idle", cur' \notin queue'
             PROVE  /\ mem' = spec'[cur']
                    /\ pc' \notin {"role", "binding", "discover"} => Addressed(spec'[cur'])
                    /\ pc' \in {"config", "addon", "return"} =>
                          CRFollows(cur)' \/ "crWork" \in skipped'
  BY DEF CurInv, Addressed
<1>1. cur' \in GitOpsClusters
  BY WorkerStep DEF WorkerType
<1>2. spec'[cur'] = spec[cur']
  BY <1>1, SpecQueued
<1>3. CASE \E g \in GitOpsClusters : Dequeue(g)
  BY <1>3 DEF Dequeue, world, TypeOK, WorldType
<1>4. CASE ~(\E g \in GitOpsClusters : Dequeue(g))
  <2>1. pc # "idle" /\ (pc' = pc \/ Work) /\ cur' = cur
    BY <1>4, WorkerHeld DEF Next, Work, EnsureAddonManagerRole, EnsureAddonManagerRoleBinding,
       EnsureArgoCDAgentJWTSecret, EnsureReady, EnsureServerAddressAndPort,
       EnsurePrincipalCertificate, EnsureAddOnTemplate, EnsurePlacementTolerations, CreateCAWork,
       CreateCRWork, EnsureAddOnDeploymentConfig, EnsureManagedClusterAddon, Return, Goes, Stay,
       Breaks, Abandon, Skips, PutDown
  <2>2. cur \notin queue
    BY <1>1, <2>1, QueueKept
  <2>3. /\ mem = spec[cur]
        /\ pc \notin {"role", "binding", "discover"} => Addressed(spec[cur])
        /\ pc \in {"config", "addon", "return"} => CRFollows(cur) \/ "crWork" \in skipped
    BY <2>1, <2>2 DEF CurInv
  <2>4. pc \in {"config", "addon", "return"} => CRFollows(cur)' \/ "crWork" \in skipped
    BY <1>1, <2>1, <2>3, WorkKept
  <2>5. CASE Environment \/ SyncConfig \/ Crash \/ UNCHANGED vars
    BY <1>2, <2>1, <2>3, <2>4, <2>5, WorkerHeld
  <2>6. CASE EnsureAddonManagerRole \/ EnsureAddonManagerRoleBinding
    BY <1>2, <2>1, <2>3, <2>6 DEF EnsureAddonManagerRole, EnsureAddonManagerRoleBinding,
       EnsureReady, Goes, Stay, Breaks, Abandon, PutDown
  <2>7. CASE EnsureServerAddressAndPort
    BY <1>2, <2>1, <2>3, <2>7 DEF EnsureServerAddressAndPort, Goes, Stay, Abandon, PutDown
  <2>8. CASE \/ EnsureArgoCDAgentJWTSecret \/ EnsurePrincipalCertificate \/ EnsureAddOnTemplate
             \/ EnsurePlacementTolerations \/ CreateCAWork
    BY <1>2, <2>1, <2>3, <2>8 DEF EnsureArgoCDAgentJWTSecret, EnsureReady,
       EnsurePrincipalCertificate, EnsureAddOnTemplate, EnsurePlacementTolerations, CreateCAWork,
       Goes, Stay, Breaks, Abandon, Skips, PutDown
  <2>9. CASE CreateCRWork
    BY <1>2, <2>1, <2>3, <2>9, Delivered DEF CreateCRWork, Goes, Stay, Skips
  <2>10. CASE EnsureAddOnDeploymentConfig \/ EnsureManagedClusterAddon
    BY <1>2, <2>1, <2>3, <2>4, <2>10 DEF EnsureAddOnDeploymentConfig,
       EnsureManagedClusterAddon, Goes, Stay, Skips
  <2>11. CASE Return
    BY <2>11 DEF Return, PutDown
  <2> QED
    BY <1>4, <2>5, <2>6, <2>7, <2>8, <2>9, <2>10, <2>11 DEF Next, Work
<1> QED
  BY <1>3, <1>4

\* What is true of a GitOpsCluster at rest, given the steps its status names.
LEMMA FollowedKept ==
  ASSUME TypeOK, ConfigInv, [Next]_vars, NEW g \in GitOpsClusters, g \notin queue',
         ~(pc = "crWork" /\ g = cur), NEW S,
         /\ Addressed(spec[g])
         /\ template[g] = software
         /\ tolerant \/ "tolerations" \in S
         /\ caWork # Unset \/ "caWork" \in S
         /\ CRFollows(g) \/ "crWork" \in S
         /\ (config.exists /\ Contains(refs, g)) \/ "addon" \in S
  PROVE  /\ Addressed(spec'[g])
         /\ template'[g] = software'
         /\ tolerant' \/ "tolerations" \in S
         /\ caWork' # Unset \/ "caWork" \in S
         /\ CRFollows(g)' \/ "crWork" \in S
         /\ (config'.exists /\ Contains(refs', g)) \/ "addon" \in S
BY SpecQueued, TemplateKept, SharedKept, WorkKept, AddonKept

\* A GitOpsCluster comes to rest when its reconcile returns, and not before.
LEMMA ComesToRest ==
  ASSUME TypeOK, [Next]_vars, NEW g \in GitOpsClusters, Resting(g)'
  PROVE  \/ Resting(g) /\ told'[g] = told[g]
         \/ Return /\ g = cur
<1>1. g \notin queue' /\ (g = cur' => pc' = "idle")
  BY DEF Resting
<1>2. g \notin queue
  BY <1>1, QueueKept
<1>3. CASE UNCHANGED <<pc, cur, told>>
  BY <1>1, <1>2, <1>3 DEF Resting
<1>4. CASE Restart
  BY <1>1, <1>4 DEF Restart
<1>5. CASE pc # "idle" /\ Abandon
  BY <1>1, <1>2, <1>5 DEF Abandon, Resting
<1>6. CASE pc # "idle" /\ pc' # "idle" /\ UNCHANGED <<cur, told>>
  BY <1>1, <1>2, <1>6 DEF Resting
<1>7. CASE Environment \/ SyncConfig \/ Crash \/ UNCHANGED vars
  BY <1>3, <1>4, <1>7 DEF Environment, EditSpec, Annotate, ChangeService, BumpImage, EditConfig,
     Upgrade, SyncConfig, Crash, worker, vars
<1>8. CASE \E h \in GitOpsClusters : Dequeue(h)
  BY <1>2, <1>8 DEF Dequeue, Resting
<1>9. CASE \/ EnsureAddonManagerRole \/ EnsureAddonManagerRoleBinding
           \/ EnsureArgoCDAgentJWTSecret \/ EnsurePrincipalCertificate
           \/ EnsureServerAddressAndPort \/ EnsureAddOnTemplate
  BY <1>5, <1>6, <1>9 DEF EnsureAddonManagerRole, EnsureAddonManagerRoleBinding,
     EnsureArgoCDAgentJWTSecret, EnsureReady, EnsurePrincipalCertificate, EnsureAddOnTemplate,
     EnsureServerAddressAndPort, Goes, Stay, Breaks
<1>10. CASE \/ EnsurePlacementTolerations \/ CreateCAWork \/ CreateCRWork
            \/ EnsureAddOnDeploymentConfig \/ EnsureManagedClusterAddon
  BY <1>6, <1>10 DEF EnsurePlacementTolerations, CreateCAWork, CreateCRWork,
     EnsureAddOnDeploymentConfig, EnsureManagedClusterAddon, Goes, Stay, Skips
<1>11. CASE Return
  <2>1. SUFFICES ASSUME g # cur PROVE Resting(g) /\ told'[g] = told[g]
    BY <1>11
  <2>2. told'[g] = told[g]
    BY <1>11, <2>1 DEF Return, TypeOK, WorkerType
  <2> QED
    BY <1>2, <2>1, <2>2 DEF Resting
<1> QED
  BY <1>7, <1>8, <1>9, <1>10, <1>11 DEF Next, Work

LEMMA FollowedStep ==
  ASSUME RestInv, [Next]_vars
  PROVE  FollowedOrTold'
<1> USE DEF RestInv, IInv
<1> SUFFICES ASSUME NEW g \in GitOpsClusters, Resting(g)'
             PROVE  /\ Addressed(spec'[g])
                    /\ template'[g] = software'
                    /\ tolerant' \/ "tolerations" \in told'[g].skipped
                    /\ caWork' # Unset \/ "caWork" \in told'[g].skipped
                    /\ CRFollows(g)' \/ "crWork" \in told'[g].skipped
                    /\ (config'.exists /\ Contains(refs', g)) \/ "addon" \in told'[g].skipped
  BY DEF FollowedOrTold, Addressed
<1>1. g \notin queue'
  BY DEF Resting
<1>2. CASE Resting(g) /\ told'[g] = told[g]
  <2>1. ~(pc = "crWork" /\ g = cur)
    BY <1>2 DEF Resting
  <2>2. /\ Addressed(spec[g])
        /\ template[g] = software
        /\ tolerant \/ "tolerations" \in told'[g].skipped
        /\ caWork # Unset \/ "caWork" \in told'[g].skipped
        /\ CRFollows(g) \/ "crWork" \in told'[g].skipped
        /\ (config.exists /\ Contains(refs, g)) \/ "addon" \in told'[g].skipped
    BY <1>2 DEF FollowedOrTold
  <2> QED
    BY <1>1, <2>1, <2>2, FollowedKept
<1>3. CASE Return /\ g = cur
  <2>1. pc = "return" /\ cur \notin queue /\ told'[g].skipped = skipped
    BY <1>1, <1>3 DEF Return, TypeOK, WorkerType
  <2>2. /\ Addressed(spec[g])
        /\ template[g] = software
        /\ tolerant \/ "tolerations" \in skipped
        /\ caWork # Unset \/ "caWork" \in skipped
        /\ CRFollows(g) \/ "crWork" \in skipped
        /\ (config.exists /\ Contains(refs, g)) \/ "addon" \in skipped
    BY <1>3, <2>1 DEF CurInv, PassedInv
  <2>3. ~(pc = "crWork" /\ g = cur)
    BY <2>1
  <2> QED
    BY <1>1, <2>1, <2>2, <2>3, FollowedKept
<1> QED
  BY <1>2, <1>3, ComesToRest

\* A GitOpsCluster at rest has what its spec says, or its status names the step that is
\* missing: no edit is lost while a reconcile is under way, and no failure is forgotten.
THEOREM RestFollowsOrTells == Spec => []FollowedOrTold
<1>1. Init => RestInv
  BY InitTypes DEF Init, RestInv, IInv, ReadyInv, ConfigInv, CurInv, PassedInv, FollowedOrTold,
     Resting, NoConfig
<1>2. RestInv /\ [Next]_vars => RestInv'
  <2>1. PassedInv' \/ pc' # "idle"
    BY DEF PassedInv
  <2> QED
    BY <2>1, TypeStep, ReadyStep, ConfigStep, CurStep, PassedStep, FollowedStep DEF RestInv, IInv
<1>3. RestInv => FollowedOrTold
  BY DEF RestInv
<1> QED
  BY <1>1, <1>2, <1>3, PTL DEF Spec
=============================================================================
