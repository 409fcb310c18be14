-------------------------- MODULE GitOpsFanoutProofs --------------------------
(* Proofs about the GitOpsCluster controller, for any number of             *)
(* GitOpsClusters, clusters, faults and edits.                              *)
EXTENDS GitOpsFanout, FiniteSetTheorems, TLAPS

Conditions == [ConditionTypes -> Condition]

-----------------------------------------------------------------------------
(* The data operators return what their users expect.                      *)

\* A condition that counts or names clusters is a Condition: clusters are
\* finitely many, so they can be counted (setCondition's callers).
LEMMA ConditionsTyped ==
    /\ \A s \in {"None", "Unknown", "True", "False"} : Plain(s) \in Condition
    /\ \A S \in SUBSET Clusters : Counted(S) \in Condition
    /\ \A S, F \in SUBSET Clusters : Verdict(S, F) \in Condition
<1>1. \A s \in {"None", "Unknown", "True", "False"} : Plain(s) \in Condition
  BY DEF Plain, Condition
<1>2. \A S \in SUBSET Clusters : Counted(S) \in Condition
  <2> TAKE S \in SUBSET Clusters
  <2>1. IsFiniteSet(S)
    BY FanoutAssumption, FS_Subset
  <2>2. Cardinality(S) \in Nat
    BY <2>1, FS_CardinalityType
  <2> QED
    BY <2>2 DEF Counted, Condition
<1>3. \A S, F \in SUBSET Clusters : Verdict(S, F) \in Condition
  BY <1>2 DEF Verdict, Condition
<1> QED
  BY <1>1, <1>2, <1>3

\* Making and deleting an object keep its presence one of the three
\* (Create and Delete calls of the fan-out).
LEMMA PresenceTyped ==
    \A p \in Presence : Ensured(p) \in Presence /\ Deleted(p) \in Presence
BY DEF Presence, Ensured, Deleted

\* The status of a new GitOpsCluster, initializeConditions and setCondition.
LEMMA StatusTyped ==
    /\ NoStatus \in Conditions
    /\ \A s \in Conditions : Initialized(s) \in Conditions
    /\ \A t \in ConditionTypes, x \in Condition : mem \in Conditions => With(t, x) \in Conditions
<1>1. NoStatus \in Conditions
  BY ConditionsTyped DEF NoStatus, Conditions
<1>2. \A s \in Conditions : Initialized(s) \in Conditions
  BY ConditionsTyped DEF Initialized, Conditions
<1>3. \A t \in ConditionTypes, x \in Condition : mem \in Conditions => With(t, x) \in Conditions
  BY DEF With, Conditions
<1> QED
  BY <1>1, <1>2, <1>3

\* A status write stores a status, enqueues GitOpsClusters and stays within the
\* bound on faults (setCondition).
LEMMA WriteStatusTyped ==
    ASSUME TypeOK, NEW new \in Conditions, NEW requeue \in SUBSET GitOpsClusters,
           WriteStatus(new, requeue)
    PROVE  /\ mem' \in Conditions
           /\ status' \in [GitOpsClusters -> Conditions]
           /\ queue' \subseteq GitOpsClusters
           /\ faults' \in 0 .. MaxFaults
<1>1. mem' \in Conditions
  BY DEF WriteStatus
<1>2. status' \in [GitOpsClusters -> Conditions]
  BY DEF TypeOK, WriteStatus, Conditions
<1>3. queue' \subseteq GitOpsClusters
  BY DEF TypeOK, WriteStatus
<1>4. faults' \in 0 .. MaxFaults
  BY FanoutAssumption DEF TypeOK, WriteStatus, Fault
<1> QED
  BY <1>1, <1>2, <1>3, <1>4

-----------------------------------------------------------------------------
(* Types.                                                                  *)

LEMMA NobodyTyped == Nobody \in GitOpsClusters
BY FanoutAssumption DEF Nobody

LEMMA InitTyped == Init => TypeOK
<1> SUFFICES ASSUME Init PROVE TypeOK
  OBVIOUS
<1>1. NoStatus \in [ConditionTypes -> Condition]
  BY StatusTyped DEF Conditions
<1>2. "absent" \in Presence /\ "idle" \in Labels
  BY DEF Presence, Labels
<1>3. faults \in 0 .. MaxFaults /\ edits \in 0 .. MaxEdits
  BY FanoutAssumption DEF Init
<1> QED
  BY <1>1, <1>2, <1>3, NobodyTyped DEF Init, TypeOK

\* The environment's steps preserve the types.
LEMMA EnvironmentTyped == TypeOK /\ Environment => TypeOK'
<1> SUFFICES ASSUME TypeOK, Environment PROVE TypeOK'
  OBVIOUS
<1> USE FanoutAssumption DEF wishes, products, frame
<1>1. ASSUME NEW g \in GitOpsClusters, NEW S \in SUBSET Clusters, Reschedule(g, S)
      PROVE  TypeOK'
  BY <1>1 DEF TypeOK, Reschedule, Edit
<1>2. ASSUME NEW g \in GitOpsClusters, EditCustomCR(g)
      PROVE  TypeOK'
  BY <1>2 DEF TypeOK, EditCustomCR, Edit, Touch
<1>3. ASSUME NEW g \in GitOpsClusters, DeleteGitOpsCluster(g)
      PROVE  TypeOK'
  BY <1>3, StatusTyped DEF TypeOK, DeleteGitOpsCluster, Edit, Touch, Conditions
<1>4. ASSUME NEW g \in GitOpsClusters, CreateGitOpsCluster(g)
      PROVE  TypeOK'
  BY <1>4 DEF TypeOK, CreateGitOpsCluster, Edit, Touch
<1>5. CASE Crash
  <2>1. NoStatus \in [ConditionTypes -> Condition] /\ "idle" \in Labels
    BY StatusTyped DEF Conditions, Labels
  <2>2. faults' \in 0 .. MaxFaults
    BY <1>5 DEF TypeOK, Crash, Fault
  <2> QED
    BY <1>5, <2>1, <2>2, NobodyTyped DEF TypeOK, Crash, Forget
<1> QED
  BY <1>1, <1>2, <1>3, <1>4, <1>5 DEF Environment

\* So do the owners of finalizers.
LEMMA FinalizeTyped == TypeOK /\ Finalize => TypeOK'
<1> SUFFICES ASSUME TypeOK, Finalize PROVE TypeOK'
  OBVIOUS
<1> USE DEF wishes, products, frame
<1>1. "absent" \in Presence
  BY DEF Presence
<1>2. ASSUME NEW c \in Clusters, AddonFinalized(c)
      PROVE  TypeOK'
  BY <1>1, <1>2 DEF TypeOK, AddonFinalized
<1>3. ASSUME NEW c \in Clusters, CAWorkFinalized(c)
      PROVE  TypeOK'
  BY <1>1, <1>3 DEF TypeOK, CAWorkFinalized
<1>4. ASSUME NEW c \in Clusters, NEW g \in GitOpsClusters, CRWorkFinalized(g, c)
      PROVE  TypeOK'
  BY <1>1, <1>4 DEF TypeOK, CRWorkFinalized
<1> QED
  BY <1>2, <1>3, <1>4 DEF Finalize

\* A step that writes the status and otherwise only moves the reconcile on.
LEMMA ReportTyped ==
    ASSUME TypeOK, NEW new \in Conditions, NEW requeue \in SUBSET GitOpsClusters,
           WriteStatus(new, requeue),
           pc' \in Labels, todo' \subseteq Clusters, failed' \subseteq Clusters,
           UNCHANGED <<wishes, products, cur, valid, stale, sel, target, cleaned, edits>>
    PROVE  TypeOK'
<1>1. /\ mem' \in [ConditionTypes -> Condition]
      /\ status' \in [GitOpsClusters -> [ConditionTypes -> Condition]]
      /\ queue' \subseteq GitOpsClusters
      /\ faults' \in 0 .. MaxFaults
  BY WriteStatusTyped DEF Conditions
<1> QED
  BY <1>1 DEF TypeOK, wishes, products

\* The worker's reports preserve the types.
LEMMA ReportsTyped ==
    ASSUME TypeOK,
           \/ InitializeConditions \/ Prepare \/ ReportEarlyFailure \/ ReportSelected
           \/ ReportImported \/ ReportCADelivered \/ RejectCustomCR \/ ReportCRDelivered
           \/ ReportListFailure \/ ReportCleaned \/ ReportAddons
    PROVE  TypeOK'
<1> USE FanoutAssumption
<1>0. /\ mem \in Conditions /\ sel \subseteq Clusters /\ failed \subseteq Clusters
      /\ todo \subseteq Clusters /\ cleaned \subseteq Clusters /\ cur \in GitOpsClusters
      /\ pc \in Labels
  BY DEF TypeOK, Conditions
<1>1. \A t \in ConditionTypes : \A S, F \in SUBSET Clusters :
          /\ With(t, Counted(S)) \in Conditions
          /\ With(t, Verdict(S, F)) \in Conditions
          /\ With(t, Plain("False")) \in Conditions
  BY <1>0, ConditionsTyped, StatusTyped
<1>2. /\ AfterCAWork \in Labels /\ AfterCleanup \in Labels
      /\ {"prepare", "placement", "import", "caWork", "list", "done"} \subseteq Labels
  BY DEF AfterCAWork, AfterCleanup, Labels
<1>3. ConditionTypes = {"Prepared", "PlacementEvaluated", "ClustersImported",
          "ManifestWorkCreated", "ArgoCDCRDelivered", "RemovedClustersCleanedUp",
          "AddonConfigured"}
  BY DEF ConditionTypes
<1>4. CASE InitializeConditions
  <2>1. Initialized(mem) \in Conditions
    BY <1>0, StatusTyped
  <2> QED
    BY <1>0, <1>2, <1>4, <2>1, ReportTyped DEF InitializeConditions
<1>5. CASE Prepare
  <2>1. With("Prepared", Counted({})) \in Conditions
    BY <1>1, <1>3
  <2> QED
    BY <1>0, <1>2, <1>5, <2>1, ReportTyped DEF Prepare
<1>6. CASE ReportEarlyFailure
  <2>1. PICK t \in ConditionTypes : WriteStatus(With(t, Plain("False")), {cur})
    BY <1>6, <1>3 DEF ReportEarlyFailure
  <2>2. With(t, Plain("False")) \in Conditions
    BY <1>1
  <2> QED
    BY <1>0, <1>2, <1>6, <2>1, <2>2, ReportTyped DEF ReportEarlyFailure
<1>7. CASE ReportSelected
  <2>1. With("PlacementEvaluated", Counted(sel)) \in Conditions
    BY <1>0, <1>1, <1>3
  <2> QED
    BY <1>0, <1>2, <1>7, <2>1, ReportTyped DEF ReportSelected
<1>8. CASE ReportImported
  <2>1. With("ClustersImported", Verdict(sel, failed)) \in Conditions
    BY <1>0, <1>1, <1>3
  <2> QED
    BY <1>0, <1>2, <1>8, <2>1, ReportTyped DEF ReportImported
<1>9. CASE ReportCADelivered
  <2>1. With("ManifestWorkCreated", Verdict(sel, failed)) \in Conditions
    BY <1>0, <1>1, <1>3
  <2> QED
    BY <1>0, <1>2, <1>9, <2>1, ReportTyped DEF ReportCADelivered
<1>10. CASE RejectCustomCR
  <2>1. With("ArgoCDCRDelivered", Plain("False")) \in Conditions
    BY <1>1, <1>3
  <2> QED
    BY <1>0, <1>2, <1>10, <2>1, ReportTyped DEF RejectCustomCR
<1>11. CASE ReportCRDelivered
  <2>1. With("ArgoCDCRDelivered", Verdict(sel \ LocalClusters, failed)) \in Conditions
    BY <1>0, <1>1, <1>3
  <2> QED
    BY <1>0, <1>2, <1>11, <2>1, ReportTyped DEF ReportCRDelivered
<1>12. CASE ReportListFailure
  <2>1. With("RemovedClustersCleanedUp", Plain("False")) \in Conditions
    BY <1>1, <1>3
  <2> QED
    BY <1>0, <1>2, <1>12, <2>1, ReportTyped DEF ReportListFailure
<1>13. CASE ReportCleaned
  <2>1. With("RemovedClustersCleanedUp", Counted(cleaned)) \in Conditions
    BY <1>0, <1>1, <1>3
  <2>2. CASE cleaned = {}
    BY <1>0, <1>2, <1>13, <2>2 DEF ReportCleaned, TypeOK, wishes, products
  <2>3. CASE cleaned # {}
    BY <1>0, <1>2, <1>13, <2>1, <2>3, ReportTyped DEF ReportCleaned
  <2> QED
    BY <2>2, <2>3
<1>14. CASE ReportAddons
  <2>1. With("AddonConfigured", Verdict(sel, failed)) \in Conditions
    BY <1>0, <1>1, <1>3
  <2> QED
    BY <1>0, <1>2, <1>14, <2>1, ReportTyped DEF ReportAddons
<1> QED
  BY <1>4, <1>5, <1>6, <1>7, <1>8, <1>9, <1>10, <1>11, <1>12, <1>13, <1>14

\* So do its calls.
Calls(g) ==
    \/ Dequeue(g) \/ DequeueDeleted(g) \/ EarlyFailure \/ SelectClusters
    \/ ListAddons \/ DeleteCAWork \/ DeleteCRWork \/ DeleteSecret
    \/ EnsureAddon \/ Return
CallsFor(c) ==
    \/ ImportCluster(c) \/ DeliverCA(c) \/ DeliverCR(c) \/ DeleteAddon(c)
    \/ EnsureConfig(c)

LEMMA CallsTyped ==
    ASSUME TypeOK,
           \/ \E g \in GitOpsClusters : Calls(g)
           \/ \E c \in Clusters : CallsFor(c)
    PROVE  TypeOK'
<1> USE FanoutAssumption DEF wishes, products, frame
<1>0. \A kind : Fault(kind) \/ UNCHANGED faults => faults' \in 0 .. MaxFaults
  BY DEF TypeOK, Fault
<1>p. /\ caWork \in [Clusters -> Presence] /\ addon \in [Clusters -> Presence]
      /\ \A x \in Clusters : Ensured(caWork[x]) \in Presence /\ Deleted(caWork[x]) \in Presence
      /\ \A x \in Clusters : Ensured(addon[x]) \in Presence /\ Deleted(addon[x]) \in Presence
  BY PresenceTyped DEF TypeOK
<1>s. /\ secret \in [Namespaces -> SUBSET Clusters] /\ cur \in GitOpsClusters
      /\ target \subseteq Clusters
  BY DEF TypeOK
<1>1. ASSUME NEW g \in GitOpsClusters, Dequeue(g) PROVE TypeOK'
  BY <1>1 DEF TypeOK, Dequeue, Labels
<1>2. ASSUME NEW g \in GitOpsClusters, DequeueDeleted(g) PROVE TypeOK'
  BY <1>2 DEF TypeOK, DequeueDeleted
<1>3. CASE EarlyFailure
  BY <1>0, <1>3 DEF TypeOK, EarlyFailure, Labels
<1>4. CASE SelectClusters
  <2>1. sel' \subseteq Clusters /\ faults' \in 0 .. MaxFaults /\ pc' \in Labels
    BY <1>0, <1>4 DEF TypeOK, SelectClusters, Labels
  <2> QED
    BY <1>4, <2>1 DEF TypeOK, SelectClusters
<1>5. ASSUME NEW c \in Clusters, ImportCluster(c) PROVE TypeOK'
  <2>1. faults' \in 0 .. MaxFaults /\ failed' \subseteq Clusters
    BY <1>0, <1>5 DEF TypeOK, ImportCluster, Succeeds, Fails
  <2>2. secret' \in [Namespaces -> SUBSET Clusters]
    <3>1. secret' = [secret EXCEPT ![NamespaceOf[cur]] = @ \cup {c}] \/ secret' = secret
      BY <1>5 DEF ImportCluster
    <3> QED
      BY <1>s, <3>1
  <2> QED
    BY <1>5, <2>1, <2>2 DEF TypeOK, ImportCluster
<1>6. ASSUME NEW c \in Clusters, DeliverCA(c) PROVE TypeOK'
  <2>1. faults' \in 0 .. MaxFaults /\ failed' \subseteq Clusters
    BY <1>0, <1>6 DEF TypeOK, DeliverCA, Succeeds, Fails
  <2>2. caWork' \in [Clusters -> Presence]
    <3>1. caWork' = [caWork EXCEPT ![c] = Ensured(caWork[c])] \/ caWork' = caWork
      BY <1>6 DEF DeliverCA
    <3> QED
      BY <1>p, <3>1
  <2> QED
    BY <1>6, <2>1, <2>2 DEF TypeOK, DeliverCA
<1>7. ASSUME NEW c \in Clusters, DeliverCR(c) PROVE TypeOK'
  <2>1. faults' \in 0 .. MaxFaults /\ failed' \subseteq Clusters
    BY <1>0, <1>7 DEF TypeOK, DeliverCR, Succeeds, Fails
  <2>2. crWork' \in [GitOpsClusters -> [Clusters -> Presence]]
    <3>1. \/ crWork' = [crWork EXCEPT ![cur] = [crWork[cur] EXCEPT ![c] = Ensured(crWork[cur][c])]]
          \/ crWork' = crWork
      BY <1>7 DEF DeliverCR
    <3>2. crWork[cur] \in [Clusters -> Presence]
      BY DEF TypeOK
    <3>3. [crWork[cur] EXCEPT ![c] = Ensured(crWork[cur][c])] \in [Clusters -> Presence]
      BY <3>2, PresenceTyped
    <3> QED
      BY <3>1, <3>3 DEF TypeOK
  <2> QED
    BY <1>7, <2>1, <2>2 DEF TypeOK, DeliverCR
<1>8. CASE ListAddons
  <2>1. todo' \subseteq Clusters /\ faults' \in 0 .. MaxFaults /\ pc' \in Labels
    BY <1>0, <1>8 DEF TypeOK, ListAddons, Strangers, Labels
  <2> QED
    BY <1>8, <2>1 DEF TypeOK, ListAddons
<1>9. ASSUME NEW c \in Clusters, DeleteAddon(c) PROVE TypeOK'
  <2>1. target' \subseteq Clusters /\ faults' \in 0 .. MaxFaults /\ pc' \in Labels
    BY <1>0, <1>9 DEF TypeOK, DeleteAddon, Labels
  <2>2. addon' = [addon EXCEPT ![c] = Deleted(addon[c])] \/ addon' = addon
    BY <1>9 DEF DeleteAddon
  <2>3. addon' \in [Clusters -> Presence]
    BY <1>p, <2>2
  <2> QED
    BY <1>9, <2>1, <2>3 DEF TypeOK, DeleteAddon
<1>10. CASE DeleteCAWork
  <2>1. caWork' \in [Clusters -> Presence] /\ faults' \in 0 .. MaxFaults /\ pc' \in Labels
    BY <1>0, <1>10, PresenceTyped DEF TypeOK, DeleteCAWork, Labels
  <2> QED
    BY <1>10, <2>1 DEF TypeOK, DeleteCAWork
<1>11. CASE DeleteCRWork
  <2>1. crWork' \in [GitOpsClusters -> [Clusters -> Presence]]
    <3> DEFINE f == [x \in Clusters |-> IF x \in target THEN Deleted(crWork[cur][x])
                                                        ELSE crWork[cur][x]]
    <3>1. crWork' = [crWork EXCEPT ![cur] = f] \/ crWork' = crWork
      BY <1>11 DEF DeleteCRWork
    <3>2. crWork[cur] \in [Clusters -> Presence]
      BY DEF TypeOK
    <3>3. f \in [Clusters -> Presence]
      BY <3>2, PresenceTyped
    <3> HIDE DEF f
    <3> QED
      BY <3>1, <3>3 DEF TypeOK
  <2>2. faults' \in 0 .. MaxFaults /\ pc' \in Labels
    BY <1>0, <1>11 DEF TypeOK, DeleteCRWork, Labels
  <2> QED
    BY <1>11, <2>1, <2>2 DEF TypeOK, DeleteCRWork
<1>12. CASE DeleteSecret
  <2>1. secret' \in [Namespaces -> SUBSET Clusters]
    BY <1>12 DEF TypeOK, DeleteSecret
  <2>2. faults' \in 0 .. MaxFaults /\ pc' \in Labels
    BY <1>0, <1>12 DEF TypeOK, DeleteSecret, Labels
  <2> QED
    BY <1>12, <2>1, <2>2 DEF TypeOK, DeleteSecret
<1>13. ASSUME NEW c \in Clusters, EnsureConfig(c) PROVE TypeOK'
  <2>1. /\ faults' \in 0 .. MaxFaults /\ failed' \subseteq Clusters /\ pc' \in Labels
        /\ config' \subseteq Clusters /\ target' \subseteq Clusters
    BY <1>0, <1>13 DEF TypeOK, EnsureConfig, Succeeds, Fails, Labels
  <2> QED
    BY <1>13, <2>1 DEF TypeOK, EnsureConfig
<1>14. CASE EnsureAddon
  <2>1. faults' \in 0 .. MaxFaults /\ failed' \subseteq Clusters /\ pc' \in Labels
    BY <1>0, <1>14 DEF TypeOK, EnsureAddon, Succeeds, Fails, Labels
  <2>2. PICK x \in target :
            addon' = [addon EXCEPT ![x] = Ensured(addon[x])] \/ addon' = addon
    BY <1>14 DEF EnsureAddon
  <2>3. addon' \in [Clusters -> Presence]
    BY <1>p, <1>s, <2>2
  <2> QED
    BY <1>14, <2>1, <2>3 DEF TypeOK, EnsureAddon
<1>15. CASE Return
  <2>1. NoStatus \in [ConditionTypes -> Condition] /\ "idle" \in Labels
    BY StatusTyped DEF Conditions, Labels
  <2> QED
    BY <1>15, <2>1, NobodyTyped DEF TypeOK, Return, Forget
<1> QED
  BY <1>1, <1>2, <1>3, <1>4, <1>5, <1>6, <1>7, <1>8, <1>9, <1>10, <1>11, <1>12,
     <1>13, <1>14, <1>15 DEF Calls, CallsFor

\* So every step preserves the types.
LEMMA TypeStep == TypeOK /\ [Next]_vars => TypeOK'
<1> SUFFICES ASSUME TypeOK, [Next]_vars PROVE TypeOK'
  OBVIOUS
<1>1. CASE Environment
  BY <1>1, EnvironmentTyped
<1>2. CASE Finalize
  BY <1>2, FinalizeTyped
<1>3. CASE Work
  <2>1. \/ \E g \in GitOpsClusters : Calls(g)
        \/ \E c \in Clusters : CallsFor(c)
        \/ InitializeConditions \/ Prepare \/ ReportEarlyFailure \/ ReportSelected
        \/ ReportImported \/ ReportCADelivered \/ RejectCustomCR \/ ReportCRDelivered
        \/ ReportListFailure \/ ReportCleaned \/ ReportAddons
    BY <1>3, FanoutAssumption DEF Work, Calls, CallsFor
  <2> QED
    BY <2>1, CallsTyped, ReportsTyped
<1>4. CASE UNCHANGED vars
  BY <1>4 DEF TypeOK, vars, wishes, products, frame
<1> QED
  BY <1>1, <1>2, <1>3, <1>4 DEF Next

\* Every variable keeps its type: whatever fails, whatever is edited meanwhile
\* (the whole of Reconcile).
THEOREM TypeCorrect == Spec => []TypeOK
BY InitTyped, TypeStep, PTL DEF Spec

-----------------------------------------------------------------------------
(* An addon has its configuration.                                         *)

\* Step 11 makes the config before the addon, and nothing removes it.
LEMMA ConfigStep == TypeOK /\ ConfigInv /\ [Next]_vars => ConfigInv'
<1> SUFFICES ASSUME TypeOK, ConfigInv, [Next]_vars PROVE ConfigInv'
  OBVIOUS
<1> USE DEF ConfigInv, AddonHasConfig, wishes, products, frame
<1>1. CASE Environment
  BY <1>1 DEF Environment, Reschedule, EditCustomCR, DeleteGitOpsCluster,
              CreateGitOpsCluster, Crash, Forget
<1>2. CASE Finalize
  BY <1>2 DEF TypeOK, Finalize, AddonFinalized, CAWorkFinalized, CRWorkFinalized
<1>3. CASE Work
  <2>1. ASSUME NEW c \in Clusters, DeleteAddon(c)
        PROVE  ConfigInv'
    BY <2>1 DEF TypeOK, DeleteAddon, Deleted
  <2>2. ASSUME NEW c \in Clusters, EnsureConfig(c)
        PROVE  ConfigInv'
    BY <2>2 DEF EnsureConfig
  <2>3. CASE EnsureAddon
    BY <2>3 DEF TypeOK, EnsureAddon, Ensured
  <2>4. ASSUME NEW c \in Clusters, ImportCluster(c) \/ DeliverCA(c) \/ DeliverCR(c)
        PROVE  ConfigInv'
    BY <2>4 DEF ImportCluster, DeliverCA, DeliverCR
  <2>5. ASSUME NEW g \in GitOpsClusters, Dequeue(g) \/ DequeueDeleted(g)
        PROVE  ConfigInv'
    BY <2>5 DEF Dequeue, DequeueDeleted
  <2>6. CASE \/ InitializeConditions \/ Prepare \/ EarlyFailure \/ ReportEarlyFailure
             \/ SelectClusters \/ ReportSelected \/ ReportImported \/ ReportCADelivered
    BY <2>6 DEF InitializeConditions, Prepare, EarlyFailure, ReportEarlyFailure,
                SelectClusters, ReportSelected, ReportImported, ReportCADelivered,
                AfterCAWork
  <2>7. CASE \/ RejectCustomCR \/ ReportCRDelivered \/ ListAddons \/ ReportListFailure
             \/ DeleteCAWork \/ DeleteCRWork \/ DeleteSecret \/ ReportCleaned
             \/ ReportAddons \/ Return
    BY <2>7 DEF RejectCustomCR, ReportCRDelivered, ListAddons, ReportListFailure,
                DeleteCAWork, DeleteCRWork, DeleteSecret, ReportCleaned, ReportAddons,
                Return, Forget, AfterCleanup
  <2> QED
    BY <1>3, <2>1, <2>2, <2>3, <2>4, <2>5, <2>6, <2>7 DEF Work
<1>4. CASE UNCHANGED vars
  BY <1>4 DEF vars
<1> QED
  BY <1>1, <1>2, <1>3, <1>4 DEF Next

\* The addon framework's finalizer always finds the AddOnDeploymentConfig
\* (gitopscluster_controller.go:308-321, 432-435).
THEOREM AddonKeepsConfig == Spec => []AddonHasConfig
<1>1. Init => ConfigInv
  BY DEF Init, ConfigInv, AddonHasConfig
<1>2. ConfigInv => AddonHasConfig
  BY DEF ConfigInv
<1> QED
  BY <1>1, <1>2, TypeCorrect, ConfigStep, PTL DEF Spec

-----------------------------------------------------------------------------
(* Cleanup and fan-out of one reconcile never meet.                        *)

\* The list of step 10 leaves the selected clusters out, the loops of step 11
\* run over the selected ones.
LEMMA CleanupStep == TypeOK /\ CleanupInv /\ [Next]_vars => CleanupInv'
<1> SUFFICES ASSUME TypeOK, CleanupInv, [Next]_vars PROVE CleanupInv'
  OBVIOUS
<1> USE DEF CleanupInv, CleanupPcs, wishes, products, frame
<1>1. CASE Environment
  BY <1>1 DEF Environment, Reschedule, EditCustomCR, DeleteGitOpsCluster,
              CreateGitOpsCluster, Crash, Forget
<1>2. CASE Finalize
  BY <1>2 DEF Finalize, AddonFinalized, CAWorkFinalized, CRWorkFinalized
<1>3. CASE Work
  <2>1. ASSUME NEW c \in Clusters, DeleteAddon(c)
        PROVE  CleanupInv'
    BY <2>1 DEF DeleteAddon
  <2>2. ASSUME NEW c \in Clusters, EnsureConfig(c)
        PROVE  CleanupInv'
    BY <2>2 DEF EnsureConfig
  <2>3. CASE EnsureAddon
    BY <2>3 DEF EnsureAddon
  <2>4. ASSUME NEW c \in Clusters, ImportCluster(c) \/ DeliverCA(c) \/ DeliverCR(c)
        PROVE  CleanupInv'
    BY <2>4 DEF ImportCluster, DeliverCA, DeliverCR
  <2>5. ASSUME NEW g \in GitOpsClusters, Dequeue(g) \/ DequeueDeleted(g)
        PROVE  CleanupInv'
    BY <2>5 DEF Dequeue, DequeueDeleted
  <2>6. CASE \/ InitializeConditions \/ Prepare \/ EarlyFailure \/ ReportEarlyFailure
             \/ SelectClusters \/ ReportSelected \/ ReportImported \/ ReportCADelivered
    BY <2>6 DEF InitializeConditions, Prepare, EarlyFailure, ReportEarlyFailure,
                SelectClusters, ReportSelected, ReportImported, ReportCADelivered,
                AfterCAWork
  <2>7. CASE ListAddons \/ ReportListFailure \/ ReportCleaned
    BY <2>7 DEF ListAddons, ReportListFailure, ReportCleaned, AfterCleanup, Strangers
  <2>8. CASE \/ RejectCustomCR \/ ReportCRDelivered \/ DeleteCAWork \/ DeleteCRWork
             \/ DeleteSecret \/ ReportAddons \/ Return
    BY <2>8 DEF RejectCustomCR, ReportCRDelivered, DeleteCAWork, DeleteCRWork,
                DeleteSecret, ReportAddons, Return, Forget
  <2> QED
    BY <1>3, <2>1, <2>2, <2>3, <2>4, <2>5, <2>6, <2>7, <2>8 DEF Work
<1>4. CASE UNCHANGED vars
  BY <1>4 DEF vars
<1> QED
  BY <1>1, <1>2, <1>3, <1>4 DEF Next

LEMMA CleanupCorrect == Spec => []CleanupInv
<1>1. Init => CleanupInv
  BY DEF Init, CleanupInv, CleanupPcs
<1> QED
  BY <1>1, TypeCorrect, CleanupStep, PTL DEF Spec

\* What a reconcile has selected, the same reconcile does not clean away
\* (gitopscluster_controller.go:402-424).
THEOREM CleanupSparesSelected == Spec => CleanupSparesSelection
<1>1. TypeOK /\ CleanupInv /\ [Next]_vars => SelectionSpared
  <2> SUFFICES ASSUME TypeOK, CleanupInv, [Next]_vars PROVE SelectionSpared
    OBVIOUS
  <2> USE DEF SelectionSpared, wishes, products, frame
  <2>0. pc \in CleanupPcs => (todo \cup target) \cap sel = {}
    BY DEF CleanupInv
  <2>1. CASE Environment
    BY <2>1 DEF Environment, Reschedule, EditCustomCR, DeleteGitOpsCluster,
                CreateGitOpsCluster, Crash
  <2>2. CASE Finalize
    <3>1. ASSUME NEW d \in Clusters, AddonFinalized(d)
          PROVE  SelectionSpared
      BY <3>1 DEF TypeOK, AddonFinalized
    <3>2. ASSUME NEW d \in Clusters, CAWorkFinalized(d)
          PROVE  SelectionSpared
      BY <3>2 DEF TypeOK, CAWorkFinalized
    <3>3. ASSUME NEW g \in GitOpsClusters, NEW d \in Clusters, CRWorkFinalized(g, d)
          PROVE  SelectionSpared
      BY <3>3 DEF TypeOK, CRWorkFinalized
    <3> QED
      BY <2>2, <3>1, <3>2, <3>3 DEF Finalize
  <2>3. CASE Work
    <3>1. ASSUME NEW d \in Clusters, DeleteAddon(d)
          PROVE  SelectionSpared
      BY <2>0, <3>1 DEF TypeOK, DeleteAddon, CleanupPcs
    <3>2. CASE DeleteCAWork
      BY <2>0, <3>2 DEF TypeOK, DeleteCAWork, CleanupPcs, Deleted
    <3>3. CASE DeleteCRWork
      BY <2>0, <3>3 DEF TypeOK, DeleteCRWork, CleanupPcs, Deleted
    <3>4. CASE DeleteSecret
      BY <2>0, <3>4 DEF TypeOK, DeleteSecret, CleanupPcs
    <3>5. ASSUME NEW d \in Clusters, ImportCluster(d)
          PROVE  SelectionSpared
      BY <3>5 DEF TypeOK, ImportCluster
    <3>6. ASSUME NEW d \in Clusters, DeliverCA(d)
          PROVE  SelectionSpared
      BY <3>6 DEF TypeOK, DeliverCA, Ensured
    <3>7. ASSUME NEW d \in Clusters, DeliverCR(d)
          PROVE  SelectionSpared
      BY <3>7 DEF TypeOK, DeliverCR, Ensured
    <3>8. CASE EnsureAddon
      BY <3>8 DEF TypeOK, EnsureAddon, Ensured
    <3>9. ASSUME NEW d \in Clusters, EnsureConfig(d)
          PROVE  SelectionSpared
      BY <3>9 DEF EnsureConfig
    <3>10. ASSUME NEW g \in GitOpsClusters, Dequeue(g) \/ DequeueDeleted(g)
           PROVE  SelectionSpared
      BY <3>10 DEF Dequeue, DequeueDeleted
    <3>11. CASE \/ InitializeConditions \/ Prepare \/ EarlyFailure \/ ReportEarlyFailure
                \/ SelectClusters \/ ReportSelected \/ ReportImported \/ ReportCADelivered
                \/ RejectCustomCR \/ ReportCRDelivered \/ ListAddons \/ ReportListFailure
                \/ ReportCleaned \/ ReportAddons \/ Return
      BY <3>11 DEF InitializeConditions, Prepare, EarlyFailure, ReportEarlyFailure,
                  SelectClusters, ReportSelected, ReportImported, ReportCADelivered,
                  RejectCustomCR, ReportCRDelivered, ListAddons, ReportListFailure,
                  ReportCleaned, ReportAddons, Return
    <3> QED
      BY <2>3, <3>1, <3>2, <3>3, <3>4, <3>5, <3>6, <3>7, <3>8, <3>9, <3>10, <3>11 DEF Work
  <2>4. CASE UNCHANGED vars
    BY <2>4 DEF vars
  <2> QED
    BY <2>1, <2>2, <2>3, <2>4 DEF Next
<1> QED
  BY <1>1, TypeCorrect, CleanupCorrect, PTL DEF Spec, CleanupSparesSelection

-----------------------------------------------------------------------------
(* What is counted as removed is removed.                                  *)

\* A call that fails is counted, and a counter of faults never goes back to 0.
LEMMA CleanedStep == TypeOK /\ CleanupInv /\ CleanedInv /\ [Next]_vars => CleanedInv'
<1> SUFFICES ASSUME TypeOK, CleanupInv, CleanedInv, [Next]_vars PROVE CleanedInv'
  OBVIOUS
<1> USE DEF CleanedInv, CleanedMeansRemoved, CleanupPcs, Removed, wishes, products, frame
<1>0. faults \in Nat
  BY FanoutAssumption DEF TypeOK
<1>1. CASE Environment
  BY <1>0, <1>1 DEF Environment, Reschedule, EditCustomCR, DeleteGitOpsCluster,
              CreateGitOpsCluster, Crash, Forget
<1>2. CASE Finalize
  <2>1. ASSUME NEW d \in Clusters, AddonFinalized(d)
        PROVE  CleanedInv'
    BY <2>1 DEF TypeOK, AddonFinalized
  <2>2. ASSUME NEW d \in Clusters, CAWorkFinalized(d)
        PROVE  CleanedInv'
    BY <2>2 DEF TypeOK, CAWorkFinalized
  <2>3. ASSUME NEW g \in GitOpsClusters, NEW d \in Clusters, CRWorkFinalized(g, d)
        PROVE  CleanedInv'
    <3>1. \A x \in Clusters : crWork'[cur][x] = "live" => crWork[cur][x] = "live"
      BY <2>3 DEF TypeOK, CRWorkFinalized
    <3> QED
      BY <2>3, <3>1 DEF TypeOK, CRWorkFinalized
  <2> QED
    BY <1>2, <2>1, <2>2, <2>3 DEF Finalize
<1>3. CASE Work
  <2>1. ASSUME NEW c \in Clusters, DeleteAddon(c)
        PROVE  CleanedInv'
    BY <1>0, <2>1 DEF TypeOK, CleanupInv, DeleteAddon, Deleted, Fault
  <2>2. ASSUME NEW c \in Clusters, EnsureConfig(c)
        PROVE  CleanedInv'
    BY <1>0, <2>2 DEF EnsureConfig, Succeeds, Fails, Fault
  <2>3. CASE EnsureAddon
    BY <1>0, <2>3 DEF TypeOK, CleanupInv, EnsureAddon, Ensured, Succeeds, Fails, Fault
  <2>4. ASSUME NEW c \in Clusters, ImportCluster(c) \/ DeliverCA(c) \/ DeliverCR(c)
        PROVE  CleanedInv'
    BY <1>0, <2>4 DEF CleanupInv, ImportCluster, DeliverCA, DeliverCR
  <2>5. ASSUME NEW g \in GitOpsClusters, Dequeue(g) \/ DequeueDeleted(g)
        PROVE  CleanedInv'
    BY <2>5 DEF CleanupInv, Dequeue, DequeueDeleted
  <2>6. CASE \/ InitializeConditions \/ Prepare \/ EarlyFailure \/ ReportEarlyFailure
             \/ SelectClusters \/ ReportSelected \/ ReportImported \/ ReportCADelivered
             \/ RejectCustomCR \/ ReportCRDelivered \/ ReportListFailure
    BY <2>6 DEF CleanupInv, InitializeConditions, Prepare, EarlyFailure, ReportEarlyFailure,
                SelectClusters, ReportSelected, ReportImported, ReportCADelivered,
                RejectCustomCR, ReportCRDelivered, ReportListFailure, AfterCAWork
  <2>7. CASE ListAddons \/ Return
    BY <2>7 DEF CleanupInv, ListAddons, Return, Forget
  <2>8. CASE ReportCleaned \/ ReportAddons
    <3>1. faults' = 0 => faults = 0
      BY <1>0, <2>8 DEF ReportCleaned, ReportAddons, WriteStatus, Fault
    <3> QED
      BY <2>8, <3>1 DEF CleanupInv, ReportCleaned, ReportAddons, AfterCleanup
  <2>9. CASE DeleteCAWork
    BY <1>0, <2>9 DEF TypeOK, DeleteCAWork, Deleted, Fault
  <2>10. CASE DeleteCRWork
    BY <1>0, <2>10 DEF TypeOK, DeleteCRWork, Deleted, Fault
  <2>11. CASE DeleteSecret
    BY <1>0, <2>11, FanoutAssumption DEF TypeOK, CleanupInv, DeleteSecret, Fault
  <2> QED
    BY <1>3, <2>1, <2>2, <2>3, <2>4, <2>5, <2>6, <2>7, <2>8, <2>9, <2>10, <2>11 DEF Work
<1>4. CASE UNCHANGED vars
  BY <1>4 DEF vars
<1> QED
  BY <1>1, <1>2, <1>3, <1>4 DEF Next

\* Only a failed call leaves something behind on a cluster that was counted as
\* removed (gitopscluster_controller.go:424-468).
THEOREM CleanedIsRemoved == Spec => []CleanedMeansRemoved
<1>1. Init => CleanedInv
  BY DEF Init, CleanedInv, CleanedMeansRemoved, CleanupPcs
<1>2. CleanedInv => CleanedMeansRemoved
  BY DEF CleanedInv
<1> QED
  BY <1>1, <1>2, TypeCorrect, CleanupCorrect, CleanedStep, PTL DEF Spec

-----------------------------------------------------------------------------
(* A "True" of ClustersImported is true.                                   *)

\* Writing a status that, for ClustersImported, says what the in-memory one said
\* keeps the invariant, and reports the truth (setCondition for another type).
LEMMA WriteOfOther ==
    ASSUME TypeOK, ImportInv, NEW new \in Conditions, NEW requeue \in SUBSET GitOpsClusters,
           WriteStatus(new, requeue), pc # "idle",
           \/ new["ClustersImported"] = mem["ClustersImported"]
           \/ new["ClustersImported"].status # "True"
           \/ sel \subseteq secret[NamespaceOf[cur]]
    PROVE  /\ ImportReported
           /\ LET type == "ClustersImported"
              IN  ~stale /\ mem'[type].status = "True" /\ mem'[type] # status'[cur][type]
                  => sel \subseteq secret[NamespaceOf[cur]]
BY DEF TypeOK, ImportInv, WriteStatus, ImportReported, ConditionTypes, Conditions

\* Initialized keeps a "True" and makes none; With changes one type only; and a
\* verdict is "True" when nothing failed.
LEMMA ConditionFacts ==
    ASSUME TypeOK
    PROVE  LET type == "ClustersImported"
           IN  /\ \/ Initialized(mem)[type] = mem[type]
                  \/ Initialized(mem)[type].status # "True"
               /\ \A t \in ConditionTypes \ {type} : \A x \in Condition :
                      With(t, x)[type] = mem[type]
               /\ \A x \in Condition : With(type, x)[type] = x
               /\ \A S, F \in SUBSET Clusters : Verdict(S, F).status = "True" => F = {}
BY DEF TypeOK, Initialized, Plain, With, Verdict, Counted, ConditionTypes

\* The import loop, its report, and every later write of the status.
LEMMA ImportStep ==
    TypeOK /\ CleanupInv /\ ImportInv /\ [Next]_vars => ImportInv' /\ ImportReported
<1> SUFFICES ASSUME TypeOK, CleanupInv, ImportInv, [Next]_vars
             PROVE  ImportInv' /\ ImportReported
  OBVIOUS
<1> USE DEF wishes, products, frame
<1> DEFINE Goal == ImportInv' /\ ImportReported
           type == "ClustersImported"
           Started == {"init", "prepare", "prepareError", "placement", "placementError",
                       "selected", "import"}
<1>0. /\ cur \in GitOpsClusters /\ sel \subseteq Clusters /\ failed \subseteq Clusters
      /\ cleaned \subseteq Clusters /\ mem \in Conditions
      /\ status \in [GitOpsClusters -> Conditions]
      /\ type \in ConditionTypes
  BY DEF TypeOK, Conditions, ConditionTypes
<1>1. CASE Environment
  <2>1. ASSUME NEW g \in GitOpsClusters, NEW S \in SUBSET Clusters,
               Reschedule(g, S) \/ EditCustomCR(g) \/ CreateGitOpsCluster(g)
        PROVE  Goal
    BY <2>1 DEF ImportInv, ImportReported, Reschedule, EditCustomCR, CreateGitOpsCluster,
                Touch
  <2>2. ASSUME NEW g \in GitOpsClusters, DeleteGitOpsCluster(g)
        PROVE  Goal
    <3>1. status'[g][type].status = "None" /\ \A h \in GitOpsClusters \ {g} : status'[h] = status[h]
      BY <2>2, <1>0 DEF DeleteGitOpsCluster, NoStatus, Plain
    <3>2. ImportReported
      BY <3>1 DEF ImportReported
    <3>3. cur # g => status'[cur] = status[cur]
      BY <3>1, <1>0
    <3> QED
      BY <2>2, <3>2, <3>3 DEF ImportInv, DeleteGitOpsCluster, Touch
  <2>3. CASE Crash
    BY <2>3 DEF ImportInv, ImportReported, Crash, Forget
  <2> QED
    BY <1>1, <2>1, <2>2, <2>3 DEF Environment
<1>2. CASE Finalize
  BY <1>2 DEF ImportInv, ImportReported, Finalize, AddonFinalized, CAWorkFinalized,
              CRWorkFinalized
<1>3. CASE Work
  <2>1. ASSUME NEW c \in Clusters, ImportCluster(c)
        PROVE  Goal
    <3>1. /\ pc = "import" /\ pc' = "import" /\ sel' = sel /\ cur' = cur
          /\ mem' = mem /\ status' = status /\ stale' = stale /\ todo' = todo \ {c}
      BY <2>1 DEF ImportCluster
    <3>2. \/ failed' = failed \cup {c} /\ secret' = secret
          \/ /\ failed' = failed
             /\ secret'[NamespaceOf[cur]] = secret[NamespaceOf[cur]] \cup {c}
      BY <2>1, FanoutAssumption DEF TypeOK, ImportCluster, Succeeds, Fails
    <3> QED
      BY <3>1, <3>2 DEF ImportInv, ImportReported
  <2>2. CASE ReportImported
    <3>1. With(type, Verdict(sel, failed))[type] = Verdict(sel, failed)
      BY <1>0, ConditionFacts, ConditionsTyped
    <3>2. \/ With(type, Verdict(sel, failed))[type].status # "True"
          \/ sel \subseteq secret[NamespaceOf[cur]]
      BY <1>0, <2>2, <3>1, ConditionFacts DEF ImportInv, ReportImported
    <3>3. With(type, Verdict(sel, failed)) \in Conditions
      BY <1>0, ConditionsTyped, StatusTyped
    <3>4. /\ ImportReported
          /\ ~stale /\ mem'[type].status = "True" /\ mem'[type] # status'[cur][type]
                => sel \subseteq secret[NamespaceOf[cur]]
      BY <2>2, <3>2, <3>3, WriteOfOther DEF ReportImported
    <3> QED
      BY <2>2, <3>4 DEF ImportInv, ReportImported
  <2>3. CASE InitializeConditions
    <3>1. Initialized(mem) \in Conditions
      BY <1>0, StatusTyped
    <3>2. ImportReported
      BY <2>3, <3>1, ConditionFacts, WriteOfOther DEF InitializeConditions
    <3>3. ~stale' /\ mem'[type].status = "True" => mem'[type] = status'[cur'][type]
      BY <1>0, <2>3, ConditionFacts
         DEF InitializeConditions, ImportInv, WriteStatus, TypeOK
    <3> QED
      BY <2>3, <3>2, <3>3 DEF ImportInv, InitializeConditions
  <2>4. CASE Prepare \/ ReportEarlyFailure \/ ReportSelected
    <3>1. PICK t \in ConditionTypes \ {type}, x \in Condition, r \in SUBSET GitOpsClusters :
              WriteStatus(With(t, x), r)
      BY <1>0, <2>4, ConditionsTyped
         DEF Prepare, ReportEarlyFailure, ReportSelected, ConditionTypes
    <3>2. With(t, x) \in Conditions /\ With(t, x)[type] = mem[type]
      BY <1>0, <3>1, ConditionFacts, StatusTyped
    <3>3. ImportReported /\ pc # "idle"
      BY <2>4, <3>1, <3>2, WriteOfOther DEF Prepare, ReportEarlyFailure, ReportSelected
    <3>4. ~stale' /\ mem'[type].status = "True" => mem'[type] = status'[cur'][type]
      BY <1>0, <2>4, <3>1, <3>2
         DEF Prepare, ReportEarlyFailure, ReportSelected, ImportInv, WriteStatus, TypeOK
    <3> QED
      BY <2>4, <3>3, <3>4 DEF ImportInv, Prepare, ReportEarlyFailure, ReportSelected
  <2>5. CASE \/ ReportCADelivered \/ RejectCustomCR \/ ReportCRDelivered \/ ReportListFailure
             \/ (ReportCleaned /\ cleaned # {}) \/ ReportAddons
    <3>1. PICK t \in ConditionTypes \ {type}, x \in Condition, r \in SUBSET GitOpsClusters :
              WriteStatus(With(t, x), r)
      BY <1>0, <2>5, ConditionsTyped
         DEF ReportCADelivered, RejectCustomCR, ReportCRDelivered, ReportListFailure,
             ReportCleaned, ReportAddons, ConditionTypes
    <3>2. With(t, x) \in Conditions /\ With(t, x)[type] = mem[type]
      BY <1>0, <3>1, ConditionFacts, StatusTyped
    <3>3. pc # "idle" /\ pc' \notin Started
      BY <2>5 DEF ReportCADelivered, RejectCustomCR, ReportCRDelivered, ReportListFailure,
             ReportCleaned, ReportAddons, AfterCAWork, AfterCleanup
    <3>4. /\ ImportReported
          /\ ~stale /\ mem'[type].status = "True" /\ mem'[type] # status'[cur][type]
                => sel \subseteq secret[NamespaceOf[cur]]
      BY <3>1, <3>2, <3>3, WriteOfOther
    <3>5. /\ stale' = stale /\ cur' = cur /\ sel' = sel /\ secret' = secret
      BY <2>5 DEF ReportCADelivered, RejectCustomCR, ReportCRDelivered, ReportListFailure,
             ReportCleaned, ReportAddons
    <3> QED
      BY <3>3, <3>4, <3>5 DEF ImportInv
  <2>6. CASE ReportCleaned /\ cleaned = {}
    BY <2>6 DEF ImportInv, ImportReported, ReportCleaned, AfterCleanup
  <2>7. ASSUME NEW c \in Clusters,
               DeliverCA(c) \/ DeliverCR(c) \/ DeleteAddon(c) \/ EnsureConfig(c)
        PROVE  Goal
    BY <2>7 DEF ImportInv, ImportReported, DeliverCA, DeliverCR, DeleteAddon, EnsureConfig
  <2>8. ASSUME NEW g \in GitOpsClusters, Dequeue(g) \/ DequeueDeleted(g)
        PROVE  Goal
    BY <2>8 DEF ImportInv, ImportReported, Dequeue, DequeueDeleted
  <2>9. CASE EarlyFailure \/ SelectClusters \/ ListAddons \/ DeleteCAWork \/ DeleteCRWork
    BY <2>9 DEF ImportInv, ImportReported, EarlyFailure, SelectClusters, ListAddons,
                DeleteCAWork, DeleteCRWork
  <2>10. CASE EnsureAddon \/ Return
    BY <2>10 DEF ImportInv, ImportReported, EnsureAddon, Return, Forget
  <2>11. CASE DeleteSecret
    <3>1. target \cap sel = {}
      BY <2>11 DEF CleanupInv, CleanupPcs, DeleteSecret
    <3>2. \/ secret' = secret
          \/ secret'[NamespaceOf[cur]] = secret[NamespaceOf[cur]] \ target
      BY <1>0, <2>11, FanoutAssumption DEF TypeOK, DeleteSecret
    <3> QED
      BY <2>11, <3>1, <3>2 DEF ImportInv, ImportReported, DeleteSecret
  <2> QED
    BY <1>3, <2>1, <2>2, <2>3, <2>4, <2>5, <2>6, <2>7, <2>8, <2>9, <2>10, <2>11 DEF Work
<1>4. CASE UNCHANGED vars
  BY <1>4 DEF ImportInv, ImportReported, vars
<1> QED
  BY <1>1, <1>2, <1>3, <1>4 DEF Next

\* ClustersImported turns True only when every selected cluster has its Argo CD
\* cluster secret, also when that write was delayed by a lost one
\* (gitopscluster_controller.go:211-228, 590-614).
THEOREM ImportedIsImported == Spec => ImportedMeansImported
<1>1. Init => ImportInv
  BY DEF Init, ImportInv
<1> QED
  BY <1>1, TypeCorrect, CleanupCorrect, ImportStep, PTL DEF Spec, ImportedMeansImported

-----------------------------------------------------------------------------
(* The contract with the managed clusters.                                 *)

\* What a step may do to a ManagedClusterAddOn, and to the work of the ArgoCD CR of a
\* GitOpsCluster, by themselves.
ObjectMoves(before, after) ==
    \/ after = before
    \/ before = "absent" /\ after = "live"
    \/ before = "live" /\ after = "deleting"
    \/ before = "deleting" /\ after = "absent"

AddonMoves == \A c \in Clusters : ObjectMoves(addon[c], addon'[c])
WorkMoves == \A g \in GitOpsClusters, c \in Clusters : ObjectMoves(crWork[g][c], crWork'[g][c])

\* Making and deleting an object are moves from wherever it is.
LEMMA CallsMove ==
    \A p \in Presence : ObjectMoves(p, Ensured(p)) /\ ObjectMoves(p, Deleted(p))
BY DEF Presence, ObjectMoves, Ensured, Deleted

LEMMA AddonStep == TypeOK /\ [Next]_vars => AddonMoves
<1> SUFFICES ASSUME TypeOK, [Next]_vars PROVE AddonMoves
  OBVIOUS
<1> USE DEF wishes, products, frame
<1>1. CASE UNCHANGED addon
  BY <1>1 DEF AddonMoves, ObjectMoves
<1>2. ASSUME NEW c \in Clusters, AddonFinalized(c)
      PROVE  AddonMoves
  BY <1>2 DEF AddonFinalized, AddonMoves, ObjectMoves, TypeOK
<1>3. ASSUME NEW c \in Clusters, DeleteAddon(c)
      PROVE  AddonMoves
  BY <1>1, <1>3, CallsMove DEF DeleteAddon, AddonMoves, ObjectMoves, TypeOK
<1>4. CASE EnsureAddon
  BY <1>1, <1>4, CallsMove DEF EnsureAddon, AddonMoves, ObjectMoves, TypeOK
<1>5. CASE Environment
  BY <1>1, <1>5 DEF Environment, Reschedule, EditCustomCR, DeleteGitOpsCluster,
                    CreateGitOpsCluster, Crash
<1>6. CASE Finalize
  BY <1>1, <1>2, <1>6 DEF Finalize, CAWorkFinalized, CRWorkFinalized
<1>7. CASE Work
  BY <1>1, <1>3, <1>4, <1>7
  DEF Work, Dequeue, DequeueDeleted, ImportCluster, DeliverCA, DeliverCR, EnsureConfig,
      InitializeConditions, Prepare, EarlyFailure, ReportEarlyFailure, SelectClusters,
      ReportSelected, ReportImported, ReportCADelivered, RejectCustomCR, ReportCRDelivered,
      ListAddons, ReportListFailure, DeleteCAWork, DeleteCRWork, DeleteSecret, ReportCleaned,
      ReportAddons, Return
<1> QED
  BY <1>1, <1>5, <1>6, <1>7 DEF Next, vars

LEMMA WorkStep == TypeOK /\ [Next]_vars => WorkMoves
<1> SUFFICES ASSUME TypeOK, [Next]_vars PROVE WorkMoves
  OBVIOUS
<1> USE DEF wishes, products, frame
<1>1. CASE UNCHANGED crWork
  BY <1>1 DEF WorkMoves, ObjectMoves
<1>2. ASSUME NEW g \in GitOpsClusters, NEW c \in Clusters, CRWorkFinalized(g, c)
      PROVE  WorkMoves
  BY <1>2 DEF CRWorkFinalized, WorkMoves, ObjectMoves, TypeOK
<1>3. ASSUME NEW c \in Clusters, DeliverCR(c)
      PROVE  WorkMoves
  BY <1>1, <1>3, CallsMove DEF DeliverCR, WorkMoves, ObjectMoves, TypeOK
<1>4. CASE DeleteCRWork
  BY <1>1, <1>4, CallsMove DEF DeleteCRWork, WorkMoves, ObjectMoves, TypeOK
<1>5. CASE Environment
  BY <1>1, <1>5 DEF Environment, Reschedule, EditCustomCR, DeleteGitOpsCluster,
                    CreateGitOpsCluster, Crash
<1>6. CASE Finalize
  BY <1>1, <1>2, <1>6 DEF Finalize, CAWorkFinalized, AddonFinalized
<1>7. CASE Work
  BY <1>1, <1>3, <1>4, <1>7
  DEF Work, Dequeue, DequeueDeleted, ImportCluster, DeliverCA, DeleteAddon, EnsureConfig,
      InitializeConditions, Prepare, EarlyFailure, ReportEarlyFailure, SelectClusters,
      ReportSelected, ReportImported, ReportCADelivered, RejectCustomCR, ReportCRDelivered,
      ListAddons, ReportListFailure, DeleteCAWork, DeleteSecret, ReportCleaned, EnsureAddon,
      ReportAddons, Return
<1> QED
  BY <1>1, <1>5, <1>6, <1>7 DEF Next, vars

\* However many GitOpsClusters share a cluster, and whatever fails: towards it the hub never
\* takes back a deletion that is under way (addon_management.go:50-56).
THEOREM HubKeepsLifecycle == Spec => SafeLifecycle
<1>1. Init => \A g \in GitOpsClusters, c \in Clusters : Lifecycle(g, c)!Init
  BY DEF Init, Lifecycle!Init
<1>2. TypeOK /\ [Next]_vars => \A g \in GitOpsClusters, c \in Clusters : Lifecycle(g, c)!Next
  BY AddonStep, WorkStep
  DEF AddonMoves, WorkMoves, ObjectMoves, Lifecycle!Next, Lifecycle!MovesOn, Lifecycle!Made,
      Lifecycle!Deleted, Lifecycle!Finalized
<1>3. Spec => [][\A g \in GitOpsClusters, c \in Clusters : Lifecycle(g, c)!Next]_vars
  BY <1>2, TypeCorrect, PTL DEF Spec
<1> QED
  BY <1>1, <1>3, PTL DEF Spec, SafeLifecycle

-----------------------------------------------------------------------------
(* With one GitOpsCluster, only what its placement let go is removed.      *)

Sole == \E g \in GitOpsClusters : GitOpsClusters = {g}

\* From the selection to the last addon of step 11.
FanoutPcs == {"selected", "import", "caWork", "crWork", "list", "listError", "config",
              "addon"} \cup CleanupPcs

\* No selected cluster was left out since it could not be read.
Whole == faults = 0 \/ "read" \notin FaultKinds

\* Addons are made for selected clusters only.  A cluster selected once is in the placement
\* still or was let go; and once a reconcile has read its selection, a cluster with an addon
\* is selected by it or was let go, whatever the placement takes in meanwhile.
SelectionInv ==
    Whole =>
        /\ sel \subseteq decisions[cur] \cup dropped[cur]
        /\ \A c \in Clusters : addon[c] # "absent" =>
              /\ c \in decisions[cur] \cup dropped[cur]
              /\ pc \in FanoutPcs => c \in sel \cup dropped[cur]

\* A step of the worker or of the environment that leaves the placement, the addons and
\* the selection alone, and does not enter the fan-out, keeps the invariant.
LEMMA SelectionKept ==
    ASSUME SelectionInv, faults' = 0 => faults = 0,
           UNCHANGED <<decisions, dropped, addon, sel, cur>>,
           pc' \in FanoutPcs => pc \in FanoutPcs
    PROVE  SelectionInv'
BY DEF SelectionInv, Whole

\* Only step 10 of a reconcile deletes an addon (gitopscluster_controller.go:426-430).
LEMMA DeletionIsCleanup ==
    ASSUME TypeOK, [Next]_vars, NEW c \in Clusters, addon[c] = "live",
           addon'[c] = "deleting"
    PROVE  DeleteAddon(c)
<1> USE DEF wishes, products, frame
<1>1. CASE UNCHANGED addon
  BY <1>1
<1>2. ASSUME NEW d \in Clusters, AddonFinalized(d)
      PROVE  FALSE
  BY <1>2 DEF AddonFinalized, TypeOK
<1>3. ASSUME NEW d \in Clusters, DeleteAddon(d)
      PROVE  d = c
  BY <1>3 DEF DeleteAddon, TypeOK
<1>4. CASE EnsureAddon
  BY <1>4 DEF EnsureAddon, Ensured, TypeOK
<1>5. CASE Environment
  BY <1>1, <1>5 DEF Environment, Reschedule, EditCustomCR, DeleteGitOpsCluster,
                    CreateGitOpsCluster, Crash
<1>6. CASE Finalize
  BY <1>1, <1>2, <1>6 DEF Finalize, CAWorkFinalized, CRWorkFinalized
<1>7. CASE Work
  BY <1>1, <1>3, <1>4, <1>7
  DEF Work, Dequeue, DequeueDeleted, ImportCluster, DeliverCA, DeliverCR, EnsureConfig,
      InitializeConditions, Prepare, EarlyFailure, ReportEarlyFailure, SelectClusters,
      ReportSelected, ReportImported, ReportCADelivered, RejectCustomCR, ReportCRDelivered,
      ListAddons, ReportListFailure, DeleteCAWork, DeleteCRWork, DeleteSecret, ReportCleaned,
      ReportAddons, Return
<1> QED
  BY <1>1, <1>5, <1>6, <1>7 DEF Next, vars

LEMMA SelectionStep ==
    Sole /\ TypeOK /\ CleanupInv /\ SelectionInv /\ [Next]_vars => SelectionInv'
<1> SUFFICES ASSUME Sole, TypeOK, CleanupInv, SelectionInv, [Next]_vars
             PROVE  SelectionInv'
  OBVIOUS
<1> USE DEF wishes, products, frame
<1>0. faults \in Nat
  BY FanoutAssumption DEF TypeOK
<1>1. \A g \in GitOpsClusters : g = cur /\ g = Nobody
  BY NobodyTyped DEF Sole, TypeOK
<1>2. CASE Environment
  <2>1. ASSUME NEW g \in GitOpsClusters, NEW S \in SUBSET Clusters, Reschedule(g, S)
        PROVE  SelectionInv'
    <3>1. /\ decisions[cur] \cup dropped[cur] \subseteq decisions'[cur] \cup dropped'[cur]
          /\ dropped[cur] \subseteq dropped'[cur]
      BY <1>1, <2>1 DEF Reschedule, TypeOK
    <3> QED
      BY <2>1, <3>1 DEF Reschedule, SelectionInv, Whole
  <2>2. ASSUME NEW g \in GitOpsClusters,
               EditCustomCR(g) \/ DeleteGitOpsCluster(g) \/ CreateGitOpsCluster(g)
        PROVE  SelectionInv'
    BY <2>2, SelectionKept DEF EditCustomCR, DeleteGitOpsCluster, CreateGitOpsCluster
  <2>3. CASE Crash
    <3>1. cur' = cur /\ faults' # 0
      BY <1>0, <1>1, <2>3, NobodyTyped DEF Crash, Fault, Forget
    <3> QED
      BY <2>3, <3>1 DEF Crash, Forget, SelectionInv, Whole, FanoutPcs, CleanupPcs
  <2> QED
    BY <1>2, <2>1, <2>2, <2>3 DEF Environment
<1>3. CASE Finalize
  <2>1. ASSUME NEW d \in Clusters, AddonFinalized(d)
        PROVE  SelectionInv'
    BY <2>1 DEF AddonFinalized, SelectionInv, Whole, TypeOK
  <2>2. ASSUME NEW d \in Clusters, CAWorkFinalized(d)
        PROVE  SelectionInv'
    BY <2>2, SelectionKept DEF CAWorkFinalized
  <2>3. ASSUME NEW g \in GitOpsClusters, NEW d \in Clusters, CRWorkFinalized(g, d)
        PROVE  SelectionInv'
    BY <2>3, SelectionKept DEF CRWorkFinalized
  <2> QED
    BY <1>3, <2>1, <2>2, <2>3 DEF Finalize
<1>4. CASE Work
  <2>0. \A kind : Fault(kind) => faults' # 0
    BY <1>0 DEF Fault
  <2>w. \A new, requeue : WriteStatus(new, requeue) => (faults' = 0 => faults = 0)
    BY <1>0 DEF WriteStatus, Fault
  <2>1. CASE SelectClusters
    BY <1>0, <2>0, <2>1 DEF SelectClusters, Fault, SelectionInv, Whole, TypeOK
  <2>2. ASSUME NEW c \in Clusters, DeleteAddon(c)
        PROVE  SelectionInv'
    BY <2>0, <2>2 DEF DeleteAddon, Deleted, Fault, SelectionInv, Whole, TypeOK, FanoutPcs,
                     CleanupPcs
  <2>3. CASE EnsureAddon
    <3>1. target \subseteq sel /\ pc \in FanoutPcs
      BY <2>3 DEF EnsureAddon, CleanupInv, FanoutPcs
    <3>2. \A x \in Clusters : addon'[x] # "absent" => addon[x] # "absent" \/ x \in target
      BY <2>3 DEF EnsureAddon, TypeOK
    <3>3. faults' = 0 => faults = 0
      BY <1>0, <2>3 DEF EnsureAddon, Succeeds, Fails, Fault
    <3> QED
      BY <2>3, <3>1, <3>2, <3>3 DEF EnsureAddon, SelectionInv, Whole
  <2>4. CASE Return
    <3>1. cur' = cur
      BY <1>1, <2>4, NobodyTyped DEF Return, Forget
    <3>2. pc' \notin FanoutPcs
      BY <2>4 DEF Return, Forget, FanoutPcs, CleanupPcs
    <3> QED
      BY <2>4, <3>1, <3>2 DEF Return, Forget, SelectionInv, Whole
  <2>5. ASSUME NEW g \in GitOpsClusters, Dequeue(g) \/ DequeueDeleted(g)
        PROVE  SelectionInv'
    <3>1. cur' = cur
      BY <1>1, <2>5 DEF Dequeue, DequeueDeleted
    <3> QED
      BY <2>5, <3>1, SelectionKept DEF Dequeue, DequeueDeleted, FanoutPcs, CleanupPcs
  <2>6. ASSUME NEW c \in Clusters,
               ImportCluster(c) \/ DeliverCA(c) \/ DeliverCR(c) \/ EnsureConfig(c)
        PROVE  SelectionInv'
    <3>1. faults' = 0 => faults = 0
      BY <1>0, <2>6 DEF ImportCluster, DeliverCA, DeliverCR, EnsureConfig, Succeeds, Fails,
                        Fault
    <3> QED
      BY <2>6, <3>1, SelectionKept
         DEF ImportCluster, DeliverCA, DeliverCR, EnsureConfig, FanoutPcs
  <2>7. CASE \/ InitializeConditions \/ Prepare \/ ReportEarlyFailure \/ ReportSelected
             \/ ReportImported \/ ReportCADelivered
    <3>1. faults' = 0 => faults = 0
      BY <2>7, <2>w DEF InitializeConditions, Prepare, ReportEarlyFailure, ReportSelected,
                        ReportImported, ReportCADelivered
    <3> QED
      BY <2>7, <3>1, SelectionKept
         DEF InitializeConditions, Prepare, ReportEarlyFailure, ReportSelected,
             ReportImported, ReportCADelivered, FanoutPcs, CleanupPcs
  <2>8. CASE \/ RejectCustomCR \/ ReportCRDelivered \/ ReportListFailure \/ ReportCleaned
             \/ ReportAddons
    <3>1. faults' = 0 => faults = 0
      BY <2>8, <2>w DEF RejectCustomCR, ReportCRDelivered, ReportListFailure, ReportCleaned,
                        ReportAddons
    <3> QED
      BY <2>8, <3>1, SelectionKept
         DEF RejectCustomCR, ReportCRDelivered, ReportListFailure, ReportCleaned,
             ReportAddons, FanoutPcs, CleanupPcs
  <2>9. CASE \/ EarlyFailure \/ ListAddons \/ DeleteCAWork \/ DeleteCRWork \/ DeleteSecret
    <3>1. faults' = 0 => faults = 0
      BY <2>9, <2>0 DEF EarlyFailure, ListAddons, DeleteCAWork, DeleteCRWork, DeleteSecret
    <3> QED
      BY <2>9, <3>1, SelectionKept
         DEF EarlyFailure, ListAddons, DeleteCAWork, DeleteCRWork, DeleteSecret, FanoutPcs,
             CleanupPcs
  <2> QED
    BY <1>4, <2>1, <2>2, <2>3, <2>4, <2>5, <2>6, <2>7, <2>8, <2>9 DEF Work
<1>5. CASE UNCHANGED vars
  BY <1>5 DEF vars, SelectionInv, Whole
<1> QED
  BY <1>2, <1>3, <1>4, <1>5 DEF Next

\* With one GitOpsCluster, however many clusters and whatever its placement does at whatever
\* call, an addon is deleted only on a cluster that the placement let go
\* (gitopscluster_controller.go:400-424); with two it is not so.
THEOREM SoleRemovesOnlyDropped == Sole => (Spec => OnlyDroppedClustersAreRemoved)
<1> SUFFICES ASSUME Sole PROVE Spec => OnlyDroppedClustersAreRemoved
  OBVIOUS
<1> DEFINE Spared == \A c \in Clusters :
              faults = 0 /\ addon[c] = "live" /\ addon'[c] = "deleting" => c \in dropped[cur]
<1>1. Init => SelectionInv
  BY DEF Init, SelectionInv
<1>2. TypeOK /\ CleanupInv /\ SelectionInv /\ [Next]_vars => SelectionInv'
  BY SelectionStep
<1>3. TypeOK /\ CleanupInv /\ SelectionInv /\ [Next]_vars => Spared
  <2> SUFFICES ASSUME TypeOK, CleanupInv, SelectionInv, [Next]_vars PROVE Spared
    OBVIOUS
  <2>1. SUFFICES ASSUME NEW c \in Clusters, faults = 0, addon[c] = "live",
                        addon'[c] = "deleting"
                 PROVE  c \in dropped[cur]
    OBVIOUS
  <2>2. DeleteAddon(c)
    BY <2>1, DeletionIsCleanup
  <2>3. pc \in FanoutPcs /\ c \notin sel
    BY <2>2 DEF DeleteAddon, CleanupInv, FanoutPcs, CleanupPcs
  <2> QED
    BY <2>1, <2>3 DEF SelectionInv, Whole
<1> QED
  BY <1>1, <1>2, <1>3, TypeCorrect, CleanupCorrect, PTL DEF Spec, OnlyDroppedClustersAreRemoved
=============================================================================
