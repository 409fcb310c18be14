--------------------------- MODULE GitOpsRestProofs ---------------------------
(***************************************************************************)
(* What the GitOpsCluster controller has achieved when it is at rest: the  *)
(* safety half of its convergence, for one GitOpsCluster and any number of *)
(* clusters, faults and edits.                                             *)
(***************************************************************************)
EXTENDS GitOpsFanoutProofs

\* A cluster that cannot be read is left out of the selection, and a report may be lost when
\* the API server refuses it: two failures after which nothing tells of what is missing.
Heard == FaultKinds \cap {"read", "status"} = {}

\* In this step neither happens: it never does, or nothing has failed yet.
Noticed == Heard \/ faults' = 0

Chosen == Labels \ {"idle", "init", "prepare", "prepareError", "placement", "placementError"}

\* The reconcile works for the only GitOpsCluster, whatever is queued.
LEMMA CurStays ==
    ASSUME Sole, TypeOK, [Next]_vars
    PROVE  /\ TypeOK' /\ cur' = cur /\ cur \in GitOpsClusters
           /\ \A g \in GitOpsClusters : g = cur
<1>1. TypeOK'
  BY TypeStep
<1> QED
  BY <1>1 DEF Sole, TypeOK

\* A run without a failure has been one all the time.
LEMMA FaultsStay ==
    ASSUME TypeOK, [Next]_vars, faults' = 0
    PROVE  faults = 0 /\ \A kind : ~Fault(kind)
<1>1. \A kind : ~Fault(kind)
  BY FanoutAssumption DEF TypeOK, Fault
<1>2. CASE Environment \/ Finalize \/ UNCHANGED vars
  BY <1>1, <1>2 DEF Environment, Reschedule, EditCustomCR, DeleteGitOpsCluster,
     CreateGitOpsCluster, Crash, Finalize, AddonFinalized, CAWorkFinalized, CRWorkFinalized,
     vars, frame
<1>3. CASE Work
  BY <1>1, <1>3
  DEF Work, Dequeue, DequeueDeleted, ImportCluster, DeliverCA, DeliverCR, DeleteAddon,
      EnsureConfig, InitializeConditions, Prepare, EarlyFailure, ReportEarlyFailure,
      SelectClusters, ReportSelected, ReportImported, ReportCADelivered, RejectCustomCR,
      ReportCRDelivered, ListAddons, ReportListFailure, DeleteCAWork, DeleteCRWork,
      DeleteSecret, ReportCleaned, EnsureAddon, ReportAddons, Return, WriteStatus,
      Succeeds, Fails
<1> QED
  BY <1>1, <1>2, <1>3 DEF Next

-----------------------------------------------------------------------------
(* What was read at the start of a reconcile is still so, or the           *)
(* GitOpsCluster is queued again.                                          *)

Undisturbed == pc # "idle" /\ cur \notin queue

AsRead ==
    /\ pc = "idle" => ~stale
    /\ Undisturbed =>
          /\ cur \in present /\ ~stale /\ mem = status[cur] /\ valid = customCR[cur]
          /\ pc \in Chosen => sel = decisions[cur]

\* A report that leaves the GitOpsCluster unqueued has written what was there already.
LEMMA ReportKept ==
    ASSUME Noticed, TypeOK, AsRead, pc # "idle", NEW new, NEW requeue,
           WriteStatus(new, requeue), cur \notin queue'
    PROVE  /\ Undisturbed /\ status' = status /\ mem' = new /\ new = status[cur]
           /\ faults' = faults
<1>1. ~Fault("status")
  BY FanoutAssumption DEF Noticed, Heard, Fault, TypeOK
<1>2. cur \notin queue
  BY DEF WriteStatus
<1>3. ~stale
  BY <1>2 DEF AsRead, Undisturbed
<1>4. /\ mem' = new
      /\ status' = [status EXCEPT ![cur] = new]
      /\ new = status[cur]
      /\ faults' = faults
  BY <1>1, <1>3 DEF WriteStatus
<1>5. status' = status
  BY <1>4 DEF TypeOK
<1> QED
  BY <1>2, <1>4, <1>5 DEF Undisturbed

LEMMA AsReadStep ==
    ASSUME Sole, Noticed, TypeOK, AsRead, [Next]_vars
    PROVE  AsRead'
<1> USE DEF wishes, products, frame
<1>0. cur' = cur /\ cur \in GitOpsClusters /\ \A g \in GitOpsClusters : g = cur
  BY CurStays
<1>1. CASE Environment
  <2>1. CASE Crash
    BY <2>1 DEF Crash, Forget, AsRead, Undisturbed
  <2>2. CASE ~Crash
    <3>1. /\ pc' = pc /\ queue \subseteq queue'
          /\ pc = "idle" => (stale' <=> stale)
          /\ cur \in present => cur \in queue'
      BY <1>0, <1>1, <2>2 DEF Environment, Reschedule, EditCustomCR, DeleteGitOpsCluster,
                    CreateGitOpsCluster, Touch, TypeOK
    <3> QED
      BY <1>0, <3>1 DEF AsRead, Undisturbed
  <2> QED
    BY <2>1, <2>2
<1>2. CASE Finalize \/ UNCHANGED vars
  BY <1>2 DEF Finalize, AddonFinalized, CAWorkFinalized, CRWorkFinalized, vars, AsRead,
              Undisturbed
<1>3. CASE Work
  <2>1. ASSUME NEW g \in GitOpsClusters, Dequeue(g) \/ DequeueDeleted(g)
        PROVE  AsRead'
    BY <1>0, <2>1 DEF Dequeue, DequeueDeleted, AsRead, Undisturbed, Chosen
  <2>2. CASE SelectClusters
    <3>1. ~Fault("read")
      BY FanoutAssumption DEF Noticed, Heard, Fault, TypeOK
    <3> QED
      BY <1>0, <2>2, <3>1 DEF SelectClusters, AsRead, Undisturbed
  <2>3. CASE \/ InitializeConditions \/ Prepare \/ ReportEarlyFailure \/ ReportSelected
             \/ ReportImported \/ ReportCADelivered \/ RejectCustomCR \/ ReportCRDelivered
             \/ ReportListFailure \/ (ReportCleaned /\ cleaned # {}) \/ ReportAddons
    <3>1. PICK new, requeue : WriteStatus(new, requeue)
      BY <2>3 DEF InitializeConditions, Prepare, ReportEarlyFailure, ReportSelected,
             ReportImported, ReportCADelivered, RejectCustomCR, ReportCRDelivered,
             ReportListFailure, ReportCleaned, ReportAddons
    <3>2. /\ UNCHANGED <<present, decisions, customCR, cur, valid, stale, sel>>
          /\ pc # "idle" /\ pc' # "idle"
      BY <2>3 DEF InitializeConditions, Prepare, ReportEarlyFailure, ReportSelected,
             ReportImported, ReportCADelivered, RejectCustomCR, ReportCRDelivered,
             ReportListFailure, ReportCleaned, ReportAddons, AfterCAWork, AfterCleanup
    <3>3. pc' \in Chosen /\ cur \notin queue' => pc \in Chosen
      BY <2>3 DEF InitializeConditions, Prepare, ReportEarlyFailure, ReportSelected,
             ReportImported, ReportCADelivered, RejectCustomCR, ReportCRDelivered,
             ReportListFailure, ReportCleaned, ReportAddons, WriteStatus, Chosen, Labels
    <3> QED
      BY <3>1, <3>2, <3>3, ReportKept DEF AsRead, Undisturbed
  <2>4. CASE ReportCleaned /\ cleaned = {}
    BY <2>4 DEF ReportCleaned, AsRead, Undisturbed, Chosen, Labels, AfterCleanup
  <2>5. CASE Return
    BY <2>5 DEF Return, Forget, AsRead, Undisturbed
  <2>6. CASE EarlyFailure
    BY <2>6 DEF EarlyFailure, AsRead, Undisturbed, Chosen
  <2>7. ASSUME NEW c \in Clusters,
               ImportCluster(c) \/ DeliverCA(c) \/ DeliverCR(c) \/ DeleteAddon(c) \/ EnsureConfig(c)
        PROVE  AsRead'
    BY <2>7 DEF ImportCluster, DeliverCA, DeliverCR, DeleteAddon, EnsureConfig, AsRead,
       Undisturbed, Chosen, Labels
  <2>8. CASE ListAddons \/ DeleteCAWork \/ DeleteCRWork \/ DeleteSecret \/ EnsureAddon
    BY <2>8 DEF ListAddons, DeleteCAWork, DeleteCRWork, DeleteSecret, EnsureAddon, AsRead,
       Undisturbed, Chosen, Labels
  <2> QED
    BY <1>3, <2>1, <2>2, <2>3, <2>4, <2>5, <2>6, <2>7, <2>8 DEF Work
<1> QED
  BY <1>1, <1>2, <1>3 DEF Next

-----------------------------------------------------------------------------
(* Only what the placement let go is being deleted.                        *)

DeletingInv ==
    /\ \A c \in Clusters :
          addon[c] = "deleting" \/ caWork[c] = "deleting" \/ crWork[cur][c] = "deleting"
          => c \in dropped[cur]
    /\ pc \in CleanupPcs => todo \cup target \subseteq dropped[cur]

LEMMA DeletingStep ==
    ASSUME Sole, Whole, TypeOK, CleanupInv, SelectionInv, DeletingInv, [Next]_vars
    PROVE  DeletingInv'
<1> USE DEF wishes, products, frame
<1>0. cur' = cur /\ cur \in GitOpsClusters /\ \A g \in GitOpsClusters : g = cur
  BY CurStays
<1>1. CASE UNCHANGED <<addon, caWork, crWork>> /\ dropped[cur] \subseteq dropped'[cur]
           /\ (pc' \in CleanupPcs =>
                  pc \in CleanupPcs /\ todo' \cup target' \subseteq todo \cup target)
  BY <1>0, <1>1 DEF DeletingInv
<1>2. CASE Environment
  <2>1. ASSUME NEW g \in GitOpsClusters, NEW S \in SUBSET Clusters, Reschedule(g, S)
        PROVE  DeletingInv'
    <3>1. dropped[cur] \subseteq dropped'[cur]
      BY <1>0, <2>1 DEF Reschedule, TypeOK
    <3> QED
      BY <1>1, <2>1, <3>1 DEF Reschedule
  <2>2. CASE Crash
    BY <1>1, <2>2 DEF Crash, Forget, CleanupPcs
  <2> QED
    BY <1>1, <1>2, <2>1, <2>2 DEF Environment, EditCustomCR, DeleteGitOpsCluster,
       CreateGitOpsCluster
<1>3. CASE Finalize
  BY <1>0, <1>3 DEF Finalize, AddonFinalized, CAWorkFinalized, CRWorkFinalized, DeletingInv,
     TypeOK
<1>4. CASE Work
  <2>1. ASSUME NEW c \in Clusters, DeliverCA(c) \/ DeliverCR(c)
        PROVE  DeletingInv'
    <3>1. /\ addon' = addon
          /\ \A x \in Clusters : /\ caWork'[x] = "deleting" => caWork[x] = "deleting"
                                 /\ crWork'[cur][x] = "deleting" => crWork[cur][x] = "deleting"
      BY <1>0, <2>1 DEF DeliverCA, DeliverCR, Ensured, TypeOK
    <3> QED
      BY <1>0, <2>1, <3>1 DEF DeliverCA, DeliverCR, DeletingInv, CleanupPcs
  <2>2. CASE EnsureAddon
    BY <1>0, <2>2 DEF EnsureAddon, Ensured, DeletingInv, TypeOK, CleanupPcs
  <2>3. CASE ListAddons
    <3>1. Strangers \subseteq dropped[cur] /\ target = {}
      BY <2>3 DEF ListAddons, Strangers, SelectionInv, FanoutPcs, CleanupInv
    <3> QED
      BY <1>0, <2>3, <3>1 DEF ListAddons, DeletingInv, CleanupPcs
  <2>4. ASSUME NEW c \in Clusters, DeleteAddon(c)
        PROVE  DeletingInv'
    <3>1. c \in dropped[cur] /\ target = {}
      BY <2>4 DEF DeleteAddon, DeletingInv, CleanupPcs, CleanupInv
    <3>2. \A x \in Clusters : x # c => addon'[x] = addon[x]
      BY <2>4 DEF DeleteAddon, TypeOK
    <3> QED
      BY <1>0, <2>4, <3>1, <3>2 DEF DeleteAddon, DeletingInv, CleanupPcs
  <2>5. CASE DeleteCAWork \/ DeleteCRWork
    <3>1. target \subseteq dropped[cur]
      BY <2>5 DEF DeleteCAWork, DeleteCRWork, DeletingInv, CleanupPcs
    <3>2. /\ addon' = addon
          /\ \A x \in Clusters \ target :
                 caWork'[x] = caWork[x] /\ crWork'[cur][x] = crWork[cur][x]
      BY <1>0, <2>5 DEF DeleteCAWork, DeleteCRWork, TypeOK
    <3> QED
      BY <1>0, <2>5, <3>1, <3>2 DEF DeleteCAWork, DeleteCRWork, DeletingInv, CleanupPcs
  <2>6. CASE DeleteSecret
    BY <1>1, <2>6 DEF DeleteSecret, CleanupPcs
  <2>7. ASSUME NEW g \in GitOpsClusters, Dequeue(g) \/ DequeueDeleted(g)
        PROVE  DeletingInv'
    BY <1>1, <2>7 DEF Dequeue, DequeueDeleted, CleanupPcs
  <2>8. ASSUME NEW c \in Clusters, ImportCluster(c) \/ EnsureConfig(c)
        PROVE  DeletingInv'
    BY <1>1, <2>8 DEF ImportCluster, EnsureConfig, CleanupPcs
  <2>9. CASE \/ InitializeConditions \/ Prepare \/ EarlyFailure \/ ReportEarlyFailure
             \/ SelectClusters \/ ReportSelected \/ ReportImported \/ ReportCADelivered
    BY <1>1, <2>9 DEF InitializeConditions, Prepare, EarlyFailure, ReportEarlyFailure,
       SelectClusters, ReportSelected, ReportImported, ReportCADelivered, AfterCAWork, CleanupPcs
  <2>10. CASE \/ RejectCustomCR \/ ReportCRDelivered \/ ReportListFailure \/ ReportCleaned
              \/ ReportAddons \/ Return
    BY <1>1, <2>10 DEF RejectCustomCR, ReportCRDelivered, ReportListFailure, ReportCleaned,
       ReportAddons, Return, Forget, AfterCleanup, CleanupPcs
  <2> QED
    BY <1>4, <2>1, <2>2, <2>3, <2>4, <2>5, <2>6, <2>7, <2>8, <2>9, <2>10 DEF Work
<1>5. CASE UNCHANGED vars
  BY <1>1, <1>5 DEF vars
<1> QED
  BY <1>2, <1>3, <1>4, <1>5 DEF Next

-----------------------------------------------------------------------------
(* How far the reconcile has come with a cluster.                          *)

Imported(c) == c \in secret[NamespaceOf[cur]]
HasCA(c) == c \notin LocalClusters => caWork[c] = "live"
HasCR(c) == c \notin LocalClusters => crWork[cur][c] = "live"
HasAddon(c) == c \in config /\ addon[c] = "live"
ToldBy(t, c) == status[cur][t].status = "False" /\ c \in status[cur][t].names

AfterCR == {"list", "listError", "config", "addon"} \cup CleanupPcs
AfterCA == AfterCR \cup {"reject", "crWork"}
AfterImport == AfterCA \cup {"caWork"}

\* A cluster leaves each loop with what the loop makes, or remembered as failed; and each
\* report turns the second into a condition that names it.
OwedImport(c) ==
    /\ pc = "import" /\ c \notin todo => Imported(c) \/ c \in failed
    /\ pc \in AfterImport => Imported(c) \/ ToldBy("ClustersImported", c)
OwedCA(c) ==
    /\ pc = "caWork" /\ c \notin todo => HasCA(c) \/ c \in failed
    /\ pc \in AfterCA => HasCA(c) \/ ToldBy("ManifestWorkCreated", c)
OwedCR(c) ==
    /\ pc = "crWork" /\ c \notin todo => HasCR(c) \/ c \in failed
    /\ pc \in AfterCR => HasCR(c) \/ ToldBy("ArgoCDCRDelivered", c)
OwedAddon(c) ==
    /\ pc \in {"config", "addon"} /\ c \notin todo \cup target => HasAddon(c) \/ c \in failed
    /\ pc = "addon" /\ c \in target => c \in config /\ target = {c}
OwedAll(c) == pc = "done" => Served(cur, c) \/ Told(cur, c)

Owed(c) == OwedImport(c) /\ OwedCA(c) /\ OwedCR(c) /\ OwedAddon(c) /\ OwedAll(c)

ProgressInv == Undisturbed => \A c \in sel \ dropped[cur] : Owed(c)

\* A report of the failures of a loop names each of them.
LEMMA ReportNames ==
    ASSUME TypeOK, NEW t \in ConditionTypes, NEW S, NEW c \in failed,
           status[cur] = With(t, Verdict(S, failed))
    PROVE  ToldBy(t, c)
<1>1. With(t, Verdict(S, failed))[t] = Verdict(S, failed)
  BY DEF With, TypeOK
<1> QED
  BY <1>1 DEF ToldBy, Verdict

\* Nothing of a selected cluster goes away under the reconcile.
LEMMA HoldingsStay ==
    ASSUME Sole, Heard, TypeOK, CleanupInv, DeletingInv, [Next]_vars, pc # "idle",
           NEW c \in sel \ dropped[cur]
    PROVE  /\ Imported(c) => Imported(c)'
           /\ HasCA(c) => HasCA(c)'
           /\ HasCR(c) => HasCR(c)'
           /\ HasAddon(c) => HasAddon(c)'
<1> USE DEF Imported, HasCA, HasCR, HasAddon
<1>0. /\ cur' = cur /\ cur \in GitOpsClusters /\ NamespaceOf[cur] \in Namespaces
      /\ c \in Clusters
  BY CurStays, FanoutAssumption DEF TypeOK
<1>1. Imported(c) => Imported(c)'
  <2> USE DEF wishes, products, frame
  <2>1. CASE UNCHANGED secret
    BY <1>0, <2>1
  <2>2. ASSUME NEW x \in Clusters, ImportCluster(x)
        PROVE  Imported(c) => Imported(c)'
    BY <1>0, <2>2 DEF ImportCluster, TypeOK
  <2>3. CASE DeleteSecret
    <3>1. c \notin target
      BY <2>3 DEF DeleteSecret, CleanupInv, CleanupPcs
    <3> QED
      BY <1>0, <2>3, <3>1 DEF DeleteSecret, TypeOK
  <2>4. CASE Environment \/ Finalize \/ UNCHANGED vars
    BY <2>1, <2>4 DEF Environment, Finalize, Reschedule, EditCustomCR, DeleteGitOpsCluster,
       CreateGitOpsCluster, Crash, AddonFinalized, CAWorkFinalized, CRWorkFinalized, vars
  <2>5. CASE Work
    BY <2>1, <2>2, <2>3, <2>5
    DEF Work, Dequeue, DequeueDeleted, DeliverCA, DeliverCR, DeleteAddon, EnsureConfig,
        InitializeConditions, Prepare, EarlyFailure, ReportEarlyFailure, SelectClusters,
        ReportSelected, ReportImported, ReportCADelivered, RejectCustomCR, ReportCRDelivered,
        ListAddons, ReportListFailure, DeleteCAWork, DeleteCRWork, ReportCleaned,
        EnsureAddon, ReportAddons, Return
  <2> QED
    BY <2>4, <2>5 DEF Next
<1>2. (HasCA(c) => HasCA(c)') /\ (HasCR(c) => HasCR(c)') /\ (HasAddon(c) => HasAddon(c)')
  <2>1. /\ caWork[c] = "live" => caWork'[c] = "live"
        /\ crWork[cur][c] = "live" => crWork'[cur][c] = "live"
        /\ addon[c] = "live" => addon'[c] = "live"
    <3>1. c \notin target \/ pc \notin CleanupPcs
      BY DEF CleanupInv
    <3>2. c \notin todo \/ pc \notin CleanupPcs
      BY DEF CleanupInv
    <3> USE DEF wishes, products, frame
    <3>3. CASE UNCHANGED <<caWork, crWork, addon>>
      BY <3>3
    <3>4. CASE Finalize
      BY <1>0, <3>4 DEF Finalize, AddonFinalized, CAWorkFinalized, CRWorkFinalized, TypeOK
    <3>5. ASSUME NEW x \in Clusters, DeliverCA(x) \/ DeliverCR(x) \/ DeleteAddon(x)
          PROVE  /\ caWork[c] = "live" => caWork'[c] = "live"
                 /\ crWork[cur][c] = "live" => crWork'[cur][c] = "live"
                 /\ addon[c] = "live" => addon'[c] = "live"
      BY <1>0, <3>2, <3>5 DEF DeliverCA, DeliverCR, DeleteAddon, Ensured, CleanupPcs, TypeOK
    <3>6. CASE DeleteCAWork \/ DeleteCRWork
      BY <1>0, <3>1, <3>6 DEF DeleteCAWork, DeleteCRWork, CleanupPcs, TypeOK
    <3>7. CASE EnsureAddon
      BY <1>0, <3>7 DEF EnsureAddon, Ensured, TypeOK
    <3>8. CASE Environment \/ UNCHANGED vars
      BY <3>3, <3>8 DEF Environment, Reschedule, EditCustomCR, DeleteGitOpsCluster,
         CreateGitOpsCluster, Crash, vars
    <3>9. CASE Work
      BY <3>3, <3>5, <3>6, <3>7, <3>9
      DEF Work, Dequeue, DequeueDeleted, ImportCluster, EnsureConfig,
          InitializeConditions, Prepare, EarlyFailure, ReportEarlyFailure, SelectClusters,
          ReportSelected, ReportImported, ReportCADelivered, RejectCustomCR, ReportCRDelivered,
          ListAddons, ReportListFailure, DeleteSecret, ReportCleaned, ReportAddons, Return
    <3> QED
      BY <3>4, <3>8, <3>9 DEF Next
  <2>2. config \subseteq config'
    BY DEF Next, Environment, Finalize, Reschedule, EditCustomCR, DeleteGitOpsCluster,
       CreateGitOpsCluster, Crash, AddonFinalized, CAWorkFinalized, CRWorkFinalized, vars,
       Work, Dequeue, DequeueDeleted, ImportCluster, DeliverCA, DeliverCR, DeleteAddon,
       EnsureConfig, InitializeConditions, Prepare, EarlyFailure, ReportEarlyFailure,
       SelectClusters, ReportSelected, ReportImported, ReportCADelivered, RejectCustomCR,
       ReportCRDelivered, ListAddons, ReportListFailure, DeleteCAWork, DeleteCRWork,
       DeleteSecret, ReportCleaned, EnsureAddon, ReportAddons, Return, wishes, products, frame
  <2> QED
    BY <1>0, <2>1, <2>2
<1> QED
  BY <1>1, <1>2

\* While nothing disturbs the reconcile, what it owed a cluster before a step it still owes:
\* a holding stays, and so does what the status tells.
LEMMA OwedCarried ==
    ASSUME Sole, Heard, TypeOK, CleanupInv, DeletingInv, ProgressInv, [Next]_vars,
           Undisturbed, status' = status, NEW c \in sel \ dropped[cur]
    PROVE  /\ Owed(c) /\ c \in Clusters /\ cur' = cur /\ cur \in GitOpsClusters
           /\ Imported(c) => Imported(c)'
           /\ HasCA(c) => HasCA(c)'
           /\ HasCR(c) => HasCR(c)'
           /\ HasAddon(c) => HasAddon(c)'
           /\ \A t \in ConditionTypes : ToldBy(t, c) => ToldBy(t, c)'
           /\ Served(cur, c) \/ Told(cur, c) => Served(cur, c)' \/ Told(cur, c)'
<1>1. /\ Owed(c) /\ c \in Clusters /\ cur' = cur /\ cur \in GitOpsClusters
      /\ pc # "idle"
  BY CurStays DEF ProgressInv, TypeOK, Undisturbed
<1>2. /\ Imported(c) => Imported(c)'
      /\ HasCA(c) => HasCA(c)'
      /\ HasCR(c) => HasCR(c)'
      /\ HasAddon(c) => HasAddon(c)'
  BY <1>1, HoldingsStay
<1>3. /\ \A t \in ConditionTypes : ToldBy(t, c) => ToldBy(t, c)'
      /\ Told(cur, c) => Told(cur, c)'
  BY <1>1 DEF ToldBy, Told
<1>4. Served(cur, c) => Served(cur, c)'
  BY <1>1, <1>2 DEF Served, Imported, HasCA, HasCR, HasAddon
<1> QED
  BY <1>1, <1>2, <1>3, <1>4

LEMMA OwedByReport ==
    ASSUME Sole, Heard, TypeOK, CleanupInv, AsRead, DeletingInv, ProgressInv, [Next]_vars,
           \/ ReportSelected \/ ReportImported \/ ReportCADelivered \/ RejectCustomCR
           \/ ReportCRDelivered \/ ReportListFailure \/ (ReportCleaned /\ cleaned # {})
           \/ ReportAddons,
           Undisturbed', NEW c \in sel' \ dropped'[cur]
    PROVE  Owed(c)'
<1> USE DEF Owed, OwedImport, OwedCA, OwedCR, OwedAddon, OwedAll, AfterImport, AfterCA, AfterCR,
            CleanupPcs
<1>1. /\ UNCHANGED <<sel, dropped, cur>> /\ pc # "idle"
      /\ \E new, requeue : WriteStatus(new, requeue)
  BY DEF ReportSelected, ReportImported, ReportCADelivered, RejectCustomCR, ReportCRDelivered,
     ReportListFailure, ReportCleaned, ReportAddons, wishes
<1>2. Undisturbed /\ status' = status
  BY <1>1, ReportKept DEF Undisturbed, Noticed
<1>3. \A new, requeue : WriteStatus(new, requeue) => status[cur] = new
  BY <1>1, ReportKept DEF Undisturbed, Noticed
<1>4. c \in sel \ dropped[cur]
  BY <1>1
<1>5. /\ Owed(c) /\ c \in Clusters /\ cur' = cur /\ cur \in GitOpsClusters
      /\ Imported(c) => Imported(c)'
      /\ HasCA(c) => HasCA(c)'
      /\ HasCR(c) => HasCR(c)'
      /\ HasAddon(c) => HasAddon(c)'
      /\ \A t \in ConditionTypes : ToldBy(t, c) => ToldBy(t, c)'
  BY <1>2, <1>4, OwedCarried
<1>t. {"ClustersImported", "ManifestWorkCreated", "ArgoCDCRDelivered", "AddonConfigured"}
          \subseteq ConditionTypes
  BY DEF ConditionTypes
<1>6. CASE ReportSelected
  BY <1>4, <1>6 DEF ReportSelected
<1>7. CASE ReportImported
  <2>1. c \in failed => ToldBy("ClustersImported", c)
    BY <1>3, <1>7, <1>t, ReportNames DEF ReportImported
  <2> QED
    BY <1>4, <1>5, <1>7, <1>t, <2>1 DEF ReportImported
<1>8. CASE ReportCADelivered
  <2>1. c \in failed => ToldBy("ManifestWorkCreated", c)
    BY <1>3, <1>8, <1>t, ReportNames DEF ReportCADelivered
  <2> QED
    BY <1>4, <1>5, <1>8, <1>t, <2>1 DEF ReportCADelivered, AfterCAWork
<1>9. CASE RejectCustomCR
  <2>1. status[cur]["ArgoCDCRDelivered"] = Plain("False")
    BY <1>3, <1>9, <1>t DEF RejectCustomCR, With, TypeOK
  <2>2. Told(cur, c)'
    BY <1>2, <1>5, <2>1 DEF Told
  <2> QED
    BY <1>9, <2>2 DEF RejectCustomCR
<1>10. CASE ReportCRDelivered
  <2>1. c \in failed => ToldBy("ArgoCDCRDelivered", c)
    BY <1>3, <1>10, <1>t, ReportNames DEF ReportCRDelivered
  <2> QED
    BY <1>5, <1>10, <1>t, <2>1 DEF ReportCRDelivered
<1>11. CASE ReportListFailure
  BY <1>4, <1>5, <1>11, <1>t DEF ReportListFailure, AfterCleanup
<1>12. CASE ReportCleaned /\ cleaned # {}
  BY <1>4, <1>5, <1>12, <1>t DEF ReportCleaned, AfterCleanup
<1>13. CASE ReportAddons
  <2>1. c \in failed => ToldBy("AddonConfigured", c)
    BY <1>3, <1>13, <1>t, ReportNames DEF ReportAddons
  <2>2. target = {}
    BY <1>13 DEF ReportAddons, CleanupInv
  <2>3. /\ Imported(c) \/ ToldBy("ClustersImported", c)
        /\ HasCA(c) \/ ToldBy("ManifestWorkCreated", c)
        /\ HasCR(c) \/ ToldBy("ArgoCDCRDelivered", c)
        /\ HasAddon(c) \/ ToldBy("AddonConfigured", c)
    BY <1>5, <1>13, <2>1, <2>2 DEF ReportAddons
  <2>4. Served(cur, c) \/ Told(cur, c)
    BY <2>3 DEF Served, Told, FanoutConditions, Imported, HasCA, HasCR, HasAddon, ToldBy
  <2>5. Served(cur, c)' \/ Told(cur, c)'
    BY <1>2, <1>4, <2>4, OwedCarried
  <2> QED
    BY <1>5, <1>13, <2>5 DEF ReportAddons
<1> QED
  BY <1>6, <1>7, <1>8, <1>9, <1>10, <1>11, <1>12, <1>13

\* An iteration of a loop ends with what it is for, or with the cluster remembered.
LEMMA OwedByCall ==
    ASSUME Sole, Heard, TypeOK, CleanupInv, DeletingInv, ProgressInv, [Next]_vars,
           \/ \E x \in Clusters :
                 \/ ImportCluster(x) \/ DeliverCA(x) \/ DeliverCR(x) \/ DeleteAddon(x)
                 \/ EnsureConfig(x)
           \/ ListAddons \/ DeleteCAWork \/ DeleteCRWork \/ DeleteSecret \/ EnsureAddon
           \/ (ReportCleaned /\ cleaned = {}),
           Undisturbed', NEW c \in sel' \ dropped'[cur]
    PROVE  Owed(c)'
<1> USE DEF Owed, OwedImport, OwedCA, OwedCR, OwedAddon, OwedAll, AfterImport, AfterCA, AfterCR,
            CleanupPcs
<1>1. UNCHANGED <<sel, dropped, cur, queue, status>> /\ pc # "idle"
  BY DEF ImportCluster, DeliverCA, DeliverCR, DeleteAddon, EnsureConfig, ListAddons,
     DeleteCAWork, DeleteCRWork, DeleteSecret, EnsureAddon, ReportCleaned, wishes, frame
<1>2. Undisturbed /\ c \in sel \ dropped[cur]
  BY <1>1 DEF Undisturbed
<1>5. /\ Owed(c) /\ c \in Clusters /\ cur' = cur /\ cur \in GitOpsClusters
      /\ Imported(c) => Imported(c)'
      /\ HasCA(c) => HasCA(c)'
      /\ HasCR(c) => HasCR(c)'
      /\ HasAddon(c) => HasAddon(c)'
      /\ \A t \in ConditionTypes : ToldBy(t, c) => ToldBy(t, c)'
  BY <1>1, <1>2, OwedCarried
<1>d. addon[c] # "deleting" /\ caWork[c] # "deleting" /\ crWork[cur][c] # "deleting"
  BY <1>2, <1>5 DEF DeletingInv
<1>e. /\ addon[c] \in Presence /\ caWork[c] \in Presence /\ crWork[cur][c] \in Presence
      /\ NamespaceOf[cur] \in Namespaces
  BY <1>5, FanoutAssumption DEF TypeOK
<1>t. {"ClustersImported", "ManifestWorkCreated", "ArgoCDCRDelivered", "AddonConfigured"}
          \subseteq ConditionTypes
  BY DEF ConditionTypes
<1>6. ASSUME NEW x \in Clusters, ImportCluster(x)
      PROVE  Owed(c)'
  <2>1. x = c => Imported(c)' \/ c \in failed'
    BY <1>5, <1>6, <1>e DEF ImportCluster, Fails, Imported, TypeOK
  <2>2. failed \subseteq failed'
    BY <1>6 DEF ImportCluster, Succeeds, Fails
  <2> QED
    BY <1>5, <1>6, <2>1, <2>2 DEF ImportCluster
<1>7. ASSUME NEW x \in Clusters, DeliverCA(x)
      PROVE  Owed(c)'
  <2>1. x = c => HasCA(c)' \/ c \in failed'
    BY <1>5, <1>7, <1>d, <1>e DEF DeliverCA, Fails, HasCA, Ensured, Presence, TypeOK
  <2>2. failed \subseteq failed'
    BY <1>7 DEF DeliverCA, Succeeds, Fails
  <2> QED
    BY <1>5, <1>7, <1>t, <2>1, <2>2 DEF DeliverCA
<1>8. ASSUME NEW x \in Clusters, DeliverCR(x)
      PROVE  Owed(c)'
  <2>1. x = c => HasCR(c)' \/ c \in failed'
    BY <1>5, <1>8, <1>d, <1>e DEF DeliverCR, Fails, HasCR, Ensured, Presence, TypeOK
  <2>2. failed \subseteq failed'
    BY <1>8 DEF DeliverCR, Succeeds, Fails
  <2> QED
    BY <1>5, <1>8, <1>t, <2>1, <2>2 DEF DeliverCR
<1>9. ASSUME NEW x \in Clusters, EnsureConfig(x)
      PROVE  Owed(c)'
  <2>1. target = {} /\ failed \subseteq failed'
    BY <1>9 DEF EnsureConfig, CleanupInv, Succeeds, Fails
  <2>2. \/ target' = {x} /\ pc' = "addon" /\ x \in config'
        \/ target' = {} /\ pc' = "config" /\ x \in failed'
    BY <1>9, <2>1 DEF EnsureConfig, Fails
  <2>3. c \notin todo' \cup target' => HasAddon(c)' \/ c \in failed'
    BY <1>5, <1>9, <2>1, <2>2 DEF EnsureConfig
  <2> QED
    BY <1>5, <1>9, <1>t, <2>2, <2>3 DEF EnsureConfig
<1>10. CASE EnsureAddon
  <2>1. failed \subseteq failed' /\ target' = {} /\ todo' = todo /\ pc = "addon" /\ pc' = "config"
    BY <1>10 DEF EnsureAddon, Succeeds, Fails
  <2>2. c \in target => HasAddon(c)' \/ c \in failed'
    BY <1>5, <1>10, <1>d, <1>e DEF EnsureAddon, Fails, HasAddon, Ensured, Presence, TypeOK
  <2> QED
    BY <1>5, <1>t, <2>1, <2>2
<1>11. CASE \/ ListAddons \/ DeleteCAWork \/ DeleteCRWork \/ DeleteSecret
            \/ \E x \in Clusters : DeleteAddon(x)
  BY <1>5, <1>11, <1>t DEF ListAddons, DeleteCAWork, DeleteCRWork, DeleteSecret, DeleteAddon
<1>12. CASE ReportCleaned /\ cleaned = {}
  BY <1>2, <1>5, <1>12, <1>t DEF ReportCleaned, AfterCleanup
<1> QED
  BY <1>6, <1>7, <1>8, <1>9, <1>10, <1>11, <1>12

LEMMA ProgressStep ==
    ASSUME Sole, Heard, TypeOK, CleanupInv, AsRead, DeletingInv, ProgressInv, [Next]_vars
    PROVE  ProgressInv'
<1> SUFFICES ASSUME Undisturbed', NEW c \in sel' \ dropped'[cur]
             PROVE  Owed(c)'
  BY CurStays DEF ProgressInv
<1> USE DEF wishes, products, frame
<1>0. cur' = cur /\ cur \in GitOpsClusters /\ \A g \in GitOpsClusters : g = cur
  BY CurStays
<1>1. CASE Environment
  <2>1. CASE Crash
    BY <2>1 DEF Crash, Forget, Undisturbed
  <2>2. CASE ~Crash
    <3>1. /\ pc' = pc /\ queue \subseteq queue'
          /\ cur \in present => cur \in queue'
      BY <1>0, <1>1, <2>2 DEF Environment, Reschedule, EditCustomCR, DeleteGitOpsCluster,
                    CreateGitOpsCluster, TypeOK
    <3> QED
      BY <1>0, <3>1 DEF AsRead, Undisturbed
  <2> QED
    BY <2>1, <2>2
<1>2. CASE Finalize \/ UNCHANGED vars
  <2>1. UNCHANGED <<sel, dropped, queue, status, pc, todo, failed, target>>
    BY <1>2 DEF Finalize, AddonFinalized, CAWorkFinalized, CRWorkFinalized, vars
  <2>2. config \subseteq config'
    BY <1>2 DEF Finalize, AddonFinalized, CAWorkFinalized, CRWorkFinalized, vars
  <2>3. Undisturbed /\ c \in sel \ dropped[cur]
    BY <1>0, <2>1 DEF Undisturbed
  <2>4. {"ClustersImported", "ManifestWorkCreated", "ArgoCDCRDelivered"} \subseteq ConditionTypes
    BY DEF ConditionTypes
  <2>5. /\ Owed(c)
        /\ Imported(c) => Imported(c)'
        /\ HasCA(c) => HasCA(c)'
        /\ HasCR(c) => HasCR(c)'
        /\ HasAddon(c) => HasAddon(c)'
        /\ \A t \in ConditionTypes : ToldBy(t, c) => ToldBy(t, c)'
        /\ Served(cur, c) \/ Told(cur, c) => Served(cur, c)' \/ Told(cur, c)'
    BY <2>1, <2>3, OwedCarried
  <2> QED
    BY <1>0, <2>1, <2>2, <2>4, <2>5
       DEF Owed, OwedImport, OwedCA, OwedCR, OwedAddon, OwedAll, AfterImport, AfterCA, AfterCR
<1>3. CASE Work
  <2>1. CASE \/ \E g \in GitOpsClusters : Dequeue(g) \/ DequeueDeleted(g)
             \/ InitializeConditions \/ Prepare \/ EarlyFailure \/ SelectClusters \/ Return
    <3>1. pc' \in {"idle", "init", "prepare", "prepareError", "placement", "placementError",
                   "selected"}
      BY <2>1 DEF Dequeue, DequeueDeleted, InitializeConditions, Prepare, EarlyFailure,
         SelectClusters, Return, Forget
    <3> QED
      BY <3>1 DEF Owed, OwedImport, OwedCA, OwedCR, OwedAddon, OwedAll, AfterImport, AfterCA,
         AfterCR, CleanupPcs
  <2>2. CASE ReportEarlyFailure
    BY <1>0, <2>2 DEF ReportEarlyFailure, WriteStatus, Undisturbed
  <2> QED
    BY <1>3, <2>1, <2>2, OwedByReport, OwedByCall DEF Work
<1> QED
  BY <1>1, <1>2, <1>3 DEF Next
-----------------------------------------------------------------------------
(* At rest.                                                                *)

RestInv ==
    pc = "idle" /\ cur \in present \ queue =>
        \A c \in decisions[cur] \ dropped[cur] : Served(cur, c) \/ Told(cur, c)

LEMMA RestStep ==
    ASSUME Sole, Heard, TypeOK, AsRead, DeletingInv, ProgressInv, RestInv, [Next]_vars
    PROVE  RestInv'
<1> USE DEF wishes, products, frame
<1>0. cur' = cur /\ cur \in GitOpsClusters /\ \A g \in GitOpsClusters : g = cur
  BY CurStays
<1> SUFFICES ASSUME (pc = "idle" /\ cur \in present \ queue)'
             PROVE  (\A c \in decisions[cur] \ dropped[cur] : Served(cur, c) \/ Told(cur, c))'
  BY DEF RestInv
<1>1. CASE Environment
  <2>1. cur \in queue'
    BY <1>0, <1>1 DEF Environment, Reschedule, EditCustomCR, DeleteGitOpsCluster,
       CreateGitOpsCluster, Crash, Forget, TypeOK
  <2> QED
    BY <1>0, <2>1
<1>2. CASE Finalize \/ UNCHANGED vars
  <2>1. UNCHANGED <<present, decisions, dropped, queue, status, pc, secret, config>>
    BY <1>2 DEF Finalize, AddonFinalized, CAWorkFinalized, CRWorkFinalized, vars
  <2>2. \A c \in Clusters :
            /\ addon[c] = "live" => addon'[c] = "live"
            /\ caWork[c] = "live" => caWork'[c] = "live"
            /\ crWork[cur][c] = "live" => crWork'[cur][c] = "live"
    BY <1>0, <1>2 DEF Finalize, AddonFinalized, CAWorkFinalized, CRWorkFinalized, vars, TypeOK
  <2>3. \A c \in Clusters : Served(cur, c) => Served(cur, c)'
    BY <1>0, <2>1, <2>2 DEF Served
  <2>4. \A c \in Clusters : Told(cur, c) => Told(cur, c)'
    BY <1>0, <2>1 DEF Told
  <2>5. decisions[cur] \subseteq Clusters
    BY <1>0 DEF TypeOK
  <2> QED
    BY <1>0, <2>1, <2>3, <2>4, <2>5 DEF RestInv
<1>3. CASE Work
  <2>1. CASE Return
    <3>1. Undisturbed /\ sel = decisions[cur] /\ pc = "done"
      BY <1>0, <2>1 DEF Return, AsRead, Undisturbed, Chosen, Labels
    <3>2. \A c \in decisions[cur] \ dropped[cur] : Served(cur, c) \/ Told(cur, c)
      BY <3>1 DEF ProgressInv, Owed, OwedAll
    <3> QED
      BY <1>0, <2>1, <3>2 DEF Return, Served, Told
  <2>2. CASE ~Return
    <3>1. pc' # "idle" \/ \E g \in GitOpsClusters : DequeueDeleted(g)
      BY <1>3, <2>2
      DEF Work, Dequeue, ImportCluster, DeliverCA, DeliverCR, DeleteAddon,
          EnsureConfig, InitializeConditions, Prepare, EarlyFailure, ReportEarlyFailure,
          SelectClusters, ReportSelected, ReportImported, ReportCADelivered, RejectCustomCR,
          ReportCRDelivered, ListAddons, ReportListFailure, DeleteCAWork, DeleteCRWork,
          DeleteSecret, ReportCleaned, EnsureAddon, ReportAddons, AfterCAWork, AfterCleanup
    <3> QED
      BY <1>0, <3>1 DEF DequeueDeleted
  <2> QED
    BY <2>1, <2>2
<1> QED
  BY <1>1, <1>2, <1>3 DEF Next

\* With one GitOpsCluster, and unless the API server fails to answer the read of a cluster
\* or refuses a report, no request is lost and no failure is silent, whatever is edited at
\* whatever call, whichever other call fails and wherever the process dies
\* (gitopscluster_controller.go:205-334, 590-614, 671-680).
THEOREM RestServesOrTells == Sole /\ Heard => (Spec => []ServedOrTold)
<1> SUFFICES ASSUME Sole, Heard PROVE Spec => []ServedOrTold
  OBVIOUS
<1> DEFINE Inv == SelectionInv /\ AsRead /\ DeletingInv /\ ProgressInv /\ RestInv
<1>1. Init => Inv
  <2> SUFFICES ASSUME Init PROVE Inv
    OBVIOUS
  <2>1. SelectionInv /\ AsRead /\ ProgressInv
    BY DEF Init, SelectionInv, AsRead, ProgressInv, Undisturbed
  <2>2. DeletingInv /\ RestInv
    BY NobodyTyped DEF Init, DeletingInv, RestInv, CleanupPcs
  <2> QED
    BY <2>1, <2>2
<1>2. TypeOK /\ CleanupInv /\ Inv /\ [Next]_vars => Inv'
  <2> SUFFICES ASSUME TypeOK, CleanupInv, Inv, [Next]_vars PROVE Inv'
    OBVIOUS
  <2> QED
    BY SelectionStep, AsReadStep, DeletingStep, ProgressStep, RestStep DEF Noticed, Whole, Heard
<1>3. TypeOK /\ Inv => ServedOrTold
  BY DEF Sole, TypeOK, RestInv, ServedOrTold
<1> HIDE DEF Inv
<1> QED
  BY <1>1, <1>2, <1>3, TypeCorrect, CleanupCorrect, PTL DEF Spec
-----------------------------------------------------------------------------
(* What is left behind of a cluster that was let go.                       *)

\* Placements do not take a cluster back, and nobody edits the custom CR.
Final == ~Returning /\ "customCR" \notin EditKinds

\* No custom CR is rejected, and a placement does not select what it let go.
FinalInv ==
    /\ valid /\ pc # "reject" /\ \A g \in GitOpsClusters : customCR[g]
    /\ decisions[cur] \cap dropped[cur] = {}

LEMMA FinalStep ==
    ASSUME Sole, Final, TypeOK, FinalInv, [Next]_vars
    PROVE  FinalInv'
<1> USE DEF wishes, products, frame, FinalInv
<1>0. cur' = cur /\ cur \in GitOpsClusters /\ \A g \in GitOpsClusters : g = cur
  BY CurStays
<1>1. CASE Environment
  <2>1. ASSUME NEW g \in GitOpsClusters, NEW S \in SUBSET Clusters, Reschedule(g, S)
        PROVE  FinalInv'
    BY <1>0, <2>1 DEF Reschedule, Final, TypeOK
  <2> QED
    BY <1>0, <1>1, <2>1 DEF Environment, EditCustomCR, Edit, Final, DeleteGitOpsCluster,
       CreateGitOpsCluster, Crash, Forget
<1>2. CASE Finalize \/ UNCHANGED vars
  BY <1>0, <1>2 DEF Finalize, AddonFinalized, CAWorkFinalized, CRWorkFinalized, vars
<1>3. CASE Work
  <2>1. UNCHANGED <<customCR, decisions, dropped>> /\ valid'
    BY <1>3
    DEF Work, Dequeue, DequeueDeleted, ImportCluster, DeliverCA, DeliverCR, DeleteAddon,
        EnsureConfig, InitializeConditions, Prepare, EarlyFailure, ReportEarlyFailure,
        SelectClusters, ReportSelected, ReportImported, ReportCADelivered, RejectCustomCR,
        ReportCRDelivered, ListAddons, ReportListFailure, DeleteCAWork, DeleteCRWork,
        DeleteSecret, ReportCleaned, EnsureAddon, ReportAddons, Return, Forget
  <2>2. pc' # "reject"
    BY <1>3
    DEF Work, Dequeue, DequeueDeleted, ImportCluster, DeliverCA, DeliverCR, DeleteAddon,
        EnsureConfig, InitializeConditions, Prepare, EarlyFailure, ReportEarlyFailure,
        SelectClusters, ReportSelected, ReportImported, ReportCADelivered, RejectCustomCR,
        ReportCRDelivered, ListAddons, ReportListFailure, DeleteCAWork, DeleteCRWork,
        DeleteSecret, ReportCleaned, EnsureAddon, ReportAddons, Return, Forget,
        AfterCAWork, AfterCleanup
  <2> QED
    BY <1>0, <2>1, <2>2
<1> QED
  BY <1>1, <1>2, <1>3 DEF Next

\* Steps 8 to 9.5 work inside the selection, step 11 on one cluster at a time, and the
\* list of step 10 is missed only by a failure.
LoopInv ==
    /\ pc \in {"import", "caWork", "crWork"} => todo \subseteq sel
    /\ pc = "addon" => \E x \in Clusters : target = {x}
    /\ pc = "listError" => faults # 0

LEMMA LoopStep ==
    ASSUME TypeOK, LoopInv, [Next]_vars
    PROVE  LoopInv'
<1> USE DEF wishes, products, frame, LoopInv
<1>0. faults \in Nat
  BY FanoutAssumption DEF TypeOK
<1>1. CASE Environment
  BY <1>0, <1>1 DEF Environment, Reschedule, EditCustomCR, DeleteGitOpsCluster,
     CreateGitOpsCluster, Crash, Forget
<1>2. CASE Finalize \/ UNCHANGED vars
  BY <1>2 DEF Finalize, AddonFinalized, CAWorkFinalized, CRWorkFinalized, vars
<1>3. CASE Work
  <2>1. ASSUME NEW c \in Clusters,
               ImportCluster(c) \/ DeliverCA(c) \/ DeliverCR(c) \/ DeleteAddon(c) \/ EnsureConfig(c)
        PROVE  LoopInv'
    BY <2>1 DEF ImportCluster, DeliverCA, DeliverCR, DeleteAddon, EnsureConfig
  <2>2. CASE ListAddons
    BY <1>0, <2>2 DEF ListAddons, Fault
  <2>3. CASE \/ \E g \in GitOpsClusters : Dequeue(g) \/ DequeueDeleted(g)
             \/ InitializeConditions \/ Prepare \/ EarlyFailure \/ ReportEarlyFailure
             \/ SelectClusters \/ ReportSelected \/ ReportImported \/ ReportCADelivered
             \/ RejectCustomCR \/ ReportCRDelivered
    BY <2>3 DEF Dequeue, DequeueDeleted, InitializeConditions, Prepare, EarlyFailure,
       ReportEarlyFailure, SelectClusters, ReportSelected, ReportImported, ReportCADelivered,
       RejectCustomCR, ReportCRDelivered, AfterCAWork
  <2>4. CASE \/ ReportListFailure \/ DeleteCAWork \/ DeleteCRWork \/ DeleteSecret
             \/ ReportCleaned \/ EnsureAddon \/ ReportAddons \/ Return
    BY <2>4 DEF ReportListFailure, DeleteCAWork, DeleteCRWork, DeleteSecret, ReportCleaned,
       EnsureAddon, ReportAddons, Return, Forget, AfterCleanup
  <2> QED
    BY <1>3, <2>1, <2>2, <2>3, <2>4 DEF Work
<1> QED
  BY <1>1, <1>2, <1>3 DEF Next

\* Only steps 8 to 9.5 and 11 make anything, and for selected clusters only.
LEMMA RemovedStays ==
    ASSUME Sole, TypeOK, CleanupInv, LoopInv, [Next]_vars, NEW c \in Clusters,
           \/ c \notin sel
           \/ pc \notin {"import", "caWork", "crWork"} /\ (pc = "addon" => c \notin target),
           Removed(cur, c)
    PROVE  Removed(cur, c)'
<1> USE DEF wishes, products, frame, Removed
<1>0. /\ cur' = cur /\ cur \in GitOpsClusters /\ NamespaceOf[cur] \in Namespaces
      /\ \A g \in GitOpsClusters : g = cur
  BY CurStays, FanoutAssumption DEF TypeOK
<1>1. CASE UNCHANGED products
  BY <1>0, <1>1
<1>2. CASE Environment \/ UNCHANGED vars
  BY <1>1, <1>2 DEF Environment, Reschedule, EditCustomCR, DeleteGitOpsCluster,
     CreateGitOpsCluster, Crash, vars
<1>3. CASE Finalize
  BY <1>0, <1>3 DEF Finalize, AddonFinalized, CAWorkFinalized, CRWorkFinalized, TypeOK
<1>4. CASE Work
  <2>1. ASSUME NEW x \in Clusters,
               ImportCluster(x) \/ DeliverCA(x) \/ DeliverCR(x)
        PROVE  Removed(cur, c)'
    <3>1. x # c
      BY <2>1 DEF ImportCluster, DeliverCA, DeliverCR, LoopInv
    <3> QED
      BY <1>0, <2>1, <3>1 DEF ImportCluster, DeliverCA, DeliverCR, TypeOK
  <2>2. ASSUME NEW x \in Clusters, DeleteAddon(x) \/ EnsureConfig(x)
        PROVE  Removed(cur, c)'
    BY <1>0, <2>2 DEF DeleteAddon, EnsureConfig, Deleted, TypeOK
  <2>3. CASE DeleteCAWork \/ DeleteCRWork \/ DeleteSecret
    BY <1>0, <2>3 DEF DeleteCAWork, DeleteCRWork, DeleteSecret, Deleted, TypeOK
  <2>4. CASE EnsureAddon
    <3>1. c \notin target
      BY <2>4 DEF EnsureAddon, CleanupInv
    <3> QED
      BY <1>0, <2>4, <3>1 DEF EnsureAddon, TypeOK
  <2> QED
    BY <1>1, <1>4, <2>1, <2>2, <2>3, <2>4
    DEF Work, Dequeue, DequeueDeleted,
        InitializeConditions, Prepare, EarlyFailure, ReportEarlyFailure, SelectClusters,
        ReportSelected, ReportImported, ReportCADelivered, RejectCustomCR, ReportCRDelivered,
        ListAddons, ReportListFailure, ReportCleaned, ReportAddons, Return
<1> QED
  BY <1>2, <1>3, <1>4 DEF Next

\* As long as nothing fails, a reconcile is not misled.
Unfailing == faults = 0 => AsRead /\ DeletingInv

\* An addon of a selected cluster is not being deleted.
KeptInv == faults = 0 /\ pc \in FanoutPcs => \A c \in sel : addon[c] # "deleting"

LEMMA KeptStep ==
    ASSUME Sole, TypeOK, CleanupInv, FinalInv, Unfailing, KeptInv, [Next]_vars
    PROVE  KeptInv'
<1> USE DEF wishes, products, frame
<1>0. /\ cur' = cur /\ cur \in GitOpsClusters /\ sel \subseteq Clusters
      /\ faults \in Nat
  BY CurStays, FanoutAssumption DEF TypeOK
<1>s. CASE /\ UNCHANGED sel /\ (faults' = 0 => faults = 0)
           /\ pc' \in FanoutPcs => pc \in FanoutPcs
           /\ \A c \in sel : addon'[c] = "deleting" => addon[c] = "deleting"
  BY <1>s DEF KeptInv
<1>1. CASE Environment
  <2>1. CASE Crash
    BY <2>1 DEF Crash, Forget, KeptInv
  <2> QED
    BY <1>1, <1>s, <2>1 DEF Environment, Reschedule, EditCustomCR, DeleteGitOpsCluster,
       CreateGitOpsCluster
<1>2. CASE Finalize \/ UNCHANGED vars
  <2>1. \A c \in sel : addon'[c] = "deleting" => addon[c] = "deleting"
    BY <1>0, <1>2 DEF Finalize, AddonFinalized, CAWorkFinalized, CRWorkFinalized, vars, TypeOK
  <2> QED
    BY <1>2, <1>s, <2>1 DEF Finalize, AddonFinalized, CAWorkFinalized, CRWorkFinalized, vars
<1>3. CASE Work
  <2>f. \A kind : Fault(kind) => faults' # 0
    BY <1>0 DEF Fault
  <2>w. \A new, requeue : WriteStatus(new, requeue) => (faults' = 0 => faults = 0)
    BY <1>0 DEF WriteStatus, Fault
  <2>1. CASE SelectClusters
    <3>1. faults' = 0 => sel' = decisions[cur]
      BY <2>1, <2>f DEF SelectClusters
    <3>2. faults = 0 => \A c \in decisions[cur] : addon[c] # "deleting"
      BY <1>0 DEF FinalInv, Unfailing, DeletingInv, TypeOK
    <3> QED
      BY <2>1, <3>1, <3>2, FaultsStay DEF SelectClusters, KeptInv
  <2>2. ASSUME NEW x \in Clusters, DeleteAddon(x)
        PROVE  KeptInv'
    <3>1. x \notin sel
      BY <2>2 DEF DeleteAddon, CleanupInv, CleanupPcs
    <3> QED
      BY <1>0, <1>s, <2>2, <2>f, <3>1 DEF DeleteAddon, FanoutPcs, CleanupPcs, TypeOK
  <2>3. CASE EnsureAddon
    <3>1. \A c \in sel : addon'[c] = "deleting" => addon[c] = "deleting"
      BY <1>0, <2>3 DEF EnsureAddon, Ensured, TypeOK
    <3>2. faults' = 0 => faults = 0
      BY <2>3, <2>f DEF EnsureAddon, Succeeds, Fails
    <3> QED
      BY <1>s, <2>3, <3>1, <3>2 DEF EnsureAddon, FanoutPcs
  <2>4. ASSUME NEW x \in Clusters,
               ImportCluster(x) \/ DeliverCA(x) \/ DeliverCR(x) \/ EnsureConfig(x)
        PROVE  KeptInv'
    BY <1>s, <2>4, <2>f DEF ImportCluster, DeliverCA, DeliverCR, EnsureConfig, Succeeds, Fails,
       FanoutPcs
  <2>5. CASE Return
    BY <2>5 DEF Return, Forget, KeptInv, FanoutPcs, CleanupPcs
  <2>6. CASE \/ \E g \in GitOpsClusters : Dequeue(g) \/ DequeueDeleted(g)
             \/ InitializeConditions \/ Prepare \/ EarlyFailure \/ ReportEarlyFailure
    <3>1. pc' \notin FanoutPcs
      BY <2>6 DEF Dequeue, DequeueDeleted, InitializeConditions, Prepare, EarlyFailure,
         ReportEarlyFailure, FanoutPcs, CleanupPcs
    <3> QED
      BY <3>1 DEF KeptInv
  <2>7. CASE \/ ReportSelected \/ ReportImported \/ ReportCADelivered \/ ReportCRDelivered
             \/ RejectCustomCR \/ ReportListFailure \/ ReportCleaned \/ ReportAddons
    <3>1. UNCHANGED <<sel, addon>> /\ (faults' = 0 => faults = 0)
      BY <2>7, <2>w DEF ReportSelected, ReportImported, ReportCADelivered, ReportCRDelivered,
         RejectCustomCR, ReportListFailure, ReportCleaned, ReportAddons
    <3>2. pc' \in FanoutPcs => pc \in FanoutPcs
      BY <2>7 DEF ReportSelected, ReportImported, ReportCADelivered, ReportCRDelivered,
         RejectCustomCR, ReportListFailure, ReportCleaned, ReportAddons, FanoutPcs, CleanupPcs
    <3> QED
      BY <1>s, <3>1, <3>2
  <2>8. CASE ListAddons \/ DeleteCAWork \/ DeleteCRWork \/ DeleteSecret
    BY <1>s, <2>8, <2>f DEF ListAddons, DeleteCAWork, DeleteCRWork, DeleteSecret, FanoutPcs,
       CleanupPcs
  <2> QED
    BY <1>3, <2>1, <2>2, <2>3, <2>4, <2>5, <2>6, <2>7, <2>8 DEF Work
<1> QED
  BY <1>1, <1>2, <1>3 DEF Next

\* The clusters on which the reconcile under way may have left something without an addon:
\* it still gets to their addon, or is about to clean them.
StillToDo(c) ==
    \/ c \in sel /\ pc \in FanoutPcs \ {"config", "addon"}
    \/ pc = "config" /\ c \in todo
    \/ pc = "addon" /\ c \in todo \cup target
    \/ pc \in {"cleanCA", "cleanCR", "cleanSecret"} /\ c \in target

\* What is on a cluster can be found by way of its addon.
LeftInv ==
    faults = 0 => \A c \in Clusters : Removed(cur, c) \/ addon[c] = "live" \/ StillToDo(c)

\* With its cluster secret goes the last of what a cluster had.
LEMMA TargetRemoved ==
    ASSUME Sole, TypeOK, CleanedInv, [Next]_vars, DeleteSecret, faults = 0, faults' = 0
    PROVE  \A c \in target : Removed(cur, c)'
<1>1. /\ cur' = cur /\ NamespaceOf[cur] \in Namespaces /\ target \subseteq Clusters
      /\ ~Fault("delete")
  BY CurStays, FanoutAssumption DEF TypeOK, Fault
<1> QED
  BY <1>1 DEF DeleteSecret, CleanedInv, Removed, TypeOK, wishes, products, frame

LEMMA LeftStep ==
    ASSUME Sole, TypeOK, CleanupInv, CleanedInv, FinalInv, LoopInv, KeptInv, LeftInv, [Next]_vars
    PROVE  LeftInv'
<1> SUFFICES ASSUME faults' = 0, NEW c \in Clusters
             PROVE  Removed(cur, c)' \/ addon'[c] = "live" \/ StillToDo(c)'
  BY DEF LeftInv
<1> USE DEF wishes, products, frame
<1>0. /\ cur' = cur /\ cur \in GitOpsClusters /\ addon[c] \in Presence
      /\ target \subseteq Clusters /\ \A g \in GitOpsClusters : g = cur
  BY CurStays, FanoutAssumption DEF TypeOK
<1>f. faults = 0 /\ \A kind : ~Fault(kind)
  BY FaultsStay
<1>l. Removed(cur, c) \/ addon[c] = "live" \/ StillToDo(c)
  BY <1>f DEF LeftInv
<1>s. CASE addon' = addon /\ (StillToDo(c) => StillToDo(c)')
  BY <1>l, <1>s, RemovedStays DEF StillToDo, FanoutPcs
<1>1. CASE Environment
  BY <1>f, <1>1, <1>s DEF Environment, Reschedule, EditCustomCR, DeleteGitOpsCluster,
     CreateGitOpsCluster, Crash, StillToDo
<1>2. CASE Finalize \/ UNCHANGED vars
  <2>1. /\ UNCHANGED <<sel, pc, todo, target>>
        /\ addon[c] = "live" => addon'[c] = "live"
    BY <1>0, <1>2 DEF Finalize, AddonFinalized, CAWorkFinalized, CRWorkFinalized, vars, TypeOK
  <2>2. Removed(cur, c) => Removed(cur, c)'
    BY <1>0, <1>2 DEF Finalize, AddonFinalized, CAWorkFinalized, CRWorkFinalized, vars,
       Removed, TypeOK
  <2> QED
    BY <1>l, <2>1, <2>2 DEF StillToDo
<1>3. CASE Work
  <2>1. CASE \/ \E g \in GitOpsClusters : Dequeue(g) \/ DequeueDeleted(g)
             \/ InitializeConditions \/ Prepare \/ EarlyFailure \/ ReportEarlyFailure
             \/ SelectClusters \/ ReportAddons \/ Return
    <3>1. ~StillToDo(c)
      BY <2>1 DEF Dequeue, DequeueDeleted, InitializeConditions, Prepare, EarlyFailure,
         ReportEarlyFailure, SelectClusters, ReportAddons, Return, StillToDo, FanoutPcs,
         CleanupPcs
    <3>2. addon' = addon
      BY <2>1 DEF Dequeue, DequeueDeleted, InitializeConditions, Prepare, EarlyFailure,
         ReportEarlyFailure, SelectClusters, ReportAddons, Return
    <3> QED
      BY <1>s, <3>1, <3>2
  <2>2. CASE \/ ReportSelected \/ ReportImported \/ ReportCADelivered \/ ReportCRDelivered
             \/ RejectCustomCR \/ ListAddons
    <3>1. addon' = addon
      BY <2>2 DEF ReportSelected, ReportImported, ReportCADelivered, RejectCustomCR,
         ReportCRDelivered, ListAddons
    <3>2. StillToDo(c) => StillToDo(c)'
      BY <2>2 DEF ReportSelected, ReportImported, ReportCADelivered, RejectCustomCR,
         ReportCRDelivered, ListAddons, AfterCAWork, FinalInv, StillToDo, FanoutPcs,
         CleanupPcs
    <3> QED
      BY <1>s, <3>1, <3>2
  <2>3. CASE ReportListFailure \/ ReportCleaned
    <3>1. StillToDo(c) => StillToDo(c)'
      BY <2>3 DEF ReportListFailure, ReportCleaned, AfterCleanup, StillToDo, FanoutPcs,
         CleanupPcs
    <3> QED
      BY <1>s, <2>3, <3>1 DEF ReportListFailure, ReportCleaned
  <2>4. ASSUME NEW x \in Clusters, ImportCluster(x) \/ DeliverCA(x) \/ DeliverCR(x)
        PROVE  Removed(cur, c)' \/ addon'[c] = "live" \/ StillToDo(c)'
    <3>1. StillToDo(c) => StillToDo(c)'
      BY <2>4 DEF ImportCluster, DeliverCA, DeliverCR, StillToDo, FanoutPcs
    <3>2. c \in sel => StillToDo(c)'
      BY <2>4 DEF ImportCluster, DeliverCA, DeliverCR, StillToDo, FanoutPcs
    <3> QED
      BY <1>l, <2>4, <3>1, <3>2, RemovedStays DEF ImportCluster, DeliverCA, DeliverCR
  <2>5. ASSUME NEW x \in Clusters, DeleteAddon(x)
        PROVE  Removed(cur, c)' \/ addon'[c] = "live" \/ StillToDo(c)'
    <3>1. x = c => StillToDo(c)'
      BY <1>f, <2>5 DEF DeleteAddon, StillToDo
    <3>2. x # c => addon'[c] = addon[c]
      BY <1>0, <2>5 DEF DeleteAddon, TypeOK
    <3>3. StillToDo(c) => StillToDo(c)'
      BY <2>5 DEF DeleteAddon, StillToDo, FanoutPcs, CleanupPcs
    <3>4. Removed(cur, c) => Removed(cur, c)'
      BY <2>5, RemovedStays DEF DeleteAddon
    <3> QED
      BY <1>l, <3>1, <3>2, <3>3, <3>4
  <2>6. CASE DeleteCAWork \/ DeleteCRWork
    BY <1>s, <2>6 DEF DeleteCAWork, DeleteCRWork, StillToDo, FanoutPcs, CleanupPcs
  <2>7. CASE DeleteSecret
    <3>1. c \in target => Removed(cur, c)'
      BY <1>f, <2>7, TargetRemoved
    <3>2. c \notin target => (StillToDo(c) => StillToDo(c)')
      BY <2>7 DEF DeleteSecret, StillToDo, FanoutPcs, CleanupPcs
    <3> QED
      BY <1>s, <2>7, <3>1, <3>2 DEF DeleteSecret
  <2>8. ASSUME NEW x \in Clusters, EnsureConfig(x)
        PROVE  Removed(cur, c)' \/ addon'[c] = "live" \/ StillToDo(c)'
    <3>1. StillToDo(c) => StillToDo(c)'
      BY <1>f, <2>8 DEF EnsureConfig, Fails, StillToDo
    <3> QED
      BY <1>s, <2>8, <3>1 DEF EnsureConfig
  <2>9. CASE EnsureAddon
    <3>1. PICK x \in Clusters : target = {x}
      BY <2>9 DEF EnsureAddon, LoopInv
    <3>2. addon' = [addon EXCEPT ![x] = Ensured(@)]
      BY <1>f, <2>9, <3>1 DEF EnsureAddon, Fails
    <3>3. addon[x] # "deleting"
      BY <1>f, <2>9, <3>1 DEF EnsureAddon, CleanupInv, KeptInv, FanoutPcs
    <3>4. c = x => addon'[c] = "live"
      BY <1>0, <3>2, <3>3 DEF Ensured, Presence, TypeOK
    <3>5. c # x => addon'[c] = addon[c] /\ (StillToDo(c) => StillToDo(c)')
      BY <1>0, <2>9, <3>1, <3>2 DEF EnsureAddon, StillToDo, TypeOK
    <3>6. c # x /\ Removed(cur, c) => Removed(cur, c)'
      BY <1>0, <2>9, <3>5 DEF EnsureAddon, Removed
    <3> QED
      BY <1>l, <3>4, <3>5, <3>6
  <2> QED
    BY <1>3, <2>1, <2>2, <2>3, <2>4, <2>5, <2>6, <2>7, <2>8, <2>9 DEF Work
<1> QED
  BY <1>1, <1>2, <1>3 DEF Next

\* What cleanup has been through, it has removed; when it is over, and at rest, nothing is
\* left but on selected clusters.
CleaningInv ==
    faults = 0 /\ pc \in CleanupPcs =>
        \A c \in Clusters \ sel : c \in todo \cup target \/ Removed(cur, c)
EndInv ==
    faults = 0 /\ Undisturbed /\ pc \in {"config", "addon", "done"} =>
        \A c \in Clusters \ sel : Removed(cur, c)
RestedInv ==
    faults = 0 /\ pc = "idle" /\ cur \in present \ queue =>
        \A c \in Clusters \ decisions[cur] : Removed(cur, c)

LEMMA CleaningStep ==
    ASSUME Sole, TypeOK, CleanupInv, CleanedInv, LoopInv, LeftInv, CleaningInv, [Next]_vars
    PROVE  CleaningInv'
<1> SUFFICES ASSUME faults' = 0, pc' \in CleanupPcs, NEW c \in Clusters \ sel'
             PROVE  c \in todo' \cup target' \/ Removed(cur, c)'
  BY CurStays DEF CleaningInv
<1> USE DEF wishes, products, frame
<1>f. faults = 0 /\ \A kind : ~Fault(kind)
  BY FaultsStay
<1>s. CASE /\ UNCHANGED sel /\ pc \in CleanupPcs
           /\ todo \cup target \subseteq todo' \cup target'
  BY <1>f, <1>s, RemovedStays DEF CleaningInv
<1>1. CASE Environment \/ Finalize \/ UNCHANGED vars
  <2>1. ~Crash
    BY <1>f DEF Crash
  <2> QED
    BY <1>1, <1>s, <2>1 DEF Environment, Reschedule, EditCustomCR, DeleteGitOpsCluster,
       CreateGitOpsCluster, Finalize, AddonFinalized, CAWorkFinalized, CRWorkFinalized, vars
<1>2. CASE Work
  <2>1. CASE ListAddons
    <3>1. todo' = Strangers /\ c \notin sel
      BY <1>f, <2>1 DEF ListAddons
    <3>2. CASE addon[c] # "absent"
      BY <3>1, <3>2 DEF Strangers
    <3>3. CASE addon[c] = "absent"
      <4>1. Removed(cur, c)
        BY <1>f, <2>1, <3>1, <3>3 DEF ListAddons, LeftInv, StillToDo
      <4> QED
        BY <3>1, <4>1, RemovedStays
    <3> QED
      BY <3>2, <3>3
  <2>2. ASSUME NEW x \in Clusters, DeleteAddon(x)
        PROVE  c \in todo' \cup target' \/ Removed(cur, c)'
    <3>1. todo \cup target \subseteq todo' \cup target'
      BY <1>f, <2>2 DEF DeleteAddon, CleanupInv
    <3> QED
      BY <1>s, <2>2, <3>1 DEF DeleteAddon, CleanupPcs
  <2>3. CASE DeleteCAWork \/ DeleteCRWork
    BY <1>f, <1>s, <2>3 DEF DeleteCAWork, DeleteCRWork, CleanupPcs
  <2>4. CASE DeleteSecret
    <3>1. c \notin sel /\ todo' = todo /\ pc \in CleanupPcs
      BY <2>4 DEF DeleteSecret, CleanupPcs
    <3> QED
      BY <1>f, <2>4, <3>1, TargetRemoved, RemovedStays DEF CleaningInv
  <2>5. CASE ~(ListAddons \/ (\E x \in Clusters : DeleteAddon(x)) \/ DeleteCAWork
               \/ DeleteCRWork \/ DeleteSecret)
    <3>1. pc' \notin CleanupPcs \/ \E g \in GitOpsClusters : DequeueDeleted(g)
      BY <1>2, <2>5
      DEF Work, Dequeue, ImportCluster, DeliverCA, DeliverCR, EnsureConfig,
          InitializeConditions, Prepare, EarlyFailure, ReportEarlyFailure, SelectClusters,
          ReportSelected, ReportImported, ReportCADelivered, RejectCustomCR,
          ReportCRDelivered, ReportListFailure, ReportCleaned, EnsureAddon, ReportAddons,
          Return, Forget, AfterCAWork, AfterCleanup, CleanupPcs
    <3> QED
      BY <3>1 DEF DequeueDeleted, CleanupPcs
  <2> QED
    BY <2>1, <2>2, <2>3, <2>4, <2>5
<1> QED
  BY <1>1, <1>2 DEF Next

LEMMA EndStep ==
    ASSUME Sole, TypeOK, CleanupInv, FinalInv, LoopInv, CleaningInv, EndInv, [Next]_vars
    PROVE  EndInv'
<1> SUFFICES ASSUME faults' = 0, Undisturbed', pc' \in {"config", "addon", "done"},
                    NEW c \in Clusters \ sel'
             PROVE  Removed(cur, c)'
  BY CurStays DEF EndInv
<1> USE DEF wishes, products, frame
<1>0. cur' = cur /\ cur \in GitOpsClusters /\ \A g \in GitOpsClusters : g = cur
  BY CurStays
<1>f. faults = 0 /\ \A kind : ~Fault(kind)
  BY FaultsStay
<1>s. CASE /\ UNCHANGED sel /\ pc \in {"config", "addon", "done"}
           /\ cur \notin queue
  BY <1>f, <1>s, RemovedStays DEF EndInv, Undisturbed
<1>1. CASE Environment \/ Finalize \/ UNCHANGED vars
  <2>1. ~Crash
    BY <1>f DEF Crash
  <2> QED
    BY <1>0, <1>1, <1>s, <2>1 DEF Environment, Reschedule, EditCustomCR, DeleteGitOpsCluster,
       CreateGitOpsCluster, Finalize, AddonFinalized, CAWorkFinalized, CRWorkFinalized, vars,
       Undisturbed
<1>2. CASE Work
  <2>w. \A new, requeue : WriteStatus(new, requeue) => queue \cup requeue \subseteq queue'
    BY DEF WriteStatus
  <2>1. CASE ReportCleaned
    <3>1. Removed(cur, c)
      BY <1>f, <2>1 DEF ReportCleaned, CleaningInv, CleanupPcs, CleanupInv
    <3> QED
      BY <2>1, <3>1, RemovedStays DEF ReportCleaned
  <2>2. CASE ReportListFailure \/ RejectCustomCR
    BY <1>f, <2>2 DEF ReportListFailure, RejectCustomCR, LoopInv, FinalInv
  <2>3. CASE ReportEarlyFailure
    BY <1>0, <2>3, <2>w DEF ReportEarlyFailure, Undisturbed
  <2>4. CASE EnsureAddon \/ \E x \in Clusters : EnsureConfig(x)
    BY <1>0, <1>f, <1>s, <2>4 DEF EnsureAddon, EnsureConfig, Succeeds, Fails, Undisturbed
  <2>5. CASE ReportAddons
    BY <1>0, <1>s, <2>5, <2>w DEF ReportAddons, Undisturbed
  <2>6. CASE ~(ReportCleaned \/ ReportListFailure \/ RejectCustomCR \/ ReportEarlyFailure
               \/ EnsureAddon \/ (\E x \in Clusters : EnsureConfig(x)) \/ ReportAddons)
    <3>1. pc' \notin {"config", "addon", "done"}
      BY <1>2, <2>6
      DEF Work, Dequeue, DequeueDeleted, ImportCluster, DeliverCA, DeliverCR, DeleteAddon,
          InitializeConditions, Prepare, EarlyFailure, SelectClusters, ReportSelected,
          ReportImported, ReportCADelivered, ReportCRDelivered, ListAddons, DeleteCAWork,
          DeleteCRWork, DeleteSecret, Return, Forget, AfterCAWork
    <3> QED
      BY <3>1
  <2> QED
    BY <2>1, <2>2, <2>3, <2>4, <2>5, <2>6
<1> QED
  BY <1>1, <1>2 DEF Next

LEMMA RestedStep ==
    ASSUME Sole, TypeOK, CleanupInv, Unfailing, LoopInv, EndInv, RestedInv, [Next]_vars
    PROVE  RestedInv'
<1> SUFFICES ASSUME faults' = 0, pc' = "idle", cur' \in present' \ queue',
                    NEW c \in Clusters \ decisions'[cur']
             PROVE  Removed(cur, c)'
  BY DEF RestedInv
<1> USE DEF wishes, products, frame
<1>0. cur' = cur /\ cur \in GitOpsClusters /\ \A g \in GitOpsClusters : g = cur
  BY CurStays
<1>f. faults = 0
  BY FaultsStay
<1>1. CASE Environment
  <2>1. cur \in queue'
    BY <1>0, <1>1 DEF Environment, Reschedule, EditCustomCR, DeleteGitOpsCluster,
       CreateGitOpsCluster, Crash, Forget, TypeOK
  <2> QED
    BY <1>0, <2>1
<1>2. CASE Finalize \/ UNCHANGED vars
  <2>1. /\ UNCHANGED <<present, decisions, queue, pc, faults>>
    BY <1>2 DEF Finalize, AddonFinalized, CAWorkFinalized, CRWorkFinalized, vars
  <2> QED
    BY <1>0, <1>f, <2>1, RemovedStays DEF RestedInv
<1>3. CASE Work
  <2>1. CASE Return
    <3>1. Undisturbed /\ sel = decisions[cur] /\ pc = "done"
      BY <1>0, <1>f, <2>1 DEF Return, Unfailing, AsRead, Undisturbed, Chosen, Labels
    <3>2. Removed(cur, c)
      BY <1>0, <1>f, <2>1, <3>1 DEF Return, EndInv
    <3> QED
      BY <2>1, <3>2, RemovedStays DEF Return
  <2>2. CASE ~Return
    <3>1. pc' # "idle" \/ \E g \in GitOpsClusters : DequeueDeleted(g)
      BY <1>3, <2>2
      DEF Work, Dequeue, ImportCluster, DeliverCA, DeliverCR, DeleteAddon,
          EnsureConfig, InitializeConditions, Prepare, EarlyFailure, ReportEarlyFailure,
          SelectClusters, ReportSelected, ReportImported, ReportCADelivered, RejectCustomCR,
          ReportCRDelivered, ListAddons, ReportListFailure, DeleteCAWork, DeleteCRWork,
          DeleteSecret, ReportCleaned, EnsureAddon, ReportAddons, AfterCAWork, AfterCleanup
    <3> QED
      BY <1>0, <3>1 DEF DequeueDeleted
  <2> QED
    BY <2>1, <2>2
<1> QED
  BY <1>1, <1>2, <1>3 DEF Next

\* With one GitOpsCluster whose placement takes no cluster back and whose custom CR nobody
\* edits: at rest, and unless something failed, nothing made for a cluster survives its
\* leaving the placement, at whatever call of the fan-out it left
\* (gitopscluster_controller.go:402-472).
THEOREM RestLeavesNothing == Sole /\ Final => (Spec => []RemovedAtRest)
<1> SUFFICES ASSUME Sole, Final PROVE Spec => []RemovedAtRest
  OBVIOUS
<1> DEFINE Inv == SelectionInv /\ CleanedInv /\ Unfailing /\ FinalInv /\ LoopInv /\ KeptInv
                  /\ LeftInv /\ CleaningInv /\ EndInv /\ RestedInv
<1>1. Init => Inv
  <2> SUFFICES ASSUME Init PROVE Inv
    OBVIOUS
  <2>1. SelectionInv /\ Unfailing /\ FinalInv /\ LoopInv
    BY NobodyTyped DEF Init, SelectionInv, Unfailing, AsRead, Undisturbed, DeletingInv,
       CleanupPcs, FinalInv, LoopInv
  <2>2. \A c \in Clusters : Removed(cur, c)
    BY NobodyTyped, FanoutAssumption DEF Init, Removed
  <2>3. CleanedInv /\ KeptInv /\ LeftInv /\ CleaningInv /\ EndInv /\ RestedInv
    BY <2>2 DEF Init, CleanedInv, CleanedMeansRemoved, KeptInv, LeftInv, CleaningInv, EndInv,
       RestedInv, FanoutPcs, CleanupPcs
  <2> QED
    BY <2>1, <2>3
<1>2. TypeOK /\ CleanupInv /\ Inv /\ [Next]_vars => Inv'
  <2> SUFFICES ASSUME TypeOK, CleanupInv, Inv, [Next]_vars PROVE Inv'
    OBVIOUS
  <2>1. SelectionInv' /\ CleanedInv' /\ FinalInv' /\ LoopInv'
    BY SelectionStep, CleanedStep, FinalStep, LoopStep
  <2>2. Unfailing'
    BY FaultsStay, AsReadStep, DeletingStep DEF Unfailing, Noticed, Whole
  <2>3. KeptInv' /\ LeftInv' /\ CleaningInv' /\ EndInv' /\ RestedInv'
    BY KeptStep, LeftStep, CleaningStep, EndStep, RestedStep
  <2> QED
    BY <2>1, <2>2, <2>3
<1>3. TypeOK /\ Inv => RemovedAtRest
  BY DEF Sole, TypeOK, RestedInv, RemovedAtRest
<1> HIDE DEF Inv
<1> QED
  BY <1>1, <1>2, <1>3, TypeCorrect, CleanupCorrect, PTL DEF Spec
=============================================================================
