# argocd-pull-integration in TLA+

This directory holds TLA+ specifications of the controllers of
argocd-pull-integration, the configurations with which TLC checks them on small
instances, and proofs, checked by TLAPS, that the safety properties that matter
most hold for every value of the constants.

Paths below are relative to the repository; `TLA` modules are in this directory.

1. [The system](#1-the-system)
2. [The modules](#2-the-modules)
3. [The runs](#3-the-runs)
4. [The proofs](#4-the-proofs)
5. [What the checks found](#5-what-the-checks-found)
6. [Abstractions](#6-abstractions)
7. [The plan](#7-the-plan)
8. [Running it](#8-running-it)

## 1. The system

The repository is one Go binary (`cmd/main.go`) with four modes: the hub controller,
the addon controller on a managed cluster, its cleanup job, and the older "basic
pull" controllers.  They never talk to each other directly: all they share are objects
in the API servers of the hub and of the managed clusters, read through informer
caches and written with optimistic concurrency.

### 1.1 Components

| Component | State it keeps | Operations | Hard behaviour |
|---|---|---|---|
| **GitOpsCluster controller** `internal/controller/gitopscluster_controller.go` | conditions of the GitOpsCluster | `Reconcile` = steps 0–11: RBAC, discovery, JWT, CA, certificates, template, placement; import of clusters (8), CA work (9), CR work (9.5), cleanup of removed clusters (10), addon config and addon (11) | one worker and many calls; steps 8–11 log their errors and return none; retried through the event of its own status write; cleanup looks at addons of *all* GitOpsClusters |
| **Cluster secrets** `argocd_agent_clusters.go` | one Argo CD secret and one client certificate per cluster and namespace | issue or renew the certificate, create or update the secret with it and the CA, delete | the signer may be rotated or about to end; certificate and CA are read back from a cache that lags |
| **CA and CR ManifestWorks** `manifest_work_management.go`, `argocd_cr_manifest_work.go` | one per cluster, one per GitOpsCluster and cluster | create or update, delete; validation of a custom CR | deleted after the addon that leads cleanup to them |
| **Addon, config, template** `addon_management.go`, `addon_template_management.go` | ManagedClusterAddOn, AddOnDeploymentConfig per cluster, AddOnTemplate per GitOpsCluster | create if absent, merge of variables, list of config references; the template is overwritten | an addon that is being deleted counts as existing; users edit the config too; the template must follow the version of the controller |
| **Hub certificates** `argocd_agent_certificates.go` | CA, principal and resource-proxy secrets | issue, rotate, restart the principal | whoever loads the CA may rotate it; the restart depends on a change seen within one reconcile; all GitOpsClusters of a namespace share one certificate |
| **RBAC, JWT** `rbac_management.go`, `secret_management.go` | roles and the JWT key | create if absent | their order before any delivery |
| **Server discovery** `server_discovery.go` | the address in the spec | reads Service and nodes, writes the whole GitOpsCluster back; reads the image of the principal | users edit the spec meanwhile; nobody watches the Service |
| **Addon controller** `internal/addon/addon_controller.go`, `addon_install.go`, `addon_utils.go` | the objects of the operator chart on the managed cluster | every interval: pause check, CRDs, namespaces, chart, client certificate | looks at the pause marker once and then applies for a long time |
| **Cleanup job** `addon_cleanup.go` | pause marker, error list | marker, delete ArgoCD CR and wait, delete the operator, verify | races with the controller, with the work agent and with the operator's finalizer |
| **Agent certificate** `addon_install.go` | copied secret, digest on the agent's Deployment | copy, compare, patch | renewed, or deployed anew, between any two calls |
| **Application controller** `internal/basic/application/application_controller.go`, `helper.go` | ManifestWork of an Application; finalizer | wrap, delete, hand an operation over | events filtered by label; work and Application written in two calls |
| **Status controller** `application_status_controller.go` | status of the Application | health, through Progressing, with retry on conflict | two Updates; the retry sends the same stale object |
| **ManifestWork cleanup controller** `manifestwork_cleanup_controller.go` | none | periodic sweep of orphaned works | look-up and deletion are apart |
| **Cluster controller** `cluster_controller.go` | secret per ManagedCluster | create, delete | level-triggered, one object |
| **Modes** `cmd/main.go`, **API**, **charts**, **manifests** | data | | restarts: informers list everything anew |

### 1.2 How they interact

```
   users, OCM placement                              OCM addon framework
        |  GitOpsCluster, PlacementDecision                |  runs the cleanup job before
        v                                                  v  it withdraws the controller
  GitOpsCluster controller --- ManagedClusterAddOn --> addon controller <--marker--> cleanup job
        |  secrets, config, ManifestWorks                  |  operator chart              |
        +-------------------> work agent ---- ArgoCD CR -- Argo CD operator <--------------+
        |                                                  |
        +-- certificates --> principal                     +-- certificate copy --> agent

  basic pull:  Application <--> application controller --> ManifestWork --> work agent
                    ^                                           |  ^
                    +--------------- status controller <--------+  |
                                                 cleanup controller (periodic sweep)
```

### 1.3 What makes each part correct

* GitOpsCluster controller: every selected cluster ends up with what it needs, every
  dropped one without; a reconcile never deletes what it has itself made; a condition
  does not claim what did not happen; an addon is never without the configuration its
  finalizer needs; the self-made events die out.
* Addon controller and cleanup job: the CR goes before the operator whose finalizer it
  carries, what has been removed stays away, a new delivery is installed.
* Hub trust: no certificate outlives its signer, no party holds an expired one as long as
  reconciles go well, and after any rotation all end up with certificates of one CA.
* Settings: what users set stays, what is delivered follows it in the end, and nothing is
  delivered before what it needs is there.
* Certificates of workloads: the workload runs what was issued last, and is not restarted
  without need.
* Basic pull: the work of an Application that is alive is never deleted, the finalizer
  outlasts the work, an operation is not lost, Healthy comes out of Progressing, works
  and status follow, orphans go.

The places where this can go wrong, with their lines, are the `hazards` of
`PROJECT.json`.

## 2. The modules

| Module | Models | Composes / extends |
|---|---|---|
| `GitOpsFanout` | the GitOpsCluster controller, call by call, with its queue, users, placement, finalizers, crash | implements the hub's part of `AddonLifecycle`, for each GitOpsCluster and cluster |
| `SpokeAddon` | addon controller and cleanup job on one managed cluster, with framework, work agent and operator | implements `AddonLifecycle` |
| `AddonLifecycle` | abstract: what hub and managed cluster promise each other about an addon and its CR work | `GitOpsFanout` and `SpokeAddon` both implement it |
| `HubTrust` | CA, serving and client certificates, cluster secrets and CA works over time, with rotation, caches, lapses | |
| `AgentSettings` | the settings of GitOpsClusters on their way to a managed cluster: steps 0–2, 4, 6, 7, 9, 9.5, 11 | |
| `CertRollout` | abstract: certificates are issued, the workload ends up with the last one | |
| `CertConsumer` | a Deployment whose pods read a secret when they start (external) | used by the next two |
| `AgentCert` | copy and digest of the agent's certificate | extends `CertConsumer`, implements `CertRollout` |
| `PrincipalCert` | renewal and restart of the principal | extends `CertConsumer`; implements the safety half of `CertRollout` |
| `BasicPull` | the three workers of the basic pull mode around one Application, with users, work agents, crash | |
| `MC*` | the same for TLC (definitions that a configuration file cannot express) | extend the above |
| `*Proofs` | theorems | extend the above and `TLAPS` |

`PROJECT.json` ("map") names the source lines of every definition.  In short:

**GitOpsFanout.**  `pc` is the place of the one worker in `Reconcile`; the labels
are the calls to the API server.  `sel`, `todo`, `failed`, `target` are the slice of
clusters, what is left of the loop under way, the names collected for the condition and
the cluster whose loop body is under way.  `mem` is the GitOpsCluster object in the
worker's hands; `stale` says that its resourceVersion is no longer that of the stored
one, so that `Status().Update` conflicts, which `setCondition` logs.  `queue` is the
controller-runtime queue (a set; a key taken again while it is being worked on waits).
`WriteStatus` adds the key to the queue when the stored status changes: the watch has no
predicate.  `addon`, `caWork` and `crWork` go through "deleting", since others hold
finalizers on them.  `dropped` is history.

**SpokeAddon.**  `ctl` and `chart` are the addon controller's reconcile and the
manifests it still has to apply; `job`, `doomed`, `rounds` and `flawed` the job's step,
its list of deletions, the rounds of step 3, and `len(errors) > 0`.  `marker` is the
pause ConfigMap.  `phase` is the hub's addon: the framework starts the job when it is
"removing" and takes the controller away when the job has succeeded.

**AddonLifecycle.**  Hub and managed cluster share a ManagedClusterAddOn and a ManifestWork, each
absent, live or being deleted.  No deletion is taken back, and each comes to an end.
`GitOpsFanout` and `SpokeAddon` are each checked against it, with the other side as an
environment: in `GitOpsFanout` the finalizers go in the end (`AddonFinalized`,
`CRWorkFinalized`, fair), in `SpokeAddon` the hub deletes and makes as it likes (`Remove`,
`Redeploy`).  What one side assumes is what `KeepsLifecycle` shows of the other: the fairness of
the hub's finalizers is the `Ends` half of the managed cluster's `KeepsLifecycle`, and the hub that
`SpokeAddon` faces is as free as the safety half of the hub's allows, but for one thing:
`Remove` deletes the addon and the CR work in one step.

**HubTrust.**  A certificate is its signer, its beginning and its end; a CA has a serial number.
`pc`, `for`, `todo` are the place in the reconcile and in its loops; `signer` is the key pair
`loadCACertificate` has returned, `held` the cluster secret as read, `term` and `asked` the
validity `clusterClientCertificateTargetValidity` has worked out and when.  `seenCA`,
`seenClient`, `seenEntry` are the manager's cache, which `verifyCACertificateExists`,
`buildArgoCDClusterSecretData` and `getArgoCDAgentCACertString` read; certrotation writes
through a client of its own, and lists anew each time.  `EnsureSigner` is at every place that
loads the CA, so each of them may rotate it.  `clean`, `rounds` and `late` are history: whether
two reconciles went well since the clock last moved; `kept`, whether the CA was deleted since.

**AgentSettings.**  `mem` is the spec as the reconcile has read it; each step writes one of
`ready`, `spec`, `san`, `template`, `tolerant`, `caWork`, `crWork`, `config`, `refs` from it.
Errors up to step 6 return and queue the key again (`Breaks`); later ones are logged
(`Skips`), named in a condition, and only a status that differs from `told` is an event.
`Upgrade` is a new controller, `BumpImage` and `Annotate` a Helm upgrade of the principal.

**AgentCert, PrincipalCert.**  Certificates are numbered revisions.  The agent's digest
annotation is `stamp`; the principal has no such record, only the read `before` the
renewal and the one after it.  `CertConsumer` says what the workload does with either.

**BasicPull.**  `app` is the Application of one namespace and name (with its uid) or
`NoApp`; `works` the ManifestWorks with its annotations.  `ctl`, `read`, `doomed` are the
application controller; `stat`, `source`, `copy` the status controller; `sweep`, `listed`
the cleanup controller.  An Update is refused if the stored object differs from the one
read.  The event filter of the application controller is `Heard`.

## 3. The runs

| Run | Question | Instance | Distinct states |
|---|---|---|---|
| `fanout_safety` | what may one reconcile never do, whatever fails? | 1 GitOpsCluster, 2 clusters (1 local), all fault kinds, 1 fault, 2 edits | 808 737 |
| `fanout_two` | do two GitOpsClusters come to rest, what do their cleanups remove, and do they keep the contract of the addon? | 2 GitOpsClusters on 1 cluster, 2 edits, no fault | 117 216 |
| `fanout_converges` | is each selected cluster served or named when the controller rests, is a dropped one clean then, and are all served and clean in the end? | 1 GitOpsCluster, 2 clusters (1 local), 3 edits, 2 faults, clusters do not return | 1 548 258 |
| `fanout_foreign_addon` (violation) | does cleanup remove only what its placement dropped? | 2 GitOpsClusters, 2 clusters, no edit | 1 102 |
| `spoke_removal` | does removal leave nothing behind and never hang, and is the contract with the hub kept? | chart of 2 objects, one of them possibly a user's, 3 faults, 2 deliveries, step 3 on or off | 18 970 |
| `spoke_reinstall` (violation) | is a second delivery installed? | 2 deliveries, no fault | 354 |
| `agent_rollout` | does the agent run what OCM issued? | 3 revisions, 2 Deployments, 3 faults | 2 962 |
| `principal_rollout` | is the principal restarted once, and current without faults whenever the controller rests? | 3 revisions, 2 Deployments, 3 faults | 5 004 |
| `principal_missed` (violation) | is a failed restart retried? | 3 revisions, 1 Deployment, 1 failed patch | 442 |
| `pull_follows` | do works, status and orphans follow the Application, and is the work right whenever the controller rests? | 2 clusters, 2 incarnations, 2 edits of five kinds, 1 report, 1 fault | 794 373 |
| `hub_trust` | do certificates end in time, and do all end up with one CA, after two good reconciles at the latest? | 1 cluster, CA and certificates of a few units of time, clock to its bound, 1 fault | 221 416 |
| `agent_settings` | do settings arrive, wait for what they need, leave users' own alone, and does a reconcile that ends say what is missing? | 2 GitOpsClusters on 1 cluster, 2 addresses, 2 versions, 2 edits, 1 fault | 1 134 726 |

The properties of a run are described where they are defined.  Why these bounds:

* *Two clusters* are needed for a loop in which one cluster fails and the next does not,
  and for a cluster that is dropped while another stays; a third repeats the second.  One
  of them is local in the safety run, so that the branch without ManifestWorks is there.
* *One fault* at any call separates a failure from its consequences; a property that
  excuses faults says so (`faults = 0`, `faults <= 1`).  Three faults on the managed cluster let the job
  fail, be retried and fail otherwise.
* *Two edits* drop a cluster and take it back, or make a custom CR invalid and valid;
  *three* in the converging run let both clusters be dropped in different reconciles.
* *Two incarnations, two edits* of an Application: deleted while labelled or after the
  label has gone, moved, given an operation while its spec changes, and made anew.
* `hub_trust`: the CA's life is a multiple of the certificates' and longer than what is left of
  them in their last fifth, as with a year and thirty days; the clock runs long enough for
  the CA to be renewed and everything with it.  One fault is a lapse of any length, a
  deleted CA, a failed call or a crash; two faults (3.2 million states), or a second, local
  cluster (2.6 million), pass as well and take minutes.
* `fanout_converges`: with two faults a step may fail twice in the same way, which `SelectedAreServed`
  excuses (`faults <= 1`, section 5): what is left is that the status says so.
  Reads of a cluster and writes of the status do not fail there.  `ServedOrTold` passes as well
  with custom CRs, failed deletions and clusters that return (3.1 million states).
* `pull_follows`: one report of a work in all; with two, on one cluster, `StatusFollows` passes as
  well (1.2 million states).
* `agent_settings`: two edits are a change and its way back, or one by each of two users, between
  any two steps; two GitOpsClusters that share the certificate, the config and the addon.
* Both workload certificates need *three revisions* for "renewed while the last renewal is under way".
* The safety properties of section 4, which are proved, do not depend on any bound.

`CHECK_DEADLOCK FALSE` stands in the configurations of `GitOpsFanout`, `SpokeAddon`,
`AgentSettings` and the workload certificates: there everything is quiet when users make no more edits.  `BasicPull` and
`HubTrust` are checked for deadlock; the sweep of the one and the resync of the other never end.

Runs marked "violation" check one sentence of the repository that the code does not
keep; see section 5.

### 3.1 Fairness

* `GitOpsFanout`: weak fairness of the worker (`Work`), since controller-runtime's worker
  goroutine runs while its queue is not empty, and of the owners of finalizers, without
  whom nothing deleted ever goes.  None for users, placements, crashes, or for the order
  of the queue: one `WF` covers all keys.
* `SpokeAddon`: the controller's timer (`Control`), the job's pod (`Job`), the framework
  that starts jobs and withdraws the addon, the work agent and the operator.  None for the
  hub's decisions, and none that a fault stays away.
* `HubTrust`: the worker, which the informers' resync starts again and again, and the watches
  that bring the cache up to date.  The clock may stand still: nothing in `Agreement` waits for
  it.
* `AgentSettings`: the worker while its queue is not empty, the watch, and strong fairness for each
  GitOpsCluster's turn: the queue is first in, first out, and a failed key comes back after a
  delay, so that one that fails over and over (no address is found) does not starve the other.
  Nothing about users, Helm (`Annotate` may never come) or the Service.
* Workload certificates: the periodic reconcile, the operator that makes the Deployment, and
  rollouts that have begun.  A pod's restart without a rollout may happen and need not.
  `principal_missed` fails under exactly this fairness.
* `BasicPull`: one `WF` for each of the three workers.  Nothing about users, agents, or
  which of several queued works is served next.  The cleanup controller has a ticker; its
  `Tick` is part of its worker.

Bounds on faults make the environment eventually kind.  That is what "in the end"
means here: after the last fault and the last edit.

## 4. The proofs

The theorems hold for all sets of clusters and of GitOpsClusters and for all
bounds, under the named assumptions of each module (`FanoutAssumption`,
`SpokeAssumption`, `TrustAssumption`, `SettingsAssumption`, `AgentCertAssumption`,
`PrincipalCertAssumption`, `PullAssumption`: that bounds are
natural numbers, sets are finite where they are counted, and so on).  They are about
`Spec`, without fairness.

| Module | Theorem | States |
|---|---|---|
| `GitOpsFanoutProofs` | `TypeCorrect` | types |
| | `AddonKeepsConfig` | `AddonHasConfig` |
| | `CleanupSparesSelected` | `CleanupSparesSelection` |
| | `CleanedIsRemoved` | `CleanedMeansRemoved` |
| | `ImportedIsImported` | `ImportedMeansImported` |
| | `HubKeepsLifecycle` | `SafeLifecycle`: the hub's part of `AddonLifecycle` |
| | `SoleRemovesOnlyDropped` | `OnlyDroppedClustersAreRemoved`, if there is one GitOpsCluster (`Sole`) |
| `GitOpsRestProofs` | `RestServesOrTells` | `ServedOrTold`, if `Sole` and `Heard` |
| | `RestLeavesNothing` | `RemovedAtRest`, if `Sole` and `Final` |
| `SpokeAddonProofs` | `TypeCorrect`, `GoneForGood` | types, `GoneStaysGone` |
| | `OperatorStaysForCR` | `OperatorOutlivesCR`, if `CRStaysAway` |
| | `SpokeKeepsLifecycle` | the safety half of `AddonLifecycle`, if `CRStaysAway` |
| `HubTrustProofs` | `TypeCorrect`, `CertificatesEndInTime` | types, `SignerOutlivesClient` |
| | `EntriesStayValid` | `EntryUnexpired`, if `Durable` |
| | `TwoRoundsSuffice` | `TwoRoundsAgree` |
| `AgentSettingsProofs` | `TypeCorrect`, `DeliveryWaits`, `UserSettingsKept` | types, `DeliveredWhenReady`, `UserSettingsStay` |
| | `RestFollowsOrTells` | `FollowedOrTold` |
| `AgentCertProofs` | `TypeCorrect`, `StampTellsTheTruth`, `AgentRollsForward` | types, `StampIsLoaded`, `RollsForward` |
| | `AgentKeepsContract` | every step is one of `CertRollout` or a stutter |
| `PrincipalCertProofs` | `TypeCorrect`, `PrincipalRestartsOnce` | types, `RestartsOnce` |
| | `PrincipalCurrentAtRest` | `CurrentAtRest` |
| | `PrincipalKeepsContract` | every step is one of `CertRollout` or a stutter |
| `BasicPullProofs` | `TypeCorrect` | types |
| | `LiveWorksSafe` | `LiveWorksStay` |
| | `FinalizerSafe` | `FinalizerHolds` |
| | `OperationSafe` | `OperationHandedOver` |
| | `ProgressingSafe` | `ProgressingFirst` |
| | `PullRests` | `WorkAtRest` |

Each proof goes by an inductive invariant: `IInv`, at the end of the module it is about, and for
the theorems about rest and about two rounds one of the proof module, which was first
checked with TLC on an instance like that of the run.

*At rest.*  Five of the theorems (`RestServesOrTells`, `RestLeavesNothing`, `RestFollowsOrTells`,
`PullRests`, `PrincipalCurrentAtRest`) are the safety side of the liveness properties, which the
prover cannot reach: they say that whenever a controller has nothing to do, everything is
as it should be, or somebody has been told.  A lost event, an edit that falls between a read and
the end of the reconcile, or a failure that nobody records would be a state that refutes
them.  That controllers do come to rest is what the runs check (`Settles`, and the
liveness properties).  All but the last share one argument: whoever changes what a reconcile has read also
queues its key, so that a reconcile whose key is not queued acts on what is there.

*GitOpsFanout.*  That the cleanup and the fan-out of one reconcile work on different
clusters is not visible in a state: the conjunct `CleanupInv` says which side of `sel` the
loop variables are on at each `pc`, so that no change of the placement matters.
`ConfigInv` spans the two calls of step 11.  `CleanedInv` records how far the four
deletions of a cluster have come; it is inductive only because cleaned clusters are
outside `sel`, which is all that the later steps make objects for.  `ImportInv` follows a
cluster out of the import loop (imported, or remembered as failed) and, because status
writes send the whole in-memory status, says of a "True" in memory that has not been
stored that it is true of the secrets whenever it may still be stored.

`HubKeepsLifecycle` needs the types alone: its lemmas go through the actions that touch an addon
or a work and show each to be a move of `AddonLifecycle`.

`SoleRemovesOnlyDropped` is the other side of the run `fanout_foreign_addon`, which refutes
the property for two GitOpsClusters: with one it holds for any number of clusters, however the
placement moves between the calls.  `SelectionInv` (in the proof module, like `Sole`) says that
once a reconcile has read its selection, a cluster with an addon is in it or was let go.
`DeletionIsCleanup` shows that no other step deletes an addon.

`GitOpsRestProofs` has an invariant for each of its theorems.  For the first, `AsRead` says that
while the key is not queued the selection is that of the placement, and `ProgressInv` what a
selected cluster is owed at each label: it is still ahead in the loop, it has the object, or the
loop remembers it as failed; each report moves it from `failed` to the status.  `Heard` is
needed since a status that cannot be written, or a cluster that cannot be read, leaves no trace.
For the second, `LeftInv` says that a cluster has nothing, or an addon for cleanup to find it by,
or is still ahead of the reconcile under way, in its fan-out or its cleanup; it
needs that step 11 comes last and that without failures it is reached for every selected
cluster, which is what `Final` is for: clusters do not return, and no custom CR is rejected.
Both are about one GitOpsCluster (`Sole`), as its cleanup is only right then.

*SpokeAddon.*  `Undisturbed`: while a job that met no reconcile under way, and no failure, deletes,
the marker is there, nobody installs, and every object of the operator still there is on the
job's list.  `RoundLeft` bounds the rounds of step 3.  `CRSeenGone`: from the final check
on the CR is gone, which nothing but the work agent can change, and its work is gone while the
addon is not deployed.  That needs an assumption about faults, `CRStaysAway`: the wait for the CR
does not time out and its work does not stay in force.  Without it the theorem is false, as
section 5 says.

*HubTrust.*  A certificate's validity is worked out before it is made, and the clock moves in
between.  `TermFits` says that what has been worked out still fits into the signer's life when
it is used, which is what the skew of two seconds is for.

`EntriesStayValid` follows a certificate on its way into the cluster secret.  `RenewalInv` says of the
client certificate, of what the cache holds of it, and of the secret's entry how many good
reconciles since the last tick it takes until each outlasts the present unit of time (`ClientsLast`,
`SeenLast`, `EntriesLast`); `IssueInv` that a certificate is of a full term, with a last fifth in which it is
renewed in time, or ends with its signer, which is rotated before that.  `Durable` says when a
fifth is long enough: `TargetValidity >= 5`, and a fifth of the CA's life longer than the
skew.  TLC refutes the property with either bound one lower.

`TwoRoundsSuffice` is the safety side of `Agreement`: how long agreement takes.  `AgreeInv`
goes through the parties in the order of the reconcile: in the first good one the signer, the
serving and the client certificates come to be of the CA there is (`First`), by the second the
cache has seen them, and the entries and works follow (`Second`).  While the clock stands still there is no
other rotation, and a reconcile that fails afterwards changes nothing of it.  Only a deleted CA
does: `kept` says that there was none since the clock last moved.

*AgentSettings.*  `ReadyInv` says for each step what the steps before have left behind; it holds
across a change of the Service, an upgrade and the other GitOpsCluster since one worker runs
from the first step to the delivery.  `Discovery` says what a discovery may write:
that the spec is as it was read is the condition of the API server's Update.  `RestFollowsOrTells`
adds `CurInv` (the spec in hand is the one stored, or the key is queued) and `PassedInv` (each
step behind has left its object, or is in `skipped`), which `Return` hands to the status; what
two GitOpsClusters share is never taken back, and a new image makes every work wait for its
annotation.

*AgentCert.*  `Ordered` (no copy is ahead of what it was made from: `loaded` and `stamp` at
most `target`, `target` at most `source`) and `InHand` (what the reconcile has read, at each
of its steps, relative to both).  The contract's safety half follows, since `loaded`
only ever becomes `target`.

*PrincipalCert.*  `Ordered`, and that the revision read before a renewal is at most the one
in the secret, and not older than the one rolled out last.  `AnswerInv`: without failures the
renewal under way is the only one that has not been answered by a restart.

*BasicPull.*  All three workers act on what they read a while ago.  The invariant says that
what they rely on cannot be undone: uids are given out once, so that an incarnation that
is gone (`Gone`) or being deleted (`Doomed`) stays so.  `AppInv`: the Application, if there is
one, has the last uid, and deleted works belong to doomed incarnations.  `ControllerInv`:
what the application controller has listed is gone, what it releases is doomed and its
work is marked, and the work that was to get the operation has it.  It keeps it since
nobody else writes that field and an unmarked work does not disappear.  `CleanerInv`: what the
sweep found to be an orphan is of a gone incarnation; an Application made anew in between has
another uid and another work.  `StatusInv`: at the second Update the copy in hand is
Progressing if Healthy is to be written, and an Update takes effect only on that copy.
In the proof each action is shown to be an `AppStep` and a `WorkStep`, and a lemma for each
worker (`ControllerWaits`, `CleanerWaits`, `StatusWaits`) says that it loses nothing by such steps
of the others; so the interference of seven parties comes to one lemma per worker.  `PullRests` adds `RestInv`:
as long as the key is not queued, what the application controller has read is the Application
as it is, and once the controller has nothing more to do there is a work like it.

*Only model-checked:* everything about liveness (`Settles`, `SelectedAreServed`,
`DroppedAreClean`, `CRGone`, `InstalledAtFirst`, the fairness half of `KeepsContract`,
`Agreement`, `SettingsFollow`, `PrincipalCovers`, the `Ends` half of `KeepsLifecycle`, `WorkFollows`,
`OrphansGo`, `StatusFollows`), since liveness under fairness is out of the prover's reach.  Every
invariant and every action property of a passing run is stated by a theorem, some of them
under the hypotheses in the table; the types of every module are, whether a run checks them or not.

## 5. What the checks found

Runs that TLC refutes, against a text of the repository:

* `fanout_foreign_addon`: `cleanupRemovedClusters` (`gitopscluster_controller.go:409`) lists addons
  by a label all GitOpsClusters share, and so deletes the addons of the others.
* `spoke_reinstall`: the pause marker (`addon_cleanup.go:235`) is never removed, so that a second
  delivery stays paused.
* `principal_missed`: after a failed patch "the next resync" compares the new certificate with
  itself (`argocd_agent_certificates.go:199-220`).

Seen with other settings of the same modules, without a run of their own:

* Without `faults <= 1`, and with two "apply" failures, `SelectedAreServed` fails: when a step of 8–11
  fails twice in the same way, the second status write changes nothing, causes no event,
  and nothing retries until the informers' resync.
* With the faults "read" or "status" `ServedOrTold` fails: a ManagedCluster that cannot be read is
  left out without a word (`gitopscluster_controller.go:388`), and a status that cannot be written
  is only logged (`:598-607`), so that a failure before it is told to nobody.
* `RemovedAtRest` fails with `Returning = TRUE` or with custom CRs: cleanup finds clusters by their
  addon, and a cluster that got secret and works but never an addon (its reconcile ended at the
  rejected CR, or took an addon that was going for its own) keeps them when it is let go.
* A failed deletion in the middle of a cluster's cleanup is only logged
  (`gitopscluster_controller.go:437-467`); `RemovedClustersCleanedUp`, which "indicates that removed
  clusters have been cleaned up" (`api/v1alpha1/gitopscluster_types.go:123`), becomes True and the
  rest is never tried again.  Likewise after a crash between two deletions.
* With the fault "timeout" in `FaultKinds`, `OperatorOutlivesCR` fails: after two minutes the job
  deletes the operator although the CR is there (`addon_cleanup.go:113-117`; line 41 says
  "only deletes operator after ArgoCD CR is gone").
* `GoneStaysGone` without the condition `quiet` fails: a reconcile that looked at the marker before
  the job wrote it goes on applying the chart.  The job's third step would notice, and is
  off unless `CLEANUP_VERIFICATION_WAIT_SECONDS` is set (`addon_cleanup.go:382-392`).
* A moved Application leaves its work on the old cluster (`application_controller.go:172`), and
  removing the operation from the Application (`:251`) makes the controller write the work
  again without it, maybe before the agent has seen it.
* A deleted GitOpsCluster leaves everything it made (no finalizer).
* With `Returning = TRUE` in the converging run `SelectedAreServed` fails:
  `EnsureManagedClusterAddon` (`addon_management.go:50`) takes an addon that is being deleted for the
  wanted one, and nothing watches its end.  A cluster that returns before its cleanup has
  ended stays without addon, against `README.md:207` ("Deploys argocd-agent to all selected
  clusters via OCM addon framework").
* A work whose Application was deleted and made anew before the controller looked is nobody's
  orphan: sweep and purge look for the name of the Application and not for its uid
  (`manifestwork_cleanup_controller.go:106`).  The property "every work is of the present
  incarnation or being deleted, in the end" fails with two incarnations and one edit.
* `StatusFollows` is stated for works of the present Application alone.  The status controller finds
  the Application by the namespace and name in the work's annotations, without its uid
  (`application_status_controller.go:131-140`): the last report of a predecessor's work
  overwrites the health of an Application made anew, until its own work reports the next change.
* With `Unanimous` left out `PrincipalCovers` fails: each of two GitOpsClusters of one namespace that
  advertise different addresses makes the one principal certificate for its own address
  and restarts the principal (`argocd_agent_certificates.go:430-515`), although the certificate
  "MUST be valid for" the address it gives to its agents (`:489-490`).
* A user's address without a port is overwritten by what discovery finds
  (`server_discovery.go:49-66`), although line 42 says that it "populates server address and port
  if they are empty".  `UserSettingsStay` therefore speaks of addresses with their port.
* With `missed` left out `SettingsFollow` fails: a read of the principal's image that fails is
  taken for an unset image (`argocd_cr_manifest_work.go:193`), the agents are delivered without
  it, and nothing tries again until the informers' resync.
* The namespace in the CA's work and the one in the AddOnDeploymentConfig are those of the first
  reconcile; neither follows an `agentNamespace` that is changed later, while the CR's work does.
* A cluster secret may hold a new client certificate beside the old CA until the next
  reconcile: each is read from the cache on its own (`argocd_agent_clusters.go:207-243`).
  `Agreement` says that this does not last.
* `loadCACertificate` takes its ConfigMap lister from a factory that is never started
  (`argocd_agent_certificates.go:406-411`), so that the bundle it returns holds the CA in
  hand alone: after a rotation nothing signed by the old CA is taken for valid.

## 6. Abstractions

* Reads return what is stored.  The lag of informer caches appears as late events and
  as failures; a Get that answers from an older cache is modelled only where the code
  depends on it (`unseen` in `SpokeAddon`, the cache in `HubTrust`, `seen` in `AgentSettings`).
* `BasicPull` compares whole objects where Kubernetes compares resourceVersions: an object
  changed and changed back would pass.  The edits of the model change nothing back, save
  health, where it makes no difference which of two equal objects is replaced.
* `BasicPull` merges into one step: the Get of a work and its write (a conflict in
  between is retried, which is what `Fail` does), and the status controller's Get of the work
  and Get of the Application, two reads in a row.
* The five characters of the uid in the name of a work are taken as unique.
* In `GitOpsFanout` steps 0–6 of the reconcile are one condition, `Prepared`: the failure of any of
  them is recorded in a condition and returned, which is the same for all.  They are told apart in
  `AgentSettings` and, for the CA, in `HubTrust`.  `AgentSettings` leaves out step 3 and the
  cluster secrets, which share nothing with the settings.
* Likewise the contents of cluster secrets, works and configs are told apart where a property is
  about them: certificates in `HubTrust`; address, namespace, image and variables in
  `AgentSettings`.  The mode of the agent and the labels travel with these and are left out.
* Where a Service is reachable by a LoadBalancer or a NodePort is one address to the model; the
  port matters in that it is set or not.
* In `HubTrust` the clock moves at most `Skew` between working out a validity and making the
  certificate: both are in one function without an API call in between
  (`argocd_agent_clusters.go:352-385`).  Times are whole units; the code's two seconds are one.
* `SpokeAddon.Remove` deletes addon and CR work in one step; the hub does it in two calls.
* Condition messages keep what makes two of them equal or different: a count, or the set of
  failed clusters.  `joinClusterNames`' truncation is left out.
* A ManagedCluster that cannot be read is the fault "read", for one cluster.
* `backoffLimit` of the Job is not modelled; the framework is taken to run it until it
  succeeds.
* Restart annotations of the principal have a resolution of one second; two restarts within
  a second are not considered.  A pod that starts reads the secret as it is at that time.
* Not modelled at all: `EnsureArgoCDRedisSecret`, which nothing calls; the cluster controller of the
  basic pull mode, one level-triggered reconcile of one secret that shares no state with the
  other components; flags, metrics and leader election; charts, manifests and the Go API types
  (data).

Bounds that appear in guards: `MaxFaults`, `MaxEdits`, `MaxLives`, `MaxCert`, `MaxDeploys`, `MaxUid`,
`MaxReports`, `MaxTime`, `MaxVersion`.  Each is a constant of its module.

## 7. The plan

Done: the modules above, in the order `GitOpsFanout` (the core), `SpokeAddon`, the workload
certificates, `BasicPull`, `HubTrust`, `AgentSettings`, and `AddonLifecycle`, which composes hub and
managed cluster; each with its runs, and the proofs of section 4.

Next, in this order:

1. *BasicPull*: an abstract specification (a work exists for an Application from its creation to
   its deletion) and the refinement.
2. *GitOpsFanout*: the two theorems of `GitOpsRestProofs` for several GitOpsClusters whose
   clusters are disjoint, where cleanup does no harm either.
3. *AddonLifecycle*: the two calls of the hub that `SpokeAddon.Remove` takes together.
4. *Cluster controller* of the basic pull mode, if it comes to share state with another component.

Runs are kept few: a new one replaces or extends one of those above.

## 8. Running it

```
tlc -config FanoutSafety.cfg MCGitOpsFanout.tla     # and so on: see PROJECT.json, "runs"
tlapm BasicPullProofs.tla
```

`fanout_converges`, `pull_follows` and `agent_settings` take one to two minutes, every other run less than a
minute; the proofs of each module take from seconds to a few minutes.
