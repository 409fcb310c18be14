---------------------------- MODULE AgentSettings ----------------------------
(***************************************************************************)
(* What a GitOpsCluster says, and how it gets to a managed cluster: steps  *)
(* 0 to 2, 4, 6, 7, 9, 9.5 and 11 of Reconcile, for the settings they      *)
(* carry.  Several GitOpsClusters of one namespace share the roles, the    *)
(* JWT key, the principal with its certificate, and, on the one cluster    *)
(* they all select, the CA work, the AddOnDeploymentConfig and the addon.  *)
(* Each has an AddOnTemplate and a work with the ArgoCD CR of its own.     *)
(*                                                                         *)
(* Steps 0 to 6 return their errors, and the key is queued again.  Later   *)
(* steps log them, and only the event of a status that has changed leads   *)
(* to another reconcile.                                                   *)
(***************************************************************************)
EXTENDS Integers, Sequences, SequencesExt

CONSTANTS
    GitOpsClusters,
    Addresses,       \* of the principal
    Namespaces,      \* on the managed cluster, that users may choose
    Default,         \* the namespace there if they do not: "argocd"
    Images,          \* of the hub principal
    Unset,           \* an empty string
    MaxVersion,      \* bound on the versions of the controller
    MaxEdits,        \* bound on what users and clouds do
    FaultKinds,      \* what may fail in this instance
    MaxFaults        \* bound on how often

Steps == {"role", "binding", "discover", "jwt", "principal", "template", "tolerations",
          "caWork", "crWork", "config", "addon"}

ASSUME SettingsAssumption ==
    /\ Unset \notin Addresses \cup Namespaces \cup Images \cup {Default}
    /\ MaxVersion \in Nat \ {0}
    /\ MaxEdits \in Nat
    /\ FaultKinds \subseteq Steps \cup {"service", "image", "crash"}
    /\ MaxFaults \in Nat

VARIABLES
    spec,       \* of each GitOpsCluster
    service,    \* the address the principal's Service offers, if any
    image,      \* of the principal, in the hub's ArgoCD CR
    untold,     \* GitOpsClusters whose annotation does not name that image yet
    software,   \* the version of the running controller
    ready,      \* which of role, binding and JWT key there are
    tolerant,   \* the Placement tolerates unreachable clusters
    san,        \* addresses in the principal's certificate
    template,   \* the version in each AddOnTemplate, 0 if there is none
    caWork,     \* the namespace in the CA's ManifestWork
    crWork,     \* the settings in each ManifestWork of the ArgoCD CR
    config,     \* variables of the AddOnDeploymentConfig
    refs,       \* the templates the addon refers to
    seen,       \* what the cache holds of config
    queue,
    pc, cur, mem,  \* the step, the GitOpsCluster under way, and its spec as read
    skipped,    \* steps of this reconcile that failed and were logged
    told,       \* what the status last said of each
    missed,     \* history: a read of the principal's image has failed
    edits, faults

world == <<spec, service, image, untold, software>>
shared == <<ready, tolerant, san, caWork>>
own == <<template, crWork>>
addon == <<config, refs, seen>>
worker == <<queue, pc, cur, mem, skipped, told>>
vars == <<world, shared, own, addon, worker, missed, edits, faults>>

\* What a custom CR leaves to the controller: all of it (there is none), the address, nothing.
CRKinds == {"default", "open", "pinned"}

\* Whether a port goes with the address is all that matters of it.
Specs == [address : Addresses \cup {Unset}, port : BOOLEAN, namespace : Namespaces \cup {Unset},
          sync : BOOLEAN, cr : CRKinds]
FreshSpec == [address |-> Unset, port |-> FALSE, namespace |-> Unset, sync |-> TRUE,
              cr |-> "default"]
Addressed(s) == s.address # Unset /\ s.port

Works == [address : Addresses \cup {Unset}, namespace : Namespaces \cup {Default, Unset},
          image : Images \cup {Unset}]
NoWork == [address |-> Unset, namespace |-> Unset, image |-> Unset]

\* The variable the controller knows, and one that is the users' own.
Variables == {"ARGOCD_NAMESPACE", "user"}
NoConfig == [exists |-> FALSE, value |-> [v \in Variables |-> Unset]]
Configs == [exists : BOOLEAN, value : [Variables -> Namespaces \cup {Default, Unset}]]

Nobody == "nobody"
Statuses == [address : Addresses \cup {Unset}, skipped : SUBSET Steps]

WorldType ==
    /\ spec \in [GitOpsClusters -> Specs]
    /\ service \in Addresses \cup {Unset}
    /\ image \in Images \cup {Unset}
    /\ untold \subseteq GitOpsClusters
    /\ software \in 1 .. MaxVersion

SharedType ==
    /\ ready \subseteq {"role", "binding", "jwt"}
    /\ tolerant \in BOOLEAN
    /\ san \subseteq Addresses
    /\ caWork \in Namespaces \cup {Default, Unset}

OwnType ==
    /\ template \in [GitOpsClusters -> 0 .. MaxVersion]
    /\ crWork \in [GitOpsClusters -> Works]

AddonType ==
    /\ config \in Configs
    /\ seen \in Configs
    /\ refs \in Seq(GitOpsClusters)

WorkerType ==
    /\ queue \subseteq GitOpsClusters
    /\ pc \in Steps \cup {"idle", "return"}
    /\ cur \in GitOpsClusters \cup {Nobody}
    /\ pc # "idle" => cur \in GitOpsClusters
    /\ mem \in Specs
    /\ skipped \subseteq Steps
    /\ told \in [GitOpsClusters -> Statuses]

CountType ==
    /\ missed \in BOOLEAN
    /\ edits \in 0 .. MaxEdits
    /\ faults \in 0 .. MaxFaults

TypeOK == WorldType /\ SharedType /\ OwnType /\ AddonType /\ WorkerType /\ CountType

Init ==
    /\ spec = [g \in GitOpsClusters |-> FreshSpec]
    /\ service = Unset
    /\ image \in Images \cup {Unset}
    /\ untold = {}
    /\ software = 1
    /\ ready = {} /\ tolerant = FALSE /\ san = {} /\ caWork = Unset
    /\ template = [g \in GitOpsClusters |-> 0]
    /\ crWork = [g \in GitOpsClusters |-> NoWork]
    /\ config = NoConfig /\ seen = NoConfig /\ refs = <<>>
    /\ queue = GitOpsClusters
    /\ pc = "idle" /\ cur = Nobody /\ mem = FreshSpec /\ skipped = {}
    /\ told = [g \in GitOpsClusters |-> [address |-> Unset, skipped |-> {}]]
    /\ missed = FALSE /\ edits = 0 /\ faults = 0

Fault(kind) == kind \in FaultKinds /\ faults < MaxFaults /\ faults' = faults + 1
Fine == UNCHANGED faults

-----------------------------------------------------------------------------
(* Users, Helm and the cloud.                                              *)

Edit == edits < MaxEdits /\ edits' = edits + 1

\* Any field of the spec, or the annotation that turns the image's propagation off.
EditSpec(g) ==
    /\ Edit
    /\ \/ \E a \in Addresses, p \in BOOLEAN :
             spec' = [spec EXCEPT ![g].address = a, ![g].port = p]
       \/ \E n \in Namespaces : spec' = [spec EXCEPT ![g].namespace = n]
       \/ \E k \in CRKinds : spec' = [spec EXCEPT ![g].cr = k]
       \/ spec' = [spec EXCEPT ![g].sync = ~@]
    /\ spec' # spec
    /\ queue' = queue \cup {g}
    /\ UNCHANGED <<service, image, untold, software, shared, own, addon, pc, cur, mem,
                   skipped, told, missed, faults>>

\* Nobody watches the Service.
ChangeService ==
    /\ Edit
    /\ \E a \in Addresses : service # a /\ service' = a
    /\ UNCHANGED <<spec, image, untold, software, shared, own, addon, worker, missed, faults>>

\* A Helm upgrade writes the ArgoCD CR and then an annotation of each GitOpsCluster.
BumpImage ==
    /\ Edit
    /\ \E i \in Images : image # i /\ image' = i
    /\ untold' = GitOpsClusters
    /\ UNCHANGED <<spec, service, software, shared, own, addon, worker, missed, faults>>

Annotate(g) ==
    /\ g \in untold
    /\ untold' = untold \ {g}
    /\ queue' = queue \cup {g}
    /\ UNCHANGED <<spec, service, image, software, shared, own, addon, pc, cur, mem,
                   skipped, told, missed, edits, faults>>

\* Users set any variable of the config, which nobody watches either.
EditConfig ==
    /\ Edit
    /\ config.exists
    /\ \E v \in Variables, n \in Namespaces \cup {Default} :
          /\ config.value[v] # n
          /\ config' = [config EXCEPT !.value[v] = n]
    /\ UNCHANGED <<world, shared, own, refs, seen, worker, missed, faults>>

SyncConfig ==
    /\ seen # config
    /\ seen' = config
    /\ UNCHANGED <<world, shared, own, config, refs, worker, missed, edits, faults>>

-----------------------------------------------------------------------------
(* Reconcile.                                                              *)

PutDown == pc' = "idle" /\ cur' = Nobody /\ mem' = FreshSpec /\ skipped' = {}

\* The process starts anew, perhaps in a new version: everything is listed.
Restart ==
    /\ PutDown
    /\ queue' = GitOpsClusters
    /\ seen' = config
    /\ UNCHANGED <<spec, service, image, untold, shared, own, config, refs, told, missed>>

Crash == pc # "idle" /\ Fault("crash") /\ Restart /\ UNCHANGED <<software, edits>>

Upgrade ==
    /\ Edit
    /\ software < MaxVersion
    /\ software' = software + 1
    /\ Restart
    /\ Fine

Dequeue(g) ==
    /\ pc = "idle"
    /\ g \in queue
    /\ queue' = queue \ {g}
    /\ pc' = "role"
    /\ cur' = g
    /\ mem' = spec[g]
    /\ UNCHANGED <<world, shared, own, addon, skipped, told, missed, edits, faults>>

Stay == UNCHANGED <<cur, mem, skipped, told, queue>>

Goes(to) == pc' = to /\ Stay /\ Fine

\* The error is returned, and the key is queued again.
Abandon == PutDown /\ queue' = queue \cup {cur} /\ UNCHANGED told
Breaks(kind) == Fault(kind) /\ Abandon

\* The error is logged, and the step named in a condition.
Skips(kind, to) ==
    /\ Fault(kind)
    /\ pc' = to
    /\ skipped' = skipped \cup {kind}
    /\ UNCHANGED <<cur, mem, told, queue>>

\* Steps 0 and 2: roles and the key are made if they are not there.
EnsureReady(kind, to) ==
    /\ pc = kind
    /\ \/ ready' = ready \cup {kind} /\ Goes(to)
       \/ Breaks(kind) /\ UNCHANGED ready
    /\ UNCHANGED <<world, tolerant, san, caWork, own, addon, missed, edits>>

EnsureAddonManagerRole == EnsureReady("role", "binding")
EnsureAddonManagerRoleBinding == EnsureReady("binding", "discover")
EnsureArgoCDAgentJWTSecret == EnsureReady("jwt", "principal")

\* Step 1: what has been found is written into the spec, and stays.  An address without
\* a port is found anew.  The Update is refused if the spec has changed since it was read.
EnsureServerAddressAndPort ==
    /\ pc = "discover"
    /\ \/ /\ Addressed(mem)
          /\ Goes("jwt")
          /\ UNCHANGED spec
       \/ /\ ~Addressed(mem)
          /\ service # Unset
          /\ spec[cur] = mem
          /\ mem' = [mem EXCEPT !.address = service, !.port = TRUE]
          /\ spec' = [spec EXCEPT ![cur] = mem']
          /\ queue' = queue \cup {cur}
          /\ pc' = "jwt"
          /\ Fine
          /\ UNCHANGED <<cur, skipped, told>>
       \/ /\ ~Addressed(mem)
          /\ \/ service = Unset /\ Fine
             \/ service # Unset /\ spec[cur] # mem /\ Fine
             \/ Fault("discover")
          /\ Abandon
          /\ UNCHANGED spec
    /\ UNCHANGED <<service, image, untold, software, shared, own, addon, missed, edits>>

\* Mutant: the certificate names what the Service offers.
ServiceHostNames == {service} \ {Unset}

\* Step 4.  certrotation issues the certificate anew if it does not name exactly these.
HostNames == ({service} \cup {mem.address}) \ {Unset}

\* Mutant: a certificate that is there is kept.
IssuePrincipalCertificate ==
    /\ pc = "principal"
    /\ san' = (IF san = {} THEN HostNames ELSE san)
    /\ Goes("template")
    /\ UNCHANGED <<world, ready, tolerant, caWork, own, addon, missed, edits>>

\* A Service that cannot be read is taken for one that is not there.
EnsurePrincipalCertificate ==
    /\ pc = "principal"
    /\ \/ san' = HostNames /\ Goes("template")
       \/ /\ Fault("service")
          /\ san' = {mem.address} \ {Unset}
          /\ pc' = "template"
          /\ Stay
       \/ Breaks("principal") /\ UNCHANGED san
    /\ UNCHANGED <<world, ready, tolerant, caWork, own, addon, missed, edits>>

\* Mutant: a template that is there is kept.
CreateAddOnTemplate ==
    /\ pc = "template"
    /\ template' = (IF template[cur] = 0 THEN [template EXCEPT ![cur] = software] ELSE template)
    /\ Goes("tolerations")
    /\ UNCHANGED <<world, shared, crWork, addon, missed, edits>>

\* Step 6.
EnsureAddOnTemplate ==
    /\ pc = "template"
    /\ \/ template' = [template EXCEPT ![cur] = software] /\ Goes("tolerations")
       \/ Breaks("template") /\ UNCHANGED template
    /\ UNCHANGED <<world, shared, crWork, addon, missed, edits>>

\* Step 7.
EnsurePlacementTolerations ==
    /\ pc = "tolerations"
    /\ \/ tolerant' = TRUE /\ Goes("caWork")
       \/ Skips("tolerations", "caWork") /\ UNCHANGED tolerant
    /\ UNCHANGED <<world, ready, san, caWork, own, addon, missed, edits>>

SpokeNamespace(s) == IF s.namespace = Unset THEN Default ELSE s.namespace

\* Step 9: the namespace in a work that exists is not looked at.
CreateCAWork ==
    /\ pc = "caWork"
    /\ \/ caWork' = (IF caWork = Unset THEN SpokeNamespace(mem) ELSE caWork) /\ Goes("crWork")
       \/ Skips("caWork", "crWork") /\ UNCHANGED caWork
    /\ UNCHANGED <<world, ready, tolerant, san, own, addon, missed, edits>>

\* Step 9.5.  A custom CR is delivered as it is, save for an address it leaves open.
ArgoCDCR(s, read) ==
    CASE s.cr = "default" -> [address |-> s.address, namespace |-> SpokeNamespace(s),
                              image |-> IF s.sync THEN read ELSE Unset]
      [] s.cr = "open" -> [NoWork EXCEPT !.address = s.address]
      [] s.cr = "pinned" -> NoWork

\* A read of the image that fails is taken for a CR that names none.
CreateCRWork ==
    /\ pc = "crWork"
    /\ \/ /\ crWork' = [crWork EXCEPT ![cur] = ArgoCDCR(mem, image)]
          /\ Goes("config")
          /\ UNCHANGED missed
       \/ /\ mem.cr = "default" /\ mem.sync
          /\ Fault("image")
          /\ crWork' = [crWork EXCEPT ![cur] = ArgoCDCR(mem, Unset)]
          /\ missed' = TRUE
          /\ pc' = "config"
          /\ Stay
       \/ Skips("crWork", "config") /\ UNCHANGED <<crWork, missed>>
    /\ UNCHANGED <<world, shared, template, addon, edits>>

\* Mutant: the variable is set to what the spec says.
Overwrite(old, namespace) ==
    [old EXCEPT !.exists = TRUE, !.value["ARGOCD_NAMESPACE"] = namespace]

\* Variables that are set stay as they are.
Merge(old, namespace) ==
    [old EXCEPT !.exists = TRUE,
                !.value["ARGOCD_NAMESPACE"] = IF @ = Unset THEN namespace ELSE @]

\* Step 11.  A Create that finds a config is content; an Update is refused if the
\* config is not the one in the cache.
EnsureAddOnDeploymentConfig ==
    /\ pc = "config"
    /\ \/ /\ \/ seen = config
                /\ config' = Merge(seen, mem.namespace)
             \/ /\ seen # config
                /\ ~seen.exists \/ Merge(seen, mem.namespace) = seen
                /\ UNCHANGED config
          /\ Goes("addon")
       \/ /\ \/ /\ seen # config
                /\ seen.exists /\ Merge(seen, mem.namespace) # seen
                /\ Fine
             \/ Fault("config")
          /\ pc' = "return"
          /\ skipped' = skipped \cup {"addon"}
          /\ UNCHANGED <<config, cur, mem, told, queue>>
    /\ UNCHANGED <<world, shared, own, refs, seen, missed, edits>>

\* The template reference of another GitOpsCluster stays.
EnsureManagedClusterAddon ==
    /\ pc = "addon"
    /\ \/ /\ refs' = IF Contains(refs, cur) THEN refs ELSE Append(refs, cur)
          /\ Goes("return")
       \/ Skips("addon", "return") /\ UNCHANGED refs
    /\ UNCHANGED <<world, shared, own, config, seen, missed, edits>>

\* The conditions name the address and the steps that failed.  A status that has
\* changed is an event.
Return ==
    /\ pc = "return"
    /\ LET status == [address |-> mem.address, skipped |-> skipped] IN
          /\ told' = [told EXCEPT ![cur] = status]
          /\ queue' = IF told[cur] = status THEN queue ELSE queue \cup {cur}
    /\ PutDown
    /\ UNCHANGED <<world, shared, own, addon, missed, edits, faults>>

Work ==
    \/ \E g \in GitOpsClusters : Dequeue(g)
    \/ EnsureAddonManagerRole
    \/ EnsureAddonManagerRoleBinding
    \/ EnsureServerAddressAndPort
    \/ EnsureArgoCDAgentJWTSecret
    \/ EnsurePrincipalCertificate
    \/ EnsureAddOnTemplate
    \/ EnsurePlacementTolerations
    \/ CreateCAWork
    \/ CreateCRWork
    \/ EnsureAddOnDeploymentConfig
    \/ EnsureManagedClusterAddon
    \/ Return

Environment ==
    \/ \E g \in GitOpsClusters : EditSpec(g) \/ Annotate(g)
    \/ ChangeService
    \/ BumpImage
    \/ EditConfig
    \/ Upgrade

Next == Work \/ Environment \/ SyncConfig \/ Crash

Spec == Init /\ [][Next]_vars

\* The worker runs while its queue is not empty, and watches deliver.  The queue is first
\* in, first out, and a key that failed waits before it comes back: one GitOpsCluster that
\* fails over and over does not keep the other from its turn.
Fairness ==
    /\ WF_vars(Work)
    /\ \A g \in GitOpsClusters : SF_vars(Dequeue(g))
    /\ WF_vars(SyncConfig)

FairSpec == Spec /\ Fairness

-----------------------------------------------------------------------------
(* Properties.                                                             *)

\* What it takes at each step before the delivery.
ReadyInv ==
    /\ pc \notin {"idle", "role"} => "role" \in ready
    /\ pc \notin {"idle", "role", "binding"} => "binding" \in ready
    /\ pc \notin {"idle", "role", "binding", "discover", "jwt"} => "jwt" \in ready
    /\ pc \in {"template", "tolerations", "caWork", "crWork"} => mem.address \in san \cup {Unset}
    /\ pc \in {"tolerations", "caWork", "crWork"} => template[cur] = software

IInv == TypeOK /\ ReadyInv

\* An address reaches a managed cluster only when the principal's certificate, which
\* "MUST be valid for it" (argocd_agent_certificates.go:489-490), names it, and when roles,
\* key and a template of this version of the controller are there: the steps are in this
\* order, and one that fails ends the reconcile.
Delivers ==
    \A g \in GitOpsClusters :
        crWork'[g] # crWork[g] /\ crWork'[g].address # Unset =>
            /\ crWork'[g].address \in san
            /\ ready = {"role", "binding", "jwt"}
            /\ template[g] = software

DeliveredWhenReady == [][Delivers]_vars

\* What users have written is never undone, however old the read that an Update goes back
\* to: discovery leaves an address alone that has its port, and the merge of variables adds
\* the one it knows where there is none.
Keeps ==
    edits' = edits =>
        /\ \A g \in GitOpsClusters :
              spec'[g] # spec[g] =>
                  /\ ~Addressed(spec[g])
                  /\ \E a \in Addresses :
                        spec'[g] = [spec[g] EXCEPT !.address = a, !.port = TRUE]
        /\ \A v \in Variables :
              config'.value[v] # config.value[v] =>
                  config.value[v] = Unset /\ v = "ARGOCD_NAMESPACE"

UserSettingsStay == [][Keeps]_vars

\* In the end each GitOpsCluster's work says what its spec and the principal say, and its
\* template names the controller that runs: after edits at any time, a failure of any step,
\* or a new version.  The image may be another while a Helm upgrade is under way, and
\* after a read of it has failed, which leads to no other reconcile.
CRFollows(g) ==
    \/ crWork[g] = ArgoCDCR(spec[g], image)
    \/ /\ missed \/ g \in untold
       /\ \E i \in Images \cup {Unset} : crWork[g] = ArgoCDCR(spec[g], i)

UpToDate(g) == template[g] = software /\ CRFollows(g)

SettingsFollow ==
    <>[](\A g \in GitOpsClusters :
              UpToDate(g) \/ (~Addressed(spec[g]) /\ service = Unset))

\* A GitOpsCluster that is neither queued nor under way has an address and a template of
\* the controller that runs, and everything else on its managed cluster, as its spec says,
\* or its status names the step that is missing (gitopscluster_controller.go:239-350): no
\* edit is lost between the read of the spec and the end of the reconcile, and no failure
\* that is only logged is also forgotten.
Resting(g) == g \notin queue /\ (g = cur => pc = "idle")

FollowedOrTold ==
    \A g \in GitOpsClusters : Resting(g) =>
        /\ Addressed(spec[g])
        /\ template[g] = software
        /\ tolerant \/ "tolerations" \in told[g].skipped
        /\ caWork # Unset \/ "caWork" \in told[g].skipped
        /\ CRFollows(g) \/ "crWork" \in told[g].skipped
        /\ (config.exists /\ Contains(refs, g)) \/ "addon" \in told[g].skipped

\* As long as no two GitOpsClusters advertise different addresses, the principal's
\* certificate in the end names the address that the agents have been given.
Unanimous == \A g, h \in GitOpsClusters : spec[g].address = spec[h].address

PrincipalCovers ==
    <>[](Unanimous => \A g \in GitOpsClusters : crWork[g].address \in san \cup {Unset})
=============================================================================
