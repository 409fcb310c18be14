------------------------------- MODULE HubTrust -------------------------------
(***************************************************************************)
(* The hub's own certificate authority and all that is made of it          *)
(* (argocd_agent_certificates.go, argocd_agent_clusters.go,                *)
(* manifest_work_management.go), over time.  A reconcile makes or rotates  *)
(* the CA, issues the two serving certificates, for each cluster a client  *)
(* certificate and the Argo CD cluster secret that carries it together     *)
(* with the CA, and then sends the CA to the cluster in a ManifestWork.    *)
(*                                                                         *)
(* Certificates are written through a client of their own, and what goes   *)
(* into cluster secrets and works is read from the controller's cache,     *)
(* which follows each object on its own.  Each time a CA is loaded it may  *)
(* also be rotated.  Time advances between any two steps.                  *)
(***************************************************************************)
EXTENDS Integers, FiniteSets

CONSTANTS
    Clusters,        \* the managed clusters that are selected
    LocalClusters,   \* those of them that get no ManifestWork
    CAValidity,      \* SigningCertValidity
    TargetValidity,  \* TargetCertValidity
    Skew,            \* clusterClientCertificateSignerSkew
    StartTime,       \* when this instance of the controller starts
    MaxTime,         \* bound on time
    FaultKinds,      \* what may go wrong in this instance
    MaxFaults        \* bound on how often

ASSUME TrustAssumption ==
    /\ IsFiniteSet(Clusters)
    /\ LocalClusters \subseteq Clusters
    /\ CAValidity \in Nat
    /\ TargetValidity \in Nat
    /\ Skew \in Nat
    /\ StartTime \in Nat
    /\ MaxTime \in Nat
    /\ StartTime <= MaxTime
    /\ FaultKinds \subseteq {"lapse", "delete", "ca", "load", "issue", "entry", "work", "crash"}
    /\ MaxFaults \in Nat

VARIABLES
    now,
    made,        \* how many CAs have been made
    ca,          \* the CA in the secret argocd-agent-ca, or NoCA
    target,      \* the serving certificates
    client,      \* the client certificate of each cluster
    entry,       \* the Argo CD cluster secret of each cluster
    work,        \* the CA in the ManifestWork of each cluster
    seenCA, seenClient, seenEntry,  \* what the cache holds of them
    pc,          \* where the reconcile is
    for,         \* the certificate under way: a target, a cluster or Nobody
    todo,        \* clusters the loop under way has still to serve
    signer,      \* the CA in hand
    held,        \* the cluster secret in hand, as read from the cache
    term, asked, \* the validity worked out for a client certificate, and when
    clean,       \* history: nothing has gone wrong in this reconcile
    rounds,      \* history: clean reconciles since the clock last moved
    late,        \* history: the clock has moved without two of them
    kept,        \* history: the CA has not been deleted since the clock last moved
    faults       \* how much has gone wrong

stored == <<ca, target, client, entry, work>>
cache == <<seenCA, seenClient, seenEntry>>
worker == <<pc, for, todo, signer, held, term, asked>>
history == <<clean, rounds, late, kept>>
vars == <<now, made, stored, cache, worker, history, faults>>

Targets == {"principal", "resource-proxy"}
Nobody == "nobody"

CAs == [serial : Nat, from : Nat, until : Nat]
NoCA == [serial |-> 0, from |-> 0, until |-> 0]

\* Certificates name the whole of their signer, whose secret may have gone since.
Certs == [by : CAs, from : Nat, until : Nat]
NoCert == [by |-> NoCA, from |-> 0, until |-> 0]

Entries == [client : Certs, ca : CAs]
NoEntry == [client |-> NoCert, ca |-> NoCA]

ClockType ==
    /\ now \in StartTime .. MaxTime
    /\ rounds \in 0 .. 2
    /\ faults \in 0 .. MaxFaults

FlagType == clean \in BOOLEAN /\ late \in BOOLEAN /\ kept \in BOOLEAN

StoredType ==
    /\ made \in Nat
    /\ ca \in CAs
    /\ target \in [Targets -> Certs]
    /\ client \in [Clusters -> Certs]
    /\ entry \in [Clusters -> Entries]
    /\ work \in [Clusters -> CAs]

CacheType ==
    /\ seenCA \in CAs
    /\ seenClient \in [Clusters -> Certs]
    /\ seenEntry \in [Clusters -> Entries]

WorkerType ==
    /\ pc \in {"idle", "ca", "target", "import", "client", "make", "entry", "work"}
    /\ for \in Targets \cup Clusters \cup {Nobody}
    /\ pc = "target" => for \in Targets
    /\ pc \in {"client", "make", "entry"} => for \in Clusters
    /\ todo \subseteq Clusters
    /\ signer \in CAs
    /\ held \in Entries
    /\ term \in Nat
    /\ asked \in Nat

TypeOK == ClockType /\ FlagType /\ StoredType /\ CacheType /\ WorkerType

\* A new hub, or one where an earlier instance of the controller has made the CA.
Init ==
    /\ now = StartTime
    /\ \/ ca = NoCA /\ made = 0
       \/ ca = [serial |-> 1, from |-> 0, until |-> CAValidity] /\ made = 1
    /\ target = [t \in Targets |-> NoCert]
    /\ client = [c \in Clusters |-> NoCert]
    /\ entry = [c \in Clusters |-> NoEntry]
    /\ work = [c \in Clusters |-> NoCA]
    /\ seenCA = ca /\ seenClient = client /\ seenEntry = entry
    /\ pc = "idle" /\ for = Nobody /\ todo = {} /\ signer = NoCA /\ held = NoEntry
    /\ term = 0 /\ asked = 0
    /\ clean = FALSE /\ rounds = 0 /\ late = FALSE /\ kept = TRUE
    /\ faults = 0

Fault(kind) == kind \in FaultKinds /\ faults < MaxFaults /\ faults' = faults + 1
Fine == UNCHANGED faults

\* A fifth of its life is left, or less.
Aged(cert) == now > cert.until - ((cert.until - cert.from) \div 5)

Synced == seenCA = ca /\ seenClient = client /\ seenEntry = entry

-----------------------------------------------------------------------------
(* The world.                                                              *)

\* A certificate is made at most Skew after its validity was worked out: both are
\* a few instructions of the same function.
TimeLeft(t) == pc = "make" => t <= asked + Skew

Advance(t) ==
    /\ t <= MaxTime
    /\ TimeLeft(t)
    /\ now' = t
    /\ rounds' = 0
    /\ clean' = FALSE
    /\ kept' = TRUE
    /\ UNCHANGED <<made, stored, cache, worker>>

\* Two reconciles have gone well in the meantime.
Tick == rounds = 2 /\ Advance(now + 1) /\ Fine /\ UNCHANGED late

\* The controller, or what it needs, has been away for a while.
Lapse(t) ==
    /\ t > now
    /\ Fault("lapse")
    /\ late' = TRUE
    /\ Advance(t)

DeleteCASecret ==
    /\ ca # NoCA
    /\ Fault("delete")
    /\ ca' = NoCA
    /\ kept' = FALSE
    /\ UNCHANGED <<now, made, target, client, entry, work, cache, worker, clean, rounds, late>>

\* The watch of one object delivers its latest state.
Sync ==
    /\ \/ seenCA # ca /\ seenCA' = ca /\ UNCHANGED <<seenClient, seenEntry>>
       \/ \E c \in Clusters :
             \/ /\ seenClient[c] # client[c]
                /\ seenClient' = [seenClient EXCEPT ![c] = client[c]]
                /\ UNCHANGED <<seenCA, seenEntry>>
             \/ /\ seenEntry[c] # entry[c]
                /\ seenEntry' = [seenEntry EXCEPT ![c] = entry[c]]
                /\ UNCHANGED <<seenCA, seenClient>>
    /\ UNCHANGED <<now, made, stored, worker, history, faults>>

-----------------------------------------------------------------------------
(* The reconcile.                                                          *)

InHand == <<signer, held, term, asked>>

PutDown ==
    /\ for' = Nobody
    /\ signer' = NoCA
    /\ held' = NoEntry
    /\ term' = 0
    /\ asked' = 0

\* An error that is returned: the key is queued again.
Abandon ==
    /\ pc' = "idle"
    /\ todo' = {}
    /\ clean' = FALSE
    /\ PutDown

Reconcile ==
    /\ pc = "idle"
    /\ pc' = "ca"
    /\ clean' = Synced
    /\ UNCHANGED <<now, made, stored, cache, for, todo, InHand, rounds, late, kept, faults>>

\* EnsureSigningCertKeyPair: an informer has just listed the secrets.
EnsureSigner ==
    IF ca = NoCA \/ Aged(ca)
    THEN /\ made' = made + 1
         /\ ca' = [serial |-> made + 1, from |-> now, until |-> now + CAValidity]
    ELSE UNCHANGED <<made, ca>>

\* Step 3.
EnsureArgoCDAgentCASecret ==
    /\ pc = "ca"
    /\ \/ /\ EnsureSigner
          /\ pc' = "target"
          /\ for' = "principal"
          /\ Fine
          /\ UNCHANGED <<todo, InHand, clean>>
       \/ Fault("ca") /\ Abandon /\ UNCHANGED <<made, ca>>
    /\ UNCHANGED <<now, target, client, entry, work, cache, rounds, late, kept>>

\* The lister of the bundle belongs to a factory that is never started, so that the
\* bundle the certificates are held against is the CA in hand.
ServingCert(cert, by) ==
    IF cert = NoCert \/ Aged(cert) \/ cert.by # by
    THEN [by |-> by, from |-> now, until |-> now + TargetValidity]
    ELSE cert

\* Steps 4 and 5: that the CA exists is looked up in the cache.  A failure may come
\* before or after the CA has been rotated.
EnsureTarget ==
    /\ pc = "target"
    /\ \/ /\ seenCA # NoCA
          /\ EnsureSigner
          /\ target' = [target EXCEPT ![for] = ServingCert(@, ca')]
          /\ IF for = "principal"
             THEN pc' = "target" /\ for' = "resource-proxy" /\ todo' = todo
             ELSE pc' = "import" /\ for' = Nobody /\ todo' = Clusters
          /\ Fine
          /\ UNCHANGED <<InHand, clean>>
       \/ /\ \/ seenCA = NoCA /\ Fine /\ UNCHANGED <<made, ca>>
             \/ Fault("load") /\ UNCHANGED <<made, ca>>
             \/ seenCA # NoCA /\ EnsureSigner /\ Fault("issue")
          /\ Abandon
          /\ UNCHANGED target
    /\ UNCHANGED <<now, client, entry, work, cache, rounds, late, kept>>

\* Step 8: an import that fails is left for the next reconcile.
NextCluster ==
    /\ pc' = "import"
    /\ todo' = todo \ {for}
    /\ PutDown

SkipCluster == NextCluster /\ clean' = FALSE

ImportCluster(c) ==
    /\ pc = "import"
    /\ c \in todo
    /\ \/ /\ EnsureSigner
          /\ signer' = ca'
          /\ held' = seenEntry[c]
          /\ for' = c
          /\ pc' = "client"
          /\ Fine
          /\ UNCHANGED <<todo, term, asked, clean>>
       \/ /\ Fault("load")
          /\ todo' = todo \ {c}
          /\ clean' = FALSE
          /\ UNCHANGED <<made, ca, pc, for, InHand>>
    /\ UNCHANGED <<now, target, client, entry, work, cache, rounds, late, kept>>

\* Mutant: a certificate is kept whoever has signed it.
ValidForAnySigner(cert) == cert # NoCert /\ ~Aged(cert)

\* Mutant: a certificate is kept until it has expired.
ValidToTheEnd(cert) == cert # NoCert /\ now <= cert.until /\ cert.by = signer

\* hasValidClusterClientCertificate
Valid(cert) ==
    /\ cert # NoCert
    /\ now <= cert.until
    /\ ~Aged(cert)
    /\ cert.by = signer

\* clusterClientCertificateTargetValidity
Remaining == signer.until - (now + Skew)

Spent == Remaining <= 0

\* Mutant: what is left of the CA is not considered.
FullValidity == TargetValidity

Validity == IF Remaining < TargetValidity THEN Remaining ELSE TargetValidity

CheckClient ==
    /\ pc = "client"
    /\ \/ /\ Valid(client[for])
          /\ pc' = "entry"
          /\ UNCHANGED <<for, todo, InHand, clean>>
       \/ /\ ~Valid(client[for])
          /\ ~Spent
          /\ term' = Validity
          /\ asked' = now
          /\ pc' = "make"
          /\ UNCHANGED <<for, todo, signer, held, clean>>
       \/ /\ ~Valid(client[for])
          /\ Spent
          /\ SkipCluster
    /\ UNCHANGED <<now, made, stored, cache, rounds, late, kept, faults>>

MakeClient ==
    /\ pc = "make"
    /\ \/ /\ client' = [client EXCEPT ![for] =
                           [by |-> signer, from |-> now, until |-> now + term]]
          /\ pc' = "entry"
          /\ term' = 0
          /\ asked' = 0
          /\ Fine
          /\ UNCHANGED <<for, todo, signer, held, clean>>
       \/ Fault("issue") /\ SkipCluster /\ UNCHANGED client
    /\ UNCHANGED <<now, made, ca, target, entry, work, cache, rounds, late, kept>>

\* What the cluster secret is to say, as the cache has it.
ClusterSecretData(c) == [client |-> seenClient[c], ca |-> seenCA]

\* A Create that meets a secret counts as an import.  An Update is refused if the
\* secret is not the one in hand.
WriteEntry ==
    /\ pc = "entry"
    /\ \/ /\ seenClient[for] # NoCert /\ seenCA # NoCA
          /\ held = entry[for]
          /\ entry' = [entry EXCEPT ![for] = ClusterSecretData(for)]
          /\ NextCluster
          /\ Fine
          /\ UNCHANGED clean
       \/ /\ seenClient[for] # NoCert /\ seenCA # NoCA
          /\ held = NoEntry /\ entry[for] # NoEntry
          /\ NextCluster
          /\ Fine
          /\ UNCHANGED <<entry, clean>>
       \/ /\ \/ /\ \/ seenClient[for] = NoCert
                   \/ seenCA = NoCA
                   \/ held \notin {NoEntry, entry[for]}
                /\ Fine
             \/ Fault("entry")
          /\ SkipCluster
          /\ UNCHANGED entry
    /\ UNCHANGED <<now, made, ca, target, client, work, cache, rounds, late, kept>>

EndImport ==
    /\ pc = "import"
    /\ todo = {}
    /\ pc' = "work"
    /\ todo' = Clusters \ LocalClusters
    /\ UNCHANGED <<now, made, stored, cache, for, InHand, history, faults>>

\* Step 9: only the CA of an existing work is looked at.
DeliverCA(c) ==
    /\ pc = "work"
    /\ c \in todo
    /\ todo' = todo \ {c}
    /\ \/ /\ seenCA # NoCA
          /\ work' = [work EXCEPT ![c] = seenCA]
          /\ Fine
          /\ UNCHANGED clean
       \/ /\ \/ seenCA = NoCA /\ Fine
             \/ Fault("work")
          /\ clean' = FALSE
          /\ UNCHANGED work
    /\ UNCHANGED <<now, made, ca, target, client, entry, cache, pc, for, InHand,
                   rounds, late, kept>>

Return ==
    /\ pc = "work"
    /\ todo = {}
    /\ pc' = "idle"
    /\ rounds' = IF clean /\ rounds < 2 THEN rounds + 1 ELSE rounds
    /\ clean' = FALSE
    /\ UNCHANGED <<now, made, stored, cache, for, todo, InHand, late, kept, faults>>

\* The next process lists everything anew.
Crash ==
    /\ pc # "idle"
    /\ Fault("crash")
    /\ Abandon
    /\ seenCA' = ca /\ seenClient' = client /\ seenEntry' = entry
    /\ UNCHANGED <<now, made, stored, rounds, late, kept>>

Work ==
    \/ Reconcile
    \/ EnsureArgoCDAgentCASecret
    \/ EnsureTarget
    \/ \E c \in Clusters : ImportCluster(c)
    \/ CheckClient
    \/ MakeClient
    \/ WriteEntry
    \/ EndImport
    \/ \E c \in Clusters : DeliverCA(c)
    \/ Return

Next ==
    \/ Tick
    \/ \E t \in StartTime .. MaxTime : Lapse(t)
    \/ DeleteCASecret
    \/ Sync
    \/ Work
    \/ Crash

Spec == Init /\ [][Next]_vars

\* The informers' resync reconciles again and again, and watches deliver.  Nothing
\* makes the clock reach its bound.
Fairness == WF_vars(Work) /\ WF_vars(Sync)

FairSpec == Spec /\ Fairness

-----------------------------------------------------------------------------
(* Properties.                                                             *)

\* A client certificate "does not outlive its signer", which may be rotated, deleted
\* or age while the certificate is made (argocd_agent_clusters.go:403-420).
SignerOutlivesClient == \A c \in Clusters : client[c].until <= client[c].by.until

\* A certificate that is being made will still end within the life of its signer when it
\* is at last made.
TermFits == pc = "make" => asked + Skew + term <= signer.until /\ now <= asked + Skew

IInv == TypeOK /\ TermFits /\ SignerOutlivesClient

\* As long as two reconciles a unit of time go well, no cluster secret ever carries an
\* expired certificate: the last fifth of its life (argocd_agent_clusters.go:448) is
\* enough, although a renewed one may reach the cluster secret only with the next
\* reconcile, and although the CA is rotated meanwhile.
EntryUnexpired ==
    ~late => \A c \in Clusters : entry[c] # NoEntry => now <= entry[c].client.until

\* In the end every party holds certificates of one CA: the cluster secret has the CA
\* in the secret and the client certificate made last, both serving certificates and
\* that client certificate are signed by it, and the managed cluster gets it.
OneCA ==
    /\ \A t \in Targets : target[t].by = ca
    /\ \A c \in Clusters :
          /\ client[c].by = ca
          /\ entry[c] = [client |-> client[c], ca |-> ca]
          /\ c \notin LocalClusters => work[c] = ca

Agreement == <>[]OneCA

\* Two reconciles that go well, with no more than the ticks of the clock between a
\* rotation and them, are enough for that, unless the CA has been deleted meanwhile: the
\* first renews what the CA has signed, the second passes on what the first may not yet
\* have found in the cache.  No later reconcile undoes it, however it goes, until the clock
\* moves on.
TwoRoundsAgree == rounds = 2 /\ kept => OneCA
=============================================================================
