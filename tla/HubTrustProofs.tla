---------------------------- MODULE HubTrustProofs ----------------------------
(***************************************************************************)
(* Theorems about HubTrust, for all sets of clusters, all validities and   *)
(* all bounds.                                                             *)
(***************************************************************************)
EXTENDS HubTrust, TLAPS

LEMMA InitInv == Init => IInv
<1>1. SUFFICES ASSUME Init PROVE IInv
  OBVIOUS
<1>2. NoCA \in CAs /\ (made = 1 => [serial |-> 1, from |-> 0, until |-> CAValidity] \in CAs)
  BY TrustAssumption DEF NoCA, CAs
<1>3. NoCert \in Certs /\ NoEntry \in Entries
  BY <1>2 DEF NoCert, Certs, NoEntry, Entries
<1>4. TypeOK
  <2>1. ClockType
    BY <1>1, TrustAssumption DEF Init, ClockType
  <2>2. FlagType
    BY <1>1 DEF Init, FlagType
  <2>3. StoredType
    BY <1>1, <1>2, <1>3 DEF Init, StoredType
  <2>4. CacheType
    BY <1>1, <2>3 DEF Init, StoredType, CacheType
  <2>5. WorkerType
    BY <1>1, <1>2, <1>3 DEF Init, WorkerType, Nobody
  <2> QED
    BY <2>1, <2>2, <2>3, <2>4, <2>5 DEF TypeOK
<1>5. SignerOutlivesClient
  BY <1>1 DEF Init, SignerOutlivesClient, NoCert, NoCA
<1> QED
  BY <1>1, <1>4, <1>5 DEF IInv, TermFits, Init

\* Making or keeping the CA yields a CA.
LEMMA SignerTypes ==
  ASSUME TypeOK, EnsureSigner
  PROVE  made' \in Nat /\ ca' \in CAs
BY TrustAssumption DEF TypeOK, ClockType, StoredType, EnsureSigner, CAs

\* Reissuing or keeping a serving certificate yields a certificate.
LEMMA ServingTypes ==
  ASSUME TypeOK, NEW cert \in Certs, NEW by \in CAs
  PROVE  ServingCert(cert, by) \in Certs
BY TrustAssumption DEF TypeOK, ClockType, ServingCert, Certs

\* The validity worked out for a client certificate leaves room for Skew.
LEMMA ValidityFits ==
  ASSUME TypeOK, ~Spent
  PROVE  Validity \in Nat /\ now + Skew + Validity <= signer.until
<1>1. signer.until \in Nat /\ now \in Nat
  BY TrustAssumption DEF TypeOK, ClockType, WorkerType, CAs
<1> QED
  BY <1>1, TrustAssumption DEF Spent, Remaining, Validity

LEMMA NoThings == NoCA \in CAs /\ NoCert \in Certs /\ NoEntry \in Entries
<1>1. NoCA \in CAs
  BY DEF NoCA, CAs
<1> QED
  BY <1>1 DEF NoCert, Certs, NoEntry, Entries

\* Every step keeps the types of the clock and the counters.
LEMMA ClockStep ==
  ASSUME TypeOK, [Next]_vars
  PROVE  ClockType'
<1>1. CASE UNCHANGED <<now, rounds>> /\ (Fine \/ \E kind \in FaultKinds : Fault(kind))
  BY <1>1, TrustAssumption DEF TypeOK, ClockType, Fine, Fault
<1>2. CASE Tick
  BY <1>2, TrustAssumption DEF TypeOK, ClockType, Tick, Advance, Fine
<1>3. CASE \E t \in StartTime .. MaxTime : Lapse(t)
  BY <1>3, TrustAssumption DEF TypeOK, ClockType, Lapse, Advance, Fault
<1>4. CASE DeleteCASecret \/ Sync \/ Reconcile \/ EnsureArgoCDAgentCASecret \/ UNCHANGED vars
  BY <1>1, <1>4 DEF DeleteCASecret, Sync, Reconcile, EnsureArgoCDAgentCASecret, vars, history,
     Fine, Fault
<1>5. CASE EnsureTarget \/ \E c \in Clusters : ImportCluster(c) \/ DeliverCA(c)
  BY <1>1, <1>5 DEF EnsureTarget, ImportCluster, DeliverCA, Fine, Fault
<1>6. CASE CheckClient \/ MakeClient \/ WriteEntry
  BY <1>1, <1>6 DEF CheckClient, MakeClient, WriteEntry, Fine, Fault
<1>7. CASE EndImport \/ Crash
  BY <1>1, <1>7 DEF EndImport, Crash, history, Fine, Fault
<1>8. CASE Return
  BY <1>8 DEF TypeOK, ClockType, Return
<1> QED
  BY <1>2, <1>3, <1>4, <1>5, <1>6, <1>7, <1>8 DEF Next, Work

\* Every step keeps the flags Boolean.
LEMMA FlagStep ==
  ASSUME TypeOK, [Next]_vars
  PROVE  FlagType'
<1>1. Synced \in BOOLEAN
  BY DEF Synced
<1>2. clean' \in {clean, FALSE, Synced}
  <2>1. CASE \/ Tick \/ (\E t \in StartTime .. MaxTime : Lapse(t)) \/ DeleteCASecret \/ Sync
             \/ Crash \/ UNCHANGED vars
    BY <2>1 DEF Tick, Lapse, Advance, DeleteCASecret, Sync, Crash, Abandon, history, vars
  <2>2. CASE Work
    BY <2>2 DEF Work, Reconcile, EnsureArgoCDAgentCASecret, EnsureTarget, ImportCluster,
       CheckClient, MakeClient, WriteEntry, EndImport, DeliverCA, Return, Abandon, SkipCluster,
       history
  <2> QED
    BY <2>1, <2>2 DEF Next
<1>3. late' \in {late, TRUE}
  <2>1. CASE \/ Tick \/ (\E t \in StartTime .. MaxTime : Lapse(t)) \/ DeleteCASecret \/ Sync
             \/ Crash \/ UNCHANGED vars
    BY <2>1 DEF Tick, Lapse, Advance, DeleteCASecret, Sync, Crash, history, vars
  <2>2. CASE Work
    BY <2>2 DEF Work, Reconcile, EnsureArgoCDAgentCASecret, EnsureTarget, ImportCluster,
       CheckClient, MakeClient, WriteEntry, EndImport, DeliverCA, Return, history
  <2> QED
    BY <2>1, <2>2 DEF Next
<1>4. kept' \in {kept, TRUE, FALSE}
  <2>1. CASE \/ Tick \/ (\E t \in StartTime .. MaxTime : Lapse(t)) \/ DeleteCASecret \/ Sync
             \/ Crash \/ UNCHANGED vars
    BY <2>1 DEF Tick, Lapse, Advance, DeleteCASecret, Sync, Crash, history, vars
  <2>2. CASE Work
    BY <2>2 DEF Work, Reconcile, EnsureArgoCDAgentCASecret, EnsureTarget, ImportCluster,
       CheckClient, MakeClient, WriteEntry, EndImport, DeliverCA, Return, history
  <2> QED
    BY <2>1, <2>2 DEF Next
<1>5. clean \in BOOLEAN /\ late \in BOOLEAN /\ kept \in BOOLEAN
  BY DEF TypeOK, FlagType
<1> QED
  BY <1>1, <1>2, <1>3, <1>4, <1>5, Zenon DEF FlagType

\* Every step keeps the types of what is stored.
LEMMA StoredStep ==
  ASSUME TypeOK, [Next]_vars
  PROVE  StoredType'
<1>1. CASE UNCHANGED <<made, stored>>
  BY <1>1 DEF TypeOK, StoredType, stored
<1>2. CASE Tick \/ (\E t \in StartTime .. MaxTime : Lapse(t)) \/ Sync \/ UNCHANGED vars
  BY <1>1, <1>2 DEF Tick, Lapse, Advance, Sync, vars
<1>3. CASE Reconcile \/ CheckClient \/ EndImport \/ Return \/ Crash
  BY <1>1, <1>3 DEF Reconcile, CheckClient, EndImport, Return, Crash
<1>4. CASE DeleteCASecret
  BY <1>4, NoThings DEF TypeOK, StoredType, DeleteCASecret
<1>5. CASE EnsureArgoCDAgentCASecret
  BY <1>5, SignerTypes DEF TypeOK, StoredType, EnsureArgoCDAgentCASecret
<1>6. CASE EnsureTarget
  <2>1. made' \in Nat /\ ca' \in CAs
    BY <1>6, SignerTypes DEF EnsureTarget, TypeOK, StoredType
  <2>2. for \in Targets => target[for] \in Certs
    BY DEF TypeOK, StoredType
  <2>3. target' \in [Targets -> Certs]
    BY <1>6, <2>1, <2>2, ServingTypes DEF EnsureTarget, TypeOK, StoredType
  <2> QED
    BY <1>6, <2>1, <2>3 DEF TypeOK, StoredType, EnsureTarget
<1>7. CASE \E c \in Clusters : ImportCluster(c)
  BY <1>7, SignerTypes DEF TypeOK, StoredType, ImportCluster
<1>8. CASE MakeClient
  <2>1. [by |-> signer, from |-> now, until |-> now + term] \in Certs
    BY TrustAssumption DEF TypeOK, ClockType, WorkerType, Certs
  <2> QED
    BY <1>8, <2>1 DEF TypeOK, StoredType, MakeClient
<1>9. CASE WriteEntry
  <2>1. for \in Clusters
    BY <1>9 DEF WriteEntry, TypeOK, WorkerType
  <2>2. ClusterSecretData(for) \in Entries
    BY <2>1 DEF TypeOK, CacheType, ClusterSecretData, Entries
  <2> QED
    BY <1>9, <2>2 DEF TypeOK, StoredType, WriteEntry
<1>10. CASE \E c \in Clusters : DeliverCA(c)
  BY <1>10 DEF TypeOK, StoredType, CacheType, DeliverCA
<1> QED
  BY <1>2, <1>3, <1>4, <1>5, <1>6, <1>7, <1>8, <1>9, <1>10 DEF Next, Work

\* Every step keeps the types of the cache.
LEMMA CacheStep ==
  ASSUME TypeOK, [Next]_vars
  PROVE  CacheType'
<1>1. CASE UNCHANGED cache
  BY <1>1 DEF TypeOK, CacheType, cache
<1>2. CASE Sync \/ Crash
  BY <1>2 DEF TypeOK, StoredType, CacheType, Sync, Crash
<1>3. CASE Tick \/ (\E t \in StartTime .. MaxTime : Lapse(t)) \/ DeleteCASecret \/ UNCHANGED vars
  BY <1>1, <1>3 DEF Tick, Lapse, Advance, DeleteCASecret, vars
<1>4. CASE Work
  BY <1>1, <1>4 DEF Work, Reconcile, EnsureArgoCDAgentCASecret, EnsureTarget, ImportCluster,
     CheckClient, MakeClient, WriteEntry, EndImport, DeliverCA, Return
<1> QED
  BY <1>2, <1>3, <1>4 DEF Next

\* Every step keeps the types of what the worker has in hand.
LEMMA WorkerStep ==
  ASSUME TypeOK, [Next]_vars
  PROVE  WorkerType'
<1> USE NoThings DEF Targets, Nobody
<1>1. CASE UNCHANGED worker
  BY <1>1 DEF TypeOK, WorkerType, worker
<1>2. CASE \/ Tick \/ (\E t \in StartTime .. MaxTime : Lapse(t)) \/ DeleteCASecret \/ Sync
           \/ UNCHANGED vars
  BY <1>1, <1>2 DEF Tick, Lapse, Advance, DeleteCASecret, Sync, vars
<1>3. CASE Abandon
  BY <1>3 DEF WorkerType, Abandon, PutDown
<1>4. CASE NextCluster
  BY <1>4 DEF TypeOK, WorkerType, NextCluster, PutDown
<1>5. CASE Crash
  BY <1>3, <1>5 DEF Crash
<1>6. CASE Reconcile \/ EndImport \/ Return \/ \E c \in Clusters : DeliverCA(c)
  BY <1>6 DEF TypeOK, WorkerType, Reconcile, EndImport, Return, DeliverCA, InHand
<1>7. CASE EnsureArgoCDAgentCASecret
  BY <1>3, <1>7 DEF TypeOK, WorkerType, EnsureArgoCDAgentCASecret, InHand
<1>8. CASE EnsureTarget
  BY <1>3, <1>8 DEF TypeOK, WorkerType, EnsureTarget, InHand
<1>9. CASE \E c \in Clusters : ImportCluster(c)
  <2>1. ca' \in CAs
    BY <1>9, SignerTypes DEF TypeOK, StoredType, ImportCluster
  <2> QED
    BY <1>9, <2>1 DEF TypeOK, WorkerType, CacheType, ImportCluster, InHand
<1>10. CASE CheckClient
  <2>1. now \in Nat
    BY TrustAssumption DEF TypeOK, ClockType
  <2> QED
    BY <1>4, <1>10, <2>1, ValidityFits DEF TypeOK, WorkerType, CheckClient, SkipCluster, InHand
<1>11. CASE MakeClient \/ WriteEntry
  BY <1>4, <1>11 DEF TypeOK, WorkerType, MakeClient, WriteEntry, SkipCluster
<1> QED
  BY <1>2, <1>5, <1>6, <1>7, <1>8, <1>9, <1>10, <1>11 DEF Next, Work

\* Every step keeps room for the certificate that is being made, and no certificate made
\* outlives its signer.
LEMMA TermStep ==
  ASSUME IInv, [Next]_vars
  PROVE  TermFits' /\ SignerOutlivesClient'
<1>1. CASE CheckClient
  <2>1. client' = client
    BY <1>1 DEF CheckClient, stored
  <2>2. now' = now /\ signer' \in {signer, NoCA}
    BY <1>1 DEF CheckClient, InHand, SkipCluster, NextCluster, PutDown
  <2>3. pc' = "make" => /\ ~Spent /\ term' = Validity /\ asked' = now /\ signer' = signer
    BY <1>1 DEF CheckClient, SkipCluster, NextCluster
  <2>4. TermFits'
    BY <2>2, <2>3, ValidityFits, TrustAssumption DEF IInv, TypeOK, ClockType, WorkerType, TermFits
  <2> QED
    BY <2>1, <2>4 DEF IInv, SignerOutlivesClient
<1>2. CASE MakeClient
  <2>1. pc' # "make"
    BY <1>2 DEF MakeClient, SkipCluster, NextCluster
  <2>2. now + term <= signer.until
    BY <1>2, TrustAssumption DEF IInv, TypeOK, ClockType, WorkerType, TermFits, MakeClient, CAs
  <2>3. SignerOutlivesClient'
    BY <1>2, <2>2 DEF IInv, TypeOK, StoredType, MakeClient, SignerOutlivesClient
  <2> QED
    BY <2>1, <2>3 DEF TermFits
<1>3. CASE Tick \/ \E t \in StartTime .. MaxTime : Lapse(t)
  BY <1>3 DEF IInv, TypeOK, Tick, Lapse, Advance, TimeLeft, stored, worker, TermFits,
     SignerOutlivesClient
<1>4. CASE /\ client' = client
           /\ \/ pc' # "make"
              \/ now' = now /\ pc' = pc /\ signer' = signer /\ asked' = asked /\ term' = term
  BY <1>4 DEF IInv, TermFits, SignerOutlivesClient
<1>5. CASE DeleteCASecret \/ Sync \/ UNCHANGED vars
  BY <1>4, <1>5 DEF DeleteCASecret, Sync, vars, stored, worker
<1>6. CASE Reconcile \/ EnsureArgoCDAgentCASecret \/ EnsureTarget \/ EndImport \/ Return
  BY <1>4, <1>6 DEF Reconcile, EnsureArgoCDAgentCASecret, EnsureTarget, EndImport, Return,
     Abandon, stored
<1>7. CASE \E c \in Clusters : ImportCluster(c) \/ DeliverCA(c)
  BY <1>4, <1>7 DEF ImportCluster, DeliverCA
<1>8. CASE WriteEntry \/ Crash
  BY <1>4, <1>8 DEF WriteEntry, SkipCluster, NextCluster, Crash, Abandon, stored
<1> QED
  BY <1>1, <1>2, <1>3, <1>5, <1>6, <1>7, <1>8 DEF Next, Work

LEMMA StepInv == IInv /\ [Next]_vars => IInv'
BY ClockStep, FlagStep, StoredStep, CacheStep, WorkerStep, TermStep DEF IInv, TypeOK

\* Every variable keeps its type.
THEOREM TypeCorrect == Spec => []TypeOK
<1>1. IInv => TypeOK
  BY DEF IInv
<1> QED
  BY InitInv, StepInv, <1>1, PTL DEF Spec

\* No client certificate outlives the CA that has signed it, whenever that CA was
\* rotated or deleted and however long the reconcile has taken.
THEOREM CertificatesEndInTime == Spec => []SignerOutlivesClient
<1>1. IInv => SignerOutlivesClient
  BY DEF IInv
<1> QED
  BY InitInv, StepInv, <1>1, PTL DEF Spec

-----------------------------------------------------------------------------
(* No cluster secret carries an expired certificate.                       *)

\* What the constants have to satisfy: a fifth of a certificate's full term is at least a
\* unit of time, and a signer in its last fifth still has more than the skew to go.  Both
\* are needed: TLC finds an expired certificate with either bound one lower.
Durable == TargetValidity >= 5 /\ CAValidity \div 5 > Skew

\* A certificate that outlasts the current unit of time.
Lasting(cert) == cert = NoCert \/ now < cert.until

\* A certificate of a full term has a last fifth in which it is renewed in time; a shorter
\* one ends, but for the skew, with its signer, which is rotated before that.
Shaped(cert) ==
    \/ cert = NoCert
    \/ cert.until - cert.from >= 5
    \/ cert.until + Skew >= cert.by.until

IsSigner(by) == by # NoCA /\ by.until - by.from = CAValidity

\* Certificates come from signers with enough life left, and so does the one under way.
IssueInv ==
    /\ ca # NoCA => IsSigner(ca)
    /\ pc \in {"client", "make", "entry"} => IsSigner(signer)
    /\ pc = "client" /\ clean => ~Aged(signer)
    /\ pc = "make" => /\ asked <= now
                      /\ term >= 1
                      /\ term >= 5 \/ asked + term + Skew >= signer.until
    /\ \A c \in Clusters : Shaped(client[c])

Serving == {"import", "client", "make", "entry"}
Busy == {"client", "make", "entry"}

\* In a reconcile that has gone well so far, the cached cluster secrets it has still to look
\* at are up to date, and so is the one in hand: nobody else writes them.
HeldInv ==
    clean =>
        /\ pc \in {"ca", "target"} => seenEntry = entry
        /\ pc \in Serving => \A c \in todo : seenEntry[c] = entry[c]
        /\ pc \in Busy => held = entry[for]

\* The reconcile under way has dealt with cluster c.
Done(c) == pc = "work" \/ (pc \in Serving /\ c \notin todo)

\* The first good reconcile since the clock moved renews the client certificates, the second
\* one finds them in the cache and writes them to the cluster secrets.
ClientsLast ==
    \A c \in Clusters :
        rounds >= 1 \/ (clean /\ (Done(c) \/ (pc = "entry" /\ c = for))) => Lasting(client[c])
SeenLast ==
    \A c \in Clusters :
        rounds = 2 \/ (rounds = 1 /\ clean) => Lasting(seenClient[c])
EntriesLast ==
    \A c \in Clusters :
        rounds = 2 \/ (rounds = 1 /\ clean /\ Done(c)) => Lasting(entry[c].client)

\* Until the clock has outrun the reconciles, no copy of a client certificate has expired.
Expired(cert) == cert # NoCert /\ now > cert.until
NoneExpired ==
    \A c \in Clusters :
        /\ entry[c] # NoEntry => entry[c].client # NoCert
        /\ ~late => ~Expired(client[c]) /\ ~Expired(seenClient[c]) /\ ~Expired(entry[c].client)

RenewalInv == IssueInv /\ HeldInv /\ ClientsLast /\ SeenLast /\ EntriesLast /\ NoneExpired

\* The CA in the secret after EnsureSigner is one to sign with.
LEMMA SignerInForce ==
  ASSUME TypeOK, ca # NoCA => IsSigner(ca), EnsureSigner
  PROVE  ca' \in CAs /\ IsSigner(ca') /\ ~Aged(ca')
<1>1. now \in Nat /\ made \in Nat /\ ca \in CAs /\ CAValidity \in Nat
  BY TrustAssumption DEF TypeOK, ClockType, StoredType
<1>2. CASE ca = NoCA \/ Aged(ca)
  <2>1. ca' = [serial |-> made + 1, from |-> now, until |-> now + CAValidity]
    BY <1>2 DEF EnsureSigner
  <2>2. ca' \in CAs /\ ca' # NoCA /\ ca'.until - ca'.from = CAValidity
    BY <1>1, <2>1 DEF CAs, NoCA
  <2>3. ~Aged(ca')
    BY <1>1, <2>1 DEF Aged
  <2> QED
    BY <2>2, <2>3 DEF IsSigner
<1>3. CASE ~(ca = NoCA \/ Aged(ca))
  BY <1>1, <1>3 DEF EnsureSigner
<1> QED
  BY <1>2, <1>3

\* A certificate that hasValidClusterClientCertificate accepts from a signer that is not in
\* its last fifth outlasts the current unit of time.
LEMMA ValidLasts ==
  ASSUME Durable, TypeOK, NEW cert \in Certs, Shaped(cert), Valid(cert), IsSigner(signer),
         ~Aged(signer)
  PROVE  Lasting(cert)
<1>1. /\ now \in Nat /\ signer.until \in Nat /\ signer.from \in Nat
      /\ cert.until \in Nat /\ cert.from \in Nat /\ cert.by = signer
      /\ CAValidity \in Nat /\ TargetValidity \in Nat /\ Skew \in Nat
  BY TrustAssumption DEF TypeOK, ClockType, WorkerType, CAs, Certs, Valid
<1>2. CASE cert.until - cert.from >= 5
  BY <1>1, <1>2 DEF Valid, Aged, Lasting
<1>3. CASE cert.until + Skew >= cert.by.until
  <2>1. now <= signer.until - CAValidity \div 5
    BY <1>1 DEF IsSigner, Aged
  <2> QED
    BY <1>1, <1>3, <2>1 DEF Durable, Lasting
<1> QED
  BY <1>2, <1>3 DEF Shaped, Valid

\* What clusterClientCertificateTargetValidity works out is a full term or reaches to the
\* end of the signer.
LEMMA ValidityShape ==
  ASSUME Durable, TypeOK, ~Spent
  PROVE  /\ Validity >= 1
         /\ Validity >= 5 \/ now + Validity + Skew >= signer.until
<1>1. signer.until \in Nat /\ now \in Nat /\ TargetValidity \in Nat /\ Skew \in Nat
  BY TrustAssumption DEF TypeOK, ClockType, WorkerType, CAs
<1> QED
  BY <1>1 DEF Durable, Spent, Remaining, Validity

\* The certificate that MakeClient makes.
NewClient == [by |-> signer, from |-> now, until |-> now + term]

LEMMA NewClientLasts ==
  ASSUME TypeOK, IssueInv, pc = "make"
  PROVE  Shaped(NewClient) /\ Lasting(NewClient) /\ NewClient # NoCert
<1>1. now \in Nat /\ term \in Nat /\ asked \in Nat /\ signer \in CAs /\ Skew \in Nat
  BY TrustAssumption DEF TypeOK, ClockType, WorkerType
<1>2. signer.until \in Nat
  BY <1>1 DEF CAs
<1>3. /\ asked <= now /\ term >= 1 /\ signer # NoCA
      /\ term >= 5 \/ asked + term + Skew >= signer.until
  BY DEF IssueInv, IsSigner
<1>4. NewClient.by = signer /\ NewClient.from = now /\ NewClient.until = now + term
  BY DEF NewClient
<1> QED
  BY <1>1, <1>2, <1>3, <1>4 DEF Shaped, Lasting, NoCert

LEMMA IssueStep ==
  ASSUME Durable, IInv, IssueInv, [Next]_vars
  PROVE  IssueInv'
<1>0. TypeOK /\ now \in Nat /\ (pc \in Busy => for \in Clusters)
  BY TrustAssumption DEF IInv, TypeOK, ClockType, WorkerType, Busy
<1>1. CASE UNCHANGED <<ca, client, pc, signer, term, asked>> /\ now' \in Nat /\ now' >= now /\ ~clean'
  <2>1. asked \in Nat
    BY <1>0 DEF TypeOK, WorkerType
  <2> QED
    BY <1>0, <1>1, <2>1 DEF IssueInv, Shaped
<1>2. CASE /\ (ca' # NoCA => IsSigner(ca')) /\ UNCHANGED client
           /\ \/ pc' \notin Busy
              \/ UNCHANGED <<now, pc, signer, term, asked>> /\ (clean' => clean)
  BY <1>2 DEF IssueInv, Shaped, Busy, Aged
<1>3. CASE Tick
  BY <1>0, <1>1, <1>3 DEF Tick, Advance, stored, worker
<1>4. CASE \E t \in StartTime .. MaxTime : Lapse(t)
  <2>1. PICK t \in StartTime .. MaxTime : Lapse(t)
    BY <1>4
  <2>2. now' \in Nat /\ now' >= now
    BY <1>0, <2>1, TrustAssumption DEF Lapse, Advance
  <2> QED
    BY <1>1, <2>1, <2>2 DEF Lapse, Advance, stored, worker
<1>5. CASE DeleteCASecret \/ Sync \/ UNCHANGED vars
  BY <1>2, <1>5 DEF DeleteCASecret, Sync, vars, stored, worker, history, IssueInv
<1>6. CASE Reconcile \/ EndImport \/ Return \/ Crash \/ \E c \in Clusters : DeliverCA(c)
  BY <1>2, <1>6 DEF Reconcile, EndImport, Return, Crash, DeliverCA, Abandon, stored, Busy,
     IssueInv
<1>7. CASE EnsureArgoCDAgentCASecret \/ EnsureTarget
  <2>1. ca' # NoCA => IsSigner(ca')
    BY <1>0, <1>7, SignerInForce DEF EnsureArgoCDAgentCASecret, EnsureTarget, IssueInv
  <2> QED
    BY <1>2, <1>7, <2>1 DEF EnsureArgoCDAgentCASecret, EnsureTarget, Abandon, Busy
<1>8. ASSUME NEW c \in Clusters, ImportCluster(c)
      PROVE  IssueInv'
  <2>1. CASE EnsureSigner /\ signer' = ca' /\ pc' = "client"
    <3>1. IsSigner(ca') /\ ~Aged(ca')
      BY <1>0, <2>1, SignerInForce DEF IssueInv
    <3>2. client' = client /\ now' = now
      BY <1>8 DEF ImportCluster
    <3> QED
      BY <2>1, <3>1, <3>2 DEF IssueInv, IsSigner, Aged, Shaped
  <2>2. CASE UNCHANGED ca /\ pc' = "import"
    BY <1>2, <1>8, <2>2 DEF ImportCluster, IssueInv, Busy
  <2> QED
    BY <1>8, <2>1, <2>2 DEF ImportCluster
<1>9. CASE CheckClient
  <2>1. UNCHANGED <<now, ca, client>> /\ pc = "client"
    BY <1>9 DEF CheckClient, stored
  <2>2. CASE pc' = "make"
    <3>1. ~Spent /\ term' = Validity /\ asked' = now /\ signer' = signer
      BY <1>9, <2>2 DEF CheckClient, SkipCluster, NextCluster
    <3>2. asked' <= now' /\ term' >= 1 /\ (term' >= 5 \/ asked' + term' + Skew >= signer'.until)
      BY <1>0, <2>1, <3>1, ValidityShape
    <3> QED
      BY <2>1, <2>2, <3>1, <3>2 DEF IssueInv, Shaped
  <2>3. CASE pc' = "entry" /\ signer' = signer
    BY <2>1, <2>3 DEF IssueInv, Shaped
  <2>4. CASE pc' = "import"
    BY <1>2, <2>1, <2>4 DEF IssueInv, Busy
  <2> QED
    BY <1>9, <2>2, <2>3, <2>4 DEF CheckClient, SkipCluster, NextCluster, InHand
<1>10. CASE MakeClient
  <2>1. CASE pc' = "entry"
    <3>1. client' = [client EXCEPT ![for] = NewClient] /\ UNCHANGED <<now, ca, signer>>
      BY <1>10, <2>1 DEF MakeClient, NewClient, SkipCluster, NextCluster
    <3>2. Shaped(NewClient)
      BY <1>0, <1>10, NewClientLasts DEF MakeClient
    <3>3. \A c \in Clusters : Shaped(client'[c])
      BY <3>1, <3>2 DEF IssueInv, IInv, TypeOK, StoredType
    <3> QED
      BY <1>10, <2>1, <3>1, <3>3 DEF IssueInv, MakeClient, Shaped
  <2>2. CASE SkipCluster /\ UNCHANGED client
    BY <1>2, <1>10, <2>2 DEF MakeClient, SkipCluster, NextCluster, IssueInv, Busy
  <2> QED
    BY <1>10, <2>1, <2>2 DEF MakeClient
<1>11. CASE WriteEntry
  BY <1>2, <1>11 DEF WriteEntry, SkipCluster, NextCluster, IssueInv, Busy
<1> QED
  BY <1>3, <1>4, <1>5, <1>6, <1>7, <1>8, <1>9, <1>10, <1>11 DEF Next, Work

LEMMA HeldStep ==
  ASSUME TypeOK, HeldInv, [Next]_vars
  PROVE  HeldInv'
<1> USE DEF HeldInv, Serving, Busy
<1>1. CASE ~clean'
  BY <1>1
<1>2. CASE Tick \/ (\E t \in StartTime .. MaxTime : Lapse(t)) \/ Return \/ Crash
  BY <1>1, <1>2 DEF Tick, Lapse, Advance, Return, Crash, Abandon
<1>3. CASE DeleteCASecret \/ UNCHANGED vars
  BY <1>3 DEF DeleteCASecret, cache, worker, history, stored, vars
<1>4. CASE Sync
  <2>1. \/ seenEntry' = seenEntry
        \/ \E c \in Clusters : seenEntry' = [seenEntry EXCEPT ![c] = entry[c]]
    BY <1>4 DEF Sync
  <2>2. seenEntry = entry => seenEntry' = entry
    BY <2>1 DEF TypeOK, StoredType, CacheType
  <2>3. \A c \in Clusters : seenEntry[c] = entry[c] => seenEntry'[c] = entry[c]
    BY <2>1 DEF TypeOK, StoredType, CacheType
  <2>4. todo \subseteq Clusters /\ UNCHANGED <<pc, for, todo, held, entry, clean>>
    BY <1>4 DEF Sync, TypeOK, WorkerType, worker, stored, history
  <2> QED
    BY <2>2, <2>3, <2>4
<1>5. CASE Reconcile
  BY <1>5 DEF Reconcile, Synced, stored, cache
<1>6. CASE EnsureArgoCDAgentCASecret \/ EnsureTarget
  BY <1>6 DEF EnsureArgoCDAgentCASecret, EnsureTarget, Abandon, cache
<1>7. ASSUME NEW c \in Clusters, ImportCluster(c)
      PROVE  HeldInv'
  BY <1>7 DEF ImportCluster, cache
<1>8. CASE CheckClient \/ MakeClient
  BY <1>1, <1>8 DEF CheckClient, MakeClient, SkipCluster, stored, cache, InHand
<1>9. CASE WriteEntry
  <2>1. CASE clean'
    <3>1. /\ pc = "entry" /\ pc' = "import" /\ todo' = todo \ {for} /\ seenEntry' = seenEntry
          /\ clean /\ todo \subseteq Clusters
      BY <1>9, <2>1 DEF WriteEntry, NextCluster, SkipCluster, cache, TypeOK, WorkerType
    <3>2. \A c \in todo' : entry'[c] = entry[c]
      BY <1>9, <3>1 DEF WriteEntry, TypeOK, StoredType
    <3> QED
      BY <3>1, <3>2
  <2> QED
    BY <1>1, <2>1
<1>10. CASE EndImport \/ \E c \in Clusters : DeliverCA(c)
  BY <1>10 DEF EndImport, DeliverCA
<1> QED
  BY <1>2, <1>3, <1>4, <1>5, <1>6, <1>7, <1>8, <1>9, <1>10 DEF Next, Work

\* Time has not moved and at most one client certificate has been made.
LEMMA ClientsStep ==
  ASSUME Durable, IInv, IssueInv, ClientsLast, [Next]_vars
  PROVE  ClientsLast'
<1> USE DEF ClientsLast, Lasting, Done, Serving
<1>0. TypeOK /\ rounds \in 0 .. 2 /\ for \in Targets \cup Clusters \cup {Nobody}
  BY DEF IInv, TypeOK, ClockType, WorkerType
<1>1. CASE rounds' = 0 /\ ~clean'
  BY <1>1
<1>2. CASE /\ UNCHANGED <<now, client, rounds>>
           /\ \/ ~clean'
              \/ pc' \in {"ca", "target"}
              \/ pc' = "import" /\ todo' = Clusters
              \/ UNCHANGED <<pc, for, todo>> /\ (clean' => clean)
  BY <1>0, <1>2
<1>3. CASE Tick \/ \E t \in StartTime .. MaxTime : Lapse(t)
  BY <1>1, <1>3 DEF Tick, Lapse, Advance
<1>4. CASE DeleteCASecret \/ Sync \/ Crash \/ UNCHANGED vars
  BY <1>2, <1>4 DEF DeleteCASecret, Sync, Crash, Abandon, stored, worker, history, vars
<1>5. CASE Reconcile \/ EnsureArgoCDAgentCASecret \/ EnsureTarget
  BY <1>2, <1>5 DEF Reconcile, EnsureArgoCDAgentCASecret, EnsureTarget, Abandon, stored
<1>6. ASSUME NEW c \in Clusters, ImportCluster(c)
      PROVE  ClientsLast'
  BY <1>6 DEF ImportCluster
<1>7. CASE CheckClient
  <2>1. UNCHANGED <<now, client, rounds>> /\ pc = "client" /\ for \in Clusters
    BY <1>0, <1>7 DEF CheckClient, stored, TypeOK, WorkerType
  <2>2. CASE pc' = "entry"
    <3>1. Valid(client[for]) /\ UNCHANGED <<for, todo, clean>>
      BY <1>7, <2>2 DEF CheckClient, SkipCluster, NextCluster
    <3>2. clean => Lasting(client[for])
      BY <1>0, <2>1, <3>1, ValidLasts DEF IssueInv, TypeOK, StoredType
    <3> QED
      BY <2>1, <2>2, <3>1, <3>2
  <2>3. CASE pc' = "make" /\ UNCHANGED <<for, todo, clean>>
    BY <2>1, <2>3
  <2>4. CASE ~clean'
    BY <1>2, <2>1, <2>4
  <2> QED
    BY <1>7, <2>2, <2>3, <2>4 DEF CheckClient, SkipCluster
<1>8. CASE MakeClient
  <2>1. UNCHANGED <<now, rounds>> /\ pc = "make" /\ for \in Clusters
    BY <1>0, <1>8 DEF MakeClient, TypeOK, WorkerType
  <2>2. CASE pc' = "entry"
    <3>1. /\ client' = [client EXCEPT ![for] = NewClient]
          /\ UNCHANGED <<for, todo, clean>>
      BY <1>8, <2>2 DEF MakeClient, NewClient, SkipCluster, NextCluster
    <3>2. Lasting(NewClient)
      BY <1>0, <2>1, NewClientLasts
    <3>3. \A c \in Clusters : client'[c] = IF c = for THEN NewClient ELSE client[c]
      BY <1>0, <3>1 DEF TypeOK, StoredType
    <3> QED
      BY <2>1, <2>2, <3>1, <3>2, <3>3
  <2>3. CASE ~clean' /\ UNCHANGED client
    BY <1>2, <2>1, <2>3
  <2> QED
    BY <1>8, <2>2, <2>3 DEF MakeClient, SkipCluster
<1>9. CASE WriteEntry
  BY <1>9 DEF WriteEntry, NextCluster, SkipCluster
<1>10. CASE EndImport \/ \E c \in Clusters : DeliverCA(c)
  BY <1>10 DEF EndImport, DeliverCA, stored, history
<1>11. CASE Return
  BY <1>0, <1>11 DEF Return, stored
<1> QED
  BY <1>3, <1>4, <1>5, <1>6, <1>7, <1>8, <1>9, <1>10, <1>11 DEF Next, Work

LEMMA SeenStep ==
  ASSUME TypeOK, ClientsLast, SeenLast, [Next]_vars
  PROVE  SeenLast'
<1> USE DEF SeenLast, Lasting
<1>0. rounds \in 0 .. 2
  BY DEF TypeOK, ClockType
<1>1. CASE rounds' = 0
  BY <1>1
<1>2. CASE UNCHANGED <<now, rounds, seenClient>> /\ (clean' => clean)
  BY <1>2
<1>3. CASE Tick \/ \E t \in StartTime .. MaxTime : Lapse(t)
  BY <1>1, <1>3 DEF Tick, Lapse, Advance
<1>4. CASE DeleteCASecret \/ UNCHANGED vars
  BY <1>2, <1>4 DEF DeleteCASecret, cache, history, vars
<1>5. CASE Sync
  <2>1. \A c \in Clusters : seenClient'[c] \in {seenClient[c], client[c]}
    BY <1>5 DEF Sync, TypeOK, CacheType
  <2>2. UNCHANGED <<now, rounds, clean>>
    BY <1>5 DEF Sync, history
  <2> QED
    BY <1>0, <2>1, <2>2 DEF ClientsLast
<1>6. CASE Reconcile
  <2>1. UNCHANGED <<now, rounds, seenClient>> /\ (clean' => seenClient = client)
    BY <1>6 DEF Reconcile, Synced, cache
  <2> QED
    BY <1>0, <2>1 DEF ClientsLast
<1>7. CASE Crash
  BY <1>7 DEF Crash, Abandon, ClientsLast
<1>8. CASE \/ EnsureArgoCDAgentCASecret \/ EnsureTarget \/ CheckClient \/ MakeClient
           \/ WriteEntry \/ EndImport \/ (\E c \in Clusters : ImportCluster(c) \/ DeliverCA(c))
  BY <1>2, <1>8 DEF EnsureArgoCDAgentCASecret, EnsureTarget, CheckClient, MakeClient,
     WriteEntry, EndImport, ImportCluster, DeliverCA, Abandon, SkipCluster, cache, history
<1>9. CASE Return
  BY <1>0, <1>9 DEF Return, cache
<1> QED
  BY <1>3, <1>4, <1>5, <1>6, <1>7, <1>8, <1>9 DEF Next, Work

LEMMA EntriesStep ==
  ASSUME TypeOK, HeldInv, SeenLast, EntriesLast, [Next]_vars
  PROVE  EntriesLast'
<1> USE DEF EntriesLast, Lasting, Done, Serving
<1>0. rounds \in 0 .. 2
  BY DEF TypeOK, ClockType
<1>1. CASE rounds' = 0
  BY <1>1
<1>2. CASE /\ UNCHANGED <<now, rounds, entry>>
           /\ \/ ~clean'
              \/ pc' \in {"ca", "target"}
              \/ pc' = "import" /\ todo' = Clusters
              \/ UNCHANGED <<pc, todo>> /\ (clean' => clean)
  BY <1>2
<1>3. CASE Tick \/ \E t \in StartTime .. MaxTime : Lapse(t)
  BY <1>1, <1>3 DEF Tick, Lapse, Advance
<1>4. CASE DeleteCASecret \/ Sync \/ Crash \/ UNCHANGED vars
  BY <1>2, <1>4 DEF DeleteCASecret, Sync, Crash, Abandon, stored, worker, history, vars
<1>5. CASE Reconcile \/ EnsureArgoCDAgentCASecret \/ EnsureTarget
  BY <1>2, <1>5 DEF Reconcile, EnsureArgoCDAgentCASecret, EnsureTarget, Abandon, stored
<1>6. ASSUME NEW c \in Clusters, ImportCluster(c)
      PROVE  EntriesLast'
  BY <1>6 DEF ImportCluster
<1>7. CASE CheckClient \/ MakeClient
  BY <1>7 DEF CheckClient, MakeClient, SkipCluster, stored, InHand
<1>8. CASE WriteEntry
  <2>1. /\ pc = "entry" /\ pc' = "import" /\ todo' = todo \ {for} /\ for \in Clusters
        /\ UNCHANGED <<now, rounds>>
    BY <1>8 DEF WriteEntry, NextCluster, SkipCluster, TypeOK, WorkerType
  <2>2. CASE entry' = [entry EXCEPT ![for] = ClusterSecretData(for)] /\ clean' = clean
    <3>1. \A c \in Clusters :
              entry'[c].client = IF c = for THEN seenClient[for] ELSE entry[c].client
      BY <2>1, <2>2 DEF ClusterSecretData, TypeOK, StoredType
    <3> QED
      BY <2>1, <2>2, <3>1 DEF SeenLast
  <2>3. CASE held = NoEntry /\ entry[for] # NoEntry /\ UNCHANGED <<entry, clean>>
    <3>1. ~clean
      BY <2>1, <2>3 DEF HeldInv, Busy
    <3> QED
      BY <2>1, <2>3, <3>1
  <2>4. CASE ~clean' /\ UNCHANGED entry
    BY <1>2, <2>1, <2>4
  <2> QED
    BY <1>8, <2>2, <2>3, <2>4 DEF WriteEntry, SkipCluster
<1>9. CASE EndImport
  BY <1>9 DEF EndImport, stored, history
<1>10. CASE \E c \in Clusters : DeliverCA(c)
  BY <1>10 DEF DeliverCA
<1>11. CASE Return
  BY <1>0, <1>11 DEF Return, stored
<1> QED
  BY <1>3, <1>4, <1>5, <1>6, <1>7, <1>8, <1>9, <1>10, <1>11 DEF Next, Work

\* A tick comes after two good reconciles, when every certificate outlasts it.
LEMMA ExpiryStep ==
  ASSUME IInv, IssueInv, ClientsLast, SeenLast, EntriesLast, NoneExpired, [Next]_vars
  PROVE  NoneExpired'
<1> USE DEF NoneExpired, Expired
<1>0. /\ TypeOK /\ now \in Nat
      /\ \A c \in Clusters : /\ client[c] \in Certs /\ seenClient[c] \in Certs
                             /\ entry[c].client \in Certs
  BY TrustAssumption DEF IInv, TypeOK, ClockType, StoredType, CacheType, Entries
<1>1. CASE UNCHANGED <<now, late, client, seenClient, entry>>
  BY <1>1
<1>2. CASE Tick
  <2>1. rounds = 2 /\ now' = now + 1 /\ UNCHANGED <<late, client, seenClient, entry>>
    BY <1>2 DEF Tick, Advance, stored, cache
  <2>2. \A c \in Clusters : Lasting(client[c]) /\ Lasting(seenClient[c]) /\ Lasting(entry[c].client)
    BY <2>1 DEF ClientsLast, SeenLast, EntriesLast
  <2>3. \A cert \in Certs : Lasting(cert) /\ cert # NoCert => ~(now + 1 > cert.until)
    BY <1>0 DEF Lasting, Certs
  <2> QED
    BY <1>0, <2>1, <2>2, <2>3
<1>3. CASE \E t \in StartTime .. MaxTime : Lapse(t)
  BY <1>3 DEF Lapse, Advance, stored
<1>4. CASE DeleteCASecret \/ Reconcile \/ EnsureArgoCDAgentCASecret \/ EnsureTarget \/ UNCHANGED vars
  BY <1>1, <1>4 DEF DeleteCASecret, Reconcile, EnsureArgoCDAgentCASecret, EnsureTarget,
     stored, cache, history, vars
<1>5. CASE Sync
  <2>1. \A c \in Clusters : seenClient'[c] \in {seenClient[c], client[c]}
    BY <1>0, <1>5 DEF Sync, TypeOK, CacheType
  <2>2. UNCHANGED <<now, late, client, entry>>
    BY <1>5 DEF Sync, stored, history
  <2> QED
    BY <2>1, <2>2
<1>6. CASE CheckClient \/ EndImport \/ Return \/ \E c \in Clusters : ImportCluster(c) \/ DeliverCA(c)
  BY <1>1, <1>6 DEF CheckClient, EndImport, Return, ImportCluster, DeliverCA, stored, cache,
     history
<1>7. CASE MakeClient
  <2>1. UNCHANGED <<now, late, seenClient, entry>>
    BY <1>7 DEF MakeClient, cache
  <2>2. CASE client' = [client EXCEPT ![for] = NewClient]
    <3>1. NewClient.until > now
      BY <1>0, <1>7, NewClientLasts DEF MakeClient, Lasting
    <3>2. \A c \in Clusters : client'[c] \in {client[c], NewClient}
      BY <1>0, <2>2 DEF TypeOK, StoredType
    <3>3. ~(now > NewClient.until)
      <4>1. NewClient.until \in Int
        BY <1>0 DEF NewClient, TypeOK, WorkerType
      <4> QED
        BY <1>0, <3>1, <4>1
    <3> QED
      BY <2>1, <3>2, <3>3
  <2>3. CASE UNCHANGED client
    BY <1>1, <2>1, <2>3
  <2> QED
    BY <1>7, <2>2, <2>3 DEF MakeClient, NewClient
<1>8. CASE WriteEntry
  <2>1. UNCHANGED <<now, late, client, seenClient>> /\ for \in Clusters
    BY <1>0, <1>8 DEF WriteEntry, cache, TypeOK, WorkerType
  <2>2. CASE seenClient[for] # NoCert /\ entry' = [entry EXCEPT ![for] = ClusterSecretData(for)]
    <3>1. \A c \in Clusters :
              entry'[c] = IF c = for THEN [client |-> seenClient[for], ca |-> seenCA] ELSE entry[c]
      BY <1>0, <2>1, <2>2 DEF ClusterSecretData, TypeOK, StoredType
    <3> QED
      BY <2>1, <2>2, <3>1
  <2>3. CASE UNCHANGED entry
    BY <1>1, <2>1, <2>3
  <2> QED
    BY <1>8, <2>2, <2>3 DEF WriteEntry
<1>9. CASE Crash
  BY <1>9 DEF Crash, stored
<1> QED
  BY <1>2, <1>3, <1>4, <1>5, <1>6, <1>7, <1>8, <1>9 DEF Next, Work

\* As long as two reconciles a unit of time go well, no cluster secret carries an expired
\* client certificate, for every number of clusters and every validity and skew that are
\* Durable, whatever else fails, is rotated or is deleted (argocd_agent_clusters.go:403-460).
THEOREM EntriesStayValid == Durable => (Spec => []EntryUnexpired)
<1> SUFFICES ASSUME Durable PROVE Spec => []EntryUnexpired
  OBVIOUS
<1>1. Init => RenewalInv
  <2> SUFFICES ASSUME Init PROVE RenewalInv
    OBVIOUS
  <2>1. IssueInv
    BY TrustAssumption DEF Init, IssueInv, IsSigner, Shaped
  <2>2. NoneExpired
    BY DEF Init, NoneExpired, Expired, NoEntry
  <2> QED
    BY <2>1, <2>2 DEF Init, RenewalInv, HeldInv, ClientsLast, SeenLast, EntriesLast
<1>2. IInv /\ RenewalInv /\ [Next]_vars => RenewalInv'
  BY IssueStep, HeldStep, ClientsStep, SeenStep, EntriesStep, ExpiryStep DEF RenewalInv, IInv
<1>3. IInv /\ RenewalInv => EntryUnexpired
  <2> SUFFICES ASSUME IInv, RenewalInv, ~late, NEW c \in Clusters, entry[c] # NoEntry
               PROVE  now <= entry[c].client.until
    BY DEF EntryUnexpired
  <2>1. now \in Nat /\ entry[c].client \in Certs
    BY TrustAssumption DEF IInv, TypeOK, ClockType, StoredType, Entries
  <2> QED
    BY <2>1 DEF RenewalInv, NoneExpired, Expired, Certs
<1> QED
  BY InitInv, StepInv, <1>1, <1>2, <1>3, PTL DEF Spec

-----------------------------------------------------------------------------
(* Two good reconciles, and every party is of one CA.                      *)

\* From its third step on the first good reconcile since the clock moved, and all that
\* come after it, have one CA before them, which none of them rotates.
First == rounds >= 1 \/ (clean /\ pc \notin {"idle", "ca"})
Second == rounds = 2 \/ (rounds = 1 /\ clean)

Sound(by) == by # NoCA /\ ~Aged(by)
Good(cert) == cert # NoCert /\ now <= cert.until /\ ~Aged(cert) /\ cert.by = ca

SignerAgrees ==
    /\ First => Sound(ca)
    /\ First /\ pc \in Busy => signer = ca
TargetsAgree ==
    /\ rounds >= 1 \/ (clean /\ pc \in Serving \cup {"work"}) =>
          \A t \in Targets : target[t].by = ca
    /\ clean /\ pc = "target" /\ for = "resource-proxy" => target["principal"].by = ca
ClientsAgree ==
    /\ rounds >= 1 => pc # "make"
    /\ \A c \in Clusters :
          rounds >= 1 \/ (clean /\ (Done(c) \/ (pc = "entry" /\ c = for))) => Good(client[c])
CacheAgrees == Second => seenCA = ca /\ seenClient = client
EntriesAgree ==
    \A c \in Clusters :
        rounds = 2 \/ (rounds = 1 /\ clean /\ Done(c)) =>
            entry[c] = [client |-> client[c], ca |-> ca]
WorksAgree ==
    \A c \in Clusters \ LocalClusters :
        rounds = 2 \/ (rounds = 1 /\ clean /\ pc = "work" /\ c \notin todo) => work[c] = ca

AgreeInv ==
    HeldInv /\ SignerAgrees /\ TargetsAgree /\ ClientsAgree /\ CacheAgrees /\ EntriesAgree /\ WorksAgree

\* EnsureSigner leaves a CA to sign with, and leaves one that is such alone.
LEMMA SignerSound ==
  ASSUME TypeOK, EnsureSigner
  PROVE  Sound(ca') /\ (Sound(ca) => ca' = ca)
<1>1. now \in Nat /\ made \in Nat /\ ca \in CAs /\ CAValidity \in Nat
  BY TrustAssumption DEF TypeOK, ClockType, StoredType
<1>2. CASE Sound(ca)
  BY <1>2 DEF EnsureSigner, Sound
<1>3. CASE ~Sound(ca)
  <2>1. ca' = [serial |-> made + 1, from |-> now, until |-> now + CAValidity]
    BY <1>3 DEF EnsureSigner, Sound
  <2>2. ca' # NoCA /\ ~Aged(ca')
    BY <1>1, <2>1 DEF NoCA, Aged
  <2> QED
    BY <1>3, <2>2 DEF Sound
<1> QED
  BY <1>2, <1>3

\* The CA in the secret is the same in all that follows a first good step 3.
LEMMA CAStays ==
  ASSUME ~DeleteCASecret, TypeOK, SignerAgrees, First, [Next]_vars
  PROVE  ca' = ca
<1> USE DEF SignerAgrees
<1>1. CASE Tick \/ (\E t \in StartTime .. MaxTime : Lapse(t)) \/ Sync \/ Reconcile
  BY <1>1 DEF Tick, Lapse, Advance, Sync, Reconcile, stored
<1>2. CASE DeleteCASecret
  BY <1>2
<1>3. CASE EnsureArgoCDAgentCASecret \/ EnsureTarget
  BY <1>3, SignerSound DEF EnsureArgoCDAgentCASecret, EnsureTarget
<1>4. ASSUME NEW c \in Clusters, ImportCluster(c) PROVE ca' = ca
  BY <1>4, SignerSound DEF ImportCluster
<1>5. CASE CheckClient \/ EndImport \/ Return \/ Crash \/ UNCHANGED vars
  BY <1>5 DEF CheckClient, EndImport, Return, Crash, stored, vars
<1>6. CASE MakeClient \/ WriteEntry \/ \E c \in Clusters : DeliverCA(c)
  BY <1>6 DEF MakeClient, WriteEntry, DeliverCA
<1> QED
  BY <1>1, <1>2, <1>3, <1>4, <1>5, <1>6 DEF Next, Work

LEMMA SignerAgreesStep ==
  ASSUME ~DeleteCASecret, TypeOK, SignerAgrees, [Next]_vars
  PROVE  SignerAgrees'
<1> USE DEF SignerAgrees, First, Busy
<1>0. rounds \in 0 .. 2
  BY DEF TypeOK, ClockType
<1>1. CASE rounds' = 0 /\ ~clean'
  BY <1>1
<1>2. CASE /\ UNCHANGED <<now, ca>> /\ (First' => First)
           /\ pc' \notin Busy \/ UNCHANGED <<pc, signer>>
  BY <1>2 DEF Sound, Aged
<1>3. CASE Tick \/ \E t \in StartTime .. MaxTime : Lapse(t)
  BY <1>1, <1>3 DEF Tick, Lapse, Advance
<1>4. CASE DeleteCASecret
  BY <1>4
<1>5. CASE Sync \/ Reconcile \/ Return \/ EndImport \/ Crash \/ UNCHANGED vars
  BY <1>0, <1>2, <1>5 DEF Sync, Reconcile, Return, EndImport, Crash, Abandon, stored, worker,
     history, vars, InHand
<1>6. CASE EnsureArgoCDAgentCASecret \/ EnsureTarget
  <2>1. UNCHANGED <<now, rounds>> /\ pc' \notin Busy
    BY <1>6 DEF EnsureArgoCDAgentCASecret, EnsureTarget, Abandon
  <2>2. CASE EnsureSigner
    BY <2>1, <2>2, SignerSound DEF Sound, Aged
  <2>3. CASE UNCHANGED ca /\ Abandon
    BY <1>2, <2>1, <2>3 DEF Abandon
  <2> QED
    BY <1>6, <2>2, <2>3 DEF EnsureArgoCDAgentCASecret, EnsureTarget
<1>7. ASSUME NEW c \in Clusters, ImportCluster(c) PROVE SignerAgrees'
  <2>1. UNCHANGED <<now, rounds>>
    BY <1>7 DEF ImportCluster
  <2>2. CASE EnsureSigner /\ signer' = ca' /\ pc' = "client"
    BY <2>1, <2>2, SignerSound DEF Sound, Aged
  <2>3. CASE UNCHANGED <<ca, pc, signer>> /\ clean' = FALSE
    BY <1>2, <2>1, <2>3
  <2> QED
    BY <1>7, <2>2, <2>3 DEF ImportCluster, InHand
<1>8. CASE CheckClient \/ MakeClient \/ WriteEntry
  <2>1. /\ UNCHANGED <<now, ca, rounds>> /\ (clean' => clean) /\ pc \in Busy
        /\ pc' = "import" \/ (pc' \in Busy /\ signer' = signer)
    BY <1>8 DEF CheckClient, MakeClient, WriteEntry, SkipCluster, NextCluster, stored, InHand
  <2> QED
    BY <2>1 DEF Sound, Aged
<1>9. CASE \E c \in Clusters : DeliverCA(c)
  BY <1>2, <1>9 DEF DeliverCA, InHand
<1> QED
  BY <1>3, <1>4, <1>5, <1>6, <1>7, <1>8, <1>9 DEF Next, Work

\* A serving certificate that is kept or made is signed by the CA in hand.
LEMMA TargetsAgreeStep ==
  ASSUME ~DeleteCASecret, TypeOK, SignerAgrees, TargetsAgree, [Next]_vars
  PROVE  TargetsAgree'
<1> USE DEF TargetsAgree, Serving
<1>0. rounds \in 0 .. 2 /\ target \in [Targets -> Certs]
  BY DEF TypeOK, ClockType, StoredType
<1>1. CASE rounds' = 0 /\ ~clean'
  BY <1>1
<1>2. First => ca' = ca
  BY CAStays
<1>3. CASE /\ UNCHANGED target /\ rounds' = rounds /\ (clean' => clean)
           /\ pc' \in Serving \cup {"work"} /\ clean' => pc \in Serving \cup {"work"}
           /\ pc' # "target"
  <2>1. rounds >= 1 \/ (clean' /\ pc' \in Serving \cup {"work"}) => ca' = ca
    BY <1>2, <1>3 DEF First
  <2> QED
    BY <1>3, <2>1
<1>4. CASE Tick \/ \E t \in StartTime .. MaxTime : Lapse(t)
  BY <1>1, <1>4 DEF Tick, Lapse, Advance
<1>5. CASE DeleteCASecret
  BY <1>5
<1>6. CASE Sync \/ UNCHANGED vars
  BY <1>6 DEF Sync, stored, worker, history, vars
<1>7. CASE Reconcile \/ EndImport \/ Crash
  BY <1>3, <1>7 DEF Reconcile, EndImport, Crash, Abandon, stored, history
<1>8. CASE Return
  BY <1>0, <1>8 DEF Return, stored
<1>9. CASE EnsureArgoCDAgentCASecret
  <2>1. UNCHANGED <<target, rounds>> /\ (clean' => pc' = "target" /\ for' = "principal")
    BY <1>9 DEF EnsureArgoCDAgentCASecret, Abandon
  <2>2. rounds >= 1 => ca' = ca
    BY <1>2 DEF First
  <2> QED
    BY <2>1, <2>2
<1>10. CASE EnsureTarget
  <2>1. rounds' = rounds /\ pc = "target" /\ for \in Targets
    BY <1>10 DEF EnsureTarget, TypeOK, WorkerType
  <2>2. CASE Abandon /\ UNCHANGED target
    BY <1>2, <2>1, <2>2 DEF Abandon, First
  <2>3. CASE /\ target' = [target EXCEPT ![for] = ServingCert(@, ca')]
             /\ clean' = clean
             /\ \/ for = "principal" /\ pc' = "target" /\ for' = "resource-proxy"
                \/ for = "resource-proxy" /\ pc' = "import"
    <3>1. ServingCert(target[for], ca').by = ca'
      BY DEF ServingCert
    <3>2. \A t \in Targets : target'[t].by = IF t = for THEN ca' ELSE target[t].by
      BY <1>0, <2>1, <2>3, <3>1
    <3>3. rounds >= 1 \/ clean => ca' = ca
      BY <1>2, <2>1 DEF First
    <3> QED
      BY <2>1, <2>3, <3>2, <3>3 DEF Targets
  <2> QED
    BY <1>10, <2>1, <2>2, <2>3 DEF EnsureTarget, Targets
<1>11. CASE CheckClient \/ MakeClient \/ WriteEntry \/ \E c \in Clusters : ImportCluster(c) \/ DeliverCA(c)
  BY <1>3, <1>11 DEF CheckClient, MakeClient, WriteEntry, ImportCluster, DeliverCA, SkipCluster,
     NextCluster, stored
<1> QED
  BY <1>4, <1>5, <1>6, <1>7, <1>8, <1>9, <1>10, <1>11 DEF Next, Work

\* A client certificate that has just been made is good.
LEMMA NewClientGood ==
  ASSUME TypeOK, pc = "make", Sound(ca), signer = ca
  PROVE  Good(NewClient)
<1>1. now \in Nat /\ term \in Nat
  BY TrustAssumption DEF TypeOK, ClockType, WorkerType
<1>2. NewClient.by = ca /\ NewClient.from = now /\ NewClient.until = now + term
  BY DEF NewClient
<1>3. ~Aged(NewClient) /\ now <= NewClient.until
  BY <1>1, <1>2 DEF Aged
<1> QED
  BY <1>2, <1>3 DEF Good, Sound, NoCert

\* Until the clock moves, a good certificate stays so, and no other is made for it.
LEMMA ClientsAgreeStep ==
  ASSUME ~DeleteCASecret, TypeOK, SignerAgrees, ClientsAgree, [Next]_vars
  PROVE  ClientsAgree'
<1> USE DEF ClientsAgree, Done, Serving
<1>0. rounds \in 0 .. 2 /\ for \in Targets \cup Clusters \cup {Nobody}
  BY DEF TypeOK, ClockType, WorkerType
<1>1. CASE rounds' = 0 /\ ~clean'
  BY <1>1
<1>2. First /\ now' = now => \A cert : Good(cert) => Good(cert)'
  BY CAStays DEF Good, Aged
<1>3. CASE /\ UNCHANGED <<now, client, rounds>> /\ pc' # "make"
           /\ \/ ~clean'
              \/ pc' \in {"ca", "target"}
              \/ pc' = "import" /\ todo' = Clusters
              \/ UNCHANGED <<pc, for, todo>> /\ (clean' => clean)
  BY <1>0, <1>2, <1>3 DEF First
<1>4. CASE Tick \/ \E t \in StartTime .. MaxTime : Lapse(t)
  BY <1>1, <1>4 DEF Tick, Lapse, Advance
<1>5. CASE DeleteCASecret
  BY <1>5
<1>6. CASE Sync \/ UNCHANGED vars
  <2>1. UNCHANGED <<now, client, rounds, pc, for, todo, clean, ca>>
    BY <1>6 DEF Sync, stored, worker, history, vars
  <2> QED
    BY <2>1 DEF Good, Aged
<1>7. CASE Reconcile \/ EnsureArgoCDAgentCASecret \/ EnsureTarget \/ Crash
  BY <1>3, <1>7 DEF Reconcile, EnsureArgoCDAgentCASecret, EnsureTarget, Crash, Abandon, stored
<1>8. ASSUME NEW c \in Clusters, ImportCluster(c) PROVE ClientsAgree'
  <2>1. UNCHANGED <<now, client, rounds>> /\ pc = "import"
    BY <1>8 DEF ImportCluster
  <2>2. CASE pc' = "client" /\ UNCHANGED <<todo, clean>>
    BY <1>0, <1>2, <2>1, <2>2 DEF First
  <2>3. CASE pc' = "import" /\ ~clean'
    BY <1>0, <1>2, <2>1, <2>3 DEF First
  <2> QED
    BY <1>8, <2>2, <2>3 DEF ImportCluster
<1>9. CASE CheckClient
  <2>1. UNCHANGED <<now, client, ca, rounds>> /\ pc = "client" /\ for \in Clusters
    BY <1>0, <1>9 DEF CheckClient, stored, TypeOK, WorkerType
  <2>2. clean \/ rounds >= 1 => signer = ca /\ Sound(ca)
    BY <2>1 DEF SignerAgrees, First, Busy
  <2>3. CASE pc' = "entry"
    <3>1. Valid(client[for]) /\ UNCHANGED <<for, todo, clean>>
      BY <1>9, <2>3 DEF CheckClient, SkipCluster, NextCluster
    <3>2. clean => Good(client[for])
      BY <2>2, <3>1 DEF Valid, Good
    <3> QED
      BY <1>2, <2>1, <2>3, <3>1, <3>2 DEF First
  <2>4. CASE pc' = "make" /\ ~Valid(client[for]) /\ UNCHANGED <<for, todo, clean>>
    <3>1. rounds = 0
      BY <1>0, <2>1, <2>2, <2>4 DEF Valid, Good
    <3> QED
      BY <1>2, <2>1, <2>4, <3>1 DEF First
  <2>5. CASE ~clean' /\ pc' = "import"
    BY <1>3, <2>1, <2>5
  <2> QED
    BY <1>9, <2>3, <2>4, <2>5 DEF CheckClient, SkipCluster, NextCluster
<1>10. CASE MakeClient
  <2>1. UNCHANGED <<now, ca, rounds>> /\ pc = "make" /\ rounds = 0 /\ for \in Clusters
    BY <1>0, <1>10 DEF MakeClient, TypeOK, WorkerType
  <2>2. CASE pc' = "entry"
    <3>1. /\ client' = [client EXCEPT ![for] = NewClient]
          /\ UNCHANGED <<for, todo, clean>>
      BY <1>10, <2>2 DEF MakeClient, NewClient, SkipCluster, NextCluster
    <3>2. clean => Good(NewClient)
      BY <2>1, NewClientGood DEF SignerAgrees, First, Busy
    <3>3. \A c \in Clusters : client'[c] = IF c = for THEN NewClient ELSE client[c]
      BY <3>1 DEF TypeOK, StoredType
    <3>4. \A cert : clean /\ Good(cert) => Good(cert)'
      BY <1>2, <2>1 DEF First
    <3>5. \A c \in Clusters : clean /\ c \notin todo => Good(client[c])
      BY <2>1
    <3>6. ASSUME NEW c \in Clusters, clean', c \notin todo' \/ c = for'
          PROVE  Good(client[c])'
      <4>1. clean /\ (c \notin todo \/ c = for)
        BY <3>1, <3>6
      <4>2. Good(client'[c])
        BY <3>2, <3>3, <3>5, <4>1
      <4>3. now' = now /\ ca' = ca
        BY <2>1
      <4> QED
        BY <4>2, <4>3 DEF Good, Aged
    <3> QED
      BY <2>1, <2>2, <3>6
  <2>3. CASE ~clean' /\ pc' = "import"
    BY <2>1, <2>3
  <2> QED
    BY <1>10, <2>2, <2>3 DEF MakeClient, SkipCluster, NextCluster
<1>11. CASE WriteEntry
  <2>1. /\ UNCHANGED <<now, client, rounds>> /\ pc = "entry" /\ pc' = "import"
        /\ todo' = todo \ {for} /\ (clean' => clean)
    BY <1>11 DEF WriteEntry, NextCluster, SkipCluster
  <2> QED
    BY <1>2, <2>1 DEF First
<1>12. CASE EndImport \/ \E c \in Clusters : DeliverCA(c)
  <2>1. UNCHANGED <<now, client, rounds>> /\ pc' = "work" /\ (clean' => clean)
    BY <1>12 DEF EndImport, DeliverCA, stored, history
  <2>2. pc = "work" \/ (pc = "import" /\ todo = {})
    BY <1>12 DEF EndImport, DeliverCA
  <2> QED
    BY <1>2, <2>1, <2>2 DEF First
<1>13. CASE Return
  <2>1. /\ UNCHANGED <<now, client>> /\ pc = "work" /\ pc' = "idle" /\ ~clean'
        /\ rounds' >= 1 => clean \/ rounds >= 1
    BY <1>0, <1>13 DEF Return, stored
  <2> QED
    BY <1>2, <2>1 DEF First
<1> QED
  BY <1>4, <1>5, <1>6, <1>7, <1>8, <1>9, <1>10, <1>11, <1>12, <1>13 DEF Next, Work

\* What the second good reconcile has found in the cache stays there.
LEMMA CacheAgreesStep ==
  ASSUME ~DeleteCASecret, TypeOK, SignerAgrees, ClientsAgree, CacheAgrees, [Next]_vars
  PROVE  CacheAgrees'
<1> USE DEF CacheAgrees, Second
<1>0. rounds \in 0 .. 2
  BY DEF TypeOK, ClockType
<1>1. CASE rounds' = 0
  BY <1>1
<1>2. rounds >= 1 => ca' = ca
  BY CAStays DEF First
<1>3. CASE UNCHANGED <<client, seenCA, seenClient, rounds>> /\ (clean' => clean)
  BY <1>0, <1>2, <1>3
<1>4. CASE Tick \/ \E t \in StartTime .. MaxTime : Lapse(t)
  BY <1>1, <1>4 DEF Tick, Lapse, Advance
<1>5. CASE DeleteCASecret
  BY <1>5
<1>6. CASE UNCHANGED vars \/ EndImport \/ CheckClient
  BY <1>3, <1>6 DEF vars, EndImport, CheckClient, SkipCluster, stored, cache, history
<1>7. CASE Sync
  <2>1. UNCHANGED <<ca, client, rounds, clean>>
    BY <1>7 DEF Sync, stored, history
  <2>2. seenCA = ca => seenCA' = ca
    BY <1>7 DEF Sync
  <2>3. seenClient = client => seenClient' = client
    BY <1>7 DEF Sync
  <2> QED
    BY <2>1, <2>2, <2>3
<1>8. CASE Reconcile
  BY <1>8 DEF Reconcile, Synced, stored, cache
<1>9. CASE EnsureArgoCDAgentCASecret \/ EnsureTarget
  BY <1>3, <1>9 DEF EnsureArgoCDAgentCASecret, EnsureTarget, Abandon, cache
<1>10. ASSUME NEW c \in Clusters, ImportCluster(c) \/ DeliverCA(c) PROVE CacheAgrees'
  BY <1>3, <1>10 DEF ImportCluster, DeliverCA, cache
<1>11. CASE MakeClient
  <2>1. rounds' = 0
    BY <1>0, <1>11 DEF MakeClient, ClientsAgree
  <2> QED
    BY <1>0, <2>1
<1>12. CASE WriteEntry
  BY <1>3, <1>12 DEF WriteEntry, SkipCluster, cache
<1>13. CASE Return
  BY <1>0, <1>13 DEF Return, stored, cache
<1>14. CASE Crash
  BY <1>14 DEF Crash, stored
<1> QED
  BY <1>4, <1>5, <1>6, <1>7, <1>8, <1>9, <1>10, <1>11, <1>12, <1>13, <1>14 DEF Next, Work

\* What the second good reconcile writes into the cluster secrets is of the one CA, and so
\* is what any later one writes.
LEMMA EntriesAgreeStep ==
  ASSUME ~DeleteCASecret, TypeOK, HeldInv, SignerAgrees, ClientsAgree, CacheAgrees,
         EntriesAgree, [Next]_vars
  PROVE  EntriesAgree'
<1> USE DEF EntriesAgree, Done, Serving
<1>0. rounds \in 0 .. 2
  BY DEF TypeOK, ClockType
<1>1. CASE rounds' = 0
  BY <1>1
<1>2. rounds >= 1 => ca' = ca
  BY CAStays DEF First
<1>3. CASE /\ UNCHANGED <<client, entry, rounds>>
           /\ \/ ~clean'
              \/ pc' \in {"ca", "target"}
              \/ pc' = "import" /\ todo' = Clusters
              \/ UNCHANGED <<pc, todo>> /\ (clean' => clean)
  BY <1>0, <1>2, <1>3
<1>4. CASE Tick \/ \E t \in StartTime .. MaxTime : Lapse(t)
  BY <1>1, <1>4 DEF Tick, Lapse, Advance
<1>5. CASE DeleteCASecret
  BY <1>5
<1>6. CASE Sync \/ UNCHANGED vars
  BY <1>3, <1>6 DEF Sync, stored, worker, history, vars
<1>7. CASE Reconcile \/ EnsureArgoCDAgentCASecret \/ EnsureTarget \/ Crash
  BY <1>3, <1>7 DEF Reconcile, EnsureArgoCDAgentCASecret, EnsureTarget, Crash, Abandon, stored
<1>8. ASSUME NEW c \in Clusters, ImportCluster(c) PROVE EntriesAgree'
  <2>1. UNCHANGED <<client, entry, rounds>> /\ pc = "import"
    BY <1>8 DEF ImportCluster
  <2>2. CASE pc' = "client" /\ UNCHANGED <<todo, clean>>
    BY <1>0, <1>2, <2>1, <2>2
  <2>3. CASE ~clean'
    BY <1>3, <2>1, <2>3
  <2> QED
    BY <1>8, <2>2, <2>3 DEF ImportCluster
<1>9. CASE CheckClient
  <2>1. UNCHANGED <<client, entry, rounds>> /\ pc = "client"
    BY <1>9 DEF CheckClient, stored
  <2>2. CASE pc' \in {"entry", "make"} /\ UNCHANGED <<todo, clean>>
    BY <1>0, <1>2, <2>1, <2>2
  <2>3. CASE ~clean'
    BY <1>3, <2>1, <2>3
  <2> QED
    BY <1>9, <2>2, <2>3 DEF CheckClient, SkipCluster
<1>10. CASE MakeClient
  <2>1. rounds' = 0
    BY <1>0, <1>10 DEF MakeClient, ClientsAgree
  <2> QED
    BY <1>1, <2>1
<1>11. CASE WriteEntry
  <2>1. /\ pc = "entry" /\ pc' = "import" /\ todo' = todo \ {for} /\ for \in Clusters
        /\ UNCHANGED <<ca, client, rounds>>
    BY <1>11 DEF WriteEntry, NextCluster, SkipCluster, TypeOK, WorkerType
  <2>2. CASE entry' = [entry EXCEPT ![for] = ClusterSecretData(for)] /\ clean' = clean
    <3>1. Second => ClusterSecretData(for) = [client |-> client[for], ca |-> ca]
      BY DEF CacheAgrees, ClusterSecretData
    <3>2. \A c \in Clusters : entry'[c] = IF c = for THEN ClusterSecretData(for) ELSE entry[c]
      BY <2>2 DEF TypeOK, StoredType
    <3> QED
      BY <2>1, <2>2, <3>1, <3>2 DEF Second
  <2>3. CASE held = NoEntry /\ entry[for] # NoEntry /\ UNCHANGED <<entry, clean>>
    <3>1. ~clean
      BY <2>1, <2>3 DEF HeldInv, Busy
    <3> QED
      BY <2>1, <2>3, <3>1
  <2>4. CASE ~clean' /\ UNCHANGED entry
    BY <1>3, <2>1, <2>4
  <2> QED
    BY <1>11, <2>2, <2>3, <2>4 DEF WriteEntry, SkipCluster
<1>12. CASE EndImport \/ \E c \in Clusters : DeliverCA(c)
  <2>1. UNCHANGED <<client, entry, rounds>> /\ pc' = "work" /\ (clean' => clean)
    BY <1>12 DEF EndImport, DeliverCA, stored, history
  <2>2. pc = "work" \/ (pc = "import" /\ todo = {})
    BY <1>12 DEF EndImport, DeliverCA
  <2> QED
    BY <1>0, <1>2, <2>1, <2>2
<1>13. CASE Return
  <2>1. UNCHANGED <<ca, client, entry>> /\ pc = "work" /\ ~clean'
    BY <1>13 DEF Return, stored
  <2>2. rounds' = 2 => rounds = 2 \/ (rounds = 1 /\ clean)
    BY <1>0, <1>13 DEF Return
  <2> QED
    BY <2>1, <2>2
<1> QED
  BY <1>4, <1>5, <1>6, <1>7, <1>8, <1>9, <1>10, <1>11, <1>12, <1>13 DEF Next, Work

LEMMA WorksAgreeStep ==
  ASSUME ~DeleteCASecret, TypeOK, SignerAgrees, CacheAgrees, WorksAgree, [Next]_vars
  PROVE  WorksAgree'
<1> USE DEF WorksAgree
<1>0. rounds \in 0 .. 2
  BY DEF TypeOK, ClockType
<1>1. CASE rounds' = 0
  BY <1>1
<1>2. rounds >= 1 => ca' = ca
  BY CAStays DEF First
<1>3. CASE UNCHANGED <<work, rounds>> /\ (~clean' \/ pc' # "work")
  BY <1>0, <1>2, <1>3
<1>4. CASE Tick \/ \E t \in StartTime .. MaxTime : Lapse(t)
  BY <1>1, <1>4 DEF Tick, Lapse, Advance
<1>5. CASE DeleteCASecret
  BY <1>5
<1>6. CASE Sync \/ UNCHANGED vars
  BY <1>0, <1>2, <1>6 DEF Sync, stored, worker, history, vars
<1>7. CASE Reconcile \/ EnsureArgoCDAgentCASecret \/ EnsureTarget \/ Crash
  BY <1>3, <1>7 DEF Reconcile, EnsureArgoCDAgentCASecret, EnsureTarget, Crash, Abandon, stored
<1>8. CASE CheckClient \/ MakeClient \/ WriteEntry \/ \E c \in Clusters : ImportCluster(c)
  BY <1>3, <1>8 DEF CheckClient, MakeClient, WriteEntry, ImportCluster, SkipCluster, NextCluster,
     stored
<1>9. CASE EndImport
  BY <1>0, <1>2, <1>9 DEF EndImport, stored, history
<1>10. ASSUME NEW d \in Clusters, DeliverCA(d) PROVE WorksAgree'
  <2>1. /\ UNCHANGED <<ca, rounds>> /\ (clean' => clean) /\ pc = "work" /\ pc' = "work"
        /\ todo' = todo \ {d}
    BY <1>10 DEF DeliverCA
  <2>2. CASE work' = [work EXCEPT ![d] = seenCA]
    <3>1. \A c \in Clusters : work'[c] = IF c = d THEN seenCA ELSE work[c]
      BY <2>2 DEF TypeOK, StoredType
    <3> QED
      BY <2>1, <3>1 DEF CacheAgrees, Second
  <2>3. CASE UNCHANGED work /\ ~clean'
    BY <1>3, <2>1, <2>3
  <2> QED
    BY <1>10, <2>2, <2>3 DEF DeliverCA
<1>11. CASE Return
  <2>1. UNCHANGED <<ca, work>> /\ pc = "work" /\ todo = {} /\ ~clean'
    BY <1>11 DEF Return, stored
  <2>2. rounds' = 2 => rounds = 2 \/ (rounds = 1 /\ clean)
    BY <1>0, <1>11 DEF Return
  <2> QED
    BY <2>1, <2>2
<1> QED
  BY <1>4, <1>5, <1>6, <1>7, <1>8, <1>9, <1>10, <1>11 DEF Next, Work

\* When the clock moves nothing is claimed, and the deletion of a CA is forgotten.
LEMMA ClaimsAfresh ==
  ASSUME TypeOK, [Next]_vars, ~kept, kept'
  PROVE  AgreeInv'
<1>1. rounds' = 0 /\ ~clean'
  BY DEF Next, Work, Tick, Lapse, Advance, DeleteCASecret, Sync, Reconcile,
     EnsureArgoCDAgentCASecret, EnsureTarget, ImportCluster, CheckClient, MakeClient, WriteEntry,
     EndImport, DeliverCA, Return, Crash, history, vars
<1> QED
  BY <1>1 DEF AgreeInv, HeldInv, SignerAgrees, TargetsAgree, ClientsAgree, CacheAgrees,
     EntriesAgree, WorksAgree, First, Second

\* Unless the CA has been deleted, two reconciles that go well within one unit of time leave
\* every party with certificates of one CA, whatever has failed or was rotated before them,
\* and whatever fails after them: one is not enough, because cluster secrets and works are
\* written from the cache (argocd_agent_clusters.go:211-239,
\* manifest_work_management.go:204).
THEOREM TwoRoundsSuffice == Spec => []TwoRoundsAgree
<1>1. Init => AgreeInv
  BY DEF Init, AgreeInv, HeldInv, SignerAgrees, TargetsAgree, ClientsAgree, CacheAgrees,
     EntriesAgree, WorksAgree, First, Second
<1>2. IInv /\ (kept => AgreeInv) /\ [Next]_vars => (kept => AgreeInv)'
  <2> SUFFICES ASSUME IInv, kept => AgreeInv, [Next]_vars, kept'
               PROVE  AgreeInv'
    OBVIOUS
  <2>0. ~DeleteCASecret
    BY DEF DeleteCASecret
  <2>1. CASE kept
    BY <2>0, <2>1, HeldStep, SignerAgreesStep, TargetsAgreeStep, ClientsAgreeStep, CacheAgreesStep,
       EntriesAgreeStep, WorksAgreeStep DEF AgreeInv, IInv
  <2>2. CASE ~kept
    BY <2>2, ClaimsAfresh DEF IInv
  <2> QED
    BY <2>1, <2>2
<1>3. (kept => AgreeInv) => TwoRoundsAgree
  BY DEF AgreeInv, TargetsAgree, ClientsAgree, EntriesAgree, WorksAgree, Good, TwoRoundsAgree,
     OneCA
<1> QED
  BY InitInv, StepInv, <1>1, <1>2, <1>3, PTL DEF Spec
=============================================================================
