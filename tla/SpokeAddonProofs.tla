--------------------------- MODULE SpokeAddonProofs ---------------------------
(***************************************************************************)
(* Proofs about the addon on one managed cluster, for every chart, every   *)
(* setting of the job and every number of failures.  Three invariants are  *)
(* needed: a round of step 3 under way is one of those left, the marker    *)
(* keeps what has been deleted away, and, unless the wait for the CR may   *)
(* end too early, a job that deletes has seen the CR gone for good.        *)
(***************************************************************************)
EXTENDS SpokeAddon, SequenceTheorems, TLAPS

RoundLeft == job = "verify" => rounds > 0

TInv == TypeOK /\ RoundLeft

\* The job has begun to delete in an undisturbed cluster: no reconcile is under way, and
\* what is left of the operator is what is still to be deleted.
Undisturbed ==
    quiet /\ faults = 0 /\ job \in {"delete", "verifyCR", "verify", "exit", "succeeded"} =>
        /\ marker
        /\ ~Installing
        /\ \A m \in Manifests :
              object[m] = "managed" => job = "delete" /\ \E i \in 1 .. Len(doomed) : doomed[i] = m

\* The CR is neither applied again nor left behind by the wait.
CRStaysAway == FaultKinds \cap {"timeout", "withdraw"} = {}

CRSeenGone ==
    /\ phase # "deployed" => ~crWork
    /\ job # "none" => phase # "deployed"
    /\ phase = "gone" => job = "succeeded"
    /\ job \in {"finalCheck", "delete", "verifyCR", "verify", "exit", "succeeded"} => cr = "absent"

-----------------------------------------------------------------------------
(* Types.                                                                  *)

\* A sequence has its head among its elements, and its tail is one of the same.
LEMMA TailTypes ==
  ASSUME NEW s \in Seq(Manifests), s # << >>
  PROVE  Tail(s) \in Seq(Manifests) /\ Head(s) \in Manifests
BY HeadTailProperties

LEMMA FaultType ==
  ASSUME TypeOK, Fine \/ \E kind \in AllFaultKinds : Fault(kind)
  PROVE  faults' \in 0 .. MaxFaults /\ faults' >= faults
BY SpokeAssumption DEF TypeOK, Fine, Fault

LEMMA DeletedType ==
  ASSUME TypeOK
  PROVE  Deleted \in CRStates
BY DEF TypeOK, Deleted, Doomed, CRStates

\* The hub and the framework.
LEMMA HubStep ==
  ASSUME TInv, Remove \/ StartJob \/ Withdraw \/ Redeploy
  PROVE  TInv'
<1> USE DEF TInv, TypeOK, RoundLeft, hub, objects, controller, cleanup
<1>1. CASE Remove
  BY <1>1, FaultType DEF Remove, AllFaultKinds, Fine
<1>2. CASE StartJob
  <2>1. rounds' \in 0 .. verify' /\ doomed' \in Seq(Manifests)
    BY <1>2, SpokeAssumption DEF StartJob
  <2> QED
    BY <1>2, <2>1 DEF StartJob, JobLabels
<1>3. CASE Withdraw
  BY <1>3 DEF Withdraw
<1>4. CASE Redeploy
  BY <1>4, SpokeAssumption DEF Redeploy, JobLabels
<1> QED
  BY <1>1, <1>2, <1>3, <1>4

\* The work agent and the Argo CD operator.
LEMMA CRStep ==
  ASSUME TInv, ApplyCR \/ WithdrawCR \/ HoldCR \/ ReleaseCR
  PROVE  TInv'
BY DEF TInv, TypeOK, RoundLeft, hub, objects, controller, cleanup, ApplyCR, WithdrawCR, HoldCR,
   ReleaseCR, CRStates, Doomed

\* The controller.
LEMMA ControlStep ==
  ASSUME TInv, Control \/ Crash
  PROVE  TInv'
<1> USE DEF TInv, TypeOK, RoundLeft, hub, objects, controller, cleanup
<1>1. CASE Begin
  BY <1>1, FaultType DEF Begin, AllFaultKinds
<1>2. CASE Install
  BY <1>2, FaultType, SpokeAssumption DEF Install, AllFaultKinds
<1>3. CASE Apply
  <2>1. faults' \in 0 .. MaxFaults
    BY <1>3, FaultType DEF Apply, AllFaultKinds
  <2>2. object' \in [Manifests -> ObjectStates]
    BY <1>3 DEF Apply, ObjectStates
  <2>3. chart' \in Seq(Manifests)
    BY <1>3, TailTypes DEF Apply
  <2> QED
    BY <1>3, <2>1, <2>2, <2>3 DEF Apply
<1>4. CASE Finish
  BY <1>4 DEF Finish
<1>5. CASE Crash
  BY <1>5, FaultType DEF Crash, AllFaultKinds
<1> QED
  BY <1>1, <1>2, <1>3, <1>4, <1>5 DEF Control

\* The job.
LEMMA JobStep ==
  ASSUME TInv, Job \/ JobCrash
  PROVE  TInv'
<1> USE DEF TInv, TypeOK, RoundLeft, hub, objects, controller, cleanup, JobLabels
<1>1. CASE CreateMarker
  BY <1>1, FaultType DEF CreateMarker, AllFaultKinds
<1>2. ToDelete => doomed' \in Seq(Manifests) /\ quiet' \in BOOLEAN
  <2>1. (marker /\ ~Installing) \in BOOLEAN
    BY Zenon DEF Installing
  <2> QED
    BY <2>1, SpokeAssumption DEF ToDelete
<1>3. CASE DeleteCR
  BY <1>2, <1>3, FaultType, DeletedType DEF DeleteCR, ToDelete, AllFaultKinds
<1>4. CASE WaitForCR
  BY <1>4, FaultType DEF WaitForCR, AllFaultKinds
<1>5. CASE FinalCheck
  BY <1>2, <1>5, FaultType DEF FinalCheck, ToDelete, AllFaultKinds
<1>6. CASE DeleteObject
  <2>1. faults' \in 0 .. MaxFaults
    BY <1>6, FaultType DEF DeleteObject, AllFaultKinds
  <2>2. object' \in [Manifests -> ObjectStates]
    BY <1>6 DEF DeleteObject, ObjectStates
  <2>3. doomed' \in Seq(Manifests)
    BY <1>6, TailTypes DEF DeleteObject
  <2> QED
    BY <1>6, <2>1, <2>2, <2>3 DEF DeleteObject
<1>7. CASE DeletionDone
  BY <1>7 DEF DeletionDone
<1>8. CASE VerifyCR
  BY <1>8, FaultType, DeletedType DEF VerifyCR, AllFaultKinds
<1>9. CASE VerifyOperator
  <2>1. rounds' \in 0 .. verify
    BY <1>9, SpokeAssumption DEF VerifyOperator
  <2> QED
    BY <1>2, <1>9, <2>1, FaultType DEF VerifyOperator, ToDelete, AllFaultKinds
<1>10. CASE VerifyDone
  <2>1. flawed' \in BOOLEAN
    BY <1>10, Zenon DEF VerifyDone
  <2> QED
    BY <1>10, <2>1, FaultType DEF VerifyDone, AllFaultKinds
<1>11. CASE Exit
  BY <1>11 DEF Exit
<1>12. CASE JobCrash
  BY <1>12, FaultType DEF JobCrash, AllFaultKinds
<1> QED
  BY <1>1, <1>3, <1>4, <1>5, <1>6, <1>7, <1>8, <1>9, <1>10, <1>11, <1>12 DEF Job

LEMMA TStep ==
  ASSUME TInv, [Next]_vars
  PROVE  TInv'
<1>1. CASE UNCHANGED vars
  BY <1>1 DEF TInv, TypeOK, RoundLeft, vars, hub, objects, controller, cleanup
<1> QED
  BY <1>1, HubStep, CRStep, ControlStep, JobStep DEF Next

LEMMA TInit ==
  ASSUME Init
  PROVE  TInv
<1>1. lives \in 1 .. MaxLives /\ rounds \in 0 .. verify /\ faults \in 0 .. MaxFaults
  BY SpokeAssumption DEF Init
<1>2. chart \in Seq(Manifests) /\ doomed \in Seq(Manifests)
  BY DEF Init
<1>3. object \in [Manifests -> ObjectStates]
  BY DEF Init, ObjectStates
<1> QED
  BY <1>1, <1>2, <1>3 DEF Init, TInv, TypeOK, RoundLeft, CRStates, JobLabels

\* Every state of the managed cluster, its addon controller and its cleanup job is of
\* its type; in particular step 3 never does more rounds than it is set up for.
THEOREM TypeCorrect == Spec => []TypeOK
<1>1. Init => TInv
  BY TInit
<1>2. TInv /\ [Next]_vars => TInv'
  BY TStep
<1>3. TInv => TypeOK
  BY DEF TInv
<1> QED
  BY <1>1, <1>2, <1>3, PTL DEF Spec

-----------------------------------------------------------------------------
(* What the job has taken away.                                            *)

\* Failures are never taken back.
LEMMA FaultsGrow ==
  ASSUME TInv, [Next]_vars, faults' = 0
  PROVE  faults = 0
BY SpokeAssumption DEF TInv, TypeOK, vars, hub, objects, controller, cleanup, Next, Control, Job,
   Fault, Fine, Remove, StartJob, Withdraw, Redeploy, ApplyCR, WithdrawCR, HoldCR, ReleaseCR, Begin,
   Install, Apply, Finish, Crash, CreateMarker, DeleteCR, WaitForCR, FinalCheck, DeleteObject,
   DeletionDone, VerifyCR, VerifyOperator, VerifyDone, Exit, JobCrash

\* A job that turns to deleting has everything still to delete.
LEMMA ToDeleteUndisturbed ==
  ASSUME TInv, ToDelete, UNCHANGED <<object, marker, controller>>
  PROVE  Undisturbed'
<1>1. \A m \in Manifests : \E i \in 1 .. Len(doomed') : doomed'[i] = m
  BY SpokeAssumption DEF ToDelete
<1>2. quiet' => marker /\ ~Installing
  BY Zenon DEF ToDelete
<1> QED
  BY <1>1, <1>2 DEF ToDelete, Undisturbed, Installing, controller

LEMMA UndisturbedStep ==
  ASSUME TInv, Undisturbed, [Next]_vars
  PROVE  Undisturbed'
<1> SUFFICES ASSUME faults' = 0 PROVE Undisturbed'
  BY DEF Undisturbed
<1>1. faults = 0 /\ UNCHANGED faults
  BY FaultsGrow
<1>2. \A kind \in AllFaultKinds : ~Fault(kind)
  BY <1>1 DEF Fault
<1>3. CASE UNCHANGED <<objects, controller, cleanup>>
  BY <1>1, <1>3 DEF Undisturbed, Installing, objects, controller, cleanup
<1>4. CASE ApplyCR \/ WithdrawCR \/ HoldCR \/ ReleaseCR
  BY <1>1, <1>4 DEF Undisturbed, Installing, controller, cleanup, ApplyCR, WithdrawCR, HoldCR,
     ReleaseCR
<1>5. CASE StartJob \/ Redeploy \/ Withdraw
  BY <1>1, <1>5 DEF StartJob, Redeploy, Withdraw, Undisturbed, Installing, objects, cleanup
<1>6. CASE Begin
  BY <1>1, <1>2, <1>6 DEF Begin, Undisturbed, AllFaultKinds, objects, cleanup
<1>7. CASE Install \/ Apply \/ Finish \/ Crash
  BY <1>1, <1>7 DEF Install, Apply, Finish, Crash, Undisturbed, Installing, cleanup
<1>8. CASE ToDelete /\ UNCHANGED <<object, marker, controller>>
  BY <1>8, ToDeleteUndisturbed
<1>9. CASE /\ UNCHANGED <<object, marker, controller, doomed, quiet>>
           /\ job' # job => job' \in {"getCR", "wait", "finalCheck", "failed"}
  BY <1>1, <1>9 DEF Undisturbed, Installing, controller
<1>10. CASE CreateMarker
  BY <1>1, <1>10 DEF CreateMarker, Undisturbed
<1>11. CASE DeleteCR \/ WaitForCR \/ FinalCheck
  BY <1>8, <1>9, <1>11 DEF DeleteCR, WaitForCR, FinalCheck, objects
<1>12. CASE DeleteObject
  <2>1. object' = [object EXCEPT ![Head(doomed)] = IF @ = "managed" THEN "absent" ELSE @]
    BY <1>2, <1>12 DEF DeleteObject, AllFaultKinds
  <2>2. ASSUME NEW m \in Manifests, m # Head(doomed),
               \E i \in 1 .. Len(doomed) : doomed[i] = m
        PROVE  \E i \in 1 .. Len(doomed') : doomed'[i] = m
    <3>1. PICK i \in 1 .. Len(doomed) : doomed[i] = m
      BY <2>2
    <3>2. doomed # << >> /\ doomed' = Tail(doomed) /\ doomed \in Seq(Manifests)
      BY <1>12 DEF DeleteObject, TInv, TypeOK
    <3>3. Len(doomed') = Len(doomed) - 1 /\ \A j \in 1 .. Len(doomed') : doomed'[j] = doomed[j + 1]
      BY <3>2
    <3>4. i # 1
      BY <2>2, <3>1, <3>2
    <3>5. i - 1 \in 1 .. Len(doomed') /\ doomed'[i - 1] = m
      BY <3>1, <3>2, <3>3, <3>4
    <3> QED
      BY <3>5
  <2> QED
    BY <1>1, <1>12, <2>1, <2>2 DEF DeleteObject, Undisturbed, Installing, controller, TInv, TypeOK
<1>13. CASE DeletionDone
  BY <1>1, <1>13 DEF DeletionDone, Undisturbed, Installing, objects, controller
<1>14. CASE VerifyCR \/ VerifyDone \/ Exit
  BY <1>1, <1>14 DEF VerifyCR, VerifyDone, Exit, Undisturbed, Installing, objects, controller
<1>15. CASE VerifyOperator
  BY <1>1, <1>8, <1>15 DEF VerifyOperator, Undisturbed, Installing, objects, controller
<1>16. CASE JobCrash
  BY <1>9, <1>16 DEF JobCrash, objects
<1>17. CASE Remove
  BY <1>3, <1>17 DEF Remove
<1>18. CASE UNCHANGED vars
  BY <1>3, <1>18 DEF vars
<1> QED
  BY <1>4, <1>5, <1>6, <1>7, <1>10, <1>11, <1>12, <1>13, <1>14, <1>15, <1>16, <1>17, <1>18
  DEF Next, Control, Job

\* A job that has succeeded without failed calls, and has not run into a reconcile, has
\* taken every object of the operator away, and none of them comes back: not by the
\* controller, which finds the marker, and not by a second job.
THEOREM GoneForGood == Spec => []GoneStaysGone
<1> DEFINE Inv == TInv /\ Undisturbed
<1>1. Init => Inv
  BY TInit DEF Init, Undisturbed
<1>2. Inv /\ [Next]_vars => Inv'
  BY TStep, UndisturbedStep
<1>3. Inv => GoneStaysGone
  BY DEF Undisturbed, GoneStaysGone
<1> QED
  BY <1>1, <1>2, <1>3, PTL DEF Spec

-----------------------------------------------------------------------------
(* The order of CR and operator.                                           *)

LEMMA CRSeenGoneStep ==
  ASSUME CRStaysAway, TInv, CRSeenGone, [Next]_vars
  PROVE  CRSeenGone'
<1>1. ~Fault("timeout") /\ ~Fault("withdraw")
  BY DEF CRStaysAway, Fault
<1>2. CASE UNCHANGED vars
  BY <1>2 DEF CRSeenGone, vars, hub, objects, cleanup
<1>3. CASE Remove \/ StartJob \/ Withdraw \/ Redeploy
  BY <1>1, <1>3 DEF CRSeenGone, TInv, TypeOK, Remove, StartJob, Withdraw, Redeploy, hub, objects,
     cleanup
<1>4. CASE ApplyCR \/ WithdrawCR \/ HoldCR \/ ReleaseCR
  BY <1>4 DEF CRSeenGone, TInv, TypeOK, ApplyCR, WithdrawCR, HoldCR, ReleaseCR, Doomed, hub, cleanup
<1>5. CASE Control \/ Crash
  BY <1>5 DEF CRSeenGone, Control, Begin, Install, Apply, Finish, Crash, hub, objects, cleanup
<1>6. CASE Job \/ JobCrash
  BY <1>1, <1>6 DEF CRSeenGone, Job, CreateMarker, DeleteCR, WaitForCR, FinalCheck, DeleteObject,
     DeletionDone, VerifyCR, VerifyOperator, VerifyDone, Exit, JobCrash, ToDelete, Deleted, hub,
     objects
<1> QED
  BY <1>2, <1>3, <1>4, <1>5, <1>6 DEF Next

\* However often the job fails and is started again, the operator is not taken away before
\* the CR has gone: unless the wait for the CR gives up, or the hub has left the CR's
\* ManifestWork in force.
THEOREM OperatorStaysForCR == CRStaysAway => (Spec => OperatorOutlivesCR)
<1> SUFFICES ASSUME CRStaysAway PROVE Spec => OperatorOutlivesCR
  OBVIOUS
<1> DEFINE Inv == TInv /\ CRSeenGone
<1>1. Init => Inv
  BY TInit DEF Init, CRSeenGone
<1>2. Inv /\ [Next]_vars => Inv'
  BY TStep, CRSeenGoneStep
<1>3. Inv /\ [Next]_vars =>
        [object[Operator] = "managed" /\ object'[Operator] = "absent" => cr = "absent"]_vars
  <2> SUFFICES ASSUME Inv, Next, object[Operator] = "managed", object'[Operator] = "absent"
               PROVE  cr = "absent"
    OBVIOUS
  <2>1. object' # object
    OBVIOUS
  <2>2. ~Apply
    <3>1. Apply => object' = object \/ object' = [object EXCEPT ![Head(chart)] =
                      IF @ = "skipped" THEN @ ELSE "managed"]
      BY DEF Apply
    <3> QED
      BY <3>1, SpokeAssumption DEF Inv, TInv, TypeOK
  <2>3. DeleteObject
    BY <2>1, <2>2 DEF Next, Control, Job, hub, objects, controller, cleanup, Remove, StartJob,
       Withdraw, Redeploy, ApplyCR, WithdrawCR, HoldCR, ReleaseCR, Begin, Install, Finish, Crash,
       CreateMarker, DeleteCR, WaitForCR, FinalCheck, DeletionDone, VerifyCR, VerifyOperator,
       VerifyDone, Exit, JobCrash
  <2> QED
    BY <2>3 DEF DeleteObject, Inv, CRSeenGone
<1> QED
  BY <1>1, <1>2, <1>3, PTL DEF Spec, OperatorOutlivesCR

-----------------------------------------------------------------------------
(* The contract with the hub.                                              *)

LEMMA HubAddonMoves ==
  ASSUME TInv, CRSeenGone, [Next]_vars
  PROVE  HubAddon' = HubAddon \/ Lifecycle!MovesOn(HubAddon, HubAddon')
<1>1. CASE UNCHANGED phase
  BY <1>1 DEF HubAddon
<1>2. CASE Remove \/ Withdraw \/ Redeploy
  BY <1>2 DEF Remove, Withdraw, Redeploy, HubAddon, Lifecycle!MovesOn, Lifecycle!Made,
     Lifecycle!Deleted, Lifecycle!Finalized
<1> QED
  BY <1>1, <1>2 DEF Next, Control, Job, vars, hub, StartJob, ApplyCR, WithdrawCR, HoldCR, ReleaseCR,
     Begin, Install, Apply, Finish, Crash, CreateMarker, DeleteCR, WaitForCR, FinalCheck,
     DeleteObject, DeletionDone, VerifyCR, VerifyOperator, VerifyDone, Exit, JobCrash

LEMMA HubWorkMoves ==
  ASSUME TInv, CRSeenGone, CRStaysAway, [Next]_vars
  PROVE  \/ HubWork' = HubWork
         \/ Lifecycle!MovesOn(HubWork, HubWork')
         \/ Lifecycle!Vanishes(HubWork, HubWork')
<1> USE DEF HubWork, Lifecycle!MovesOn, Lifecycle!Made, Lifecycle!Deleted, Lifecycle!Finalized,
            Lifecycle!Vanishes
<1>1. CASE UNCHANGED <<crWork, cr>>
  BY <1>1
<1>2. CASE Remove
  BY <1>2 DEF Remove, objects, TInv, TypeOK
<1>3. CASE Redeploy
  BY <1>3 DEF Redeploy, objects, CRSeenGone, TInv, TypeOK
<1>4. CASE ApplyCR \/ WithdrawCR \/ HoldCR \/ ReleaseCR
  BY <1>4 DEF ApplyCR, WithdrawCR, HoldCR, ReleaseCR, hub, Doomed, TInv, TypeOK
<1>5. CASE DeleteCR \/ VerifyCR
  BY <1>5 DEF DeleteCR, VerifyCR, hub, Deleted, Doomed, CRSeenGone, TInv, TypeOK
<1> QED
  BY <1>1, <1>2, <1>3, <1>4, <1>5 DEF Next, Control, Job, vars, hub, objects, StartJob, Withdraw,
     Begin, Install, Apply, Finish, Crash, CreateMarker, WaitForCR, FinalCheck, DeleteObject,
     DeletionDone, VerifyOperator, VerifyDone, Exit, JobCrash

\* The managed cluster lets the addon go only after a deletion, and a new delivery never
\* meets a CR that is still being deleted: the safety half of KeepsLifecycle.
THEOREM SpokeKeepsLifecycle == CRStaysAway => (Spec => Lifecycle!Safe)
<1> SUFFICES ASSUME CRStaysAway PROVE Spec => Lifecycle!Safe
  OBVIOUS
<1> DEFINE Inv == TInv /\ CRSeenGone
<1>1. Init => Inv /\ Lifecycle!Init
  <2> SUFFICES ASSUME Init PROVE Inv /\ Lifecycle!Init
    OBVIOUS
  <2>1. CRSeenGone
    BY DEF Init, CRSeenGone
  <2>2. HubAddon = "live" /\ HubWork = "live"
    BY DEF Init, HubAddon, HubWork
  <2> QED
    BY <2>1, <2>2, TInit DEF Lifecycle!Init
<1>2. Inv /\ [Next]_vars => Inv'
  BY TStep, CRSeenGoneStep
<1>3. Inv /\ [Next]_vars => [Lifecycle!Next]_<<HubAddon, HubWork>>
  BY HubAddonMoves, HubWorkMoves DEF Lifecycle!Next
<1> QED
  BY <1>1, <1>2, <1>3, PTL DEF Spec, Lifecycle!Safe
=============================================================================
