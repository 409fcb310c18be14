--------------------------- MODULE BasicPullProofs ---------------------------
(* Proofs about the basic pull mode, for any clusters, edits and faults.    *)
(* The argument in one sentence: uids are given out once, and an            *)
(* incarnation that is being deleted stays so; what a worker has read in    *)
(* that respect may be old when it acts on it, but it is still true.        *)
EXTENDS BasicPull, TLAPS

Inv == TypeOK /\ IInv

-----------------------------------------------------------------------------
(* How the two kinds of objects change, whoever changes them.               *)

\* An Application goes, changes without changing its uid or coming back from its
\* deletion, or is made with the next uid.
AppStep ==
    \/ app' = NoApp /\ uids' = uids
    \/ /\ app # NoApp /\ app' # NoApp
       /\ app'.uid = app.uid
       /\ app.deleting => app'.deleting
       /\ uids' = uids
    \/ /\ app = NoApp /\ app' # NoApp
       /\ app'.uid = uids + 1 /\ uids' = uids + 1

\* No work appears or comes back from its deletion; one that goes was being
\* deleted, and those that stay keep the operation they have.
WorkStep ==
    /\ \A v \in works' : \E w \in works :
          v.uid = w.uid /\ v.dest = w.dest /\ (w.deleting => v.deleting)
    /\ \A w \in works : w.deleting \/ \E v \in works' :
          v.uid = w.uid /\ v.dest = w.dest /\ v.op = w.op

\* What is doomed stays doomed, what is gone stays gone.
LEMMA DoomIsFinal ==
    ASSUME TypeOK, AppInv, AppStep, NEW u \in Nat
    PROVE  /\ Doomed(u) => Doomed(u)'
           /\ Gone(u) => Gone(u)'
           /\ Gone(u) => Doomed(u)
<1>1. uids \in Nat
  BY PullAssumption DEF TypeOK
<1> QED
  BY <1>1 DEF AppStep, AppInv, Doomed, Gone

\* The uids of what is in the store or in the hands of a worker are numbers.
LEMMA UidsAreNumbers ==
    ASSUME TypeOK
    PROVE  /\ uids \in Nat /\ edits \in Nat
           /\ \A w \in works : w.uid \in Nat
           /\ \A name \in Names : name[1] \in Nat
           /\ read \in App => read.uid \in Nat
BY PullAssumption DEF TypeOK, Work, App, Names, Uids

\* A worker that does not act loses nothing by what the others do.
LEMMA ControllerWaits ==
    ASSUME TypeOK, IInv, AppStep, WorkStep, UNCHANGED controller
    PROVE  ControllerInv'
<1> USE DEF controller
<1>1. \A name \in doomed' : Gone(name[1])'
  BY DoomIsFinal, UidsAreNumbers DEF IInv, ControllerInv, TypeOK
<1>2. (ctl # "purge" => doomed = {})'
  BY DEF IInv, ControllerInv
<1>3. (ctl \notin {"idle", "purge"} => read \in App /\ read.uid <= uids)'
  BY UidsAreNumbers DEF IInv, ControllerInv, AppStep
<1>4. (ctl \in {"delete", "release", "missing"} => Doomed(read.uid))'
  BY DoomIsFinal, UidsAreNumbers DEF IInv, ControllerInv
<1>5. (ctl \in {"write", "dropOperation"} => ~read.deleting)'
  BY DEF IInv, ControllerInv
<1>6. (ctl \in {"release", "missing"} => \A w \in WorkOf(read) : w.deleting)'
  BY DEF IInv, ControllerInv, WorkStep, WorkOf, Name
<1>7. (ctl = "dropOperation" => Doomed(read.uid) \/ \E w \in WorkOf(read) : w.op)'
  <2> SUFFICES ASSUME ctl = "dropOperation", ~Doomed(read.uid)
               PROVE  \E w \in WorkOf(read)' : w.op
    BY DoomIsFinal, UidsAreNumbers DEF IInv, ControllerInv
  <2>1. PICK w \in works : w.uid = read.uid /\ w.dest = read.dest /\ w.op
    BY DEF IInv, ControllerInv, WorkOf, Name
  <2>2. ~w.deleting
    BY <2>1 DEF IInv, AppInv
  <2> QED
    BY <2>1, <2>2 DEF WorkStep, WorkOf, Name
<1> QED
  BY <1>1, <1>2, <1>3, <1>4, <1>5, <1>6, <1>7 DEF ControllerInv

LEMMA CleanerWaits ==
    ASSUME TypeOK, IInv, AppStep, UNCHANGED cleaner
    PROVE  CleanerInv'
<1> USE DEF cleaner
<1>1. (\A name \in listed : name[1] <= uids)'
  BY UidsAreNumbers DEF IInv, CleanerInv, AppStep, TypeOK
<1>2. (sweep = "delete" => listed # {} /\ \A name \in listed : Gone(name[1]))'
  BY DoomIsFinal, UidsAreNumbers DEF IInv, CleanerInv, TypeOK
<1> QED
  BY <1>1, <1>2 DEF CleanerInv

LEMMA StatusWaits == ASSUME IInv, UNCHANGED status PROVE StatusInv'
BY DEF IInv, StatusInv, status

\* The Application and the works, when only one of them changes.
LEMMA AppAlone ==
    ASSUME TypeOK, AppInv, AppStep, UNCHANGED works,
           app' # NoApp => app'.rev <= edits' + 1 /\ (app'.deleting => app'.finalizer)
    PROVE  AppInv'
<1>1. (app # NoApp => app.uid = uids)'
  BY DEF AppInv, AppStep
<1>2. (\A w \in works : w.uid <= uids /\ (w.deleting => Doomed(w.uid)))'
  BY DoomIsFinal, UidsAreNumbers DEF AppInv, AppStep
<1> QED
  BY <1>1, <1>2 DEF AppInv

\* Nothing of the store changes.
LEMMA StoreWaits ==
    ASSUME IInv, UNCHANGED <<app, works, uids, edits>>
    PROVE  AppStep /\ WorkStep /\ AppInv'
<1>1. AppStep
  BY DEF AppStep
<1>2. WorkStep
  BY DEF WorkStep
<1>3. AppInv'
  BY DEF IInv, AppInv, Doomed
<1> QED
  BY <1>1, <1>2, <1>3

\* Deleting the work of an incarnation that is doomed.
LEMMA MarkingIsSafe ==
    ASSUME TypeOK, IInv, NEW name \in Names, Doomed(name[1]), MarkDeleted(name),
           UNCHANGED <<app, uids, edits>>
    PROVE  /\ works' \subseteq Work
           /\ \A v, w \in works' : Name(v) = Name(w) => v = w
           /\ changed' \subseteq Names
           /\ AppStep /\ WorkStep /\ AppInv' /\ LosesNoWork
           /\ \A v \in works' : Name(v) = name => v.deleting
<1> DEFINE Marked(w) == [w EXCEPT !.deleting = @ \/ Name(w) = name]
<1>1. works' = {Marked(w) : w \in works}
  BY DEF MarkDeleted
<1>2. \A w \in works :
         /\ Marked(w) \in Work
         /\ Marked(w).uid = w.uid /\ Marked(w).dest = w.dest /\ Marked(w).op = w.op
         /\ w.deleting => Marked(w).deleting
         /\ Name(w) = name => Marked(w).deleting
         /\ Name(w) # name => Marked(w) = w
  <2> TAKE w \in works
  <2>1. w \in Work
    BY DEF TypeOK
  <2>2. (w.deleting \/ Name(w) = name) \in BOOLEAN
    OBVIOUS
  <2>3. Name(w) # name => Marked(w) = w
    <3> SUFFICES ASSUME Name(w) # name PROVE Marked(w) = w
      OBVIOUS
    <3>1. (w.deleting \/ Name(w) = name) = w.deleting
      BY <2>1 DEF Work
    <3> QED
      BY <2>1, <3>1 DEF Work
  <2> QED
    BY <2>1, <2>2, <2>3 DEF Work
<1> HIDE DEF Marked
<1>3. \A v \in works' : \E w \in works : v = Marked(w)
  BY <1>1
<1>4. \A w \in works : Marked(w) \in works'
  BY <1>1
<1>5. works' \subseteq Work
  BY <1>2, <1>3
<1>6. \A v, w \in works' : Name(v) = Name(w) => v = w
  BY <1>2, <1>3 DEF TypeOK, Name
<1>7. changed' \subseteq Names
  BY DEF MarkDeleted, TypeOK, Name, Names, Work
<1>8. AppStep
  BY DEF AppStep
<1>9. WorkStep
  BY <1>2, <1>3, <1>4 DEF WorkStep
<1>10. \A v \in works' : Name(v) = name => v.deleting
  BY <1>2, <1>3 DEF Name
<1>11. AppInv'
  <2>1. (app # NoApp => app.uid = uids /\ app.rev <= edits + 1 /\ (app.deleting => app.finalizer))'
    BY DEF IInv, AppInv
  <2>2. ASSUME NEW v \in works' PROVE v.uid <= uids' /\ (v.deleting => Doomed(v.uid)')
    <3>1. PICK w \in works : v = Marked(w)
      BY <1>3
    <3>2. v.uid = w.uid /\ w.uid <= uids /\ (w.deleting => Doomed(w.uid))
      BY <3>1, <1>2 DEF IInv, AppInv
    <3>3. CASE Name(w) = name
      BY <3>2, <3>3 DEF Name, Doomed
    <3>4. CASE Name(w) # name
      BY <3>1, <3>2, <3>4, <1>2 DEF Doomed
    <3> QED
      BY <3>3, <3>4
  <2> QED
    BY <2>1, <2>2 DEF AppInv
<1>12. LosesNoWork
  <2> SUFFICES ASSUME NEW w \in works, ~w.deleting,
                      ~\E v \in works' : Name(v) = Name(w) /\ ~v.deleting
               PROVE  app = NoApp \/ app.uid # w.uid \/ app.deleting
    BY DEF LosesNoWork
  <2>1. Name(w) = name
    BY <1>2, <1>4
  <2> QED
    BY <2>1 DEF Name, Doomed
<1> QED
  BY <1>5, <1>6, <1>7, <1>8, <1>9, <1>10, <1>11, <1>12

\* Writing a work, new or in the place of the one of its name.
LEMMA StoringIsSafe ==
    ASSUME TypeOK, IInv, NEW w \in Work, w.uid <= uids, w.deleting => Doomed(w.uid),
           \A v \in works : Name(v) = Name(w) => v.deleting = w.deleting,
           StoreWork(w), UNCHANGED <<app, uids, edits>>
    PROVE  /\ works' \subseteq Work
           /\ \A v1, v2 \in works' : Name(v1) = Name(v2) => v1 = v2
           /\ changed' \subseteq Names
           /\ AppStep /\ AppInv' /\ LosesNoWork
           /\ w \in works'
<1>1. works' = (works \ {v \in works : Name(v) = Name(w)}) \cup {w}
  BY DEF StoreWork, Replace
<1>2. works' \subseteq Work
  BY <1>1 DEF TypeOK
<1>3. \A v1, v2 \in works' : Name(v1) = Name(v2) => v1 = v2
  BY <1>1 DEF TypeOK
<1>4. changed' \subseteq Names
  BY DEF StoreWork, TypeOK, Name, Names, Work
<1>5. AppStep
  BY DEF AppStep
<1>6. AppInv'
  BY <1>1 DEF IInv, AppInv, Doomed
<1>7. LosesNoWork
  BY <1>1 DEF LosesNoWork, IInv, AppInv, Doomed
<1> QED
  BY <1>1, <1>2, <1>3, <1>4, <1>5, <1>6, <1>7

\* Writing an Application that is there, as it stands or further on its way out.
LEMMA WritingIsSafe ==
    ASSUME TypeOK, IInv, NEW a \in App, app \in App, a.uid = app.uid,
           a.rev <= edits' + 1, app.deleting => a.deleting,
           app' = Stored(a), UNCHANGED <<works, uids>>
    PROVE  /\ app' \in App \cup {NoApp}
           /\ AppStep /\ WorkStep /\ AppInv' /\ LosesNoWork
<1>1. app' = NoApp \/ (app' = a /\ (a.deleting => a.finalizer))
  BY DEF Stored
<1>2. app # NoApp /\ a # NoApp
  BY PullAssumption
<1>3. AppStep
  BY <1>1, <1>2 DEF AppStep
<1>4. WorkStep
  BY DEF WorkStep
<1>5. AppInv'
  BY <1>1, <1>3, AppAlone DEF IInv
<1>6. LosesNoWork
  BY DEF LosesNoWork
<1> QED
  BY <1>1, <1>3, <1>4, <1>5, <1>6

\* What the four safety properties of steps say together.
Steps == LosesNoWork /\ WorkGoesFirst /\ HandsOver /\ TurnsHealthy

\* A step that leaves the Application alone can at most lose a work.
LEMMA AppWaits ==
    ASSUME UNCHANGED app, LosesNoWork PROVE Steps
BY DEF Steps, WorkGoesFirst, HandsOver, TurnsHealthy

LEMMA WorksWait == ASSUME UNCHANGED works PROVE LosesNoWork
BY DEF LosesNoWork

-----------------------------------------------------------------------------
(* Users and agents.                                                        *)

LEMMA CreateStep == ASSUME TypeOK, IInv, Create PROVE TypeOK' /\ IInv' /\ Steps
<1> USE DEF Create
<1>1. PICK d \in Homes, f \in BOOLEAN :
        app' = [uid |-> uids + 1, dest |-> d, rev |-> 1, pull |-> TRUE, op |-> FALSE,
                health |-> Unknown, finalizer |-> f, deleting |-> FALSE]
  OBVIOUS
<1>2. uids + 1 \in Uids /\ uids' = uids + 1
  BY PullAssumption DEF TypeOK, Uids
<1>3. app' \in App
  BY <1>1, <1>2, PullAssumption DEF App
<1>4. TypeOK'
  BY <1>2, <1>3 DEF TypeOK, Uids, controller, status, cleaner
<1>5. AppStep
  BY <1>1, <1>2, <1>3, PullAssumption DEF AppStep
<1>6. WorkStep
  BY DEF WorkStep
<1>7. AppInv'
  BY <1>1, <1>5, AppAlone, UidsAreNumbers DEF IInv
<1>8. ControllerInv' /\ CleanerInv' /\ StatusInv'
  BY <1>5, <1>6, ControllerWaits, CleanerWaits, StatusWaits
<1>9. Steps
  BY WorksWait DEF Steps, WorkGoesFirst, HandsOver, TurnsHealthy
<1> QED
  BY <1>4, <1>7, <1>8, <1>9 DEF IInv

\* An edit keeps uid, finalizer and health, takes back no deletion and no
\* operation, and brings at most one revision.
LEMMA EditStep ==
    ASSUME TypeOK, IInv, NEW kind, NEW a \in App, app \in App,
           a.uid = app.uid, a.rev <= app.rev + 1, app.deleting => a.deleting,
           a.finalizer = app.finalizer, a.health = app.health, app.op => a.op,
           Edit(kind, a)
    PROVE  TypeOK' /\ IInv' /\ Steps
<1> USE DEF Edit
<1>1. edits \in Nat /\ app.rev <= edits + 1 /\ (app.deleting => app.finalizer)
  BY UidsAreNumbers, PullAssumption DEF IInv, AppInv
<1>2. a.rev <= edits' + 1
  BY <1>1 DEF App
<1>3. app' \in App \cup {NoApp} /\ AppStep /\ WorkStep /\ AppInv' /\ LosesNoWork
  BY <1>2, WritingIsSafe
<1>4. queued' \in BOOLEAN
  BY DEF Heard, TypeOK, App
<1>5. edits' \in 0 .. MaxEdits
  BY <1>1, PullAssumption DEF TypeOK
<1>6. TypeOK'
  BY <1>3, <1>4, <1>5 DEF TypeOK, controller, status, cleaner
<1>7. ControllerInv' /\ CleanerInv' /\ StatusInv'
  BY <1>3, ControllerWaits, CleanerWaits, StatusWaits
<1>8. /\ app' = NoApp => a.deleting /\ ~a.finalizer
      /\ app' # NoApp => app' = a
  <2>1. a # NoApp /\ app' = Stored(a)
    BY PullAssumption
  <2> QED
    BY <2>1, Zenon DEF Stored
<1>9. WorkGoesFirst
  BY <1>1, <1>8 DEF WorkGoesFirst
<1>10. HandsOver
  BY <1>8, Zenon DEF HandsOver
<1>11. TurnsHealthy
  BY <1>8 DEF TurnsHealthy
<1> QED
  BY <1>3, <1>6, <1>7, <1>9, <1>10, <1>11 DEF IInv, Steps

LEMMA UserSteps ==
    ASSUME TypeOK, IInv,
           ChangeSpec \/ Move \/ RequestOperation \/ Unlabel \/ Delete
    PROVE  TypeOK' /\ IInv' /\ Steps
<1>1. app \in App /\ edits \in Nat /\ edits < MaxEdits /\ MaxEdits \in Nat /\ app.rev <= edits + 1
  BY PullAssumption, UidsAreNumbers
  DEF ChangeSpec, Move, RequestOperation, Unlabel, Delete, Edit, TypeOK, IInv, AppInv
<1>2. CASE ChangeSpec
  <2> DEFINE a == [app EXCEPT !.rev = @ + 1]
  <2>1. a \in App
    BY <1>1 DEF App
  <2> QED
    BY <1>1, <1>2, <2>1, EditStep DEF ChangeSpec, App
<1>3. CASE Move
  <2>1. PICK d \in Clusters : Edit("move", [app EXCEPT !.dest = d])
    BY <1>3 DEF Move
  <2> DEFINE a == [app EXCEPT !.dest = d]
  <2>2. a \in App
    BY <1>1 DEF App
  <2> QED
    BY <1>1, <2>1, <2>2, EditStep DEF App
<1>4. CASE RequestOperation
  <2> DEFINE a == [app EXCEPT !.op = TRUE]
  <2>1. a \in App
    BY <1>1 DEF App
  <2> QED
    BY <1>1, <1>4, <2>1, EditStep DEF RequestOperation, App
<1>5. CASE Unlabel
  <2> DEFINE a == [app EXCEPT !.pull = FALSE]
  <2>1. a \in App
    BY <1>1 DEF App
  <2> QED
    BY <1>1, <1>5, <2>1, EditStep DEF Unlabel, App
<1>6. CASE Delete
  <2> DEFINE a == [app EXCEPT !.deleting = TRUE]
  <2>1. a \in App
    BY <1>1 DEF App
  <2> QED
    BY <1>1, <1>6, <2>1, EditStep DEF Delete, App
<1> QED
  BY <1>2, <1>3, <1>4, <1>5, <1>6

LEMMA ReportStep == ASSUME TypeOK, IInv, Report PROVE TypeOK' /\ IInv' /\ Steps
<1> USE DEF Report
<1>1. PICK w \in works, h \in Reported : ~w.deleting /\ StoreWork([w EXCEPT !.health = h])
  OBVIOUS
<1> DEFINE n == [w EXCEPT !.health = h]
<1>2. /\ n \in Work /\ Name(n) = Name(w)
      /\ n.uid = w.uid /\ n.dest = w.dest /\ n.op = w.op /\ n.deleting = w.deleting
  BY DEF Work, TypeOK, Name
<1> HIDE DEF n
<1>3. n.uid <= uids /\ ~n.deleting
  BY <1>1, <1>2 DEF IInv, AppInv
<1>4. \A v \in works : Name(v) = Name(n) => v = w
  BY <1>2 DEF TypeOK
<1>5. StoreWork(n)
  BY <1>1 DEF n
<1>6. /\ works' \subseteq Work
      /\ \A v1, v2 \in works' : Name(v1) = Name(v2) => v1 = v2
      /\ changed' \subseteq Names
      /\ AppStep /\ AppInv' /\ LosesNoWork
  BY <1>1, <1>2, <1>3, <1>4, <1>5, StoringIsSafe
<1>7. WorkStep
  BY <1>1, <1>2, <1>4, <1>5 DEF WorkStep, StoreWork, Replace, Name
<1>8. reports' \in 0 .. MaxReports
  BY PullAssumption DEF TypeOK
<1>9. TypeOK'
  BY <1>6, <1>8 DEF TypeOK, controller, status, cleaner
<1>10. ControllerInv' /\ CleanerInv' /\ StatusInv'
  BY <1>6, <1>7, ControllerWaits, CleanerWaits, StatusWaits
<1> QED
  BY <1>6, <1>9, <1>10, AppWaits DEF IInv

LEMMA FinalizeStep == ASSUME TypeOK, IInv, Finalize PROVE TypeOK' /\ IInv' /\ Steps
<1> USE DEF Finalize
<1>1. PICK w \in works : w.deleting /\ works' = works \ {w}
  OBVIOUS
<1>2. AppStep
  BY DEF AppStep, bounds
<1>3. WorkStep
  BY <1>1 DEF WorkStep
<1>4. AppInv'
  BY <1>1 DEF IInv, AppInv, Doomed, bounds
<1>5. LosesNoWork
  BY <1>1 DEF LosesNoWork, TypeOK, Name
<1>6. TypeOK'
  BY <1>1 DEF TypeOK, bounds, controller, status, cleaner
<1>7. ControllerInv' /\ CleanerInv' /\ StatusInv'
  BY <1>2, <1>3, ControllerWaits, CleanerWaits, StatusWaits
<1> QED
  BY <1>4, <1>5, <1>6, <1>7, AppWaits DEF IInv

-----------------------------------------------------------------------------
(* The application controller.                                              *)

\* Whatever it has done, a controller that is done has nothing in hand.
LEMMA DoneIsSafe ==
    ASSUME TypeOK, AppStep, Done
    PROVE  /\ ControllerInv'
           /\ ctl' \in {"idle", "purge", "delete", "release", "missing", "write", "dropOperation"}
           /\ read' \in App \cup {NoApp} /\ doomed' \subseteq Names
BY DEF Done, ControllerInv

LEMMA TakeStep == ASSUME TypeOK, IInv, Take PROVE TypeOK' /\ IInv' /\ Steps
<1> USE DEF Take
<1>1. UNCHANGED <<app, works, uids, edits, reports, faults, changed>>
      /\ UNCHANGED status /\ UNCHANGED cleaner
  BY DEF bounds
<1>2. AppStep /\ WorkStep /\ AppInv'
  BY <1>1, StoreWaits
<1>3. CASE app = NoApp
  <2>1. ctl' = "purge" /\ doomed' = {Name(w) : w \in works} /\ read' = NoApp
    BY <1>3
  <2>2. doomed' \subseteq Names
    BY <2>1 DEF TypeOK, Work, Name, Names
  <2>3. TypeOK'
    BY <1>1, <2>1, <2>2 DEF TypeOK, status, cleaner
  <2>4. \A name \in doomed' : Gone(name[1])'
    BY <1>1, <1>3, <2>1 DEF IInv, AppInv, Gone, Name
  <2>5. ControllerInv'
    BY <2>1, <2>4 DEF ControllerInv
  <2> QED
    BY <1>1, <1>2, <2>3, <2>5, CleanerWaits, StatusWaits, AppWaits, WorksWait DEF IInv
<1>4. CASE app # NoApp
  <2>1. /\ doomed' = {} /\ read' = app
        /\ \/ ctl' = "delete" /\ app.deleting
           \/ ctl' = "write" /\ ~app.deleting
    BY <1>4
  <2>2. app \in App /\ app.uid = uids /\ uids \in Nat
    BY <1>4, UidsAreNumbers DEF TypeOK, IInv, AppInv
  <2>3. TypeOK'
    BY <1>1, <2>1 DEF TypeOK, status, cleaner
  <2>4. ControllerInv'
    BY <1>1, <2>1, <2>2 DEF ControllerInv, Doomed
  <2> QED
    BY <1>1, <1>2, <2>3, <2>4, CleanerWaits, StatusWaits, AppWaits, WorksWait DEF IInv
<1> QED
  BY <1>3, <1>4

LEMMA PurgeStep == ASSUME TypeOK, IInv, PurgeWork PROVE TypeOK' /\ IInv' /\ Steps
<1> USE DEF PurgeWork
<1>1. UNCHANGED <<app, uids, edits, reports, faults, queued>>
      /\ UNCHANGED status /\ UNCHANGED cleaner
  BY DEF bounds
<1>2. CASE doomed = {}
  <2>1. Done /\ UNCHANGED <<works, changed>>
    BY <1>2
  <2>2. AppStep /\ WorkStep /\ AppInv'
    BY <1>1, <2>1, StoreWaits
  <2>3. TypeOK'
    BY <1>1, <2>1, <2>2, DoneIsSafe DEF TypeOK, status, cleaner
  <2> QED
    BY <1>1, <2>1, <2>2, <2>3, DoneIsSafe, CleanerWaits, StatusWaits, AppWaits, WorksWait DEF IInv
<1>3. CASE doomed # {}
  <2>1. PICK name \in doomed :
          MarkDeleted(name) /\ doomed' = doomed \ {name} /\ UNCHANGED <<ctl, read>>
    BY <1>3
  <2>2. name \in Names /\ Doomed(name[1])
    BY DoomIsFinal DEF TypeOK, IInv, ControllerInv, Gone, Doomed
  <2>3. /\ works' \subseteq Work
        /\ \A v, w \in works' : Name(v) = Name(w) => v = w
        /\ changed' \subseteq Names
        /\ AppStep /\ WorkStep /\ AppInv' /\ LosesNoWork
    BY <1>1, <2>1, <2>2, MarkingIsSafe
  <2>4. TypeOK'
    BY <1>1, <2>1, <2>3 DEF TypeOK, status, cleaner
  <2>5. \A n \in doomed' : Gone(n[1])'
    BY <1>1, <2>1 DEF IInv, ControllerInv, Gone
  <2>6. ControllerInv'
    BY <2>1, <2>5 DEF ControllerInv
  <2> QED
    BY <1>1, <2>3, <2>4, <2>6, CleanerWaits, StatusWaits, AppWaits DEF IInv
<1> QED
  BY <1>2, <1>3

LEMMA DeleteStep == ASSUME TypeOK, IInv, DeleteWork PROVE TypeOK' /\ IInv' /\ Steps
<1> USE DEF DeleteWork, Goto
<1> DEFINE name == <<read.uid, read.dest>>
<1>1. UNCHANGED <<app, uids, edits, reports, faults, queued, read, doomed>>
      /\ UNCHANGED status /\ UNCHANGED cleaner
  BY DEF bounds
<1>2. read \in App /\ read.uid <= uids /\ Doomed(read.uid) /\ doomed = {}
  BY DEF IInv, ControllerInv
<1>3. name \in Names /\ name[1] = read.uid
  BY <1>2 DEF App, Names
<1>4. MarkDeleted(name)
  OBVIOUS
<1>5. /\ works' \subseteq Work
      /\ \A v, w \in works' : Name(v) = Name(w) => v = w
      /\ changed' \subseteq Names
      /\ AppStep /\ WorkStep /\ AppInv' /\ LosesNoWork
      /\ \A v \in works' : Name(v) = name => v.deleting
  BY <1>1, <1>2, <1>3, <1>4, MarkingIsSafe
<1>6. ctl' \in {"release", "missing"}
  OBVIOUS
<1>7. TypeOK'
  BY <1>1, <1>5, <1>6 DEF TypeOK, status, cleaner
<1>8. ControllerInv'
  BY <1>1, <1>2, <1>5, <1>6 DEF ControllerInv, Doomed, WorkOf
<1> QED
  BY <1>1, <1>5, <1>7, <1>8, CleanerWaits, StatusWaits, AppWaits DEF IInv

\* An Application that stays what the controller has read loses its finalizer.
LEMMA ReleaseStep == ASSUME TypeOK, IInv, Release PROVE TypeOK' /\ IInv' /\ Steps
<1> USE DEF Release
<1> DEFINE released == [read EXCEPT !.finalizer = FALSE]
<1>1. UNCHANGED <<works, uids, edits, reports, faults, changed>>
      /\ UNCHANGED status /\ UNCHANGED cleaner /\ Done
  BY DEF bounds
<1>2. read \in App /\ \A w \in WorkOf(read) : w.deleting
  BY DEF IInv, ControllerInv
<1>3. queued' \in BOOLEAN
  BY <1>2 DEF Heard, App
<1>4. CASE app = read
  <2>1. /\ released \in App /\ released.uid = app.uid /\ released.rev = app.rev
        /\ released.deleting = app.deleting /\ released.op = app.op
        /\ released.health = app.health
    BY <1>2, <1>4 DEF App
  <2>2. app' = Stored(released)
    BY <1>4
  <2> HIDE DEF released
  <2>3. app.rev <= edits' + 1 /\ app \in App /\ app # NoApp
    BY <1>1, <1>2, <1>4, PullAssumption DEF IInv, AppInv
  <2>4. app' \in App \cup {NoApp} /\ AppStep /\ WorkStep /\ AppInv' /\ LosesNoWork
    BY <1>1, <2>1, <2>2, <2>3, WritingIsSafe
  <2>5. TypeOK'
    BY <1>1, <1>3, <2>4, DoneIsSafe DEF TypeOK, status, cleaner
  <2>6. app' = NoApp \/ app' = released
    BY <2>2 DEF Stored
  <2>7. WorkGoesFirst
    BY <1>2, <1>4 DEF WorkGoesFirst
  <2>8. HandsOver
    BY <2>1, <2>6, Zenon DEF HandsOver
  <2>9. TurnsHealthy
    BY <2>1, <2>6 DEF TurnsHealthy
  <2> QED
    BY <1>1, <2>4, <2>5, <2>7, <2>8, <2>9, DoneIsSafe, CleanerWaits, StatusWaits DEF IInv, Steps
<1>5. CASE app # read
  <2>1. app' = app
    BY <1>5
  <2>2. AppStep /\ WorkStep /\ AppInv'
    BY <1>1, <2>1, StoreWaits
  <2>3. TypeOK'
    BY <1>1, <1>3, <2>1, <2>2, DoneIsSafe DEF TypeOK, status, cleaner
  <2> QED
    BY <1>1, <2>1, <2>2, <2>3, DoneIsSafe, CleanerWaits, StatusWaits, AppWaits, WorksWait DEF IInv
<1> QED
  BY <1>4, <1>5

\* What is written of an Application is a work like the one in its place.
LEMMA WriteStep == ASSUME TypeOK, IInv, WriteWork PROVE TypeOK' /\ IInv' /\ Steps
<1> USE DEF WriteWork
<1> DEFINE w == Wrapped(read)
<1>1. UNCHANGED <<app, uids, edits, reports, faults, queued>>
      /\ UNCHANGED status /\ UNCHANGED cleaner
  BY DEF bounds
<1>2. read \in App /\ read.uid <= uids /\ ~read.deleting /\ doomed = {}
  BY DEF IInv, ControllerInv
<1>3. /\ w.uid = read.uid /\ w.dest = read.dest /\ w.rev = read.rev /\ w.op = read.op
      /\ w.deleting = (\E v \in WorkOf(read) : v.deleting)
      /\ w.health \in Reported \cup {Unknown}
  <2>1. WorkOf(read) # {} => (CHOOSE v \in WorkOf(read) : TRUE) \in WorkOf(read)
    OBVIOUS
  <2>2. \A v \in WorkOf(read) : v.health \in Reported \cup {Unknown}
    BY DEF WorkOf, TypeOK, Work
  <2> QED
    BY <2>1, <2>2 DEF Wrapped
<1>4. w \in Work
  <2>1. w = [uid |-> w.uid, dest |-> w.dest, rev |-> w.rev, op |-> w.op,
             health |-> w.health, deleting |-> w.deleting]
    BY DEF Wrapped
  <2>2. w.deleting \in BOOLEAN
    BY <1>3
  <2> HIDE DEF w
  <2> QED
    BY <1>2, <1>3, <2>1, <2>2 DEF Work, App
<1>5. Name(w) = <<read.uid, read.dest>>
  BY <1>3 DEF Name
<1>6. \A v \in works : Name(v) = Name(w) => v.deleting = w.deleting
  <2> SUFFICES ASSUME NEW v \in works, Name(v) = Name(w) PROVE v.deleting = w.deleting
    OBVIOUS
  <2>1. WorkOf(read) = {v}
    BY <1>5 DEF WorkOf, TypeOK
  <2>2. w.deleting = (\E x \in {v} : x.deleting)
    BY <1>3, <2>1
  <2>3. v.deleting \in BOOLEAN
    BY DEF TypeOK, Work
  <2> QED
    BY <2>2, <2>3
<1>7. w.deleting => Doomed(w.uid)
  BY <1>3 DEF WorkOf, Name, IInv, AppInv
<1>8. StoreWork(w)
  OBVIOUS
<1> HIDE DEF w
<1>9. /\ works' \subseteq Work
      /\ \A v1, v2 \in works' : Name(v1) = Name(v2) => v1 = v2
      /\ changed' \subseteq Names
      /\ AppStep /\ AppInv' /\ LosesNoWork
      /\ w \in works'
  BY <1>1, <1>2, <1>3, <1>4, <1>6, <1>7, <1>8, StoringIsSafe
<1>10. CASE read.op
  <2>1. ctl' = "dropOperation" /\ UNCHANGED <<read, doomed>>
    BY <1>10 DEF Goto
  <2>2. TypeOK'
    BY <1>1, <1>9, <2>1 DEF TypeOK, status, cleaner
  <2>3. w \in WorkOf(read)' /\ w.op
    BY <1>3, <1>5, <1>9, <1>10, <2>1 DEF WorkOf
  <2>4. ControllerInv'
    BY <1>1, <1>2, <2>1, <2>3 DEF ControllerInv
  <2> QED
    BY <1>1, <1>9, <2>2, <2>4, CleanerWaits, StatusWaits, AppWaits DEF IInv
<1>11. CASE ~read.op
  <2>1. Done
    BY <1>11
  <2>2. TypeOK'
    BY <1>1, <1>9, <2>1, DoneIsSafe DEF TypeOK, status, cleaner
  <2> QED
    BY <1>1, <1>9, <2>1, <2>2, DoneIsSafe, CleanerWaits, StatusWaits, AppWaits DEF IInv
<1> QED
  BY <1>10, <1>11

\* The operation goes from an Application whose work has it.
LEMMA DropStep == ASSUME TypeOK, IInv, DropOperation PROVE TypeOK' /\ IInv' /\ Steps
<1> USE DEF DropOperation
<1> DEFINE dropped == [read EXCEPT !.op = FALSE]
<1>1. UNCHANGED <<works, uids, edits, reports, faults, changed>>
      /\ UNCHANGED status /\ UNCHANGED cleaner /\ Done
  BY DEF bounds
<1>2. /\ read \in App /\ ~read.deleting
      /\ Doomed(read.uid) \/ \E w \in WorkOf(read) : w.op
  BY DEF IInv, ControllerInv
<1>3. queued' \in BOOLEAN
  BY <1>2 DEF Heard, App
<1>4. CASE app = read
  <2>1. /\ dropped \in App /\ dropped.uid = app.uid /\ dropped.rev = app.rev
        /\ dropped.deleting = app.deleting /\ dropped.health = app.health
    BY <1>2, <1>4 DEF App
  <2>2. app' = Stored(dropped)
    BY <1>4
  <2> HIDE DEF dropped
  <2>3. app.rev <= edits' + 1 /\ app \in App /\ app # NoApp
    BY <1>1, <1>2, <1>4, PullAssumption DEF IInv, AppInv
  <2>4. app' \in App \cup {NoApp} /\ AppStep /\ WorkStep /\ AppInv' /\ LosesNoWork
    BY <1>1, <2>1, <2>2, <2>3, WritingIsSafe
  <2>5. TypeOK'
    BY <1>1, <1>3, <2>4, DoneIsSafe DEF TypeOK, status, cleaner
  <2>6. app' = dropped
    BY <1>2, <1>4, <2>1, <2>2 DEF Stored
  <2>7. WorkGoesFirst
    BY <1>2, <1>4 DEF WorkGoesFirst
  <2>8. HandsOver
    BY <1>2, <1>4, <2>3 DEF HandsOver, Doomed
  <2>9. TurnsHealthy
    BY <2>1, <2>6 DEF TurnsHealthy
  <2> QED
    BY <1>1, <2>4, <2>5, <2>7, <2>8, <2>9, DoneIsSafe, CleanerWaits, StatusWaits DEF IInv, Steps
<1>5. CASE app # read
  <2>1. app' = app
    BY <1>5
  <2>2. AppStep /\ WorkStep /\ AppInv'
    BY <1>1, <2>1, StoreWaits
  <2>3. TypeOK'
    BY <1>1, <1>3, <2>1, <2>2, DoneIsSafe DEF TypeOK, status, cleaner
  <2> QED
    BY <1>1, <2>1, <2>2, <2>3, DoneIsSafe, CleanerWaits, StatusWaits, AppWaits, WorksWait DEF IInv
<1> QED
  BY <1>4, <1>5

LEMMA FailStep == ASSUME TypeOK, IInv, Fail PROVE TypeOK' /\ IInv' /\ Steps
<1> USE DEF Fail
<1>1. UNCHANGED <<app, works, uids, edits, reports, changed>>
      /\ UNCHANGED status /\ UNCHANGED cleaner /\ Done /\ queued' = TRUE
  OBVIOUS
<1>2. AppStep /\ WorkStep /\ AppInv'
  BY <1>1, StoreWaits
<1>3. faults' \in 0 .. MaxFaults
  BY PullAssumption DEF TypeOK
<1>4. TypeOK'
  BY <1>1, <1>2, <1>3, DoneIsSafe DEF TypeOK, status, cleaner
<1> QED
  BY <1>1, <1>2, <1>4, DoneIsSafe, CleanerWaits, StatusWaits, AppWaits, WorksWait DEF IInv

-----------------------------------------------------------------------------
(* The status controller.                                                   *)

\* A request that is over, put back or not, leaves nothing in hand.
LEMMA OverIsSafe ==
    ASSUME TypeOK, StatusDone, RequeueWork \/ UNCHANGED changed
    PROVE  /\ StatusInv' /\ changed' \subseteq Names
           /\ stat' \in {"idle", "progressing", "report"}
           /\ source' \subseteq [uid : Uids, dest : Clusters, health : Reported]
           /\ copy' \in App \cup {NoApp}
BY DEF StatusDone, RequeueWork, StatusInv, TypeOK, Name, Names

LEMMA TakeWorkStep ==
    ASSUME TypeOK, IInv, NEW name \in Names, TakeWork(name)
    PROVE  TypeOK' /\ IInv' /\ Steps
<1> DEFINE found == {w \in works : Name(w) = name /\ ~w.deleting /\ w.health # Unknown}
<1>1. /\ UNCHANGED <<app, works, uids, edits, reports, faults, queued>>
      /\ UNCHANGED controller /\ UNCHANGED cleaner
      /\ changed' = changed \ {name}
      /\ source' = {[uid |-> w.uid, dest |-> w.dest, health |-> w.health] : w \in found}
      /\ \/ copy' = NoApp /\ stat' = "idle"
         \/ copy' = app /\ app # NoApp /\ stat' = "progressing"
         \/ copy' = app /\ app # NoApp /\ stat' = "report" /\ ~\E w \in found : w.health = "Healthy"
  <2>1. CASE found = {}
    BY <2>1 DEF TakeWork, bounds
  <2>2. CASE found # {} /\ \E w \in found : w.health = "Healthy"
    BY <2>2 DEF TakeWork, bounds
  <2>3. CASE found # {} /\ ~\E w \in found : w.health = "Healthy"
    BY <2>3 DEF TakeWork, bounds
  <2> QED
    BY <2>1, <2>2, <2>3
<1>2. AppStep /\ WorkStep /\ AppInv'
  BY <1>1, StoreWaits
<1>3. source' \subseteq [uid : Uids, dest : Clusters, health : Reported]
  BY <1>1 DEF TypeOK, Work
<1>4. stat' # "idle" => copy' \in App
  BY <1>1 DEF TypeOK
<1>5. stat' = "report" => \A s \in source' : s.health # "Healthy"
  BY <1>1
<1>6. StatusInv'
  BY <1>4, <1>5 DEF StatusInv
<1>7. TypeOK'
  BY <1>1, <1>3 DEF TypeOK, controller, cleaner
<1> QED
  BY <1>1, <1>2, <1>6, <1>7, ControllerWaits, CleanerWaits, AppWaits, WorksWait DEF IInv

\* Writing a health that is not Healthy, or follows Progressing.
LEMMA HealthStep ==
    ASSUME TypeOK, IInv, NEW a \in App, app \in App,
           a = [app EXCEPT !.health = a.health],
           a.health = "Healthy" => app.health = "Progressing",
           app' = Stored(a), UNCHANGED <<works, uids, edits>>
    PROVE  /\ app' \in App \cup {NoApp} /\ AppStep /\ WorkStep /\ AppInv' /\ Steps
<1>1. /\ a.uid = app.uid /\ a.rev = app.rev /\ a.op = app.op
      /\ a.deleting = app.deleting /\ a.finalizer = app.finalizer
  BY DEF App
<1>2. app # NoApp /\ app.rev <= edits' + 1 /\ (app.deleting => app.finalizer)
  BY PullAssumption DEF IInv, AppInv
<1>3. app' \in App \cup {NoApp} /\ AppStep /\ WorkStep /\ AppInv' /\ LosesNoWork
  BY <1>1, <1>2, WritingIsSafe
<1>4. app' = a
  BY <1>1, <1>2 DEF Stored
<1>5. WorkGoesFirst
  BY <1>4, PullAssumption DEF WorkGoesFirst
<1>6. HandsOver
  BY <1>1, <1>4, Zenon DEF HandsOver
<1>7. TurnsHealthy
  BY <1>4 DEF TurnsHealthy
<1> QED
  BY <1>3, <1>5, <1>6, <1>7 DEF Steps

LEMMA ProgressingStep == ASSUME TypeOK, IInv, SetProgressing PROVE TypeOK' /\ IInv' /\ Steps
<1> USE DEF SetProgressing
<1>1. /\ UNCHANGED <<works, uids, edits, reports, faults>>
      /\ UNCHANGED controller /\ UNCHANGED cleaner
  BY DEF bounds
<1>2. copy \in App
  BY DEF IInv, StatusInv
<1>3. CASE app = copy
  <2> DEFINE a == [copy EXCEPT !.health = "Progressing"]
  <2>1. /\ app' = Stored(a) /\ copy' = a /\ queued' = (queued \/ Heard(a))
        /\ stat' = "report" /\ UNCHANGED <<source, changed>>
    BY <1>3 DEF SetHealth
  <2>2. a \in App /\ a.health = "Progressing" /\ a = [app EXCEPT !.health = a.health]
    BY <1>2, <1>3 DEF App
  <2> HIDE DEF a
  <2>3. app' \in App \cup {NoApp} /\ AppStep /\ WorkStep /\ AppInv' /\ Steps
    BY <1>1, <1>2, <1>3, <2>1, <2>2, HealthStep
  <2>4. queued' \in BOOLEAN
    BY <2>1, <2>2 DEF Heard, App
  <2>5. TypeOK'
    BY <1>1, <2>1, <2>2, <2>3, <2>4 DEF TypeOK, controller, cleaner
  <2>6. StatusInv'
    BY <2>1, <2>2 DEF StatusInv
  <2> QED
    BY <1>1, <2>3, <2>5, <2>6, ControllerWaits, CleanerWaits DEF IInv
<1>4. CASE app # copy
  <2>1. RequeueWork /\ StatusDone /\ UNCHANGED <<app, queued>>
    BY <1>4 DEF RequeueWork
  <2>2. AppStep /\ WorkStep /\ AppInv'
    BY <1>1, <2>1, StoreWaits
  <2>3. TypeOK'
    BY <1>1, <2>1, OverIsSafe DEF TypeOK, controller, cleaner
  <2> QED
    BY <1>1, <2>1, <2>2, <2>3, OverIsSafe, ControllerWaits, CleanerWaits, AppWaits, WorksWait DEF IInv
<1> QED
  BY <1>3, <1>4

LEMMA ReportHealthStep == ASSUME TypeOK, IInv, ReportHealth PROVE TypeOK' /\ IInv' /\ Steps
<1> USE DEF ReportHealth
<1>1. /\ UNCHANGED <<works, uids, edits, reports, faults>>
      /\ UNCHANGED controller /\ UNCHANGED cleaner
  BY DEF bounds
<1>2. copy \in App /\ \A s \in source : s.health = "Healthy" => copy.health = "Progressing"
  BY DEF IInv, StatusInv
<1>3. CASE app = copy
  <2>1. PICK s \in source :
          /\ app' = Stored([copy EXCEPT !.health = s.health])
          /\ queued' = (queued \/ Heard([copy EXCEPT !.health = s.health]))
    BY <1>3
  <2> DEFINE a == [copy EXCEPT !.health = s.health]
  <2>2. a \in App /\ a.health = s.health /\ a = [app EXCEPT !.health = a.health]
    BY <1>2, <1>3 DEF App, TypeOK
  <2>3. app' = Stored(a) /\ queued' = (queued \/ Heard(a)) /\ StatusDone /\ UNCHANGED changed
    BY <1>3, <2>1
  <2> HIDE DEF a
  <2>4. app' \in App \cup {NoApp} /\ AppStep /\ WorkStep /\ AppInv' /\ Steps
    BY <1>1, <1>2, <1>3, <2>2, <2>3, HealthStep
  <2>5. queued' \in BOOLEAN
    BY <2>2, <2>3 DEF Heard, App
  <2>6. TypeOK'
    BY <1>1, <2>3, <2>4, <2>5, OverIsSafe DEF TypeOK, controller, cleaner
  <2> QED
    BY <1>1, <2>3, <2>4, <2>6, OverIsSafe, ControllerWaits, CleanerWaits DEF IInv
<1>4. CASE app # copy
  <2>1. RequeueWork /\ StatusDone /\ UNCHANGED <<app, queued>>
    BY <1>4 DEF RequeueWork
  <2>2. AppStep /\ WorkStep /\ AppInv'
    BY <1>1, <2>1, StoreWaits
  <2>3. TypeOK'
    BY <1>1, <2>1, OverIsSafe DEF TypeOK, controller, cleaner
  <2> QED
    BY <1>1, <2>1, <2>2, <2>3, OverIsSafe, ControllerWaits, CleanerWaits, AppWaits, WorksWait DEF IInv
<1> QED
  BY <1>3, <1>4

LEMMA FailStatusStep == ASSUME TypeOK, IInv, FailStatus PROVE TypeOK' /\ IInv' /\ Steps
<1> USE DEF FailStatus
<1>1. /\ UNCHANGED <<app, works, uids, edits, reports, queued>>
      /\ UNCHANGED controller /\ UNCHANGED cleaner /\ RequeueWork /\ StatusDone
  BY DEF RequeueWork
<1>2. AppStep /\ WorkStep /\ AppInv'
  BY <1>1, StoreWaits
<1>3. faults' \in 0 .. MaxFaults
  BY PullAssumption DEF TypeOK
<1>4. TypeOK'
  BY <1>1, <1>3, OverIsSafe DEF TypeOK, controller, cleaner
<1> QED
  BY <1>1, <1>2, <1>4, OverIsSafe, ControllerWaits, CleanerWaits, AppWaits, WorksWait DEF IInv

-----------------------------------------------------------------------------
(* The cleanup controller.                                                  *)

LEMMA TickStep == ASSUME TypeOK, IInv, Tick PROVE TypeOK' /\ IInv' /\ Steps
<1> USE DEF Tick
<1>1. /\ UNCHANGED <<app, works, uids, edits, reports, faults, queued, changed, sweep>>
      /\ UNCHANGED controller /\ UNCHANGED status
  BY DEF bounds
<1>2. AppStep /\ WorkStep /\ AppInv'
  BY <1>1, StoreWaits
<1>3. listed' \subseteq Names /\ \A name \in listed' : name[1] <= uids
  BY DEF TypeOK, Work, Name, Names, IInv, AppInv
<1>4. TypeOK'
  BY <1>1, <1>3 DEF TypeOK, controller, status
<1>5. CleanerInv'
  BY <1>1, <1>3 DEF IInv, CleanerInv
<1> QED
  BY <1>1, <1>2, <1>4, <1>5, ControllerWaits, StatusWaits, AppWaits, WorksWait DEF IInv

LEMMA CheckStep == ASSUME TypeOK, IInv, CheckWork PROVE TypeOK' /\ IInv' /\ Steps
<1> USE DEF CheckWork
<1>1. /\ UNCHANGED <<app, works, uids, edits, reports, faults, queued, changed>>
      /\ UNCHANGED controller /\ UNCHANGED status
  BY DEF bounds
<1>2. AppStep /\ WorkStep /\ AppInv'
  BY <1>1, StoreWaits
<1>3. listed' \subseteq listed /\ sweep' \in {"check", "delete"}
      /\ (sweep' = "delete" => app = NoApp /\ listed' # {})
  OBVIOUS
<1>4. TypeOK'
  BY <1>1, <1>3 DEF TypeOK, controller, status
<1>5. CleanerInv'
  BY <1>1, <1>3 DEF IInv, CleanerInv, Gone
<1> QED
  BY <1>1, <1>2, <1>4, <1>5, ControllerWaits, StatusWaits, AppWaits, WorksWait DEF IInv

LEMMA DeleteOrphanStep == ASSUME TypeOK, IInv, DeleteOrphan PROVE TypeOK' /\ IInv' /\ Steps
<1> USE DEF DeleteOrphan
<1>1. /\ UNCHANGED <<app, uids, edits, reports, faults, queued>>
      /\ UNCHANGED controller /\ UNCHANGED status /\ sweep' = "check"
  BY DEF bounds
<1>2. PICK name \in listed : MarkDeleted(name) /\ listed' = listed \ {name}
  OBVIOUS
<1>3. name \in Names /\ Doomed(name[1])
  BY DoomIsFinal DEF TypeOK, IInv, CleanerInv, Gone, Doomed
<1>4. /\ works' \subseteq Work
      /\ \A v, w \in works' : Name(v) = Name(w) => v = w
      /\ changed' \subseteq Names
      /\ AppStep /\ WorkStep /\ AppInv' /\ LosesNoWork
  BY <1>1, <1>2, <1>3, MarkingIsSafe
<1>5. TypeOK'
  BY <1>1, <1>2, <1>4 DEF TypeOK, controller, status
<1>6. CleanerInv'
  BY <1>1, <1>2 DEF IInv, CleanerInv
<1> QED
  BY <1>1, <1>4, <1>5, <1>6, ControllerWaits, StatusWaits, AppWaits DEF IInv

LEMMA FailCleanupStep == ASSUME TypeOK, IInv, FailCleanup PROVE TypeOK' /\ IInv' /\ Steps
<1> USE DEF FailCleanup
<1>1. /\ UNCHANGED <<app, works, uids, edits, reports, queued, changed>>
      /\ UNCHANGED controller /\ UNCHANGED status
      /\ sweep' = "check" /\ listed' \subseteq listed
  OBVIOUS
<1>2. AppStep /\ WorkStep /\ AppInv'
  BY <1>1, StoreWaits
<1>3. faults' \in 0 .. MaxFaults
  BY PullAssumption DEF TypeOK
<1>4. TypeOK'
  BY <1>1, <1>3 DEF TypeOK, controller, status
<1>5. CleanerInv'
  BY <1>1 DEF IInv, CleanerInv
<1> QED
  BY <1>1, <1>2, <1>4, <1>5, ControllerWaits, StatusWaits, AppWaits, WorksWait DEF IInv

LEMMA CrashStep == ASSUME TypeOK, IInv, Crash PROVE TypeOK' /\ IInv' /\ Steps
<1> USE DEF Crash
<1>1. UNCHANGED <<app, works, uids, edits, reports>> /\ Done /\ StatusDone /\ sweep' = "check"
  OBVIOUS
<1>2. AppStep /\ WorkStep /\ AppInv'
  BY <1>1, StoreWaits
<1>3. faults' \in 0 .. MaxFaults
  BY PullAssumption DEF TypeOK
<1>4. /\ changed' \subseteq Names /\ listed' \subseteq Names
      /\ \A name \in listed' : name[1] <= uids
  BY DEF TypeOK, Work, Name, Names, IInv, AppInv
<1>5. queued' \in BOOLEAN
  BY DEF TypeOK, App
<1>6. StatusInv' /\ source' = {} /\ stat' = "idle" /\ copy' = NoApp
  BY DEF StatusInv, StatusDone
<1>7. TypeOK'
  BY <1>1, <1>2, <1>3, <1>4, <1>5, <1>6, DoneIsSafe DEF TypeOK
<1>8. CleanerInv'
  BY <1>1, <1>4 DEF CleanerInv
<1> QED
  BY <1>1, <1>2, <1>6, <1>7, <1>8, DoneIsSafe, AppWaits, WorksWait DEF IInv

-----------------------------------------------------------------------------
(* The specification.                                                       *)

LEMMA InitStep == Init => Inv
<1> SUFFICES ASSUME Init PROVE Inv
  OBVIOUS
<1>1. TypeOK
  <2>1. 0 \in 0 .. MaxUid /\ 0 \in 0 .. MaxEdits /\ 0 \in 0 .. MaxReports /\ 0 \in 0 .. MaxFaults
    BY PullAssumption
  <2>2. /\ app \in App \cup {NoApp} /\ read \in App \cup {NoApp} /\ copy \in App \cup {NoApp}
        /\ works \subseteq Work /\ \A v, w \in works : Name(v) = Name(w) => v = w
        /\ doomed \subseteq Names /\ changed \subseteq Names /\ listed \subseteq Names
        /\ source \subseteq [uid : Uids, dest : Clusters, health : Reported]
    BY DEF Init
  <2> QED
    BY <2>1, <2>2 DEF Init, TypeOK
<1>2. AppInv /\ ControllerInv /\ StatusInv /\ CleanerInv
  BY DEF Init, AppInv, ControllerInv, StatusInv, CleanerInv
<1> QED
  BY <1>1, <1>2 DEF Inv, IInv

LEMMA NextStep == ASSUME Inv, [Next]_vars PROVE Inv' /\ (UNCHANGED vars \/ Steps)
<1> USE DEF Inv
<1>1. CASE Create
  BY <1>1, CreateStep
<1>2. CASE ChangeSpec \/ Move \/ RequestOperation \/ Unlabel \/ Delete
  BY <1>2, UserSteps
<1>3. CASE Report
  BY <1>3, ReportStep
<1>4. CASE Finalize
  BY <1>4, FinalizeStep
<1>5. CASE Take
  BY <1>5, TakeStep
<1>6. CASE PurgeWork
  BY <1>6, PurgeStep
<1>7. CASE DeleteWork
  BY <1>7, DeleteStep
<1>8. CASE Release
  BY <1>8, ReleaseStep
<1>9. CASE WriteWork
  BY <1>9, WriteStep
<1>10. CASE DropOperation
  BY <1>10, DropStep
<1>11. CASE \E name \in Names : TakeWork(name)
  BY <1>11, TakeWorkStep
<1>12. CASE SetProgressing
  BY <1>12, ProgressingStep
<1>13. CASE ReportHealth
  BY <1>13, ReportHealthStep
<1>14. CASE Tick
  BY <1>14, TickStep
<1>15. CASE CheckWork
  BY <1>15, CheckStep
<1>16. CASE DeleteOrphan
  BY <1>16, DeleteOrphanStep
<1>17. CASE Fail
  BY <1>17, FailStep
<1>18. CASE FailStatus
  BY <1>18, FailStatusStep
<1>19. CASE FailCleanup
  BY <1>19, FailCleanupStep
<1>20. CASE Crash
  BY <1>20, CrashStep
<1>21. CASE UNCHANGED vars
  <2>1. UNCHANGED <<app, works, uids, edits, reports, faults, queued, changed>>
        /\ UNCHANGED controller /\ UNCHANGED status /\ UNCHANGED cleaner
    BY <1>21 DEF vars, bounds
  <2>2. TypeOK'
    BY <2>1 DEF TypeOK, controller, status, cleaner
  <2> QED
    BY <1>21, <2>1, <2>2, StoreWaits, ControllerWaits, CleanerWaits, StatusWaits DEF IInv
<1> QED
  BY <1>1, <1>2, <1>3, <1>4, <1>5, <1>6, <1>7, <1>8, <1>9, <1>10, <1>11, <1>12, <1>13,
     <1>14, <1>15, <1>16, <1>17, <1>18, <1>19, <1>20, <1>21
  DEF Next, Users, Agents, Application, Status, Cleanup, Faults

LEMMA InvHolds == Spec => []Inv
<1>1. Inv /\ [Next]_vars => Inv'
  BY NextStep
<1> QED
  BY InitStep, <1>1, PTL DEF Spec

\* The store and what the three workers have in hand keep their types, whatever
\* the order of their reads and writes.
THEOREM TypeCorrect == Spec => []TypeOK
<1>1. Inv => TypeOK
  BY DEF Inv
<1> QED
  BY InvHolds, <1>1, PTL

\* No step of the purge, of the sweep or of a deletion takes the work of an
\* Application that is there and alive, however long ago the worker has looked.
THEOREM LiveWorksSafe == Spec => LiveWorksStay
<1>1. Inv /\ [Next]_vars => [LosesNoWork]_vars
  BY NextStep DEF Steps
<1> QED
  BY InvHolds, <1>1, PTL DEF Spec, LiveWorksStay

\* An Application with the finalizer leaves the hub after its work is deleted.
THEOREM FinalizerSafe == Spec => FinalizerHolds
<1>1. Inv /\ [Next]_vars => [WorkGoesFirst]_vars
  BY NextStep DEF Steps
<1> QED
  BY InvHolds, <1>1, PTL DEF Spec, FinalizerHolds

\* No operation is removed from the Application that its work does not have.
THEOREM OperationSafe == Spec => OperationHandedOver
<1>1. Inv /\ [Next]_vars => [HandsOver]_vars
  BY NextStep DEF Steps
<1> QED
  BY InvHolds, <1>1, PTL DEF Spec, OperationHandedOver

\* No Application turns Healthy but out of Progressing.
THEOREM ProgressingSafe == Spec => ProgressingFirst
<1>1. Inv /\ [Next]_vars => [TurnsHealthy]_vars
  BY NextStep DEF Steps
<1> QED
  BY InvHolds, <1>1, PTL DEF Spec, ProgressingFirst

-----------------------------------------------------------------------------
(* The controller at rest.  An Application nobody has queued is as the      *)
(* controller has it in hand, or its work says what it says.                *)

Wanted(a, v) == v.rev = a.rev /\ ~v.op /\ ~v.deleting

RestInv ==
    ~queued /\ Alive(app) /\ app.pull =>
        /\ ctl \in {"idle", "write", "dropOperation"}
        /\ ctl = "idle" => ~app.op /\ \E w \in WorkOf(app) : Wanted(app, w)
        /\ ctl # "idle" => read = app
        /\ ctl = "dropOperation" => app.op

\* What leaves the controller alone and is heard by it, if it is a change of the
\* Application, keeps this as long as it keeps the work of a living Application.
QuietStep ==
    /\ UNCHANGED <<ctl, read>>
    /\ queued => queued'
    /\ app' = app \/ ~Alive(app') \/ ~app'.pull \/ queued'

WantedStays ==
    Alive(app) => \A w \in WorkOf(app) : Wanted(app, w) =>
        \E v \in works' : Name(v) = Name(w) /\ Wanted(app, v)

LEMMA QuietRests == ASSUME RestInv, QuietStep, WantedStays PROVE RestInv'
<1> SUFFICES ASSUME ~queued', Alive(app)', app'.pull
             PROVE  /\ ctl \in {"idle", "write", "dropOperation"}
                    /\ ctl = "idle" => ~app.op /\ \E w \in WorkOf(app)' : Wanted(app, w)
                    /\ ctl # "idle" => read = app
                    /\ ctl = "dropOperation" => app.op
                    /\ app' = app
  BY DEF RestInv, QuietStep, Wanted
<1>1. app' = app /\ ~queued
  BY DEF QuietStep, Alive
<1>2. Alive(app) /\ app.pull
  BY <1>1 DEF Alive
<1> QED
  BY <1>1, <1>2 DEF RestInv, WantedStays, WorkOf, Name

LEMMA WorksRest == ASSUME UNCHANGED works PROVE WantedStays
<1> SUFFICES ASSUME NEW w \in WorkOf(app), Wanted(app, w)
             PROVE  \E v \in works' : Name(v) = Name(w) /\ Wanted(app, v)
  BY DEF WantedStays
<1>1. w \in works'
  BY DEF WorkOf
<1> QED
  BY <1>1

\* A work that is deleted is that of an incarnation that is doomed.
LEMMA MarkingKeepsWanted ==
    ASSUME TypeOK, NEW name \in Names, Doomed(name[1]), MarkDeleted(name)
    PROVE  WantedStays
<1> SUFFICES ASSUME Alive(app), NEW w \in WorkOf(app), Wanted(app, w)
             PROVE  \E v \in works' : Name(v) = Name(w) /\ Wanted(app, v)
  BY DEF WantedStays
<1>1. Name(w) # name
  BY DEF WorkOf, Name, Doomed, Alive
<1>2. w \in works /\ w \in Work
  BY DEF WorkOf, TypeOK
<1>3. [w EXCEPT !.deleting = @ \/ Name(w) = name] = w
  BY <1>1, <1>2 DEF Work
<1> QED
  BY <1>2, <1>3 DEF MarkDeleted

\* A health that is written changes nothing, or is heard.
LEMMA WroteQuietly ==
    ASSUME UNCHANGED controller,
           \/ UNCHANGED <<app, queued>>
           \/ \E h : app' = Stored([copy EXCEPT !.health = h])
                    /\ queued' = (queued \/ Heard([copy EXCEPT !.health = h]))
    PROVE  QuietStep
<1>1. CASE UNCHANGED <<app, queued>>
  BY <1>1 DEF QuietStep, controller
<1>2. ASSUME NEW a, app' = Stored(a), queued' = (queued \/ Heard(a)) PROVE QuietStep
  BY <1>2 DEF QuietStep, controller, Stored, Heard, Alive
<1> QED
  BY <1>1, <1>2

LEMMA RestStep == ASSUME Inv, RestInv, [Next]_vars PROVE RestInv'
<1> USE DEF Inv
<1>1. CASE Create
  BY <1>1 DEF Create, RestInv
<1>2. ASSUME NEW kind, NEW a, Edit(kind, a) PROVE RestInv'
  <2>1. WantedStays
    BY <1>2, WorksRest DEF Edit
  <2>2. app' = NoApp \/ app' = a
    BY <1>2 DEF Edit, Stored
  <2>3. QuietStep
    BY <1>2, <2>2 DEF Edit, QuietStep, Heard, Alive, controller
  <2> QED
    BY <2>1, <2>3, QuietRests
<1>3. CASE ChangeSpec \/ Move \/ RequestOperation \/ Unlabel \/ Delete
  BY <1>2, <1>3 DEF ChangeSpec, Move, RequestOperation, Unlabel, Delete
<1>4. CASE Report
  <2>1. PICK x \in works, h \in Reported : StoreWork([x EXCEPT !.health = h])
    BY <1>4 DEF Report
  <2> DEFINE n == [x EXCEPT !.health = h]
  <2>2. n.uid = x.uid /\ n.dest = x.dest /\ n.rev = x.rev /\ n.op = x.op /\ n.deleting = x.deleting
    BY DEF Work, TypeOK
  <2>3. works' = Replace(n)
    BY <2>1 DEF StoreWork
  <2> HIDE DEF n
  <2>4. WantedStays
    BY <2>2, <2>3 DEF WantedStays, Wanted, WorkOf, Replace, Name, TypeOK
  <2>5. QuietStep
    BY <1>4 DEF Report, QuietStep, controller
  <2> QED
    BY <2>4, <2>5, QuietRests
<1>5. CASE Finalize
  <2>1. WantedStays
    BY <1>5 DEF Finalize, WantedStays, Wanted, WorkOf
  <2> QED
    BY <1>5, <2>1, QuietRests DEF Finalize, QuietStep, controller
<1>6. CASE Take
  <2>1. \/ app = NoApp
        \/ app # NoApp /\ app.deleting
        \/ app # NoApp /\ ~app.deleting /\ ctl' = "write" /\ read' = app
    BY <1>6 DEF Take
  <2>2. app' = app
    BY <1>6 DEF Take
  <2> QED
    BY <2>1, <2>2 DEF RestInv, Alive
<1>7. CASE PurgeWork
  <2>1. ctl = "purge" /\ UNCHANGED <<app, queued>>
    BY <1>7 DEF PurgeWork
  <2> QED
    BY <2>1 DEF RestInv, Alive
<1>8. CASE DeleteWork
  <2>1. ctl = "delete" /\ UNCHANGED <<app, queued>>
    BY <1>8 DEF DeleteWork
  <2> QED
    BY <2>1 DEF RestInv, Alive
<1>9. CASE Release
  <2>1. read \in App /\ read # NoApp /\ Doomed(read.uid)
    BY <1>9, PullAssumption DEF Release, IInv, ControllerInv
  <2>2. CASE app = read
    <3>1. app.deleting
      BY <2>1, <2>2 DEF Doomed
    <3>2. app' = NoApp \/ app'.deleting
      BY <1>9, <2>1, <2>2, <3>1 DEF Release, Stored, App
    <3> QED
      BY <3>2 DEF RestInv, Alive
  <2>3. CASE app # read
    BY <1>9, <2>3 DEF Release, RestInv
  <2> QED
    BY <2>2, <2>3
<1>10. CASE WriteWork
  <2> SUFFICES ASSUME ~queued', Alive(app)', app'.pull
               PROVE  /\ ctl' \in {"idle", "dropOperation"}
                      /\ ctl' = "idle" => ~app.op /\ \E w \in WorkOf(app)' : Wanted(app, w)
                      /\ ctl' = "dropOperation" => read' = app /\ app.op
                      /\ app' = app
    BY DEF RestInv, Wanted
  <2>1. app' = app /\ ~queued /\ Alive(app) /\ app.pull
    BY <1>10 DEF WriteWork, Alive
  <2>2. read = app
    BY <1>10, <2>1 DEF WriteWork, RestInv
  <2>3. \A v \in WorkOf(app) : ~v.deleting
    BY <2>1 DEF IInv, AppInv, WorkOf, Name, Doomed, Alive
  <2> DEFINE w == Wrapped(app)
  <2>4. w.uid = app.uid /\ w.dest = app.dest /\ w.rev = app.rev /\ w.op = app.op /\ ~w.deleting
    BY <2>3 DEF Wrapped
  <2>5. works' = Replace(w)
    BY <1>10, <2>2 DEF WriteWork, StoreWork
  <2> HIDE DEF w
  <2>6. w \in WorkOf(app)'
    BY <2>1, <2>4, <2>5 DEF WorkOf, Replace, Name
  <2>7. CASE app.op
    BY <1>10, <2>1, <2>2, <2>7 DEF WriteWork, Goto
  <2>8. CASE ~app.op
    <3>1. Wanted(app, w)
      BY <2>4, <2>8 DEF Wanted
    <3>2. ctl' = "idle"
      BY <1>10, <2>2, <2>8 DEF WriteWork, Done
    <3> QED
      BY <2>1, <2>6, <2>8, <3>1, <3>2
  <2> QED
    BY <2>7, <2>8
<1>11. CASE DropOperation
  <2> SUFFICES ASSUME ~queued', Alive(app)', app'.pull
               PROVE  FALSE
    BY DEF RestInv
  <2> DEFINE dropped == [read EXCEPT !.op = FALSE]
  <2>1. ~queued /\ app = read /\ ~Heard(dropped) /\ app' = Stored(dropped)
    BY <1>11 DEF DropOperation
  <2>2. read \in App /\ ~read.deleting
    BY <1>11 DEF DropOperation, IInv, ControllerInv
  <2>3. dropped.pull = read.pull /\ dropped.op = FALSE /\ app' = dropped
    BY <2>1, <2>2 DEF Stored, App
  <2> HIDE DEF dropped
  <2>4. Alive(app) /\ app.pull
    BY <2>1, <2>2, <2>3, PullAssumption DEF Alive
  <2>5. app.op
    BY <1>11, <2>1, <2>4 DEF DropOperation, RestInv
  <2> QED
    BY <2>1, <2>3, <2>4, <2>5 DEF Heard
<1>12. CASE \E name \in Names : TakeWork(name)
  <2>1. PICK name \in Names : TakeWork(name)
    BY <1>12
  <2> QED
    BY <2>1, QuietRests, WorksRest DEF TakeWork, QuietStep, controller
<1>13. CASE SetProgressing
  <2>1. UNCHANGED works /\ UNCHANGED controller
    BY <1>13 DEF SetProgressing
  <2>2. \/ UNCHANGED <<app, queued>>
        \/ \E h : app' = Stored([copy EXCEPT !.health = h])
                 /\ queued' = (queued \/ Heard([copy EXCEPT !.health = h]))
    BY <1>13 DEF SetProgressing, SetHealth
  <2> QED
    BY <2>1, <2>2, WroteQuietly, WorksRest, QuietRests
<1>14. CASE ReportHealth
  <2>1. UNCHANGED works /\ UNCHANGED controller
    BY <1>14 DEF ReportHealth
  <2>2. \/ UNCHANGED <<app, queued>>
        \/ \E h : app' = Stored([copy EXCEPT !.health = h])
                 /\ queued' = (queued \/ Heard([copy EXCEPT !.health = h]))
    BY <1>14 DEF ReportHealth, SetHealth
  <2> QED
    BY <2>1, <2>2, WroteQuietly, WorksRest, QuietRests
<1>15. CASE Tick \/ CheckWork \/ FailCleanup
  <2>1. UNCHANGED <<app, works, queued>> /\ UNCHANGED controller
    BY <1>15 DEF Tick, CheckWork, FailCleanup
  <2> QED
    BY <2>1, QuietRests, WorksRest DEF QuietStep, controller
<1>16. CASE DeleteOrphan
  <2>1. PICK name \in listed : MarkDeleted(name)
    BY <1>16 DEF DeleteOrphan
  <2>2. name \in Names /\ Doomed(name[1])
    BY <1>16 DEF DeleteOrphan, IInv, CleanerInv, TypeOK, Gone, Doomed
  <2>3. WantedStays
    BY <2>1, <2>2, MarkingKeepsWanted
  <2> QED
    BY <1>16, <2>3, QuietRests DEF DeleteOrphan, QuietStep, controller
<1>17. CASE Fail
  BY <1>17 DEF Fail, RestInv
<1>18. CASE FailStatus
  BY <1>18, QuietRests, WorksRest DEF FailStatus, QuietStep, controller
<1>19. CASE Crash
  BY <1>19 DEF Crash, RestInv, Alive
<1>20. CASE UNCHANGED vars
  BY <1>20, QuietRests, WorksRest DEF vars, QuietStep, controller
<1> QED
  BY <1>1, <1>3, <1>4, <1>5, <1>6, <1>7, <1>8, <1>9, <1>10, <1>11, <1>12, <1>13,
     <1>14, <1>15, <1>16, <1>17, <1>18, <1>19, <1>20
  DEF Next, Users, Agents, Application, Status, Cleanup, Faults

\* Whenever the application controller rests, the work says what the Application
\* says, and neither of them carries an operation any more.
THEOREM PullRests == Spec => []WorkAtRest
<1>1. Init => RestInv
  BY DEF Init, RestInv, Alive
<1>2. Inv /\ RestInv /\ [Next]_vars => RestInv'
  BY RestStep
<1>3. RestInv => WorkAtRest
  BY DEF RestInv, WorkAtRest, Wanted
<1> QED
  BY InvHolds, <1>1, <1>2, <1>3, PTL DEF Spec
=============================================================================
