------------------------------- MODULE BasicPull -------------------------------
(***************************************************************************)
(* The basic pull mode (internal/basic/application): one Application on    *)
(* the hub, of one namespace and name, wrapped into a ManifestWork that    *)
(* the work agent of its managed cluster applies.  Three workers of the    *)
(* controller share the two kinds of objects: the application controller   *)
(* writes the work and takes it away, the status controller brings the     *)
(* health the agent reports back into the Application, and the cleanup     *)
(* controller removes, at every tick, the works nobody owns.  All of them  *)
(* read an object first and write it back later; what keeps them apart is  *)
(* the resourceVersion: an Update of an object that has changed meanwhile  *)
(* fails.                                                                  *)
(*                                                                         *)
(* The Application may be deleted and made anew under its name, with       *)
(* another uid; the name of a work carries a prefix of the uid, taken here *)
(* to tell the uids apart.                                                 *)
(***************************************************************************)
EXTENDS Naturals, FiniteSets

CONSTANTS
    Clusters,      \* the managed clusters
    Homes,         \* those an Application may be created for
    NoApp,         \* what a Get answers that finds no Application
    EditKinds,     \* what users do to the Application in this instance
    MaxUid,        \* bound on how often it is created
    MaxEdits,      \* bound on what users do to it afterwards
    MaxReports,    \* bound on the health reports of the agents
    MaxFaults      \* bound on failed calls and crashes together

AllEditKinds == {"spec", "move", "operation", "unlabel", "delete"}

Uids == 1 .. MaxUid
Reported == {"Healthy", "Degraded"}
Unknown == "Missing"

\* The Application.  "pull" is the label that makes it one of the controller's,
\* "rev" stands for its spec, "op" says that an operation is requested.
App == [uid : Uids, dest : Clusters, rev : 1 .. MaxEdits + 1, pull : BOOLEAN,
        op : BOOLEAN, health : Reported \cup {"Progressing", Unknown},
        finalizer : BOOLEAN, deleting : BOOLEAN]

\* A work, named by the Application's uid and living in its cluster's namespace.
Work == [uid : Uids, dest : Clusters, rev : 1 .. MaxEdits + 1, op : BOOLEAN,
         health : Reported \cup {Unknown}, deleting : BOOLEAN]

ASSUME PullAssumption ==
    /\ NoApp \notin App
    /\ Homes \subseteq Clusters
    /\ EditKinds \subseteq AllEditKinds
    /\ MaxUid \in Nat \ {0}
    /\ MaxEdits \in Nat
    /\ MaxReports \in Nat
    /\ MaxFaults \in Nat

VARIABLES
    app,      \* the Application, or NoApp
    works,    \* the ManifestWorks that carry its namespace and name
    uids, edits, reports, faults,  \* how often what is bounded has happened
    \* the application controller
    queued,   \* a request for the Application is in its queue
    ctl,      \* where it is
    read,     \* the Application as it has read it
    doomed,   \* the works it has listed for deletion
    \* the status controller
    changed,  \* the names of the works in its queue
    stat,     \* where it is
    source,   \* name and health of the work it is about, as it has read it
    copy,     \* the Application as it has read or last written it
    \* the cleanup controller
    sweep,    \* where it is
    listed    \* the works it has listed and not yet looked at

bounds == <<uids, edits, reports, faults>>
controller == <<ctl, read, doomed>>
status == <<stat, source, copy>>
cleaner == <<sweep, listed>>
vars == <<app, works, bounds, queued, controller, changed, status, cleaner>>

-----------------------------------------------------------------------------
Name(w) == <<w.uid, w.dest>>
Names == Uids \X Clusters

\* The work of an Application, if there is one.
WorkOf(a) == {w \in works : Name(w) = <<a.uid, a.dest>>}

TypeOK ==
    /\ app \in App \cup {NoApp}
    /\ works \subseteq Work
    /\ \A v, w \in works : Name(v) = Name(w) => v = w
    /\ uids \in 0 .. MaxUid
    /\ edits \in 0 .. MaxEdits
    /\ reports \in 0 .. MaxReports
    /\ faults \in 0 .. MaxFaults
    /\ queued \in BOOLEAN
    /\ ctl \in {"idle", "purge", "delete", "release", "missing", "write", "dropOperation"}
    /\ read \in App \cup {NoApp}
    /\ doomed \subseteq Names
    /\ changed \subseteq Names
    /\ stat \in {"idle", "progressing", "report"}
    /\ source \subseteq [uid : Uids, dest : Clusters, health : Reported]
    /\ copy \in App \cup {NoApp}
    /\ sweep \in {"check", "delete"}
    /\ listed \subseteq Names

Init ==
    /\ app = NoApp
    /\ works = {}
    /\ uids = 0 /\ edits = 0 /\ reports = 0 /\ faults = 0
    /\ queued = FALSE
    /\ ctl = "idle" /\ read = NoApp /\ doomed = {}
    /\ changed = {}
    /\ stat = "idle" /\ source = {} /\ copy = NoApp
    /\ sweep = "check" /\ listed = {}

-----------------------------------------------------------------------------
(* The store.  A change of the Application is an event for the application *)
(* controller if the label is there after it; a change of a work is one    *)
(* for the status controller; a work's disappearance is an event for none. *)

\* Writing a: one that is being deleted goes once its finalizer is gone.
Stored(a) == IF a.deleting /\ ~a.finalizer THEN NoApp ELSE a
Heard(a) == a # app /\ a.pull

\* Mutant: the work is created without looking for the one that is there.
Add(w) == works \cup {w}
Replace(w) == (works \ {v \in works : Name(v) = Name(w)}) \cup {w}
StoreWork(w) ==
    /\ works' = Replace(w)
    /\ changed' = changed \cup (IF w \in works THEN {} ELSE {Name(w)})

\* Deleting a work leaves it to the agent, whose finalizer it carries.
MarkDeleted(name) ==
    /\ works' = {[w EXCEPT !.deleting = @ \/ Name(w) = name] : w \in works}
    /\ changed' = changed \cup {Name(w) : w \in {v \in works : Name(v) = name /\ ~v.deleting}}

-----------------------------------------------------------------------------
(* Users and the ApplicationSet controller. *)

Create ==
    /\ app = NoApp
    /\ uids < MaxUid
    /\ uids' = uids + 1
    /\ \E d \in Homes, f \in BOOLEAN :
         app' = [uid |-> uids + 1, dest |-> d, rev |-> 1, pull |-> TRUE, op |-> FALSE,
                 health |-> Unknown, finalizer |-> f, deleting |-> FALSE]
    /\ queued' = TRUE
    /\ UNCHANGED <<works, edits, reports, faults, controller, changed, status, cleaner>>

Edit(kind, a) ==
    /\ kind \in EditKinds
    /\ app # NoApp
    /\ edits < MaxEdits
    /\ edits' = edits + 1
    /\ a # app
    /\ app' = Stored(a)
    /\ queued' = (queued \/ Heard(a))
    /\ UNCHANGED <<works, uids, reports, faults, controller, changed, status, cleaner>>

ChangeSpec == Edit("spec", [app EXCEPT !.rev = @ + 1])
Move == \E d \in Clusters : Edit("move", [app EXCEPT !.dest = d])
RequestOperation == Edit("operation", [app EXCEPT !.op = TRUE])
Unlabel == Edit("unlabel", [app EXCEPT !.pull = FALSE])
Delete == Edit("delete", [app EXCEPT !.deleting = TRUE])

-----------------------------------------------------------------------------
(* The work agents. *)

\* The agent of a cluster reports the health of the Application there.
Report ==
    /\ reports < MaxReports
    /\ reports' = reports + 1
    /\ \E w \in works, h \in Reported :
         /\ ~w.deleting
         /\ h # w.health
         /\ StoreWork([w EXCEPT !.health = h])
    /\ UNCHANGED <<app, uids, edits, faults, queued, controller, status, cleaner>>

\* It has taken the Application away and lets a deleted work go.
Finalize ==
    /\ \E w \in works : w.deleting /\ works' = works \ {w}
    /\ UNCHANGED <<app, bounds, queued, controller, changed, status, cleaner>>

-----------------------------------------------------------------------------
(* The application controller: one worker.  Whatever call of it fails, it  *)
(* returns the error, and the request is queued again.                     *)

Goto(at) == ctl' = at /\ UNCHANGED <<read, doomed>>
Done == ctl' = "idle" /\ read' = NoApp /\ doomed' = {}

\* Reconcile begins with the Application: if it is gone the works that name it are
\* listed, to be deleted one by one.
Take ==
    /\ ctl = "idle"
    /\ queued
    /\ queued' = FALSE
    /\ read' = app
    /\ doomed' = IF app = NoApp THEN {Name(w) : w \in works} ELSE {}
    /\ ctl' = CASE app = NoApp -> "purge"
                [] app # NoApp /\ app.deleting -> "delete"
                [] OTHER -> "write"
    /\ UNCHANGED <<app, works, bounds, changed, status, cleaner>>

PurgeWork ==
    /\ ctl = "purge"
    /\ IF doomed = {}
       THEN Done /\ UNCHANGED <<works, changed>>
       ELSE \E name \in doomed :
              /\ MarkDeleted(name)
              /\ doomed' = doomed \ {name}
              /\ UNCHANGED <<ctl, read>>
    /\ UNCHANGED <<app, bounds, queued, status, cleaner>>

\* Mutant: the error of the work's deletion is logged, and the finalizer goes.
DeleteWorkGoingOn ==
    /\ ctl = "delete"
    /\ \/ MarkDeleted(<<read.uid, read.dest>>)
       \/ UNCHANGED <<works, changed>>
    /\ Goto(IF WorkOf(read) = {} THEN "missing" ELSE "release")
    /\ UNCHANGED <<app, bounds, queued, status, cleaner>>

\* The Application is being deleted: its work goes first,
DeleteWork ==
    /\ ctl = "delete"
    /\ MarkDeleted(<<read.uid, read.dest>>)
    /\ Goto(IF WorkOf(read) = {} THEN "missing" ELSE "release")
    /\ UNCHANGED <<app, bounds, queued, status, cleaner>>

\* then its finalizer.  An Update takes effect only on what the controller has
\* read.  Of a work that was not there the code goes on to delete the empty object
\* it has got, so that the reconcile ends with an error even then.
Release ==
    /\ ctl \in {"release", "missing"}
    /\ Done
    /\ LET released == [read EXCEPT !.finalizer = FALSE]
           fits == app = read
       IN /\ app' = IF fits THEN Stored(released) ELSE app
          /\ queued' = (\/ queued \/ ~fits \/ ctl = "missing" \/ Heard(released))
    /\ UNCHANGED <<works, bounds, changed, status, cleaner>>

\* The Application is alive: its work is created, or brought to what the
\* Application says, save what the agent has reported.  A work that changes
\* between being read and being written makes the Update fail, and is retried.
Wrapped(a) ==
    LET found == WorkOf(a)
    IN [uid |-> a.uid, dest |-> a.dest, rev |-> a.rev, op |-> a.op,
        health |-> IF found = {} THEN Unknown ELSE (CHOOSE w \in found : TRUE).health,
        deleting |-> \E w \in found : w.deleting]

\* Mutant: a work that exists is left as it is.
CreateWork ==
    /\ ctl = "write"
    /\ IF WorkOf(read) = {} THEN StoreWork(Wrapped(read)) ELSE UNCHANGED <<works, changed>>
    /\ IF read.op THEN Goto("dropOperation") ELSE Done
    /\ UNCHANGED <<app, bounds, queued, status, cleaner>>

WriteWork ==
    /\ ctl = "write"
    /\ StoreWork(Wrapped(read))
    /\ IF read.op THEN Goto("dropOperation") ELSE Done
    /\ UNCHANGED <<app, bounds, queued, status, cleaner>>

\* Mutant: the operation is removed by a patch, from whatever Application there is.
PatchOperation ==
    /\ ctl = "dropOperation"
    /\ Done
    /\ app' = IF app = NoApp THEN app ELSE [app EXCEPT !.op = FALSE]
    /\ queued' = (queued \/ (app # NoApp /\ Heard([app EXCEPT !.op = FALSE])))
    /\ UNCHANGED <<works, bounds, changed, status, cleaner>>

\* The operation is in the work, and leaves the Application.
DropOperation ==
    /\ ctl = "dropOperation"
    /\ Done
    /\ LET dropped == [read EXCEPT !.op = FALSE]
           fits == app = read
       IN /\ app' = IF fits THEN Stored(dropped) ELSE app
          /\ queued' = (\/ queued \/ ~fits \/ Heard(dropped))
    /\ UNCHANGED <<works, bounds, changed, status, cleaner>>

\* A call fails: the error is returned, and the request queued again.
Fail ==
    /\ ctl # "idle"
    /\ faults < MaxFaults
    /\ faults' = faults + 1
    /\ Done
    /\ queued' = TRUE
    /\ UNCHANGED <<app, works, uids, edits, reports, changed, status, cleaner>>

-----------------------------------------------------------------------------
(* The status controller: one worker, for all works. *)

StatusDone == stat' = "idle" /\ source' = {} /\ copy' = NoApp

\* Mutant: a conflict ends the reconcile without an error.
GiveUp == StatusDone /\ UNCHANGED changed

RequeueWork ==
    /\ StatusDone
    /\ changed' = changed \cup {Name(w) : w \in source}

\* Reconcile reads the work, and the Application it names.  If the work is gone, is
\* being deleted or has nothing to report yet the request ends here; if there is no
\* such Application it is retried.  Before it reports Healthy the controller lets
\* the Application be Progressing, for the ApplicationSet controller to see.
TakeWork(name) ==
    LET found == {w \in works : Name(w) = name /\ ~w.deleting /\ w.health # Unknown}
    IN /\ stat = "idle"
       /\ name \in changed
       /\ found = {} \/ app # NoApp
       /\ changed' = changed \ {name}
       /\ source' = {[uid |-> w.uid, dest |-> w.dest, health |-> w.health] : w \in found}
       /\ copy' = IF found = {} THEN NoApp ELSE app
       /\ stat' = CASE found = {} -> "idle"
                    [] \E w \in found : w.health = "Healthy" -> "progressing"
                    [] OTHER -> "report"
       /\ UNCHANGED <<app, works, bounds, queued, controller, cleaner>>

\* An Update with another health; the retry on conflict sends the same stale
\* object again, and fails again.
SetHealth(h) ==
    LET written == [copy EXCEPT !.health = h]
    IN /\ app' = Stored(written)
       /\ queued' = (queued \/ Heard(written))
       /\ copy' = written

SetProgressing ==
    /\ stat = "progressing"
    /\ IF app = copy
       THEN /\ SetHealth("Progressing")
            /\ stat' = "report"
            /\ UNCHANGED <<source, changed>>
       ELSE RequeueWork /\ UNCHANGED <<app, queued>>
    /\ UNCHANGED <<works, bounds, controller, cleaner>>

\* Mutant: on a conflict the Application is read again and written.
ReportHealthRefetched ==
    /\ stat = "report"
    /\ IF app # NoApp
       THEN /\ \E w \in source :
                 /\ app' = Stored([app EXCEPT !.health = w.health])
                 /\ queued' = (queued \/ Heard([app EXCEPT !.health = w.health]))
            /\ StatusDone
            /\ UNCHANGED changed
       ELSE RequeueWork /\ UNCHANGED <<app, queued>>
    /\ UNCHANGED <<works, bounds, controller, cleaner>>

ReportHealth ==
    /\ stat = "report"
    /\ IF app = copy
       THEN /\ \E w \in source :
                 /\ app' = Stored([copy EXCEPT !.health = w.health])
                 /\ queued' = (queued \/ Heard([copy EXCEPT !.health = w.health]))
            /\ StatusDone
            /\ UNCHANGED changed
       ELSE RequeueWork /\ UNCHANGED <<app, queued>>
    /\ UNCHANGED <<works, bounds, controller, cleaner>>

FailStatus ==
    /\ stat # "idle"
    /\ faults < MaxFaults
    /\ faults' = faults + 1
    /\ RequeueWork
    /\ UNCHANGED <<app, works, uids, edits, reports, queued, controller, cleaner>>

-----------------------------------------------------------------------------
(* The cleanup controller: once when it starts, then at every tick. *)

\* Mutant: it sweeps only when it starts.
NeverTick == listed = {} /\ UNCHANGED vars

Tick ==
    /\ listed = {}
    /\ listed' = {Name(w) : w \in works}
    /\ UNCHANGED <<app, works, bounds, queued, controller, changed, status, sweep>>

\* A listed work is an orphan if there is no Application of its name,
CheckWork ==
    /\ sweep = "check"
    /\ listed # {}
    /\ IF app = NoApp
       THEN sweep' = "delete" /\ UNCHANGED listed
       ELSE UNCHANGED sweep /\ \E name \in listed : listed' = listed \ {name}
    /\ UNCHANGED <<app, works, bounds, queued, controller, changed, status>>

\* Mutant: all works that name the Application are deleted at once.
DeleteOrphans ==
    /\ sweep = "delete"
    /\ sweep' = "check"
    /\ works' = {[w EXCEPT !.deleting = TRUE] : w \in works}
    /\ changed' = changed \cup {Name(w) : w \in works}
    /\ listed' = {}
    /\ UNCHANGED <<app, bounds, queued, controller, status>>

\* and is deleted, whatever there is by then.
DeleteOrphan ==
    /\ sweep = "delete"
    /\ sweep' = "check"
    /\ \E name \in listed : MarkDeleted(name) /\ listed' = listed \ {name}
    /\ UNCHANGED <<app, bounds, queued, controller, status>>

\* What fails is logged, and left to the next tick.
FailCleanup ==
    /\ faults < MaxFaults
    /\ faults' = faults + 1
    /\ sweep' = "check"
    /\ \E name \in listed : listed' = listed \ {name}
    /\ UNCHANGED <<app, works, uids, edits, reports, queued, controller, changed, status>>

-----------------------------------------------------------------------------
\* The controller starts anew: it is told of every object that is there, never of
\* an Application that has gone meanwhile, and sweeps once.
Crash ==
    /\ faults < MaxFaults
    /\ faults' = faults + 1
    /\ Done /\ StatusDone
    /\ queued' = (app # NoApp /\ app.pull)
    /\ changed' = {Name(w) : w \in works}
    /\ sweep' = "check"
    /\ listed' = changed'
    /\ UNCHANGED <<app, works, uids, edits, reports>>

Users == Create \/ ChangeSpec \/ Move \/ RequestOperation \/ Unlabel \/ Delete
Agents == Report \/ Finalize
Application == Take \/ PurgeWork \/ DeleteWork \/ Release \/ WriteWork \/ DropOperation
Status == (\E name \in Names : TakeWork(name)) \/ SetProgressing \/ ReportHealth
Cleanup == Tick \/ CheckWork \/ DeleteOrphan
Faults == Fail \/ FailStatus \/ FailCleanup \/ Crash

Next ==
    \/ Users
    \/ Agents
    \/ Application
    \/ Status
    \/ Cleanup
    \/ Faults

Spec == Init /\ [][Next]_vars

\* Each worker goes on as long as it has something to do.  Nothing is assumed of the
\* users or of the agents, nor of the order in which a queue is served.
FairSpec ==
    /\ Spec
    /\ WF_vars(Application)
    /\ WF_vars(Status)
    /\ WF_vars(Cleanup)

-----------------------------------------------------------------------------
(* Properties *)

Alive(a) == a # NoApp /\ ~a.deleting

\* A work is deleted only when the Application it was made for is gone or on its
\* way: neither the sweep, which looks an Application up and deletes the work a
\* while later, nor the purge may take the work of an Application that has been
\* made anew under the name meanwhile; nobody would make that work again.
LosesNoWork ==
    \A w \in works :
        /\ ~w.deleting
        /\ ~\E v \in works' : Name(v) = Name(w) /\ ~v.deleting
        => app = NoApp \/ app.uid # w.uid \/ app.deleting
LiveWorksStay == [][LosesNoWork]_vars

\* An Application whose finalizer the controller holds goes only after its work
\* has been deleted, whatever users and the status controller write in between.
WorkGoesFirst ==
    app # NoApp /\ app' = NoApp /\ app.deleting => \A w \in WorkOf(app) : w.deleting
FinalizerHolds == [][WorkGoesFirst]_vars

\* An operation leaves the Application only when the work on the cluster the
\* Application names has it.
HandsOver ==
    /\ app # NoApp /\ app' # NoApp
    /\ app'.uid = app.uid
    /\ app.op /\ ~app'.op
    => \E w \in WorkOf(app) : w.op
OperationHandedOver == [][HandsOver]_vars

\* An Application becomes Healthy only out of Progressing: the step the
\* ApplicationSet controller waits for is never skipped, not even for an
\* Application made anew while its predecessor's health is being written.
TurnsHealthy ==
    /\ app' # NoApp /\ app # NoApp
    /\ app'.health = "Healthy" /\ app.health # "Healthy"
    => app.health = "Progressing"
ProgressingFirst == [][TurnsHealthy]_vars

\* Once users leave it alone, an Application with the pull label has a work on its
\* cluster, with its spec.
WorkFollows ==
    <>[](Alive(app) /\ app.pull => \E w \in WorkOf(app) : w.rev = app.rev /\ ~w.deleting)

\* Whenever the application controller has nothing to do, an Application with the
\* pull label has its work, with its spec.  No operation is left in either of them:
\* its removal from the Application is a change like any other, for which the work
\* is written once more.
WorkAtRest ==
    ~queued /\ ctl = "idle" /\ Alive(app) /\ app.pull =>
        /\ ~app.op
        /\ \E w \in WorkOf(app) : w.rev = app.rev /\ ~w.op /\ ~w.deleting

\* Once the Application is gone for good every work of its name is deleted, however
\* it went: with or without finalizer or label, and with the controller down.
OrphansGo == <>[](app = NoApp) => <>[](\A w \in works : w.deleting)

\* The Application ends up with the health its work reports, whatever conflicts,
\* failed calls and late reports there are on the way, provided that there is no
\* other work of its name and that no work outlives the Application it was made for
\* into the next: the status controller finds an Application by the name the work
\* carries, and takes the last word of a predecessor's work for its own.
OwnWorks == app # NoApp => \A w \in works : w.uid = app.uid
HealthFollows ==
    \A w \in works : Alive(app) /\ works = {w} /\ ~w.deleting /\ w.health # Unknown
                     => app.health = w.health
StatusFollows == []OwnWorks => <>[]HealthFollows

-----------------------------------------------------------------------------
(* What makes the safety properties inductive.                             *)

\* An incarnation that is being deleted stays so, and one that is gone never
\* returns: the uid of the Application, if there is one, is the last one given out.
Doomed(uid) == uid <= uids /\ (app # NoApp => app.uid # uid \/ app.deleting)
Gone(uid) == uid <= uids /\ (app # NoApp => app.uid # uid)

AppInv ==
    /\ app # NoApp => /\ app.uid = uids
                      /\ app.rev <= edits + 1
                      /\ app.deleting => app.finalizer
    /\ \A w \in works : w.uid <= uids /\ (w.deleting => Doomed(w.uid))

\* What the application controller has in hand: works to be purged and an
\* Application to be released stay doomed, the work of the one is deleted before
\* it is released, and the work that has received an operation keeps it.
ControllerInv ==
    /\ \A name \in doomed : Gone(name[1])
    /\ ctl # "purge" => doomed = {}
    /\ ctl \notin {"idle", "purge"} => read \in App /\ read.uid <= uids
    /\ ctl \in {"delete", "release", "missing"} => Doomed(read.uid)
    /\ ctl \in {"write", "dropOperation"} => ~read.deleting
    /\ ctl \in {"release", "missing"} => \A w \in WorkOf(read) : w.deleting
    /\ ctl = "dropOperation" =>
          \/ Doomed(read.uid)
          \/ \E w \in WorkOf(read) : w.op

\* What the status controller has in hand: Healthy comes after Progressing.
StatusInv ==
    /\ stat # "idle" => copy \in App
    /\ stat = "report" => \A s \in source : s.health = "Healthy" => copy.health = "Progressing"

\* What the sweep has found to be an orphan stays one.
CleanerInv ==
    /\ \A name \in listed : name[1] <= uids
    /\ sweep = "delete" => listed # {} /\ \A name \in listed : Gone(name[1])

IInv == AppInv /\ ControllerInv /\ StatusInv /\ CleanerInv
=============================================================================
