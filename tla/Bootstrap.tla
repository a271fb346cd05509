------------------------------ MODULE Bootstrap ------------------------------
(***************************************************************************)
(* The bootstrap Job of package-operator-manager (bootstrapper.Bootstrap   *)
(* in cmd/package-operator-manager/bootstrap.go), one process at a time,   *)
(* restarted by the Job after an error or a panic, against a store that    *)
(* holds the "package-operator" ClusterPackage, the ClusterObjectDeploy-   *)
(* ments and ClusterObjectSets generated for it, and the manager           *)
(* Deployment.                                                             *)
(*                                                                         *)
(* Store semantics the code relies on: Delete of an object with finalizers *)
(* only marks it deleting, which is a write and bumps its resourceVersion; *)
(* Update and Patch(client.Merge) send the resourceVersion of the copy in  *)
(* memory and get Conflict when it is stale, NotFound when the object is   *)
(* gone; clearing the finalizers of a deleting object removes it.  The     *)
(* owner-reference garbage collector deletes in the background the        *)
(* ClusterObjectDeployments of a removed package and the ClusterObjectSets *)
(* of a removed ClusterObjectDeployment.                                   *)
(***************************************************************************)
EXTENDS Naturals, Sequences, SequencesExt

CONSTANTS
  Pkg,          \* the "package-operator" ClusterPackage
  CODs,         \* its ClusterObjectDeployments
  COSs,         \* their ClusterObjectSets
  OwnerOf,      \* OwnerOf[s]: the ClusterObjectDeployment owning s
  MaxFaults,    \* bound on transient API errors
  MaxEnvWrites, \* bound on writes of other actors
  DeployRecovers, \* may the Deployment become Available during a run?
  StuckOrphans  \* the sets at revision 0 whose previous set is gone

ASSUME OwnedAssumption ==
  /\ Pkg \notin CODs \cup COSs /\ CODs \cap COSs = {}
  /\ OwnerOf \in [COSs -> CODs]
  /\ StuckOrphans \subseteq COSs
\* A List returns finitely many objects.
ASSUME FiniteAssumption == IsFiniteSet(CODs \cup COSs)
ASSUME BoundsAssumption ==
  MaxFaults \in Nat /\ MaxEnvWrites \in Nat /\ DeployRecovers \in BOOLEAN

Objs == {Pkg} \cup CODs \cup COSs
ObjStates == {"absent", "live", "deleting"}
Records == [st : ObjStates, fin : BOOLEAN, ver : Nat]
Copies == [fin : BOOLEAN, ver : Nat]
DeployStates == {"absent", "unavailable", "progressing", "available"}
Pcs == {"get", "check", "delete", "strip", "verify", "list", "repair",
        "update", "load", "crds", "create", "spawn", "run", "done",
        "failed", "panicked"}
Errors == {"none", "transport", "DeleteNotFound", "StripNotFound",
           "Conflict", "NotGone", "PatchNotFound", "Panic"}

VARIABLES
  store,      \* store[o]: state, finalizers and resourceVersion of o
  avail,      \* the package's Available condition is True
  image,      \* spec.image of the package: "old" or "new"
  deploy,     \* the manager Deployment and its Available condition
  crds,       \* the CRDs of the bundle are installed
  pc,         \* where Bootstrap is
  branch,     \* "none", "update" (package found) or "self" (self-bootstrap)
  mine,       \* packageOperatorPackage: the copy Bootstrap got
  stage,      \* the kind the cascade is at: 1 package, 2 CODs, 3 COSs
  todo,       \* the listed items of that kind not yet handled, in order
  held,       \* held[o]: the copy of o the cascade holds
  poll,       \* the cancelWhenPackageAvailable goroutine
  faults,     \* transient API errors so far
  envWrites,  \* writes of other actors to the package so far
  nuked,      \* this run has completed the forced cleanup cascade
  lastErr     \* the error the last failed run returned

storeVars == <<store, avail, image, deploy, crds>>
procVars == <<pc, branch, mine, stage, todo, held, poll, nuked, lastErr>>
vars == <<store, avail, image, deploy, crds, pc, branch, mine, stage, todo,
          held, poll, nuked, faults, envWrites, lastErr>>

Kind(i) == CASE i = 1 -> {Pkg} [] i = 2 -> CODs [] OTHER -> COSs

\* The copy a successful Get, List or Update leaves in memory.
CopyOf(o) == [fin |-> store[o].fin, ver |-> store[o].ver]

\* The owner of o is gone: its dependents are garbage.
Orphaned(o) ==
  \/ o \in CODs /\ store[Pkg].st = "absent"
  \/ o \in COSs /\ store[OwnerOf[o]].st = "absent"

(***************************************************************************)
(* An installation left behind by a previous package-operator: the        *)
(* package, its generated objects (any of them with finalizers, some       *)
(* possibly already being deleted by the garbage collector), and a        *)
(* Deployment in any state.                                                *)
(***************************************************************************)
Init ==
  /\ store \in {s \in [Objs -> [st : {"live", "deleting"}, fin : BOOLEAN,
                                ver : {1}]] :
                  /\ s[Pkg].st = "live"
                  /\ \A o \in Objs : s[o].st = "deleting" => s[o].fin}
  /\ avail \in BOOLEAN
  /\ image = "old"
  /\ deploy \in DeployStates
  /\ avail => deploy = "available"
  /\ crds \in BOOLEAN
  /\ pc = "get"
  /\ branch = "none"
  /\ mine = [fin |-> FALSE, ver |-> 0]
  /\ stage = 1
  /\ todo = <<>>
  /\ held = [o \in {} |-> mine]
  /\ poll = "idle"
  /\ nuked = FALSE
  /\ faults = 0
  /\ envWrites = 0
  /\ lastErr = "none"

\* A step of Bootstrap that returns err: the process exits and the Job
\* will restart it.
Fail(err) ==
  /\ pc' = "failed"
  /\ lastErr' = err

-----------------------------------------------------------------------------
(***************************************************************************)
(* Bootstrap: the Get of the package picks the branch.                     *)
(***************************************************************************)

\* Mutant: the Get is served from a cache that has not seen the later
\* writes to the package.
GetInstalledFromStaleCache ==
  /\ pc = "get"
  /\ store[Pkg].st # "absent"
  /\ mine' = [fin |-> store[Pkg].fin, ver |-> 1]
  /\ branch' = "update"
  /\ pc' = "check"
  /\ UNCHANGED <<storeVars, stage, todo, held, poll, nuked, faults,
                 envWrites, lastErr>>

\* The package exists (possibly being deleted): update via the in-cluster
\* package-operator, cleaning up first if the manager is unhealthy.
GetInstalled ==
  /\ pc = "get"
  /\ store[Pkg].st # "absent"
  /\ mine' = CopyOf(Pkg)
  /\ branch' = "update"
  /\ pc' = "check"
  /\ UNCHANGED <<storeVars, stage, todo, held, poll, nuked, faults,
                 envWrites, lastErr>>

\* Mutant: any error of the Get, not only NotFound, leads to self-bootstrap.
GetNotInstalledOnAnyError ==
  /\ pc = "get"
  /\ \/ store[Pkg].st = "absent" /\ UNCHANGED faults
     \/ faults < MaxFaults /\ faults' = faults + 1
  /\ branch' = "self"
  /\ pc' = "load"
  /\ UNCHANGED <<storeVars, mine, stage, todo, held, poll, nuked, envWrites,
                 lastErr>>

\* NotFound: self-bootstrap.
GetNotInstalled ==
  /\ pc = "get"
  /\ store[Pkg].st = "absent"
  /\ branch' = "self"
  /\ pc' = "load"
  /\ UNCHANGED <<storeVars, mine, stage, todo, held, poll, nuked, faults,
                 envWrites, lastErr>>

\* needsForcedCleanup: the Deployment is missing or reports Available=False.
\* nukeIfNeeded then starts the cascade at the package, as a list of one.
NeedsForcedCleanup == deploy \in {"absent", "unavailable"}

StartCleanup ==
  /\ pc = "check"
  /\ NeedsForcedCleanup
  /\ pc' = "delete"
  /\ stage' = 1
  /\ todo' = <<Pkg>>
  /\ held' = [o \in {Pkg} |-> mine]
  /\ UNCHANGED <<storeVars, branch, mine, poll, nuked, faults, envWrites,
                 lastErr>>

SkipCleanup ==
  /\ pc = "check"
  /\ ~NeedsForcedCleanup
  /\ pc' = "repair"
  /\ UNCHANGED <<storeVars, branch, mine, stage, todo, held, poll, nuked,
                 faults, envWrites, lastErr>>

-----------------------------------------------------------------------------
(***************************************************************************)
(* forcedCleanup: for the package, then for each listed ClusterObject-     *)
(* Deployment, then for each listed ClusterObjectSet: Delete, clear the    *)
(* finalizers with an Update if the copy in memory has any, Get to check   *)
(* that the object is gone.  Any error aborts the cascade and Bootstrap.   *)
(***************************************************************************)
Item == Head(todo)

\* What Delete does to an object: one with finalizers is marked deleting
\* (a write, so a new resourceVersion); one being deleted is left as is.
Deleted(r) ==
  CASE r.st = "live" /\ r.fin -> [r EXCEPT !.st = "deleting", !.ver = @ + 1]
    [] r.st = "live" /\ ~r.fin -> [r EXCEPT !.st = "absent"]
    [] OTHER                  -> r

\* Mutant: the loop over the kinds runs one step too far.
NextKindOffByOne ==
  \/ /\ stage <= 3
     /\ pc' = "list"
     /\ stage' = stage + 1
     /\ UNCHANGED nuked
  \/ /\ stage = 3
     /\ pc' = "repair"
     /\ nuked' = TRUE
     /\ UNCHANGED stage

\* Done with a kind: on to the List of the next kind, or out of the cascade.
NextKind ==
  \/ /\ stage < 3
     /\ pc' = "list"
     /\ stage' = stage + 1
     /\ UNCHANGED nuked
  \/ /\ stage = 3
     /\ pc' = "repair"
     /\ nuked' = TRUE
     /\ UNCHANGED stage

\* Done with the current item: on to the next one, or to the next kind.
Advance ==
  \/ /\ Tail(todo) # <<>>
     /\ pc' = "delete"
     /\ UNCHANGED <<stage, nuked>>
  \/ /\ Tail(todo) = <<>>
     /\ NextKind

CascadeDelete ==
  /\ pc = "delete"
  /\ \/ /\ store[Item].st = "absent"
        /\ Fail("DeleteNotFound")
        /\ UNCHANGED store
     \/ /\ store[Item].st # "absent"
        /\ store' = [store EXCEPT ![Item] = Deleted(@)]
        /\ pc' = IF held[Item].fin THEN "strip" ELSE "verify"
        /\ UNCHANGED lastErr
  /\ UNCHANGED <<avail, image, deploy, crds, branch, mine, stage, todo, held,
                 poll, nuked, faults, envWrites>>

\* Update with Finalizers = []: the resourceVersion of the copy in memory is
\* the precondition.  The response is decoded into the copy.
CascadeStrip ==
  /\ pc = "strip"
  /\ \/ /\ store[Item].st = "absent"
        /\ Fail("StripNotFound")
        /\ UNCHANGED <<store, held, mine>>
     \/ /\ store[Item].st # "absent"
        /\ store[Item].ver # held[Item].ver
        /\ Fail("Conflict")
        /\ UNCHANGED <<store, held, mine>>
     \/ /\ store[Item].st # "absent"
        /\ store[Item].ver = held[Item].ver
        /\ LET r == [st |-> IF store[Item].st = "deleting" THEN "absent"
                                                          ELSE "live",
                     fin |-> FALSE, ver |-> store[Item].ver + 1]
           IN  /\ store' = [store EXCEPT ![Item] = r]
               /\ held' = [held EXCEPT ![Item] = [fin |-> FALSE,
                                                   ver |-> r.ver]]
               /\ mine' = IF Item = Pkg THEN held'[Pkg] ELSE mine
        /\ pc' = "verify"
        /\ UNCHANGED lastErr
  /\ UNCHANGED <<avail, image, deploy, crds, branch, stage, todo, poll, nuked,
                 faults, envWrites>>

\* Get must answer NotFound.
CascadeVerify ==
  /\ pc = "verify"
  /\ \/ /\ store[Item].st = "absent"
        /\ todo' = Tail(todo)
        /\ Advance
        /\ UNCHANGED lastErr
     \/ /\ store[Item].st # "absent"
        /\ Fail("NotGone")
        /\ UNCHANGED <<todo, stage, nuked>>
  /\ UNCHANGED <<storeVars, branch, mine, held, poll, faults, envWrites>>

\* Mutant: the List selects only the objects not yet being deleted.
ListOwnedLiveOnly ==
  /\ pc = "list"
  /\ LET listed == {o \in Kind(stage) : store[o].st = "live"}
     IN  /\ \E s \in SetToSeqs(listed) : todo' = s
         /\ held' = [o \in listed |-> CopyOf(o)]
         /\ \/ listed # {} /\ pc' = "delete" /\ UNCHANGED <<stage, nuked>>
            \/ listed = {} /\ NextKind
  /\ UNCHANGED <<storeVars, branch, mine, poll, faults, envWrites, lastErr>>

\* List of the kind by the instance and package labels, in the store's
\* order; every listed object is then handled in turn.
ListOwned ==
  /\ pc = "list"
  /\ LET listed == {o \in Kind(stage) : store[o].st # "absent"}
     IN  /\ \E s \in SetToSeqs(listed) : todo' = s
         /\ held' = [o \in listed |-> CopyOf(o)]
         /\ \/ listed # {} /\ pc' = "delete" /\ UNCHANGED <<stage, nuked>>
            \/ listed = {} /\ NextKind
  /\ UNCHANGED <<storeVars, branch, mine, poll, faults, envWrites, lastErr>>

-----------------------------------------------------------------------------
(***************************************************************************)
(* The rest of the update branch.                                          *)
(***************************************************************************)

\* fixMissingRevisionNumbers lists every ClusterObjectSet still in the
\* store, deleting ones included.  A listed set stuck at revision 0 whose
\* previous set is gone makes highestRevisionNumber read a nil map entry:
\* the process panics, on every run (RevisionRepair models the loop).
RepairPanics == \E s \in StuckOrphans : store[s].st # "absent"

\* The repair succeeds, panics, or fails with a transient error (ApiFails).
Repair ==
  /\ pc = "repair"
  /\ \/ /\ ~RepairPanics
        /\ pc' = "update"
        /\ UNCHANGED lastErr
     \/ /\ RepairPanics
        /\ pc' = "panicked"
        /\ lastErr' = "Panic"
  /\ UNCHANGED <<storeVars, branch, mine, stage, todo, held, poll, nuked,
                 faults, envWrites>>

\* updatePKOPackage: Patch(client.Merge) of the copy Bootstrap got, with the
\* new image and config; its resourceVersion is the precondition.
UpdatePackage ==
  /\ pc = "update"
  /\ \/ /\ store[Pkg].st = "absent"
        /\ Fail("PatchNotFound")
        /\ UNCHANGED <<store, image>>
     \/ /\ store[Pkg].st # "absent"
        /\ store[Pkg].ver # mine.ver
        /\ Fail("Conflict")
        /\ UNCHANGED <<store, image>>
     \/ /\ store[Pkg].st # "absent"
        /\ store[Pkg].ver = mine.ver
        /\ store' = [store EXCEPT ![Pkg].ver = @ + 1]
        /\ image' = "new"
        /\ pc' = "done"
        /\ UNCHANGED lastErr
  /\ UNCHANGED <<avail, deploy, crds, branch, mine, stage, todo, held, poll,
                 nuked, faults, envWrites>>

-----------------------------------------------------------------------------
(***************************************************************************)
(* selfBootstrap.                                                          *)
(***************************************************************************)

\* loadFiles("/package") and loader.FromFiles; crdsFromTemplateSpec.
LoadBundle ==
  /\ pc = "load"
  /\ pc' = "crds"
  /\ UNCHANGED <<storeVars, branch, mine, stage, todo, held, poll, nuked,
                 faults, envWrites, lastErr>>

\* ensureCRDs: Create each CRD, AlreadyExists tolerated.
EnsureCRDs ==
  /\ pc = "crds"
  /\ crds' = TRUE
  /\ pc' = "create"
  /\ UNCHANGED <<store, avail, image, deploy, branch, mine, stage, todo, held,
                 poll, nuked, faults, envWrites, lastErr>>

\* createPKOPackage: Create with the new image, AlreadyExists tolerated.
CreatePackage ==
  /\ pc = "create"
  /\ \/ /\ store[Pkg].st = "absent"
        /\ store' = [store EXCEPT ![Pkg] = [st |-> "live", fin |-> FALSE,
                                            ver |-> @.ver + 1]]
        /\ image' = "new"
        /\ avail' = FALSE
     \/ /\ store[Pkg].st # "absent"
        /\ UNCHANGED <<store, image, avail>>
  /\ pc' = "spawn"
  /\ UNCHANGED <<deploy, crds, branch, mine, stage, todo, held, poll, nuked,
                 faults, envWrites, lastErr>>

\* WithCancel, go cancelWhenPackageAvailable, Setenv PKO_FORCE_ADOPTION,
\* then runManager(ctx) blocks until ctx is cancelled.
SpawnPoller ==
  /\ pc = "spawn"
  /\ poll' = "polling"
  /\ pc' = "run"
  /\ UNCHANGED <<storeVars, branch, mine, stage, todo, held, nuked, faults,
                 envWrites, lastErr>>

\* isPackageAvailable answers true: the poll ends and cancel() is called.
PollSeesAvailable ==
  /\ pc = "run"
  /\ poll = "polling"
  /\ store[Pkg].st # "absent"
  /\ avail
  /\ poll' = "cancelled"
  /\ UNCHANGED <<storeVars, pc, branch, mine, stage, todo, held, nuked,
                 faults, envWrites, lastErr>>

\* isPackageAvailable returns an error: the poll ends with it and the
\* goroutine panics, taking the process down with the manager.
PollFails ==
  /\ pc = "run"
  /\ poll = "polling"
  /\ faults < MaxFaults
  /\ faults' = faults + 1
  /\ pc' = "panicked"
  /\ lastErr' = "Panic"
  /\ UNCHANGED <<storeVars, branch, mine, stage, todo, held, poll, nuked,
                 envWrites>>

\* runManager returns nil once ctx is cancelled, and so does Bootstrap.
ManagerReturns ==
  /\ pc = "run"
  /\ poll = "cancelled"
  /\ pc' = "done"
  /\ UNCHANGED <<storeVars, branch, mine, stage, todo, held, poll, nuked,
                 faults, envWrites, lastErr>>

\* Any API call of Bootstrap, or runManager, returns a transient error.
ApiSteps == {"get", "check", "delete", "strip", "verify", "list", "repair",
             "update", "load", "crds", "create", "run"}

ApiFails ==
  /\ pc \in ApiSteps
  /\ faults < MaxFaults
  /\ faults' = faults + 1
  /\ Fail("transport")
  /\ UNCHANGED <<storeVars, branch, mine, stage, todo, held, poll, nuked,
                 envWrites>>

-----------------------------------------------------------------------------
(***************************************************************************)
(* The environment.                                                        *)
(***************************************************************************)

\* The Job starts a new process after an error or a panic.
Restart ==
  /\ pc \in {"failed", "panicked"}
  /\ pc' = "get"
  /\ branch' = "none"
  /\ mine' = [fin |-> FALSE, ver |-> 0]
  /\ stage' = 1
  /\ todo' = <<>>
  /\ held' = [o \in {} |-> mine']
  /\ poll' = "idle"
  /\ nuked' = FALSE
  /\ UNCHANGED <<storeVars, faults, envWrites, lastErr>>

\* The manager this process runs installs the package: its controllers add
\* their finalizer, roll out the Deployment and report Available.
ManagerInstalls ==
  /\ pc = "run"
  /\ crds
  /\ store[Pkg].st = "live"
  /\ ~avail
  /\ store' = [store EXCEPT ![Pkg].fin = TRUE, ![Pkg].ver = @ + 1]
  /\ avail' = TRUE
  /\ deploy' = "available"
  /\ UNCHANGED <<image, crds, procVars, faults, envWrites>>

\* The garbage collector deletes an object whose owner is gone.
GarbageCollect(o) ==
  /\ Orphaned(o)
  /\ store[o].st = "live"
  /\ store' = [store EXCEPT ![o] = Deleted(@)]
  /\ UNCHANGED <<avail, image, deploy, crds, procVars, faults, envWrites>>

\* Some package-operator pod still runs: the Deployment exists (even when
\* it reports Available=False) or this process runs the manager.
OperatorRuns == deploy # "absent" \/ pc = "run"

\* A running package-operator finishes the teardown of a deleting object
\* and removes its finalizers.
FinalizeByOperator(o) ==
  /\ OperatorRuns
  /\ store[o].st = "deleting"
  /\ store' = [store EXCEPT ![o] = [st |-> "absent", fin |-> FALSE,
                                    ver |-> @.ver + 1]]
  /\ UNCHANGED <<avail, image, deploy, crds, procVars, faults, envWrites>>

\* The in-cluster package controller reconciles the package: it ensures its
\* finalizer and writes the status.
StatusWrite ==
  /\ OperatorRuns
  /\ store[Pkg].st = "live"
  /\ envWrites < MaxEnvWrites
  /\ envWrites' = envWrites + 1
  /\ store' = [store EXCEPT ![Pkg].fin = TRUE, ![Pkg].ver = @ + 1]
  /\ UNCHANGED <<avail, image, deploy, crds, procVars, faults>>

\* A second bootstrap run, racing this one past the same Get, creates the
\* package first.
RacingCreate ==
  /\ pc \in {"crds", "create"}
  /\ store[Pkg].st = "absent"
  /\ envWrites < MaxEnvWrites
  /\ envWrites' = envWrites + 1
  /\ store' = [store EXCEPT ![Pkg] = [st |-> "live", fin |-> FALSE,
                                      ver |-> @.ver + 1]]
  /\ image' = "new"
  /\ avail' = FALSE
  /\ UNCHANGED <<deploy, crds, procVars, faults>>

\* A rollout of the in-cluster Deployment completes (a restarted pod
\* becomes ready): the Deployment reports Available again.
DeploymentRecovers ==
  /\ DeployRecovers
  /\ deploy \in {"unavailable", "progressing"}
  /\ envWrites < MaxEnvWrites
  /\ envWrites' = envWrites + 1
  /\ deploy' = "available"
  /\ UNCHANGED <<store, avail, image, crds, procVars, faults>>

BootstrapStep ==
  \/ GetInstalled \/ GetNotInstalled \/ StartCleanup \/ SkipCleanup
  \/ CascadeDelete \/ CascadeStrip \/ CascadeVerify \/ ListOwned
  \/ Repair \/ UpdatePackage
  \/ LoadBundle \/ EnsureCRDs \/ CreatePackage \/ SpawnPoller
  \/ ManagerReturns

Next ==
  \/ BootstrapStep \/ PollSeesAvailable \/ PollFails \/ ApiFails
  \/ Restart \/ ManagerInstalls \/ StatusWrite \/ RacingCreate
  \/ DeploymentRecovers
  \/ \E o \in CODs \cup COSs : GarbageCollect(o)
  \/ \E o \in Objs : FinalizeByOperator(o)

\* The process runs, the poller polls every 2 seconds, the manager's
\* controllers run while it does, and the Job restarts a failed process.
\* Faults, the garbage collector and the in-cluster controller need not act.
Fairness ==
  /\ WF_vars(BootstrapStep)
  /\ WF_vars(PollSeesAvailable)
  /\ WF_vars(ManagerInstalls)
  /\ WF_vars(Restart)

Spec == Init /\ [][Next]_vars /\ Fairness

-----------------------------------------------------------------------------
(***************************************************************************)
(* Properties.                                                             *)
(***************************************************************************)

TypeOK ==
  /\ store \in [Objs -> Records]
  /\ avail \in BOOLEAN
  /\ image \in {"old", "new"}
  /\ deploy \in DeployStates
  /\ crds \in BOOLEAN
  /\ pc \in Pcs
  /\ branch \in {"none", "update", "self"}
  /\ mine \in Copies
  /\ stage \in 1..3
  /\ todo \in Seq(Objs)
  /\ DOMAIN held \subseteq Objs /\ \A o \in DOMAIN held : held[o] \in Copies
  /\ poll \in {"idle", "polling", "cancelled"}
  /\ nuked \in BOOLEAN
  /\ faults \in 0..MaxFaults
  /\ envWrites \in 0..MaxEnvWrites
  /\ lastErr \in Errors

\* Once forcedCleanup has returned nil, the package and every
\* ClusterObjectDeployment and ClusterObjectSet generated for it are gone
\* from the store, including those already being deleted when it started.
NukeLeavesNothing == nuked => \A o \in Objs : store[o].st = "absent"

\* A self-bootstrap returns nil only once the package, created by this run
\* or by a racing one, is live at the new image and reports Available: the
\* poller cancels the manager only on an Available package, and nothing
\* deletes the package or clears the condition afterwards.
SelfBootstrapInstalled ==
  pc = "done" /\ branch = "self" =>
    store[Pkg].st = "live" /\ image = "new" /\ avail

\* The spec (4.4) says Bootstrap returns nil only with the package in the
\* store at the new image, and, on the self-bootstrap path, reporting
\* Available.
DoneMeansInstalled ==
  pc = "done" =>
    /\ store[Pkg].st # "absent"
    /\ image = "new"
    /\ branch = "self" => avail

\* The Job, restarted as often as it fails, eventually completes, unless a
\* stuck ClusterObjectSet whose previous set is gone stays in the store:
\* then every run that reaches fixMissingRevisionNumbers panics.
BootstrapEventuallySucceeds == <>(pc = "done") \/ <>[]RepairPanics

\* The spec (4.4) says a run that needed the forced cleanup proceeds to
\* self-install once the cascade is done.
CleanupProceedsToSelfInstall == nuked => pc # "failed"

\* The spec (8) says the cascade deletes the package and strips its
\* finalizers; with no other writer, no request of it should conflict.
NoConflictWithoutConcurrentWriters == lastErr # "Conflict"

\* The spec (4.3) says deleting an already-deleted object is a no-op, so the
\* cascade does not abort on an object that is already gone.
CascadeToleratesGoneObjects == lastErr \notin {"DeleteNotFound", "StripNotFound"}

=============================================================================
