# TLA+ models of package-operator's self-bootstrap

This directory holds TLA+ models, TLC configurations and TLAPS proofs for the
code under `src/`:

- `src/cmd/package-operator-manager/bootstrap.go`: the bootstrapper that
  installs package-operator into the cluster it manages.
- `src/internal/controllers/packages/package_controller.go`: the generic
  Package reconciler (lines 1-170) and, from line 172 on, the newer
  `Bootstrapper` of the bootstrap package.

Here "the spec" means `spec.md` at the repository root.

## The system and how its parts interact

| Part (spec section) | Code | Module | Status |
|---|---|---|---|
| Revision Graph Repair (4.2) | `fixMissingRevisionNumbers`, `highestRevisionNumber` (bootstrap.go 111-153) | `RevisionRepair`, proofs in `RevisionRepairProofs` | modelled |
| Forced Cleanup Cascade (4.3) | `nukeIfNeeded`, `needsForcedCleanup`, `forcedCleanup` (bootstrap.go 284-398) | `Bootstrap` | modelled |
| Bootstrap State Machine (4.4) | `Bootstrap`, `updatePKOPackage`, `selfBootstrap`, `cancelWhenPackageAvailable`, `isPackageAvailable`, `createPKOPackage`, `ensureCRDs` (bootstrap.go 81-282) | `Bootstrap` | modelled |
| Bootstrap State Machine (4.4), newer bootstrapper | `Bootstrapper.Bootstrap`, `needsBootstrap`, `bootstrap`, `cancelWhenPackageAvailable`, `isPackageAvailable` (package_controller.go 228-324) | `Bootstrapper`, refining `AbstractBootstrap`; proofs in `BootstrapperProofs` | modelled |
| Generic Package Reconciliation Engine (4.1) | `Reconcile`, `updateStatus`, `handleDeletion`, the reconciler chain (package_controller.go 87-170) | `PackageController`; proofs in `PackageControllerProofs` | partly: the sub-reconcilers' internals are one step each |
| Cluster State Adapter (2, 6) | client-go and the API server | inside every module | partly, as an environment |

The bootstrapper runs as a Kubernetes Job. `Bootstrap` first Gets the
well-known ClusterPackage `package-operator`. What happens next depends on
the answer:

- **The package is there.** Bootstrap takes the update branch:
  1. `nukeIfNeeded` checks whether the manager Deployment is missing or
     reports Available=False. If so, `forcedCleanup` deletes the package,
     then every ClusterObjectDeployment, then every ClusterObjectSet. For
     each object it clears the finalizers and checks that the object is
     gone.
  2. `fixMissingRevisionNumbers` repairs ClusterObjectSets that a crash left
     at revision 0.
  3. `updatePKOPackage` patches the package with the new image.
- **The Get answers NotFound.** Bootstrap takes the self branch:
  1. It creates the CRDs and the package.
  2. It starts a goroutine that polls the package's Available condition
     every 2 seconds.
  3. It runs the manager in the foreground until that poller cancels its
     context.

Any error ends the process, and the Job restarts it from the beginning.

The interactions that matter are all through the API server:

- the in-cluster package-operator, while it still runs, writes the package
  and finishes the teardown of deleting objects;
- the garbage collector deletes ClusterObjectDeployments and
  ClusterObjectSets whose owner is gone;
- the manager this process starts installs the package and reports it
  Available;
- a racing bootstrap run may create the package first.

The newer `Bootstrapper` (package_controller.go 198-324) does less. Its `init`
installs the CRDs and creates or updates the package. `needsBootstrap` Gets
the operator's Deployment: if it is there and reports Available=True,
Bootstrap returns nil and leaves the work to it. Otherwise `bootstrap` starts
the same poller goroutine and runs the manager until the poller cancels it.

The `GenericPackageController` is the reconciler that the manager runs, with
`MaxConcurrentReconciles: 5`, over a work queue fed by the watches of the
packages and of the ObjectDeployments they own. A `Reconcile` Gets the
package. NotFound ends it with nil. A package in deletion goes to
`handleDeletion`: remove the legacy loader-job finalizer, then `Update`.
Any other package goes through the chain of sub-reconcilers (unpack, then
the ObjectDeployment status), which stops at the first error or non-empty
result; the status is then written with `Status().Update`. Every write
carries the resourceVersion of the worker's in-memory copy.

## Modules

### `RevisionRepair`: fixMissingRevisionNumbers

**State:**
- The store holds the ClusterObjectSets `1..N`, named in creation order:
  - `present` is the sets that exist;
  - `prev` is their `spec.previous`;
  - `cos` holds, per set, its revision, phase, a condition counter and its
    resourceVersion.
- The repair's own state:
  - `rpc`: list, loop, done, failed or panicked;
  - `snap`: the List result, in list order;
  - `mem`: `cosByName`, the in-memory copies;
  - `idx`: the loop index.

**Init** is the set of states the rollout logic can leave behind:
- assigned revisions grow with creation order;
- every set but the first has an earlier previous set;
- the sets in `Crashes` are Pending at revision 0;
- the sets in `Collected` are gone (revision history limit);
- unless `Stacked` is TRUE, no set builds on a crashed one.

**Actions**, one per outcome of each statement:

| Action | What it models |
|---|---|
| `List` / `ListFails` | client.List, in some order; a failed List returns the error |
| `SkipItem` | an item that does not look stuck |
| `PatchRevision` | `Status().Patch(cos, client.Merge)` accepted; the patch carries the listed resourceVersion |
| `PatchFails` | the patch refused with Conflict, or a transient error |
| `PanicOnMissingPrevious` | `cosByName[prev.Name]` is nil and reading it panics |
| `Finish` | the loop ends and nil is returned |

`HighestRevisionNumber` is the maximum, written as a CHOOSE.

**Environment:**
- `Rerun`: the Job runs again.
- `ObjectSetStatusWrite`: the in-cluster ObjectSet controller writes
  conditions.

### `Bootstrap`: the old bootstrapper

**State:**
- The store:
  - `store` maps the package, the ClusterObjectDeployments `CODs` and the
    ClusterObjectSets `COSs` to `absent` / `live` / `deleting`, with a
    finalizer flag and a resourceVersion;
  - `avail` is the package's Available condition;
  - `image` is its spec.image;
  - `deploy` is the manager Deployment's state;
  - `crds` records whether the CRDs are installed.
- The process:
  - `pc`, the step it is at;
  - `branch`;
  - `mine`, the package copy got at the start;
  - the cascade's `stage` (1 package, 2 CODs, 3 COSs), `todo` (the listed
    items not yet done) and `held` (the in-memory copies);
  - `poll`, the poller goroutine;
  - `nuked`, whether this run has completed the cascade;
  - `lastErr`, the error that ended the last attempt.

**Actions:** each function of bootstrap.go is one action per outcome:

| Code | Actions |
|---|---|
| the Get | `GetInstalled`, `GetNotInstalled` |
| the check | `StartCleanup`, `SkipCleanup` |
| `forcedCleanup`'s Delete / Update / Get | `CascadeDelete`, `CascadeStrip`, `CascadeVerify` |
| its List | `ListOwned` |
| the repair | `Repair`: it succeeds, or panics (`RepairPanics`) while a stuck set of `StuckOrphans`, whose previous set was collected, is still in the store (modelled in detail by `RevisionRepair`) |
| the rest of the update branch | `UpdatePackage` |
| the self branch | `LoadBundle`, `EnsureCRDs`, `CreatePackage`, `SpawnPoller`, `PollSeesAvailable`, `PollFails`, `ManagerReturns` |
| any other API error | `ApiFails` |

**Environment:**
- `Restart` (the Job);
- `ManagerInstalls` (the manager this process runs);
- `GarbageCollect`;
- `FinalizeByOperator` and `StatusWrite` (a package-operator pod that still
  runs);
- `RacingCreate`.

**Client semantics modelled:**
- Delete of an object with finalizers marks it deleting. That is a write, so
  it changes the object's resourceVersion.
- controller-runtime's Delete does not refresh the object in memory.
- Update and merge Patch send the object's resourceVersion as a
  precondition.

**Deployment recovery.** With the constant `DeployRecovers` TRUE, the
environment action `DeploymentRecovers` lets an unavailable or progressing
Deployment become Available at any time, including between
`needsForcedCleanup`'s read and the cascade's Delete. The initial states
include a missing Deployment, which takes the `IsNotFound` branch of
`needsForcedCleanup`.

**The repair's panic.** The constant `StuckOrphans` names the
ClusterObjectSets that are stuck at revision 0 and whose previous set the
revision history limit has collected. `highestRevisionNumber` dereferences
the missing map entry and panics (bootstrap.go 147-148), on every run of
the Job, for as long as such a set is in the store. Only the cascade or the
garbage collector removes it.

### `AbstractBootstrap`: what the self-bootstrap promises

This is the state machine of spec 4.4, written from the spec:

    Uninitialized -> Checking -> AlreadyAvailable
                             \-> SelfInstalling -> Polling -> Converged

`Failed` is reachable from every unfinished state, and `Restart` leads back
to `Uninitialized`. Three rules hold:
- `HandOff` needs the Deployment Available;
- `SelfInstall` needs it not Available;
- `Converge` needs the package Available.

`Cluster` lets the Deployment, the package or both become Available. The
module is not in the map: it models the spec, not code.

### `Bootstrapper`: the newer bootstrapper (package_controller.go 228-324)

**State:**
- the cluster: `deploy`, `pkgPresent` and `pkgAvail`;
- the process: `pc` (init, check, spawn, run, done, failed, panicked);
- `branch`, the answer of `needsBootstrap`;
- `poll`, the poller goroutine (idle, polling, cancelled);
- `faults`.

**Actions:**

| Code | Action |
|---|---|
| `b.init` | `Initialize` |
| `needsBootstrap` false / true | `SkipBootstrap` / `StartBootstrap` |
| `bootstrap`: WithCancel, `go cancelWhenPackageAvailable`, Setenv | `SpawnPoller` |
| the poller sees Available and cancels | `PollSeesAvailable` |
| its Get fails and it panics | `PollFails` |
| `runManager` returns nil after cancel | `ManagerReturns` |
| any error of init, the Get, Setenv or runManager | `StepFails` |

**Environment:**
- `Restart` (the Job);
- `ManagerInstalls` (the manager this process runs);
- `DeploymentRollsOut`;
- `InClusterReportsAvailable`.

**Refinement.** `phaseBar` maps `pc`, and `branch` for a finished run, to
the abstract phase. `AB == INSTANCE AbstractBootstrap WITH phase <- phaseBar,
deployAvail <- (deploy = "available")`, and the property
`ImplementsAbstractBootstrap == AB!ASpec` is checked by TLC and proved by
TLAPS.

### `PackageController`: Reconcile under controller-runtime

**State:**
- the store:
  - `pkg` maps each key to a record of lifecycle (`absent` / `live` /
    `deleting`), finalizers (`loader`, `other`), resourceVersion and status
    (Unpacked, Available, phase);
  - `od` and `odAvail` describe the owned ObjectDeployment;
- the queue: `dirty`;
- per worker:
  - `wk`, its key;
  - `wpc`, its step;
  - `copy`, the package it read;
  - `requeue` and `lastErr`, what its Reconcile returns.

**Actions:**

| Code | Action |
|---|---|
| `processNextWorkItem` | `Dequeue`, which never takes a key another worker holds |
| `Done`, with `AddRateLimited` or `AddAfter` | `Finish` |
| the Get | `GetPackage` |
| `RemoveFinalizer` in `handleDeletion` | `RemoveLoaderFinalizer` |
| `handleDeletion`'s Update | `UpdateAfterDeletion` |
| the two sub-reconcilers | `Unpack`, `ObjectDeploymentStatus` |
| `updateStatus` | `UpdateStatus` |
| any transient error | `RequestFails` |

`UpdatePhase` is `pkg.UpdatePhase()`, and `Return` is what a return
statement of `Reconcile` does to the queue.
The chain stops at the first error or non-empty result, and whenever it
ends without an error `Reconcile` goes on to `updateStatus`: the unpack
reconciler asking to be requeued leads to a status write, and the requeue
is returned with its result.

**Environment:**
- `UserDeletes`;
- `OtherFinalizerRemoved`;
- `ObjectDeploymentChanges`;
- `CollectObjectDeployment` (the garbage collector).

Every write to a package or its ObjectDeployment marks the key dirty, as the
`For` and `Owns` watches do.

The MC modules (`MCRevisionRepair`, `MCBootstrap`, `MCBootstrapper`,
`MCPackageController`) give the constants for TLC.

## Runs

| Run | Expect | What it shows |
|---|---|---|
| `repair` | pass | With no stacked crashes, the repair (any list order, one transient fault, one concurrent status write) keeps revisions increasing along `spec.previous` (`RevisionsIncrease`), leaves no set stuck once done (`RepairLeavesNoneStuck`), never rolls back conditions written since its List (`ConditionsNeverRolledBack`, an action property), and completes when the history of crashed sets is kept (`RepairCompletesWhenHistoryKept`) |
| `repair_stacked` | violation | a stuck set on top of a stuck set listed after it gets a revision no larger than its previous set's |
| `repair_collected` | violation | a stuck set whose previous set was collected makes every run of the Job panic: the repair never completes |
| `bootstrap` | pass | from every start state of one package, one COD and two COSs, with a Deployment that may become Available by itself at any time and one stuck COS whose previous set was collected: a completed cascade leaves nothing behind (`NukeLeavesNothing`), a nil return from the self-bootstrap means the package is live at the new image and Available (`SelfBootstrapInstalled`), and the restarted Job eventually succeeds, unless the repair keeps panicking because the stuck COS stays (`BootstrapEventuallySucceeds`) |
| `bootstrap_self_install` | violation | after the cascade, the update branch patches the deleted package and fails, instead of self-installing as the spec (4.4) says |
| `bootstrap_conflict` | violation | with no other writer, the cascade's finalizer Update conflicts with its own Delete |
| `bootstrap_gc_race` | violation | an object removed by the garbage collector or the operator after the List aborts the cascade with NotFound |
| `bootstrap_doomed_update` | violation | a package left in deletion by an earlier failed cascade is patched while the Deployment has recovered; Bootstrap returns nil and the in-cluster operator then removes the package: `DoneMeansInstalled`, the spec's (4.4) claim that a nil return leaves the package installed at the new image, fails on the update branch |
| `package_controller` | pass | two workers over one package, one fault, two foreign writes: a deleting package's status is never written (`DeletingStatusFrozen`), its deletion completes once foreign finalizers are gone (`DeletionCompletes`), and the status of a live package converges to the phase of its ObjectDeployment (`StatusConverges`) |
| `package_controller_deletion` | violation | `handleDeletion` removes the last finalizer, the package disappears, and the following Update returns NotFound as the result of Reconcile, where the spec (7) says NotFound is absorbed |
| `bootstrapper` | pass | the newer Bootstrapper implements `AbstractBootstrap` (`ImplementsAbstractBootstrap`) and, restarted by the Job, eventually returns nil (`BootstrapperReturns`) |

The violations are findings in `PROJECT.json`. Taken together, the
`bootstrap_*` ones show that the cascade, as written, succeeds only for
objects without finalizers. After it succeeds, the run still fails once, and
the Job's restart does the self-install. `BootstrapEventuallySucceeds` holds
because the Job restarts and the restarted process takes the self branch. It
does not hold because the cascade works as the spec describes. Its second
disjunct, `<>[]RepairPanics`, is the `repair_collected` finding seen from
Bootstrap: a run in which the stuck COS stays (the Deployment healthy, so
no cascade, and its owner kept, so no garbage collection) panics forever.
`bootstrap_doomed_update` shows a run that does succeed and still leaves no
package behind.

Each property of a passing run has a mutant in `PROJECT.json`: a plausible
bug in a mapped definition that TLC must catch. Each mutant is written as a
definition next to the one it replaces.

### Bounds

**`repair`:** four sets, revisions up to 3, one fault and one foreign write.
These bounds contain all of the following:
- an assigned set that others build on;
- two crashed siblings;
- a crashed set whose previous set was collected, and one whose previous
  set was kept;
- (in `Stacked`) a crashed set on a crashed set;
- every list order of them;
- a failed List and a failed Patch;
- a status write before and after the List.

**`bootstrap`:** one COD and two COSs, so that:
- a kind's list has two items and is processed in both orders;
- a COS is owned by the COD and can be collected after its owner goes.

Also in `bootstrap`:
- Every start state is enumerated: objects live or deleting, with or
  without finalizers; the Deployment absent, unavailable, progressing or
  available; CRDs installed or not.
- One transient fault exercises each error path once, including the
  poller's panic.
- One foreign write is used either by the package controller adding its
  finalizer or by a racing create.

The Deployment's recovery uses the foreign write, at any point of the
cascade. One of the two COSs is the stuck one whose previous set was
collected, so that the repair panics in some runs and not in others.

**`package_controller`:** one package and two workers, so that:
- a second worker is free while the first holds the key, and the queue
  must not hand the key to it;
- a worker can hold a copy of the package while a user deletes it.

Two foreign writes allow a deletion followed by the removal of the other
finalizer, or two availability changes. The start states enumerate live and
deleting packages (a deleting one with at least one finalizer), every set of
finalizers, and any status whose phase matches its conditions.

**`bootstrapper`:** two faults, so that a failure can happen both before and
after the poller starts, and every start state of the cluster.

The passing runs reach 121,932 (`repair`), 636,394 (`bootstrap`), 27,512 (`package_controller`) and 218
(`bootstrapper`) distinct states. Between them they fire every action and
every disjunct.

### Fairness

- `RevisionRepair`: `WF(RepairStep)` and `WF(Rerun)`.
  - The process runs its loop without blocking.
  - The Job restarts a failed pod.
  - Faults and status writes get no fairness.
- `Bootstrap` and `Bootstrapper`:
  - `WF` of the process's own steps;
  - `WF(PollSeesAvailable)`: the poller polls every 2 seconds until
    cancelled;
  - `WF(ManagerInstalls)`: the manager's controllers run while the manager
    does;
  - `WF(Restart)`: the Job's backoff restarts.
  - The garbage collector, the still-running operator, racing creators and
    Deployment rollouts get no fairness.
- `PackageController`:
  - `WF(WorkerStep(w))` for every worker: each is a goroutine of
    controller-runtime that loops on the queue;
  - `WF(CollectObjectDeployment(p))`: the garbage collector eventually
    removes the dependents of a removed owner.
  - Users, other controllers and faults get no fairness.
- The `repair` run checks for deadlock. The `Bootstrap`, `Bootstrapper`
  and `PackageController` cfgs set `CHECK_DEADLOCK FALSE`: the Job really
  stops once Bootstrap returns nil, and a controller with an empty queue
  really waits.

## What is proved (TLAPS)

Four modules hold proofs. Each theorem holds for every value of the
constants that satisfies the named assumptions of its module.

**`RevisionRepairProofs`** proves four theorems about `RevisionRepair`, for
every `N`, `MaxRev`, `Crashes`, `Collected` and bound, under
`NAssumption`, `MaxRevAssumption`, `CrashesAssumption` and
`BoundsAssumption`.

- **`TypeCorrect`: `Spec => []TypeOK`.**
  - `TypeOK` is not inductive on its own.
  - The inductive invariant `TypeInv` adds three facts:
    - every previous set is older (`PrevEarlier`);
    - revisions stay below `MaxRev + n` (`Bounded`); this is what makes
      `HighestRevisionNumber` a natural number;
    - in the loop, every snapshot item is in `cosByName` (`LoopWellFormed`).
  - The proof rests on the lemma `HighestIsUpperBound`. It states that the
    CHOOSE of `HighestRevisionNumber` picks a natural upper bound within
    any bound of its argument. Its proof is by well-founded minimum
    (`WFMin`).
- **`RevisionsIncreaseHolds`: `~Stacked => (Spec => []RevisionsIncrease)`.**
  - The inductive invariant `RevInv` strengthens `TypeInv` with:
    - no previous set is crashed (`NoCrashedPrev`);
    - assigned sets have non-zero revisions (`AssignedNonZero`);
    - revisions increase along every previous edge, not only between
      present sets (`IncreasingEverywhere`);
    - `cosByName` agrees with the store on assigned sets (`MemAgrees`).
  - The step case for `PatchRevision` uses `RepairedRevisionFacts`: the new
    revision exceeds the in-memory revision of every previous set, and by
    `MemAgrees` that equals the stored one.
  - The `~Stacked` hypothesis is needed: `repair_stacked` shows the property
    fails without it.
- **`NoneStuckAfterRepair`: `Spec => []RepairLeavesNoneStuck`.**
  - The inductive invariant `LoopInv` strengthens `TypeInv` with:
    - in the loop, the in-memory copy of a set has the stored revision and
      phase (`StoreAgrees`); no other writer touches the revision;
    - a set at revision 0 is Pending (`ZeroPending`);
    - a present set with previous sets at revision 0 is still ahead of the
      loop index in the listed snapshot (`StuckListed`); this needs the
      lemma `SnapshotCoversPresent`: List returns every set in the store;
    - a finished loop has visited the whole snapshot (`DoneVisitedAll`);
    - an in-memory copy is never newer than the store (`MemNotAhead`).
  - `StuckListed` is the heart of the argument: a patch that fails with
    Conflict ends the run with an error, so a run that returns nil has
    repaired every stuck set it listed, and it listed all of them.
- **`ConditionsKept`: `Spec => ConditionsNeverRolledBack`.**
  - From `LoopInv`: every step satisfies `CondStep` (no condition of any
    set decreases), lemma `CondStepHolds`.
  - The repair's status patch carries the listed resourceVersion. By
    `MemNotAhead`, a copy whose resourceVersion is current holds the current
    conditions, so a successful patch writes back what is stored.

**`BootstrapperProofs`** proves two theorems about `Bootstrapper`, for every
`MaxFaults` (`FaultsAssumption`).

- **`TypeCorrect`: `Spec => []TypeOK`.**
- **`Refinement`: `Spec => ImplementsAbstractBootstrap`.**
  - The invariant `Inv` adds to `TypeOK` three facts:
    - an Available package exists;
    - a poller that cancelled saw the package Available;
    - a process at spawn or run took the self branch.
  - The last two are what `Converge` and the abstract `SelfInstalling`
    state need.
  - `InitRefines` maps the initial states.
  - `NextRefines` shows that every step maps to an abstract step or a
    stutter, one case per action. For example, `PollSeesAvailable` is a
    stutter, and `ManagerInstalls` is one `Cluster` step that makes both the
    Deployment and the package Available.

**`BootstrapProofs`** proves three theorems about `Bootstrap`, for any
finite sets of ClusterObjectDeployments and ClusterObjectSets and any bounds
(`OwnedAssumption`, `FiniteAssumption`, `BoundsAssumption`).
`FiniteAssumption` is the only assumption added for the proofs: a List
returns finitely many objects, and the cascade's to-do list is a sequence
of them.

- **`TypeCorrect`: `Spec => []TypeOK`** and
  **`NukeComplete`: `Spec => []NukeLeavesNothing`.**
  - Both rest on one inductive invariant, `NukeInv`. It strengthens
    `TypeOK` with four facts about the cascade of `forcedCleanup`:
    - in the cascade, the to-do list is non-empty and each item has an
      in-memory copy (`TodoHeld`); without it `CascadeDelete` would act on
      an object it holds no copy of;
    - every object of a kind before the current stage is absent
      (`EarlierKindsGone`);
    - every object of the current kind is absent or still in the to-do list
      (`KindCovered`); when the list runs out, the kind is gone;
    - once the cascade has completed (`nuked`), every object is absent and
      the process is past the cascade (`NukedState`).
  - The environment can only make objects absent or keep them so: the
    garbage collector deletes, the in-cluster controller finalizes, and the
    manager and status writes touch only a live package. Lemma `CascadeKept`
    captures this once: a step that keeps absent objects absent and leaves
    the cascade's own state alone keeps the cascade conjuncts.
  - `ListOwned` re-lists the next kind; `ListedTodo` shows that the listed
    sequence covers every live object of it.
  - `NukeStep` has one case per action, each with its own lemma
    (`CascadeDeleteStep`, `CascadeStripStep`, `CascadeVerifyStep`,
    `ListOwnedStep`, `EnvSteps`, `PackageWrites`, ...).
- **`SelfInstallVerified`: `Spec => []SelfBootstrapInstalled`**, with no
  hypothesis on the Deployment: `DeployRecovers` and `StuckOrphans` may be
  anything.
  - The inductive invariant `ResultInv` is `NukeInv` and `DoneInv`. The six
    conjuncts of `DoneInv` say:
    - on the self path, the package is absent until it is created at the
      new image, and live at the new image afterwards (`SelfBeforeCreate`,
      `SelfPathInstalled`);
    - a cancelled poll saw the package Available, and only in the run or
      after it (`CancelledAvail`, `PollCancelledPc`);
    - each step belongs to one branch (`BranchPc`);
    - how Bootstrap returned nil (`DoneState`).
  - `SelfBeforeCreate` is needed because `createPKOPackage` tolerates
    AlreadyExists: a racing run's Create must also be at the new image.
    `CancelledAvail` is needed because the poll's result is read later,
    when the process returns.
  - Nothing on the self path can delete the package: only the cascade
    deletes it, on the update branch, and the garbage collector never
    touches it. So the Deployment's own recovery is irrelevant here.
  - The same claim for the update branch (`DoneMeansInstalled`) is false
    once the Deployment can recover by itself (`bootstrap_doomed_update`),
    and is not proved.
  - The step lemmas are grouped: `DoneStepsNoWrite`, `DoneStepsCascade`,
    `DoneUpdatePackage`, `DoneCreates`, `DoneEnv`, combined in
    `ResultStep`.
- For the provers, two definitions of `Bootstrap` are written in an
  equivalent form. `Deleted` is a CASE on the object's state. The manager's
  and the status writer's Patch is
  `[store EXCEPT ![Pkg].fin = TRUE, ![Pkg].ver = @ + 1]`. The state
  graph is the same as with the direct forms (636,394 distinct states on
  `Bootstrap.cfg`).

**`PackageControllerProofs`** proves two theorems about `PackageController`,
for every set of packages and of workers (`KeysAssumption`,
`BoundsAssumption`).

- **`TypeCorrect`: `Spec => []TypeOK`.**
- **`StatusFrozen`: `Spec => DeletingStatusFrozen`.**
  - The inductive invariant `Inv` adds to `TypeOK`:
    - a busy worker holds a key (`WorkersHaveKeys`);
    - a worker on the forward chain holds a live copy whose resourceVersion
      is at most the stored one, and equals it only while the stored
      package is live (`ChainCopiesLive`).
  - This is why the status write of a worker that read the package before
    its deletion is refused with Conflict: the deletion raised the
    resourceVersion.
  - Each action has its own lemma (`UnpackInv`, `UpdateStatusInv`, ...).
    The writes of the package share `PackageWriteKeepsChain`: a write that
    raises the resourceVersion keeps `ChainCopiesLive`.
  - `FrozenStepHolds` then shows that no step changes a deleting package's
    status.

**What stays with TLC:**
- liveness (every eventual-completion and convergence property);
- of `Bootstrap`, only `BootstrapEventuallySucceeds` (liveness); its
  safety invariants are proved for every value of the constants;
- the list order: the proofs use only that a listed sequence is an
  injective enumeration of the set (`SetToSeqs`), which is all the code
  relies on.

Both the liveness properties and `ENABLED` are beyond TLAPS's reach.

## Not modelled

- **The sub-reconcilers' internals** (image pull, the package deployer's
  template rendering, the ObjectDeployment's own controller). Each is one
  step: the unpack reconciler either applies the ObjectDeployment and sets
  Unpacked, or asks to be requeued.
- **The metrics hook** deferred in `Reconcile`. It writes nothing the
  properties read.
- **The initializer's internals** (`b.init`: CRD and package creation) in
  `Bootstrapper`. They are one step that makes the package exist; the old
  bootstrapper's `Bootstrap` module models the same calls in detail.
- **The content of the bundle** (file loading, `crdsFromTemplateSpec`) is
  one step: it only reads local files.
- **Logging, metrics and the environment's config string.** They change no
  state a property distinguishes.
- **Five workers.** The model checks two workers. The queue never hands a
  key to two workers, so more workers add interleavings only between
  different keys, and no property relates two keys.

## Plan for later sittings

1. Compose `Bootstrapper` with `PackageController`: the manager the
   Bootstrapper runs is the package controller, and `ManagerInstalls` would
   become its reconcile of the package-operator package.
2. Prove action-level facts of Bootstrap (the self path never writes the
   package after its Create) as action properties from `ResultInv`.
3. Check `package_controller` with two packages and more foreign writes.
