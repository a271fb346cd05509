---------------------------- MODULE Bootstrapper ----------------------------
(***************************************************************************)
(* The Bootstrapper of the bootstrap package (package_controller.go        *)
(* 198-324): init ensures the CRDs and the package, needsBootstrap looks   *)
(* at the operator's Deployment, and bootstrap starts the poller goroutine *)
(* and runs the manager until the poller sees the package Available and    *)
(* cancels the context.  Every error ends the process; the Job restarts    *)
(* it.  The module is shown to implement AbstractBootstrap.               *)
(***************************************************************************)
EXTENDS Naturals

CONSTANTS
  MaxFaults     \* bound on errors of the process's requests

ASSUME FaultsAssumption == MaxFaults \in Nat

DeployStates == {"absent", "unavailable", "progressing", "available"}
Pcs == {"init", "check", "spawn", "run", "done", "failed", "panicked"}

VARIABLES
  deploy,      \* the Deployment: missing, Available=False, no Available
               \* condition yet (rolling out), or Available=True
  pkgPresent,  \* does the ClusterPackage exist?
  pkgAvail,    \* does it report Available?
  pc,          \* the step of Bootstrap
  branch,      \* "skip" when needsBootstrap said false, "self" otherwise
  poll,        \* the poller goroutine: idle, polling, or done and cancelled
  faults

vars == <<deploy, pkgPresent, pkgAvail, pc, branch, poll, faults>>
cluster == <<deploy, pkgPresent, pkgAvail>>

Init ==
  /\ deploy \in DeployStates
  /\ pkgPresent \in BOOLEAN
  /\ pkgAvail \in BOOLEAN
  /\ pkgAvail => pkgPresent
  /\ pc = "init"
  /\ branch = "none"
  /\ poll = "idle"
  /\ faults = 0

\* b.init: the initializer installs the CRDs and creates or updates the
\* package.
Initialize ==
  /\ pc = "init"
  /\ pc' = "check"
  /\ pkgPresent' = TRUE
  /\ UNCHANGED <<deploy, pkgAvail, branch, poll, faults>>

\* Mutant: needsBootstrap asks only whether the Deployment is missing or
\* reports Available=False.
NeedsBootstrapOnlyWhenUnavailable == deploy \in {"absent", "unavailable"}

\* needsBootstrap: the Deployment is missing, or has no Available=True.
NeedsBootstrap == deploy # "available"

\* needsBootstrap answers false: Bootstrap returns nil.
SkipBootstrap ==
  /\ pc = "check"
  /\ ~NeedsBootstrap
  /\ pc' = "done"
  /\ branch' = "skip"
  /\ UNCHANGED <<cluster, poll, faults>>

\* needsBootstrap answers true: on to bootstrap.
StartBootstrap ==
  /\ pc = "check"
  /\ NeedsBootstrap
  /\ pc' = "spawn"
  /\ branch' = "self"
  /\ UNCHANGED <<cluster, poll, faults>>

\* bootstrap: WithCancel, go cancelWhenPackageAvailable, Setenv, then
\* runManager blocks.
SpawnPoller ==
  /\ pc = "spawn"
  /\ pc' = "run"
  /\ poll' = "polling"
  /\ UNCHANGED <<cluster, branch, faults>>

\* Mutant: the poller returns without calling cancel().
PollEndsWithoutCancel ==
  /\ pc = "run"
  /\ poll = "polling"
  /\ pkgPresent /\ pkgAvail
  /\ poll' = "idle"
  /\ UNCHANGED <<cluster, pc, branch, faults>>

\* isPackageAvailable answers true: the poll ends and cancel() is called.
PollSeesAvailable ==
  /\ pc = "run"
  /\ poll = "polling"
  /\ pkgPresent /\ pkgAvail
  /\ poll' = "cancelled"
  /\ UNCHANGED <<cluster, pc, branch, faults>>

\* runManager returns nil once its context is cancelled.
ManagerReturns ==
  /\ pc = "run"
  /\ poll = "cancelled"
  /\ pc' = "done"
  /\ UNCHANGED <<cluster, branch, poll, faults>>

Fault ==
  /\ faults < MaxFaults
  /\ faults' = faults + 1

\* The Get of isPackageAvailable returns an error: the poll ends with it
\* and the goroutine panics, which ends the process.
PollFails ==
  /\ pc = "run"
  /\ poll = "polling"
  /\ Fault
  /\ pc' = "panicked"
  /\ UNCHANGED <<cluster, branch, poll>>

\* init, the Get of needsBootstrap, Setenv or runManager returns an error.
StepFails ==
  /\ pc \in {"init", "check", "spawn", "run"}
  /\ Fault
  /\ pc' = "failed"
  /\ UNCHANGED <<cluster, branch, poll>>

BootstrapperStep ==
  \/ Initialize \/ SkipBootstrap \/ StartBootstrap \/ SpawnPoller
  \/ ManagerReturns

-----------------------------------------------------------------------------
(***************************************************************************)
(* The environment.                                                        *)
(***************************************************************************)

\* The Job starts a new process.
Restart ==
  /\ pc \in {"failed", "panicked"}
  /\ pc' = "init"
  /\ branch' = "none"
  /\ poll' = "idle"
  /\ UNCHANGED <<cluster, faults>>

\* The manager this process runs installs the package: it rolls out the
\* Deployment and reports the package Available.
ManagerInstalls ==
  /\ pc = "run"
  /\ pkgPresent
  /\ ~pkgAvail
  /\ deploy' = "available"
  /\ pkgAvail' = TRUE
  /\ UNCHANGED <<pkgPresent, pc, branch, poll, faults>>

\* A rollout of the in-cluster Deployment completes.
DeploymentRollsOut ==
  /\ deploy \in {"unavailable", "progressing"}
  /\ deploy' = "available"
  /\ UNCHANGED <<pkgPresent, pkgAvail, pc, branch, poll, faults>>

\* The in-cluster operator reports its package Available.
InClusterReportsAvailable ==
  /\ deploy = "available"
  /\ pkgPresent
  /\ ~pkgAvail
  /\ pkgAvail' = TRUE
  /\ UNCHANGED <<deploy, pkgPresent, pc, branch, poll, faults>>

Next ==
  \/ BootstrapperStep \/ PollSeesAvailable \/ PollFails \/ StepFails
  \/ Restart \/ ManagerInstalls \/ DeploymentRollsOut
  \/ InClusterReportsAvailable

\* The process and its poller run; the manager's controllers run while it
\* does; the Job restarts a failed process.  Faults and rollouts of the
\* in-cluster Deployment need not happen.
Fairness ==
  /\ WF_vars(BootstrapperStep)
  /\ WF_vars(PollSeesAvailable)
  /\ WF_vars(ManagerInstalls)
  /\ WF_vars(Restart)

Spec == Init /\ [][Next]_vars /\ Fairness

-----------------------------------------------------------------------------
(***************************************************************************)
(* Properties.                                                             *)
(***************************************************************************)

TypeOK ==
  /\ deploy \in DeployStates
  /\ pkgPresent \in BOOLEAN /\ pkgAvail \in BOOLEAN
  /\ pc \in Pcs
  /\ branch \in {"none", "skip", "self"}
  /\ poll \in {"idle", "polling", "cancelled"}
  /\ faults \in 0..MaxFaults

\* The refinement mapping: the state of the abstract bootstrap that each
\* state of the process stands for.
phaseBar ==
  CASE pc = "init"                    -> "Uninitialized"
    [] pc = "check"                   -> "Checking"
    [] pc = "spawn"                   -> "SelfInstalling"
    [] pc = "run"                     -> "Polling"
    [] pc = "done" /\ branch = "skip" -> "AlreadyAvailable"
    [] pc = "done" /\ branch # "skip" -> "Converged"
    [] OTHER                          -> "Failed"

AB == INSTANCE AbstractBootstrap
        WITH phase <- phaseBar, deployAvail <- (deploy = "available")

\* Bootstrap hands off only to an Available Deployment, self-installs only
\* when the Deployment is not Available, and returns nil from the
\* self-install only once the package has reported Available.
ImplementsAbstractBootstrap == AB!ASpec

\* The Job, restarted as often as it fails, eventually returns nil.
BootstrapperReturns == <>(pc = "done")

=============================================================================
