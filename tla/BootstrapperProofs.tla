------------------------- MODULE BootstrapperProofs -------------------------
(***************************************************************************)
(* Proofs about the Bootstrapper: its type invariant, the invariant that   *)
(* carries the refinement, and that it implements the safety of the        *)
(* abstract bootstrap for every bound on faults.                           *)
(***************************************************************************)
EXTENDS Bootstrapper, TLAPS

\* What the refinement rests on: the package exists once it is Available;
\* a poller that cancelled the manager saw it Available, and the package
\* never stops being Available afterwards; a running self-install took the
\* "self" branch of needsBootstrap.
Inv ==
  /\ TypeOK
  /\ pkgAvail => pkgPresent
  /\ poll = "cancelled" => pkgPresent /\ pkgAvail
  /\ pc \in {"spawn", "run"} => branch = "self"

\* Inv holds in every state of the Bootstrapper.
LEMMA InvInvariant == Spec => []Inv
<1>1. Init => Inv
  BY FaultsAssumption DEF Init, Inv, TypeOK, DeployStates, Pcs
<1>2. Inv /\ [Next]_vars => Inv'
  <2> SUFFICES ASSUME Inv, [Next]_vars PROVE Inv'
    OBVIOUS
  <2> USE FaultsAssumption DEF Inv, TypeOK, DeployStates, Pcs
  <2>1. CASE Initialize
    BY <2>1 DEF Initialize
  <2>2. CASE SkipBootstrap
    BY <2>2 DEF SkipBootstrap, cluster
  <2>3. CASE StartBootstrap
    BY <2>3 DEF StartBootstrap, cluster
  <2>4. CASE SpawnPoller
    BY <2>4 DEF SpawnPoller, cluster
  <2>5. CASE ManagerReturns
    BY <2>5 DEF ManagerReturns, cluster
  <2>6. CASE PollSeesAvailable
    BY <2>6 DEF PollSeesAvailable, cluster
  <2>7. CASE PollFails
    BY <2>7 DEF PollFails, Fault, cluster
  <2>8. CASE StepFails
    BY <2>8 DEF StepFails, Fault, cluster
  <2>9. CASE Restart
    BY <2>9 DEF Restart, cluster
  <2>10. CASE ManagerInstalls
    BY <2>10 DEF ManagerInstalls
  <2>11. CASE DeploymentRollsOut
    BY <2>11 DEF DeploymentRollsOut
  <2>12. CASE InClusterReportsAvailable
    BY <2>12 DEF InClusterReportsAvailable
  <2>13. CASE UNCHANGED vars
    BY <2>13 DEF vars
  <2>14. QED
    BY <2>1, <2>2, <2>3, <2>4, <2>5, <2>6, <2>7, <2>8, <2>9, <2>10, <2>11,
       <2>12, <2>13 DEF Next, BootstrapperStep
<1>3. QED
  BY <1>1, <1>2, PTL DEF Spec

\* The Bootstrapper's variables keep their types: Bootstrap never reaches a
\* step, a branch or a poller state outside those the code has.
THEOREM TypeCorrect == Spec => []TypeOK
<1>1. Inv => TypeOK
  BY DEF Inv
<1>2. QED
  BY <1>1, InvInvariant, PTL

\* The initial states of the process map to initial states of the abstract
\* bootstrap.
LEMMA InitRefines == Init => AB!AInit
BY DEF Init, AB!AInit, phaseBar

\* Every step of the process maps to a step of the abstract bootstrap or
\* leaves the abstract state unchanged.
LEMMA NextRefines == Inv /\ [Next]_vars => [AB!ANext]_AB!avars
<1> SUFFICES ASSUME Inv, [Next]_vars PROVE [AB!ANext]_AB!avars
  OBVIOUS
<1> USE DEF Inv, TypeOK, Pcs, DeployStates
<1>1. CASE Initialize
  BY <1>1 DEF Initialize, AB!ANext, AB!Install, AB!Move, phaseBar
<1>2. CASE SkipBootstrap
  <2>1. phaseBar = "Checking" /\ phaseBar' = "AlreadyAvailable"
    BY <1>2 DEF SkipBootstrap, phaseBar
  <2>2. AB!HandOff
    BY <1>2, <2>1 DEF SkipBootstrap, NeedsBootstrap, cluster, AB!HandOff,
                      AB!Move
  <2>3. QED
    BY <2>2 DEF AB!ANext
<1>3. CASE StartBootstrap
  BY <1>3 DEF StartBootstrap, NeedsBootstrap, cluster, AB!ANext,
              AB!SelfInstall, AB!Move, phaseBar
<1>4. CASE SpawnPoller
  BY <1>4 DEF SpawnPoller, cluster, AB!ANext, AB!StartPolling, AB!Move,
              phaseBar
<1>5. CASE ManagerReturns
  BY <1>5 DEF ManagerReturns, cluster, AB!ANext, AB!Converge, AB!Move,
              phaseBar
<1>6. CASE PollSeesAvailable
  BY <1>6 DEF PollSeesAvailable, cluster, AB!avars, phaseBar
<1>7. CASE PollFails
  BY <1>7 DEF PollFails, Fault, cluster, AB!ANext, AB!Fail, AB!Finished,
              phaseBar
<1>8. CASE StepFails
  BY <1>8 DEF StepFails, Fault, cluster, AB!ANext, AB!Fail, AB!Finished,
              phaseBar
<1>9. CASE Restart
  BY <1>9 DEF Restart, cluster, AB!ANext, AB!Restart, AB!Move, phaseBar
<1>10. CASE ManagerInstalls
  BY <1>10 DEF ManagerInstalls, AB!ANext, AB!Cluster, phaseBar
<1>11. CASE DeploymentRollsOut
  BY <1>11 DEF DeploymentRollsOut, AB!ANext, AB!Cluster, phaseBar
<1>12. CASE InClusterReportsAvailable
  BY <1>12 DEF InClusterReportsAvailable, AB!ANext, AB!Cluster, phaseBar
<1>13. CASE UNCHANGED vars
  BY <1>13 DEF vars, AB!avars, phaseBar
<1>14. QED
  BY <1>1, <1>2, <1>3, <1>4, <1>5, <1>6, <1>7, <1>8, <1>9, <1>10, <1>11,
     <1>12, <1>13 DEF Next, BootstrapperStep

\* Bootstrap hands off only to an Available Deployment, self-installs only
\* when the Deployment is not Available, and returns nil from the
\* self-install only once the package is Available: the Bootstrapper
\* implements the abstract bootstrap (ImplementsAbstractBootstrap).
THEOREM Refinement == Spec => ImplementsAbstractBootstrap
<1>1. Spec => []Inv
  BY InvInvariant
<1>2. Init => AB!AInit
  BY InitRefines
<1>3. Inv /\ [Next]_vars => [AB!ANext]_AB!avars
  BY NextRefines
<1>4. QED
  BY <1>1, <1>2, <1>3, PTL DEF Spec, ImplementsAbstractBootstrap, AB!ASpec

=============================================================================
