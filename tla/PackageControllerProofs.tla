---------------------- MODULE PackageControllerProofs ----------------------
(***************************************************************************)
(* Proofs about the package controller, for every set of packages and of   *)
(* workers and every bound: its type invariant, and that the status of a   *)
(* package in deletion is never written (DeletingStatusFrozen).            *)
(***************************************************************************)
EXTENDS PackageController, TLAPS

\* The steps of the forward chain, between the Get and the status write.
ChainSteps == {"unpack", "odstatus", "status"}

\* A busy worker holds a package key.
WorkersHaveKeys == \A w \in Workers : wpc[w] # "idle" => wk[w] \in Pkgs

\* A worker in the forward chain read a live package; the store's copy is
\* at least as new as the worker's, and if it is just as new, it is still
\* live: every write to a package, its deletion included, raises its
\* resourceVersion.
ChainCopiesLive ==
  \A w \in Workers :
    wpc[w] \in ChainSteps =>
      /\ copy[w].st = "live"
      /\ copy[w].ver <= pkg[wk[w]].ver
      /\ copy[w].ver = pkg[wk[w]].ver => pkg[wk[w]].st = "live"

Inv == TypeOK /\ WorkersHaveKeys /\ ChainCopiesLive

\* UpdatePhase sets one of the known phases.
LEMMA UpdatePhaseType ==
  ASSUME NEW s \in Statuses
  PROVE  UpdatePhase(s) \in Statuses
BY DEF UpdatePhase, Statuses, Phases

\* An object with its fields replaced by values of their types is an object.
LEMMA ObjectUpdate ==
  ASSUME NEW o \in Objects, NEW s \in {"absent", "live", "deleting"},
         NEW f \in SUBSET Fins, NEW n \in Nat
  PROVE  /\ [o EXCEPT !.fins = f, !.ver = n, !.st = s] \in Objects
         /\ [o EXCEPT !.ver = n, !.st = s] \in Objects
BY DEF Objects

LEMMA StatusWriteType ==
  ASSUME NEW o \in Objects, NEW n \in Nat, NEW t \in Statuses
  PROVE  [o EXCEPT !.status = t, !.ver = n] \in Objects
BY DEF Objects

\* Changing the finalizers of a package keeps it an object, raises its
\* resourceVersion, keeps its status, and keeps a live package live.
LEMMA AfterFinalizersFacts ==
  ASSUME NEW o \in Objects, NEW f \in SUBSET Fins
  PROVE  /\ AfterFinalizers(o, f) \in Objects
         /\ AfterFinalizers(o, f).ver = o.ver + 1
         /\ AfterFinalizers(o, f).status = o.status
         /\ o.st = "live" => AfterFinalizers(o, f).st = "live"
<1>1. o.ver + 1 \in Nat
  BY DEF Objects
<1>2. (IF o.st = "deleting" /\ f = {} THEN "absent" ELSE o.st)
        \in {"absent", "live", "deleting"}
  BY DEF Objects
<1>3. AfterFinalizers(o, f) \in Objects
  BY <1>1, <1>2, ObjectUpdate DEF AfterFinalizers
<1>4. QED
  BY <1>3 DEF AfterFinalizers, Objects

\* The in-memory package of an idle worker is an object.
LEMMA NoCopyType == NoCopy \in Objects
BY DEF NoCopy, Objects, Statuses, Phases

\* What the end of a reconcile sets has the types of TypeOK.
LEMMA ReturnType ==
  ASSUME TypeOK, NEW w \in Workers,
         NEW err \in {"none", "NotFound", "Conflict", "transport"},
         NEW res \in BOOLEAN, Return(w, err, res)
  PROVE  /\ wpc' \in [Workers -> Steps] /\ wpc'[w] = "done"
         /\ \A v \in Workers \ {w} : wpc'[v] = wpc[v]
         /\ requeue' \in [Workers -> BOOLEAN]
         /\ lastErr' \in [Workers -> {"none", "NotFound", "Conflict", "transport"}]
BY DEF Return, TypeOK, Steps

LEMMA InitInv == Init => Inv
<1> SUFFICES ASSUME Init PROVE Inv
  OBVIOUS
<1>1. pkg \in [Pkgs -> Objects]
  BY DEF Init, Objects
<1>2. QED
  BY <1>1, NoCopyType, BoundsAssumption
  DEF Init, Inv, TypeOK, WorkersHaveKeys, ChainCopiesLive, ChainSteps, Steps

LEMMA DequeueInv ==
  ASSUME Inv, NEW w \in Workers, Dequeue(w) PROVE Inv'
BY DEF Inv, TypeOK, WorkersHaveKeys, ChainCopiesLive, ChainSteps, Dequeue,
       Steps

LEMMA FinishInv ==
  ASSUME Inv, NEW w \in Workers, Finish(w) PROVE Inv'
BY NoCopyType
DEF Inv, TypeOK, WorkersHaveKeys, ChainCopiesLive, ChainSteps, Finish, Steps

LEMMA GetPackageInv ==
  ASSUME Inv, NEW w \in Workers, GetPackage(w) PROVE Inv'
<1> DEFINE p == wk[w]
<1>1. p \in Pkgs /\ wpc[w] = "get"
  BY DEF GetPackage, Inv, WorkersHaveKeys
<1>2. CASE pkg[p].st = "absent" /\ Return(w, "none", FALSE) /\ UNCHANGED copy
  <2>1. /\ wpc' \in [Workers -> Steps] /\ wpc'[w] = "done"
        /\ \A v \in Workers \ {w} : wpc'[v] = wpc[v]
        /\ requeue' \in [Workers -> BOOLEAN]
        /\ lastErr' \in [Workers -> {"none", "NotFound", "Conflict", "transport"}]
    BY <1>2, ReturnType DEF Inv
  <2>2. QED
    BY <1>1, <2>1, <1>2
    DEF GetPackage, Inv, TypeOK, WorkersHaveKeys, ChainCopiesLive, ChainSteps
<1>3. CASE /\ pkg[p].st # "absent"
           /\ copy' = [copy EXCEPT ![w] = pkg[p]]
           /\ wpc' = [wpc EXCEPT ![w] = IF pkg[p].st = "deleting"
                                        THEN "finalizer" ELSE "unpack"]
           /\ UNCHANGED <<requeue, lastErr>>
  BY <1>1, <1>3
  DEF GetPackage, Inv, TypeOK, WorkersHaveKeys, ChainCopiesLive, ChainSteps,
      Steps, Objects
<1>4. QED
  BY <1>2, <1>3 DEF GetPackage

LEMMA RemoveLoaderFinalizerInv ==
  ASSUME Inv, NEW w \in Workers, RemoveLoaderFinalizer(w) PROVE Inv'
<1> DEFINE p == wk[w]
           o == AfterFinalizers(pkg[p], copy[w].fins \ {"loader"})
<1>1. p \in Pkgs /\ wpc[w] = "finalizer"
  BY DEF RemoveLoaderFinalizer, Inv, WorkersHaveKeys
<1>2. /\ o \in Objects /\ o.ver = pkg[p].ver + 1 /\ o.status = pkg[p].status
  BY <1>1, AfterFinalizersFacts DEF Inv, TypeOK, Objects
<1>3. CASE "loader" \notin copy[w].fins
           /\ wpc' = [wpc EXCEPT ![w] = "update"]
           /\ UNCHANGED <<pkg, dirty, copy, requeue, lastErr>>
  BY <1>1, <1>3
  DEF RemoveLoaderFinalizer, Inv, TypeOK, WorkersHaveKeys, ChainCopiesLive,
      ChainSteps, Steps
<1>4. CASE /\ "loader" \in copy[w].fins
           /\ ~WriteAccepted(p, copy[w])
           /\ Return(w, Refusal(p), FALSE)
           /\ UNCHANGED <<pkg, dirty, copy>>
  <2>1. Refusal(p) \in {"none", "NotFound", "Conflict", "transport"}
    BY DEF Refusal
  <2>2. /\ wpc' \in [Workers -> Steps] /\ wpc'[w] = "done"
        /\ \A v \in Workers \ {w} : wpc'[v] = wpc[v]
        /\ requeue' \in [Workers -> BOOLEAN]
        /\ lastErr' \in [Workers -> {"none", "NotFound", "Conflict", "transport"}]
    BY <1>4, <2>1, ReturnType DEF Inv
  <2>3. QED
    BY <1>1, <1>4, <2>2
    DEF RemoveLoaderFinalizer, Inv, TypeOK, WorkersHaveKeys, ChainCopiesLive,
        ChainSteps
<1>5. CASE /\ "loader" \in copy[w].fins
           /\ WriteAccepted(p, copy[w])
           /\ pkg' = [pkg EXCEPT ![p] = o]
           /\ dirty' = dirty \cup {p}
           /\ copy' = [copy EXCEPT ![w] = o]
           /\ wpc' = [wpc EXCEPT ![w] = "update"]
           /\ UNCHANGED <<requeue, lastErr>>
  <2>1. TypeOK'
    BY <1>1, <1>2, <1>5 DEF RemoveLoaderFinalizer, Inv, TypeOK, Steps
  <2>2. WorkersHaveKeys'
    BY <1>1, <1>5 DEF RemoveLoaderFinalizer, Inv, WorkersHaveKeys
  <2>3. ChainCopiesLive'
    <3> SUFFICES ASSUME NEW v \in Workers, wpc'[v] \in ChainSteps
                 PROVE  /\ copy'[v].st = "live"
                        /\ copy'[v].ver <= pkg'[wk'[v]].ver
                        /\ copy'[v].ver = pkg'[wk'[v]].ver
                             => pkg'[wk'[v]].st = "live"
      BY DEF ChainCopiesLive
    <3>1. v # w /\ wpc[v] \in ChainSteps /\ copy'[v] = copy[v] /\ wk'[v] = wk[v]
      BY <1>5 DEF RemoveLoaderFinalizer, ChainSteps
    <3>2. wk[v] \in Pkgs /\ copy[v].ver \in Nat /\ pkg[wk[v]].ver \in Nat
      BY <3>1 DEF Inv, TypeOK, WorkersHaveKeys, ChainSteps, Objects
    <3>3. CASE wk[v] = p
      BY <1>1, <1>2, <1>5, <3>1, <3>2, <3>3 DEF Inv, ChainCopiesLive, TypeOK
    <3>4. CASE wk[v] # p
      BY <1>5, <3>1, <3>2, <3>4 DEF Inv, ChainCopiesLive, TypeOK
    <3>5. QED
      BY <3>3, <3>4
  <2>4. QED
    BY <2>1, <2>2, <2>3 DEF Inv
<1>6. QED
  BY <1>3, <1>4, <1>5 DEF RemoveLoaderFinalizer

LEMMA UpdateAfterDeletionInv ==
  ASSUME Inv, NEW w \in Workers, UpdateAfterDeletion(w) PROVE Inv'
<1> DEFINE p == wk[w]
           err == IF WriteAccepted(p, copy[w]) THEN "none" ELSE Refusal(p)
<1>1. err \in {"none", "NotFound", "Conflict", "transport"}
  BY DEF Refusal
<1>2. /\ wpc' \in [Workers -> Steps] /\ wpc'[w] = "done"
      /\ \A v \in Workers \ {w} : wpc'[v] = wpc[v]
      /\ requeue' \in [Workers -> BOOLEAN]
      /\ lastErr' \in [Workers -> {"none", "NotFound", "Conflict", "transport"}]
  BY <1>1, ReturnType DEF Inv, UpdateAfterDeletion
<1>3. QED
  BY <1>2
  DEF UpdateAfterDeletion, Inv, TypeOK, WorkersHaveKeys, ChainCopiesLive,
      ChainSteps

\* The sub-reconcilers change only the status of the worker's copy.
LEMMA CopyStatusType ==
  ASSUME NEW o \in Objects, NEW b \in BOOLEAN
  PROVE  /\ [o EXCEPT !.status.unpacked = b] \in Objects
         /\ [o EXCEPT !.status.avail = b] \in Objects
         /\ [o EXCEPT !.status.unpacked = b].st = o.st
         /\ [o EXCEPT !.status.unpacked = b].ver = o.ver
         /\ [o EXCEPT !.status.avail = b].st = o.st
         /\ [o EXCEPT !.status.avail = b].ver = o.ver
BY DEF Objects, Statuses

LEMMA UnpackInv ==
  ASSUME Inv, NEW w \in Workers, Unpack(w) PROVE Inv'
<1> DEFINE p == wk[w]
<1>1. p \in Pkgs /\ wpc[w] = "unpack" /\ copy[w] \in Objects
  BY DEF Unpack, Inv, WorkersHaveKeys, TypeOK
<1>2. CASE /\ copy' = [copy EXCEPT ![w].status.unpacked = TRUE]
           /\ od' = [od EXCEPT ![p] = TRUE]
           /\ dirty' = IF od[p] THEN dirty ELSE dirty \cup {p}
           /\ wpc' = [wpc EXCEPT ![w] = "odstatus"]
           /\ UNCHANGED <<requeue, faults>>
  <2> DEFINE c == [copy[w] EXCEPT !.status.unpacked = TRUE]
  <2>0. /\ od' = [od EXCEPT ![p] = TRUE]
        /\ dirty' = IF od[p] THEN dirty ELSE dirty \cup {p}
        /\ wpc' = [wpc EXCEPT ![w] = "odstatus"]
        /\ UNCHANGED <<pkg, odAvail, wk, requeue, lastErr, faults, envWrites>>
    BY <1>2 DEF Unpack
  <2>1. copy' = [copy EXCEPT ![w] = c]
    BY <1>1, <1>2 DEF Inv, TypeOK
  <2>2. c \in Objects /\ c.st = copy[w].st /\ c.ver = copy[w].ver
    BY <1>1, CopyStatusType
  <2>3. copy' \in [Workers -> Objects] /\ copy'[w] = c
        /\ \A v \in Workers \ {w} : copy'[v] = copy[v]
    BY <2>1, <2>2 DEF Inv, TypeOK
  <2>4. TypeOK'
    BY <1>1, <2>0, <2>3 DEF Inv, TypeOK, Steps
  <2>5. WorkersHaveKeys'
    BY <1>1, <2>0 DEF Inv, WorkersHaveKeys
  <2>6. ChainCopiesLive'
    <3> SUFFICES ASSUME NEW v \in Workers, wpc'[v] \in ChainSteps
                 PROVE  /\ copy'[v].st = "live"
                        /\ copy'[v].ver <= pkg'[wk'[v]].ver
                        /\ copy'[v].ver = pkg'[wk'[v]].ver
                             => pkg'[wk'[v]].st = "live"
      BY DEF ChainCopiesLive
    <3>1. wpc[v] \in ChainSteps
      BY <1>1, <2>0 DEF Inv, TypeOK, ChainSteps
    <3>2. CASE v = w
      <4>1. /\ copy[w].st = "live"
            /\ copy[w].ver <= pkg[p].ver
            /\ copy[w].ver = pkg[p].ver => pkg[p].st = "live"
        BY <1>1 DEF Inv, ChainCopiesLive, ChainSteps
      <4>2. copy'[w].st = copy[w].st /\ copy'[w].ver = copy[w].ver
        BY <2>2, <2>3
      <4>3. QED
        BY <2>0, <3>2, <4>1, <4>2
    <3>3. CASE v # w
      BY <2>0, <2>3, <3>1, <3>3 DEF Inv, ChainCopiesLive
    <3>4. QED
      BY <3>2, <3>3
  <2>7. QED
    BY <2>4, <2>5, <2>6 DEF Inv
<1>3. CASE /\ faults < MaxFaults
           /\ faults' = faults + 1
           /\ requeue' = [requeue EXCEPT ![w] = TRUE]
           /\ wpc' = [wpc EXCEPT ![w] = "status"]
           /\ UNCHANGED <<od, dirty, copy>>
  <2>1. /\ wpc' \in [Workers -> Steps] /\ wpc'[w] = "status"
        /\ \A v \in Workers \ {w} : wpc'[v] = wpc[v]
        /\ requeue' \in [Workers -> BOOLEAN]
    BY <1>1, <1>3 DEF Inv, TypeOK, Steps
  <2>2. QED
    BY <1>1, <1>3, <2>1, BoundsAssumption
    DEF Unpack, Inv, TypeOK, WorkersHaveKeys, ChainCopiesLive, ChainSteps
<1>4. QED
  BY <1>2, <1>3 DEF Unpack

LEMMA ObjectDeploymentStatusInv ==
  ASSUME Inv, NEW w \in Workers, ObjectDeploymentStatus(w) PROVE Inv'
<1> DEFINE p == wk[w]
<1>1. p \in Pkgs /\ wpc[w] = "odstatus" /\ copy[w] \in Objects
  BY DEF ObjectDeploymentStatus, Inv, WorkersHaveKeys, TypeOK
<1> DEFINE b == od[p] /\ odAvail[p]
           c == [copy[w] EXCEPT !.status.avail = b]
<1>2. b \in BOOLEAN
  BY <1>1 DEF Inv, TypeOK
<1>3. copy' = [copy EXCEPT ![w] = c]
  BY <1>1, Zenon DEF ObjectDeploymentStatus, Inv, TypeOK
<1>4. c \in Objects /\ c.st = copy[w].st /\ c.ver = copy[w].ver
  BY <1>1, <1>2, CopyStatusType
<1>5. copy' \in [Workers -> Objects] /\ copy'[w] = c
      /\ \A v \in Workers \ {w} : copy'[v] = copy[v]
  BY <1>3, <1>4 DEF Inv, TypeOK
<1>6. QED
  BY <1>1, <1>4, <1>5
  DEF ObjectDeploymentStatus, Inv, TypeOK, WorkersHaveKeys, ChainCopiesLive,
      ChainSteps, Steps

LEMMA RequestFailsInv ==
  ASSUME Inv, NEW w \in Workers, RequestFails(w) PROVE Inv'
<1>1. /\ wpc' \in [Workers -> Steps] /\ wpc'[w] = "done"
      /\ \A v \in Workers \ {w} : wpc'[v] = wpc[v]
      /\ requeue' \in [Workers -> BOOLEAN]
      /\ lastErr' \in [Workers -> {"none", "NotFound", "Conflict", "transport"}]
  BY ReturnType DEF Inv, RequestFails, Fault
<1>2. QED
  BY <1>1, BoundsAssumption
  DEF RequestFails, Fault, Inv, TypeOK, WorkersHaveKeys, ChainCopiesLive,
      ChainSteps

\* A write of one package, which raises its resourceVersion, keeps the
\* copies of the workers in the forward chain behind or live.
LEMMA PackageWriteKeepsChain ==
  ASSUME Inv, NEW q \in Pkgs, NEW o \in Objects, o.ver = pkg[q].ver + 1,
         pkg' = [pkg EXCEPT ![q] = o], UNCHANGED <<wk, copy>>,
         \A v \in Workers : wpc'[v] \in ChainSteps => wpc[v] \in ChainSteps
  PROVE  pkg' \in [Pkgs -> Objects] /\ ChainCopiesLive'
<1>1. pkg' \in [Pkgs -> Objects]
  BY DEF Inv, TypeOK
<1>2. ASSUME NEW v \in Workers, wpc'[v] \in ChainSteps
      PROVE  /\ copy'[v].st = "live"
             /\ copy'[v].ver <= pkg'[wk'[v]].ver
             /\ copy'[v].ver = pkg'[wk'[v]].ver => pkg'[wk'[v]].st = "live"
  <2>1. wpc[v] \in ChainSteps /\ wk[v] \in Pkgs
        /\ copy[v].ver \in Nat /\ pkg[wk[v]].ver \in Nat
    BY <1>2 DEF Inv, TypeOK, WorkersHaveKeys, ChainSteps, Objects
  <2>2. CASE wk[v] = q
    BY <2>1, <2>2 DEF Inv, TypeOK, ChainCopiesLive
  <2>3. CASE wk[v] # q
    BY <2>1, <2>3 DEF Inv, TypeOK, ChainCopiesLive
  <2>4. QED
    BY <2>2, <2>3
<1>3. QED
  BY <1>1, <1>2 DEF ChainCopiesLive

LEMMA UpdateStatusInv ==
  ASSUME Inv, NEW w \in Workers, UpdateStatus(w) PROVE Inv'
<1> DEFINE p == wk[w]
           s == UpdatePhase(copy[w].status)
<1>1. p \in Pkgs /\ wpc[w] = "status" /\ copy[w] \in Objects
  BY DEF UpdateStatus, Inv, WorkersHaveKeys, TypeOK
<1>2. s \in Statuses /\ Refusal(p) \in {"none", "NotFound", "Conflict", "transport"}
  BY <1>1, UpdatePhaseType DEF Objects, Refusal
<1>3. ASSUME NEW err \in {"none", "NotFound", "Conflict", "transport"},
             Return(w, err, requeue[w])
      PROVE  /\ wpc' \in [Workers -> Steps] /\ wpc'[w] = "done"
             /\ \A v \in Workers \ {w} : wpc'[v] = wpc[v]
             /\ requeue' \in [Workers -> BOOLEAN]
             /\ lastErr' \in [Workers -> {"none", "NotFound", "Conflict", "transport"}]
  BY <1>3, ReturnType DEF Inv, TypeOK
<1>4. CASE UNCHANGED <<pkg, dirty>> /\ \E err \in {"none", "NotFound", "Conflict", "transport"} : Return(w, err, requeue[w])
  BY <1>3, <1>4
  DEF UpdateStatus, Inv, TypeOK, WorkersHaveKeys, ChainCopiesLive, ChainSteps
<1>5. CASE /\ StatusUpdateAccepted(p, copy[w])
           /\ s # pkg[p].status
           /\ pkg' = [pkg EXCEPT ![p].status = s, ![p].ver = @ + 1]
           /\ dirty' = dirty \cup {p}
           /\ Return(w, "none", requeue[w])
  <2> DEFINE o == [pkg[p] EXCEPT !.status = s, !.ver = pkg[p].ver + 1]
  <2>1. pkg[p] \in Objects /\ pkg[p].ver + 1 \in Nat
    BY <1>1 DEF Inv, TypeOK, Objects
  <2>2. o \in Objects
    BY <1>2, <2>1, StatusWriteType DEF o
  <2>3. o.ver = pkg[p].ver + 1
    BY <2>1 DEF o, Objects
  <2>4. pkg' = [pkg EXCEPT ![p] = o]
    BY <1>1, <1>5, Zenon DEF Inv, TypeOK, o
  <2>5. \A v \in Workers : wpc'[v] \in ChainSteps => wpc[v] \in ChainSteps
    BY <1>3, <1>5 DEF ChainSteps
  <2>6. pkg' \in [Pkgs -> Objects] /\ ChainCopiesLive'
    BY <1>1, <2>2, <2>3, <2>4, <2>5, PackageWriteKeepsChain DEF UpdateStatus
  <2>7. QED
    BY <1>1, <1>3, <1>5, <2>6
    DEF UpdateStatus, Inv, TypeOK, WorkersHaveKeys
<1>6. QED
  BY <1>2, <1>4, <1>5 DEF UpdateStatus

LEMMA UserDeletesInv ==
  ASSUME Inv, NEW p \in Pkgs, UserDeletes(p) PROVE Inv'
<1> DEFINE st == IF pkg[p].fins = {} THEN "absent" ELSE "deleting"
           o == [pkg[p] EXCEPT !.ver = pkg[p].ver + 1, !.st = st]
<1>1. pkg[p] \in Objects /\ pkg[p].ver + 1 \in Nat
      /\ st \in {"absent", "live", "deleting"}
  BY DEF Inv, TypeOK, Objects
<1>2. o \in Objects
  BY <1>1, ObjectUpdate DEF o
<1>3. o.ver = pkg[p].ver + 1
  BY <1>1 DEF o, Objects
<1>4. pkg' = [pkg EXCEPT ![p] = o]
  BY Zenon DEF UserDeletes, o, st
<1>5. pkg' \in [Pkgs -> Objects] /\ ChainCopiesLive'
  BY <1>2, <1>3, <1>4, PackageWriteKeepsChain DEF UserDeletes, workerVars
<1>6. QED
  BY <1>5, BoundsAssumption
  DEF UserDeletes, EnvWrite, workerVars, Inv, TypeOK, WorkersHaveKeys

LEMMA OtherFinalizerRemovedInv ==
  ASSUME Inv, NEW p \in Pkgs, OtherFinalizerRemoved(p) PROVE Inv'
<1> DEFINE o == AfterFinalizers(pkg[p], pkg[p].fins \ {"other"})
<1>1. pkg[p] \in Objects /\ pkg[p].fins \ {"other"} \in SUBSET Fins
  BY DEF Inv, TypeOK, Objects
<1>2. o \in Objects /\ o.ver = pkg[p].ver + 1
  BY <1>1, AfterFinalizersFacts DEF o
<1>3. pkg' = [pkg EXCEPT ![p] = o]
  BY DEF OtherFinalizerRemoved, o
<1>4. pkg' \in [Pkgs -> Objects] /\ ChainCopiesLive'
  BY <1>2, <1>3, PackageWriteKeepsChain DEF OtherFinalizerRemoved, workerVars
<1>5. QED
  BY <1>4, BoundsAssumption
  DEF OtherFinalizerRemoved, EnvWrite, workerVars, Inv, TypeOK,
      WorkersHaveKeys

LEMMA ObjectDeploymentChangesInv ==
  ASSUME Inv, NEW p \in Pkgs, ObjectDeploymentChanges(p) PROVE Inv'
BY BoundsAssumption
DEF ObjectDeploymentChanges, EnvWrite, workerVars, Inv, TypeOK,
    WorkersHaveKeys, ChainCopiesLive

LEMMA CollectObjectDeploymentInv ==
  ASSUME Inv, NEW p \in Pkgs, CollectObjectDeployment(p) PROVE Inv'
BY DEF CollectObjectDeployment, workerVars, Inv, TypeOK, WorkersHaveKeys,
       ChainCopiesLive

\* Inv is inductive.
LEMMA NextInv == Inv /\ [Next]_vars => Inv'
<1> SUFFICES ASSUME Inv, [Next]_vars PROVE Inv'
  OBVIOUS
<1>1. ASSUME NEW w \in Workers, WorkerStep(w) \/ RequestFails(w) PROVE Inv'
  BY <1>1, DequeueInv, FinishInv, GetPackageInv, RemoveLoaderFinalizerInv,
     UpdateAfterDeletionInv, UnpackInv, ObjectDeploymentStatusInv,
     UpdateStatusInv, RequestFailsInv
  DEF WorkerStep
<1>2. ASSUME NEW p \in Pkgs,
             \/ UserDeletes(p) \/ OtherFinalizerRemoved(p)
             \/ ObjectDeploymentChanges(p) \/ CollectObjectDeployment(p)
      PROVE  Inv'
  BY <1>2, UserDeletesInv, OtherFinalizerRemovedInv,
     ObjectDeploymentChangesInv, CollectObjectDeploymentInv
<1>3. CASE UNCHANGED vars
  BY <1>3 DEF vars, Inv, TypeOK, WorkersHaveKeys, ChainCopiesLive
<1>4. QED
  BY <1>1, <1>2, <1>3 DEF Next

\* Inv holds in every reachable state.
LEMMA InvInvariant == Spec => []Inv
BY InitInv, NextInv, PTL DEF Spec

\* For every set of packages and of workers, every reachable state of the
\* controller and its work queue is well typed (TypeOK).
THEOREM TypeCorrect == Spec => []TypeOK
<1>1. Inv => TypeOK
  BY DEF Inv
<1>2. QED
  BY <1>1, InvInvariant, PTL

\* The step DeletingStatusFrozen constrains.
FrozenStep ==
  \A p \in Pkgs : pkg[p].st = "deleting" /\ pkg'[p].st = "deleting"
                    => pkg'[p].status = pkg[p].status

\* No step of Next changes the status of a package in deletion.
LEMMA FrozenStepHolds == Inv /\ [Next]_vars => FrozenStep
<1> SUFFICES ASSUME Inv, [Next]_vars PROVE FrozenStep
  OBVIOUS
<1>1. CASE pkg' = pkg
  BY <1>1 DEF FrozenStep
<1>2. ASSUME NEW q \in Pkgs, NEW o, o.status = pkg[q].status,
             pkg' = [pkg EXCEPT ![q] = o]
      PROVE  FrozenStep
  BY <1>2 DEF FrozenStep, Inv, TypeOK
<1>3. ASSUME NEW w \in Workers, RemoveLoaderFinalizer(w) PROVE FrozenStep
  <2> DEFINE p == wk[w]
             o == AfterFinalizers(pkg[p], copy[w].fins \ {"loader"})
  <2>1. p \in Pkgs /\ o.status = pkg[p].status
    <3>1. p \in Pkgs /\ copy[w].fins \ {"loader"} \in SUBSET Fins
      BY <1>3 DEF RemoveLoaderFinalizer, Inv, WorkersHaveKeys, TypeOK, Objects
    <3>2. QED
      BY <3>1, AfterFinalizersFacts DEF Inv, TypeOK
  <2>2. pkg' = pkg \/ pkg' = [pkg EXCEPT ![p] = o]
    BY <1>3 DEF RemoveLoaderFinalizer
  <2>3. QED
    BY <2>1, <2>2, <1>1, <1>2
<1>4. ASSUME NEW w \in Workers, UpdateStatus(w) PROVE FrozenStep
  <2> DEFINE p == wk[w]
             s == UpdatePhase(copy[w].status)
  <2>1. \/ pkg' = pkg
        \/ /\ StatusUpdateAccepted(p, copy[w])
           /\ pkg' = [pkg EXCEPT ![p].status = s, ![p].ver = @ + 1]
    BY <1>4 DEF UpdateStatus
  <2>2. CASE StatusUpdateAccepted(p, copy[w])
             /\ pkg' = [pkg EXCEPT ![p].status = s, ![p].ver = @ + 1]
    <3>1. p \in Pkgs /\ wpc[w] = "status"
      BY <1>4 DEF UpdateStatus, Inv, WorkersHaveKeys
    <3>2. pkg[p].st = "live"
      BY <3>1, <2>2 DEF Inv, ChainCopiesLive, ChainSteps,
                       StatusUpdateAccepted, WriteAccepted
    <3> DEFINE o == [pkg[p] EXCEPT !.status = s, !.ver = pkg[p].ver + 1]
    <3>3. pkg' = [pkg EXCEPT ![p] = o]
      BY <2>2, <3>1, Zenon DEF Inv, TypeOK, o
    <3>4. o.st = pkg[p].st
      BY <3>1 DEF o, Inv, TypeOK, Objects
    <3>5. QED
      BY <3>1, <3>2, <3>3, <3>4 DEF FrozenStep, Inv, TypeOK
  <2>3. QED
    BY <2>1, <2>2, <1>1
<1>5. ASSUME NEW p \in Pkgs, UserDeletes(p) PROVE FrozenStep
  <2> DEFINE st == IF pkg[p].fins = {} THEN "absent" ELSE "deleting"
             o == [pkg[p] EXCEPT !.ver = pkg[p].ver + 1, !.st = st]
  <2>1. pkg' = [pkg EXCEPT ![p] = o]
    BY <1>5, Zenon DEF UserDeletes, o, st
  <2>2. o.status = pkg[p].status
    BY DEF o, Inv, TypeOK, Objects
  <2>3. QED
    BY <2>1, <2>2, <1>2
<1>6. ASSUME NEW p \in Pkgs, OtherFinalizerRemoved(p) PROVE FrozenStep
  <2> DEFINE o == AfterFinalizers(pkg[p], pkg[p].fins \ {"other"})
  <2>1. o.status = pkg[p].status
    BY AfterFinalizersFacts DEF Inv, TypeOK, Objects
  <2>2. pkg' = [pkg EXCEPT ![p] = o]
    BY <1>6 DEF OtherFinalizerRemoved
  <2>3. QED
    BY <2>1, <2>2, <1>2
<1>7. ASSUME NEW w \in Workers,
             \/ Dequeue(w) \/ Finish(w) \/ GetPackage(w)
             \/ UpdateAfterDeletion(w) \/ Unpack(w)
             \/ ObjectDeploymentStatus(w) \/ RequestFails(w)
      PROVE  pkg' = pkg
  BY <1>7 DEF Dequeue, Finish, GetPackage, UpdateAfterDeletion, Unpack,
              ObjectDeploymentStatus, RequestFails
<1>8. ASSUME NEW p \in Pkgs,
             ObjectDeploymentChanges(p) \/ CollectObjectDeployment(p)
      PROVE  pkg' = pkg
  BY <1>8 DEF ObjectDeploymentChanges, CollectObjectDeployment
<1>9. QED
  BY <1>1, <1>3, <1>4, <1>5, <1>6, <1>7, <1>8 DEF Next, WorkerStep, vars

\* A worker that read a package before its deletion and then runs the
\* forward chain on that copy never gets its status written: the status of
\* a package in deletion is frozen, for any number of packages and workers
\* (DeletingStatusFrozen).
THEOREM StatusFrozen == Spec => DeletingStatusFrozen
<1>1. Inv /\ [Next]_vars => [FrozenStep]_vars
  BY FrozenStepHolds
<1>2. QED
  BY <1>1, InvInvariant, PTL DEF Spec, DeletingStatusFrozen, FrozenStep

=============================================================================
