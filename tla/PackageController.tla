------------------------- MODULE PackageController -------------------------
(***************************************************************************)
(* GenericPackageController (package_controller.go): Reconcile,            *)
(* handleDeletion and updateStatus, run by controller-runtime's workers    *)
(* over its work queue.                                                    *)
(*                                                                         *)
(* A worker takes a key that is dirty and not being processed, Gets the    *)
(* package, and either runs the deletion path (drop the legacy loader-job  *)
(* finalizer, then Update) or the chain of sub-reconcilers (unpack, then   *)
(* the ObjectDeployment status), stopping at the first error or non-empty  *)
(* result, and then writes the status.  Every write to a package or to the *)
(* ObjectDeployment it owns marks the package's key dirty again; an error  *)
(* or a non-empty result requeues it.  Writes carry the resourceVersion of *)
(* the worker's copy; a write that changes nothing is not a write.         *)
(***************************************************************************)
EXTENDS Naturals, FiniteSets

CONSTANTS
  Pkgs,          \* the keys of the packages
  Workers,       \* the workers (MaxConcurrentReconciles)
  NoKey,         \* a worker without a key
  MaxFaults,     \* bound on transient errors and non-empty results
  MaxEnvWrites   \* bound on writes of users and other controllers

ASSUME KeysAssumption == NoKey \notin Pkgs /\ Workers # {}
ASSUME BoundsAssumption == MaxFaults \in Nat /\ MaxEnvWrites \in Nat

Fins == {"loader", "other"}         \* the legacy loader-job finalizer, and any other
Phases == {"Unpacking", "Progressing", "Available"}
Statuses == [unpacked : BOOLEAN, avail : BOOLEAN, phase : Phases]
Objects == [st : {"absent", "live", "deleting"}, fins : SUBSET Fins,
            ver : Nat, status : Statuses]
Steps == {"idle", "get", "finalizer", "update", "unpack", "odstatus",
          "status", "done"}

VARIABLES
  pkg,        \* the packages in the store
  od,         \* does the package's ObjectDeployment exist?
  odAvail,    \* does it report Available?
  dirty,      \* the keys waiting in the work queue
  wk,         \* the key each worker processes, or NoKey
  wpc,        \* the step each worker is at
  copy,       \* each worker's in-memory package
  requeue,    \* will the worker's key be requeued when it is done?
  lastErr,    \* the error each worker's reconcile returns
  faults, envWrites

vars == <<pkg, od, odAvail, dirty, wk, wpc, copy, requeue, lastErr, faults,
          envWrites>>
workerVars == <<wk, wpc, copy, requeue, lastErr>>

Processing == {wk[w] : w \in Workers} \ {NoKey}

\* The in-memory package of a worker that has not read one yet.
NoCopy == [st |-> "absent", fins |-> {}, ver |-> 0,
           status |-> [unpacked |-> FALSE, avail |-> FALSE, phase |-> "Unpacking"]]

\* Mutant: an unavailable package gets a phase outside the known ones.
UpdatePhaseUnknown(s) ==
  [s EXCEPT !.phase = IF ~s.unpacked THEN "Unpacking"
                      ELSE IF s.avail THEN "Available" ELSE "Unknown"]

\* pkg.UpdatePhase(): the phase from the conditions.
UpdatePhase(s) ==
  [s EXCEPT !.phase = IF ~s.unpacked THEN "Unpacking"
                      ELSE IF s.avail THEN "Available" ELSE "Progressing"]

\* Deleted with finalizers: deleting; without: gone.
AfterFinalizers(o, f) ==
  [o EXCEPT !.fins = f, !.ver = @ + 1,
            !.st = IF @ = "deleting" /\ f = {} THEN "absent" ELSE @]

Init ==
  /\ pkg \in [Pkgs -> {o \in [st : {"live", "deleting"}, fins : SUBSET Fins,
                              ver : {1}, status : Statuses] :
                         /\ o.st = "deleting" => o.fins # {}
                         /\ o.status = UpdatePhase(o.status)}]
  /\ od \in [Pkgs -> BOOLEAN]
  /\ odAvail \in [Pkgs -> BOOLEAN]
  /\ \A p \in Pkgs : odAvail[p] => od[p]
  /\ dirty = Pkgs
  /\ wk = [w \in Workers |-> NoKey]
  /\ wpc = [w \in Workers |-> "idle"]
  /\ copy = [w \in Workers |-> NoCopy]
  /\ requeue = [w \in Workers |-> FALSE]
  /\ lastErr = [w \in Workers |-> "none"]
  /\ faults = 0
  /\ envWrites = 0

\* Mutant: only a non-empty result is requeued, not an error.
ReturnIgnoringErrors(w, err, res) ==
  /\ wpc' = [wpc EXCEPT ![w] = "done"]
  /\ lastErr' = [lastErr EXCEPT ![w] = err]
  /\ requeue' = [requeue EXCEPT ![w] = res]

\* The worker's reconcile ends now: with err, and a non-empty result or not.
Return(w, err, res) ==
  /\ wpc' = [wpc EXCEPT ![w] = "done"]
  /\ lastErr' = [lastErr EXCEPT ![w] = err]
  /\ requeue' = [requeue EXCEPT ![w] = err # "none" \/ res]

\* A transient error of the worker's current request.
Fault(w) ==
  /\ faults < MaxFaults
  /\ faults' = faults + 1
  /\ Return(w, "transport", FALSE)

-----------------------------------------------------------------------------
(***************************************************************************)
(* The work queue.                                                         *)
(***************************************************************************)

\* processNextWorkItem: Get a key that is dirty and not being processed.
Dequeue(w) ==
  /\ wpc[w] = "idle"
  /\ \E p \in dirty \ Processing :
       /\ dirty' = dirty \ {p}
       /\ wk' = [wk EXCEPT ![w] = p]
  /\ wpc' = [wpc EXCEPT ![w] = "get"]
  /\ UNCHANGED <<pkg, od, odAvail, copy, requeue, lastErr, faults, envWrites>>

\* Done, with AddRateLimited or AddAfter when the reconcile asked for it.
Finish(w) ==
  /\ wpc[w] = "done"
  /\ dirty' = IF requeue[w] THEN dirty \cup {wk[w]} ELSE dirty
  /\ wk' = [wk EXCEPT ![w] = NoKey]
  /\ wpc' = [wpc EXCEPT ![w] = "idle"]
  /\ copy' = [copy EXCEPT ![w] = NoCopy]
  /\ requeue' = [requeue EXCEPT ![w] = FALSE]
  /\ lastErr' = [lastErr EXCEPT ![w] = "none"]
  /\ UNCHANGED <<pkg, od, odAvail, faults, envWrites>>

-----------------------------------------------------------------------------
(***************************************************************************)
(* Reconcile.                                                              *)
(***************************************************************************)

\* Get: NotFound ends the reconcile with nil; a deleting package goes to
\* handleDeletion, any other to the chain.
GetPackage(w) ==
  LET p == wk[w] IN
  /\ wpc[w] = "get"
  /\ \/ /\ pkg[p].st = "absent"
        /\ Return(w, "none", FALSE)
        /\ UNCHANGED copy
     \/ /\ pkg[p].st # "absent"
        /\ copy' = [copy EXCEPT ![w] = pkg[p]]
        /\ wpc' = [wpc EXCEPT ![w] = IF pkg[p].st = "deleting"
                                     THEN "finalizer" ELSE "unpack"]
        /\ UNCHANGED <<requeue, lastErr>>
  /\ UNCHANGED <<pkg, od, odAvail, dirty, wk, faults, envWrites>>

\* A write carrying the copy's resourceVersion is refused when the package
\* is gone (NotFound) or has changed since the copy was read (Conflict).
WriteAccepted(p, c) == pkg[p].st # "absent" /\ pkg[p].ver = c.ver
Refusal(p) == IF pkg[p].st = "absent" THEN "NotFound" ELSE "Conflict"

\* RemoveFinalizer: nothing to do without the loader-job finalizer; else a
\* merge patch of the finalizers, with the copy's resourceVersion, whose
\* answer replaces the copy.  Removing the last finalizer of a deleting
\* package removes it.
RemoveLoaderFinalizer(w) ==
  LET p == wk[w]
      o == AfterFinalizers(pkg[p], copy[w].fins \ {"loader"})
  IN
  /\ wpc[w] = "finalizer"
  /\ \/ /\ "loader" \notin copy[w].fins
        /\ wpc' = [wpc EXCEPT ![w] = "update"]
        /\ UNCHANGED <<pkg, dirty, copy, requeue, lastErr>>
     \/ /\ "loader" \in copy[w].fins
        /\ ~WriteAccepted(p, copy[w])
        /\ Return(w, Refusal(p), FALSE)
        /\ UNCHANGED <<pkg, dirty, copy>>
     \/ /\ "loader" \in copy[w].fins
        /\ WriteAccepted(p, copy[w])
        /\ pkg' = [pkg EXCEPT ![p] = o]
        /\ dirty' = dirty \cup {p}
        /\ copy' = [copy EXCEPT ![w] = o]
        /\ wpc' = [wpc EXCEPT ![w] = "update"]
        /\ UNCHANGED <<requeue, lastErr>>
  /\ UNCHANGED <<od, odAvail, wk, faults, envWrites>>

\* handleDeletion's Update of the copy: refused, or, changing nothing,
\* accepted without a write.
UpdateAfterDeletion(w) ==
  LET p == wk[w] IN
  /\ wpc[w] = "update"
  /\ Return(w, IF WriteAccepted(p, copy[w]) THEN "none" ELSE Refusal(p), FALSE)
  /\ UNCHANGED <<pkg, od, odAvail, dirty, wk, copy, faults, envWrites>>

\* The unpack reconciler: the package deployer applies the
\* ObjectDeployment and the Unpacked condition is set on the copy; or it
\* asks to be requeued (the image is still being pulled), which ends the
\* chain with a non-empty result and a nil error, so updateStatus still runs.
Unpack(w) ==
  LET p == wk[w] IN
  /\ wpc[w] = "unpack"
  /\ \/ /\ copy' = [copy EXCEPT ![w].status.unpacked = TRUE]
        /\ od' = [od EXCEPT ![p] = TRUE]
        /\ dirty' = IF od[p] THEN dirty ELSE dirty \cup {p}
        /\ wpc' = [wpc EXCEPT ![w] = "odstatus"]
        /\ UNCHANGED <<requeue, faults>>
     \/ /\ faults < MaxFaults
        /\ faults' = faults + 1
        /\ requeue' = [requeue EXCEPT ![w] = TRUE]
        /\ wpc' = [wpc EXCEPT ![w] = "status"]
        /\ UNCHANGED <<od, dirty, copy>>
  /\ UNCHANGED <<pkg, odAvail, wk, lastErr, envWrites>>

\* Mutant: the condition is left as the Get read it.
ObjectDeploymentStatusKeepsCondition(w) ==
  /\ wpc[w] = "odstatus"
  /\ wpc' = [wpc EXCEPT ![w] = "status"]
  /\ UNCHANGED <<pkg, od, odAvail, dirty, wk, copy, requeue, lastErr, faults,
                 envWrites>>

\* The ObjectDeployment status reconciler copies its Available condition.
ObjectDeploymentStatus(w) ==
  LET p == wk[w] IN
  /\ wpc[w] = "odstatus"
  /\ copy' = [copy EXCEPT ![w].status.avail = od[p] /\ odAvail[p]]
  /\ wpc' = [wpc EXCEPT ![w] = "status"]
  /\ UNCHANGED <<pkg, od, odAvail, dirty, wk, requeue, lastErr, faults,
                 envWrites>>

\* Mutant: the status is written without the resourceVersion precondition.
StatusUpdateWithoutVersion(p, c) == pkg[p].st # "absent"

\* Status().Update carries the copy's resourceVersion too.
StatusUpdateAccepted(p, c) == WriteAccepted(p, c)

\* updateStatus: UpdatePhase, then Status().Update; Reconcile returns the
\* chain's result (requeue[w]) with the error of the write.
UpdateStatus(w) ==
  LET p == wk[w]
      s == UpdatePhase(copy[w].status)
  IN
  /\ wpc[w] = "status"
  /\ \/ /\ ~StatusUpdateAccepted(p, copy[w])
        /\ Return(w, Refusal(p), requeue[w])
        /\ UNCHANGED <<pkg, dirty>>
     \/ /\ StatusUpdateAccepted(p, copy[w])
        /\ s = pkg[p].status
        /\ Return(w, "none", requeue[w])
        /\ UNCHANGED <<pkg, dirty>>
     \/ /\ StatusUpdateAccepted(p, copy[w])
        /\ s # pkg[p].status
        /\ pkg' = [pkg EXCEPT ![p].status = s, ![p].ver = @ + 1]
        /\ dirty' = dirty \cup {p}
        /\ Return(w, "none", requeue[w])
  /\ UNCHANGED <<od, odAvail, wk, copy, faults, envWrites>>

\* Any request of the reconcile fails with a transient error.
RequestFails(w) ==
  /\ wpc[w] \in {"get", "finalizer", "update", "odstatus", "status"}
  /\ Fault(w)
  /\ UNCHANGED <<pkg, od, odAvail, dirty, wk, copy, envWrites>>

-----------------------------------------------------------------------------
(***************************************************************************)
(* The environment: users and the other controllers.                       *)
(***************************************************************************)

EnvWrite ==
  /\ envWrites < MaxEnvWrites
  /\ envWrites' = envWrites + 1

\* A user deletes a live package.
UserDeletes(p) ==
  /\ pkg[p].st = "live"
  /\ EnvWrite
  /\ pkg' = [pkg EXCEPT ![p].ver = @ + 1,
                        ![p].st = IF pkg[p].fins = {} THEN "absent"
                                  ELSE "deleting"]
  /\ dirty' = dirty \cup {p}
  /\ UNCHANGED <<od, odAvail, workerVars, faults>>

\* Another controller drops its finalizer.
OtherFinalizerRemoved(p) ==
  /\ pkg[p].st # "absent"
  /\ "other" \in pkg[p].fins
  /\ EnvWrite
  /\ pkg' = [pkg EXCEPT ![p] = AfterFinalizers(@, @.fins \ {"other"})]
  /\ dirty' = dirty \cup {p}
  /\ UNCHANGED <<od, odAvail, workerVars, faults>>

\* The ObjectDeployment controller reports a new availability.
ObjectDeploymentChanges(p) ==
  /\ od[p]
  /\ EnvWrite
  /\ odAvail' = [odAvail EXCEPT ![p] = ~@]
  /\ dirty' = dirty \cup {p}
  /\ UNCHANGED <<pkg, od, workerVars, faults>>

\* The garbage collector removes the ObjectDeployment of a removed package.
CollectObjectDeployment(p) ==
  /\ pkg[p].st = "absent"
  /\ od[p]
  /\ od' = [od EXCEPT ![p] = FALSE]
  /\ odAvail' = [odAvail EXCEPT ![p] = FALSE]
  /\ dirty' = dirty \cup {p}
  /\ UNCHANGED <<pkg, workerVars, faults, envWrites>>

-----------------------------------------------------------------------------

WorkerStep(w) ==
  \/ Dequeue(w) \/ Finish(w) \/ GetPackage(w) \/ RemoveLoaderFinalizer(w)
  \/ UpdateAfterDeletion(w) \/ Unpack(w) \/ ObjectDeploymentStatus(w)
  \/ UpdateStatus(w)

Next ==
  \/ \E w \in Workers : WorkerStep(w) \/ RequestFails(w)
  \/ \E p \in Pkgs : \/ UserDeletes(p) \/ OtherFinalizerRemoved(p)
                     \/ ObjectDeploymentChanges(p)
                     \/ CollectObjectDeployment(p)

\* Every worker goroutine keeps processing; the garbage collector runs.
\* Users, other controllers and faults need not act.
Fairness ==
  /\ \A w \in Workers : WF_vars(WorkerStep(w))
  /\ \A p \in Pkgs : WF_vars(CollectObjectDeployment(p))

Spec == Init /\ [][Next]_vars /\ Fairness

-----------------------------------------------------------------------------
(***************************************************************************)
(* Properties.                                                             *)
(***************************************************************************)

TypeOK ==
  /\ pkg \in [Pkgs -> Objects]
  /\ od \in [Pkgs -> BOOLEAN] /\ odAvail \in [Pkgs -> BOOLEAN]
  /\ dirty \subseteq Pkgs
  /\ wk \in [Workers -> Pkgs \cup {NoKey}]
  /\ wpc \in [Workers -> Steps]
  /\ copy \in [Workers -> Objects]
  /\ requeue \in [Workers -> BOOLEAN]
  /\ lastErr \in [Workers -> {"none", "NotFound", "Conflict", "transport"}]
  /\ faults \in 0..MaxFaults /\ envWrites \in 0..MaxEnvWrites

\* The status of a package in deletion is never changed: a worker that read
\* the package before its deletion and runs the forward chain on that copy
\* must not get its status written (spec 3: an object in deletion never
\* re-enters the forward reconciliation).
DeletingStatusFrozen ==
  [][\A p \in Pkgs : pkg[p].st = "deleting" /\ pkg'[p].st = "deleting"
                       => pkg'[p].status = pkg[p].status]_vars

\* A package in deletion whose only finalizers are the controller's own is
\* eventually removed from the store.
DeletionCompletes ==
  \A p \in Pkgs :
    (pkg[p].st = "deleting" /\ pkg[p].fins \subseteq {"loader"})
      ~> pkg[p].st = "absent"

\* Once users and other controllers stop writing, the status of every live
\* package ends up Unpacked, with the phase of its ObjectDeployment's
\* availability.
StatusConverges ==
  <>[](\A p \in Pkgs :
         pkg[p].st = "live" =>
           pkg[p].status = UpdatePhase([unpacked |-> TRUE,
                                        avail |-> odAvail[p],
                                        phase |-> "Unpacking"]))

\* The spec (7) says NotFound is absorbed as "nothing to do" on the
\* deletion path of a reconcile.
DeletionAbsorbsNotFound ==
  \A w \in Workers : copy[w].st # "live" => lastErr[w] # "NotFound"

=============================================================================
