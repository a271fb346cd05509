--------------------------- MODULE RevisionRepair ---------------------------
(***************************************************************************)
(* The repair of missing revision numbers that the bootstrap Job runs on   *)
(* the self-managed instance's ClusterObjectSets before it pushes a new    *)
(* image: fixMissingRevisionNumbers and highestRevisionNumber of           *)
(* cmd/package-operator-manager/bootstrap.go.                              *)
(*                                                                         *)
(* A crash of the rollout logic between creating a ClusterObjectSet and    *)
(* writing its status leaves it Pending with revision 0.  The repair lists *)
(* every ClusterObjectSet of the instance (one snapshot, cosByName), and   *)
(* patches each "stuck" one (revision 0, non-empty spec.previous, phase    *)
(* Pending) with 1 + the highest revision among its previous sets.         *)
(*                                                                         *)
(* ClusterObjectSets are named 1..N in creation order, so spec.previous of *)
(* set n lists sets created before n.  The store keeps, per set, the       *)
(* status fields the repair reads and writes (revision, phase), the        *)
(* conditions the in-cluster ObjectSet controller keeps writing (cond, a   *)
(* counter of its writes) and the resourceVersion (ver).  A Patch with     *)
(* client.Merge serialises the whole in-memory object, resourceVersion     *)
(* included, so the API server refuses it with Conflict when the object    *)
(* changed since the List.                                                 *)
(***************************************************************************)
EXTENDS Naturals, FiniteSets, Sequences, SequencesExt

CONSTANTS
  N,            \* ClusterObjectSets ever created, named 1..N in creation order
  MaxRev,       \* largest revision number assigned before the repair runs
  Crashes,      \* sets whose creation crashed before a revision was assigned
  Collected,    \* sets deleted (revision history limit) before the repair runs
  Stacked,      \* may a rollout be created on top of a still-stuck set?
  MaxFaults,    \* bound on transient API errors (List, Patch)
  MaxEnvWrites  \* bound on status writes of the in-cluster ObjectSet controller

ASSUME NAssumption == N \in Nat \ {0}
ASSUME MaxRevAssumption == MaxRev \in Nat
ASSUME CrashesAssumption == Crashes \subseteq 1..N /\ Collected \subseteq 1..N
ASSUME BoundsAssumption ==
  /\ Stacked \in BOOLEAN
  /\ MaxFaults \in Nat
  /\ MaxEnvWrites \in Nat

Names == 1..N

Phases == {"Pending", "Available", "Archived"}

\* The status and metadata the repair reads and writes, of one ClusterObjectSet.
CosRecords == [rev : Nat, phase : Phases, cond : Nat, ver : Nat]

VARIABLES
  present,   \* ClusterObjectSets the store holds
  prev,      \* prev[n]: spec.previous of n (immutable)
  cos,       \* cos[n]: status and resourceVersion of n in the store
  rpc,       \* where fixMissingRevisionNumbers is: "list", "loop", "done",
             \* "failed" (error returned) or "panicked" (nil dereference)
  snap,      \* clusterObjectSetList.Items, in list order (names)
  mem,       \* cosByName: the listed objects as the process holds them
  idx,       \* the loop index over the listed items
  faults,    \* transient API errors so far
  envWrites  \* status writes of the in-cluster ObjectSet controller so far

storeVars == <<present, prev, cos>>
repairVars == <<rpc, snap, mem, idx>>
vars == <<present, prev, cos, rpc, snap, mem, idx, faults, envWrites>>

(***************************************************************************)
(* The states the rollout logic leaves behind.  Revisions are assigned in  *)
(* creation order, so assigned revisions grow with the name; a crashed set *)
(* has revision 0 and is Pending; spec.previous of every set but the first *)
(* names at least one earlier set; unless Stacked, no rollout was created  *)
(* on top of a crashed set.  Collected sets are gone from the store.       *)
(***************************************************************************)
Assigned == Names \ Crashes

InitialGraph(p) ==
  /\ p[1] = {}
  /\ \A n \in Names \ {1} : p[n] # {} /\ p[n] \subseteq 1..(n - 1)
  /\ ~Stacked => \A n \in Names : p[n] \cap Crashes = {}

InitialStatus(c) ==
  /\ \A n \in Crashes : c[n].rev = 0 /\ c[n].phase = "Pending"
  /\ \A n \in Assigned : c[n].rev \in 1..MaxRev
  /\ \A n, m \in Assigned : n < m => c[n].rev < c[m].rev
  /\ \A n \in Names : c[n].cond = 0 /\ c[n].ver = 0

Init ==
  /\ present = Names \ Collected
  /\ prev \in {p \in [Names -> SUBSET Names] : InitialGraph(p)}
  /\ cos \in {c \in [Names -> [rev : 0..MaxRev, phase : Phases,
                                cond : {0}, ver : {0}]] : InitialStatus(c)}
  /\ rpc = "list"
  /\ snap = <<>>
  /\ mem = [n \in {} |-> 0]
  /\ idx = 1
  /\ faults = 0
  /\ envWrites = 0

-----------------------------------------------------------------------------
(***************************************************************************)
(* Helpers of the loop.                                                    *)
(***************************************************************************)

\* The "looks stuck" test of the loop, on the in-memory copy.
Stuck(n) ==
  /\ mem[n].rev = 0
  /\ prev[n] # {}
  /\ mem[n].phase = "Pending"

\* highestRevisionNumber: the largest revision among revs, 0 when empty.
HighestRevisionNumber(revs) ==
  CHOOSE m \in revs \cup {0} : \A r \in revs : r <= m

\* Mutant: the new revision is the highest previous one, without the + 1.
RepairedRevisionNoIncrement(n) ==
  HighestRevisionNumber({mem[p].rev : p \in prev[n]})

\* The revision the loop assigns to n.  Defined when every previous set of n
\* is in cosByName.
RepairedRevision(n) ==
  HighestRevisionNumber({mem[p].rev : p \in prev[n]}) + 1

\* The item the loop is at.
Current == snap[idx]

\* Mutant: a patch without the resourceVersion precondition (client.MergeFrom).
PatchAcceptedWithoutVersion(n, obj) == TRUE

\* Mutant: the object was read from a cache that never saw a later write.
PatchAcceptedCachedVersion(n, obj) == cos[n].ver = 0

\* Status().Patch(cos, client.Merge): the whole in-memory object, whose
\* resourceVersion is a precondition.  TRUE when the store accepts it.
PatchAccepted(n, obj) == cos[n].ver = obj.ver

-----------------------------------------------------------------------------
(***************************************************************************)
(* The steps of fixMissingRevisionNumbers.                                 *)
(***************************************************************************)

\* Mutant: the loop starts one before the first item.
ListFromZero ==
  /\ rpc = "list"
  /\ \E s \in SetToSeqs(present) : snap' = s
  /\ mem' = [n \in present |-> cos[n]]
  /\ rpc' = "loop"
  /\ idx' = 0
  /\ UNCHANGED <<storeVars, faults, envWrites>>

\* client.List succeeds: the snapshot, in the store's (name) order, and
\* cosByName built from it.
List ==
  /\ rpc = "list"
  /\ \E s \in SetToSeqs(present) : snap' = s
  /\ mem' = [n \in present |-> cos[n]]
  /\ rpc' = "loop"
  /\ idx' = 1
  /\ UNCHANGED <<storeVars, faults, envWrites>>

\* client.List fails: the error is returned.
ListFails ==
  /\ rpc = "list"
  /\ faults < MaxFaults
  /\ faults' = faults + 1
  /\ rpc' = "failed"
  /\ UNCHANGED <<storeVars, snap, mem, idx, envWrites>>

\* An item that does not look stuck is left alone.
SkipItem ==
  /\ rpc = "loop"
  /\ idx <= Len(snap)
  /\ ~Stuck(Current)
  /\ idx' = idx + 1
  /\ UNCHANGED <<storeVars, rpc, snap, mem, faults, envWrites>>

\* A stuck item one of whose previous sets is not in cosByName:
\* cosByName[prev.Name] is nil and reading its Status panics.
PanicOnMissingPrevious ==
  /\ rpc = "loop"
  /\ idx <= Len(snap)
  /\ Stuck(Current)
  /\ ~(prev[Current] \subseteq DOMAIN mem)
  /\ rpc' = "panicked"
  /\ UNCHANGED <<storeVars, snap, mem, idx, faults, envWrites>>

\* A stuck item gets its revision in memory, then the patch is accepted.
PatchRevision ==
  /\ rpc = "loop"
  /\ idx <= Len(snap)
  /\ Stuck(Current)
  /\ prev[Current] \subseteq DOMAIN mem
  /\ LET obj == [mem[Current] EXCEPT !.rev = RepairedRevision(Current)]
     IN  /\ PatchAccepted(Current, obj)
         /\ mem' = [mem EXCEPT ![Current] = obj]
         /\ cos' = [cos EXCEPT ![Current] = [obj EXCEPT !.ver = @ + 1]]
  /\ idx' = idx + 1
  /\ UNCHANGED <<present, prev, rpc, snap, faults, envWrites>>

\* The patch is refused (Conflict on a stale resourceVersion, or a transient
\* error): the error is returned.
PatchFails ==
  /\ rpc = "loop"
  /\ idx <= Len(snap)
  /\ Stuck(Current)
  /\ prev[Current] \subseteq DOMAIN mem
  /\ LET obj == [mem[Current] EXCEPT !.rev = RepairedRevision(Current)]
     IN  /\ mem' = [mem EXCEPT ![Current] = obj]
         /\ \/ /\ ~PatchAccepted(Current, obj)
               /\ UNCHANGED faults
            \/ /\ faults < MaxFaults
               /\ faults' = faults + 1
  /\ rpc' = "failed"
  /\ UNCHANGED <<storeVars, snap, idx, envWrites>>

\* Mutant: the loop stops before the last item.
FinishOneEarly ==
  /\ rpc = "loop"
  /\ idx >= Len(snap)
  /\ rpc' = "done"
  /\ UNCHANGED <<storeVars, snap, mem, idx, faults, envWrites>>

\* Every item visited: nil is returned.
Finish ==
  /\ rpc = "loop"
  /\ idx > Len(snap)
  /\ rpc' = "done"
  /\ UNCHANGED <<storeVars, snap, mem, idx, faults, envWrites>>

-----------------------------------------------------------------------------
(***************************************************************************)
(* The environment.                                                        *)
(***************************************************************************)

\* The bootstrap Job runs again: after an error or a panic the Job restarts
\* the process, and every later install or upgrade runs a new Job.
Rerun ==
  /\ rpc \in {"done", "failed", "panicked"}
  /\ rpc' = "list"
  /\ snap' = <<>>
  /\ mem' = [n \in {} |-> 0]
  /\ idx' = 1
  /\ UNCHANGED <<storeVars, faults, envWrites>>

\* The in-cluster ObjectSet controller updates the conditions of n.
ObjectSetStatusWrite(n) ==
  /\ envWrites < MaxEnvWrites
  /\ envWrites' = envWrites + 1
  /\ cos' = [cos EXCEPT ![n].cond = @ + 1, ![n].ver = @ + 1]
  /\ UNCHANGED <<present, prev, repairVars, faults>>

RepairStep ==
  \/ List \/ ListFails \/ SkipItem \/ PanicOnMissingPrevious
  \/ PatchRevision \/ PatchFails \/ Finish

Next ==
  \/ RepairStep
  \/ Rerun
  \/ \E n \in present : ObjectSetStatusWrite(n)

\* The process runs its steps, and the Job restarts a failed process.  The
\* in-cluster controller need not write at all.
Fairness == WF_vars(RepairStep) /\ WF_vars(Rerun)

Spec == Init /\ [][Next]_vars /\ Fairness

-----------------------------------------------------------------------------
(***************************************************************************)
(* Properties.                                                             *)
(***************************************************************************)

TypeOK ==
  /\ present \subseteq Names
  /\ prev \in [Names -> SUBSET Names]
  /\ cos \in [Names -> CosRecords]
  /\ rpc \in {"list", "loop", "done", "failed", "panicked"}
  /\ snap \in Seq(Names)
  /\ DOMAIN mem \subseteq Names
  /\ \A n \in DOMAIN mem : mem[n] \in CosRecords
  /\ idx \in Nat \ {0}
  /\ faults \in 0..MaxFaults
  /\ envWrites \in 0..MaxEnvWrites

\* Revision numbers strictly increase along spec.previous (spec section 3),
\* among the sets that have one, at every moment of the repair.
RevisionsIncrease ==
  \A n \in present : \A p \in prev[n] \cap present :
    cos[n].rev # 0 => cos[n].rev > cos[p].rev

\* Once a repair run has completed, no set with previous sets is left at
\* revision 0.
RepairLeavesNoneStuck ==
  rpc = "done" => \A n \in present : prev[n] # {} => cos[n].rev # 0

\* The repair never rolls back conditions that the in-cluster ObjectSet
\* controller wrote after the List: its patches carry the listed
\* resourceVersion, so a stale patch is refused.
ConditionsNeverRolledBack ==
  [][\A n \in Names : cos'[n].cond >= cos[n].cond]_vars

\* If every previous set of a crashed set is still in the store, the Job
\* eventually completes a repair run.
RepairCompletesWhenHistoryKept ==
  (\A n \in Crashes \cap present : prev[n] \subseteq present)
    => <>(rpc = "done")

\* The spec (4.2) says a previous set missing from the snapshot counts as
\* revision 0, so that the Job, retried as often as it fails, eventually
\* completes the repair.
RepairEventuallyCompletes == <>(rpc = "done")

=============================================================================
