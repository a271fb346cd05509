--------------------------- MODULE BootstrapProofs ---------------------------
(***************************************************************************)
(* Proofs about Bootstrap, for every value of the constants: the type     *)
(* invariant, the forced cleanup cascade leaving nothing behind, and,      *)
(* while the Deployment does not recover by itself, the result Bootstrap   *)
(* returns.                                                                *)
(***************************************************************************)
EXTENDS Bootstrap, FiniteSetTheorems, SequenceTheorems, TLAPS

Cascade == {"delete", "strip", "verify"}

\* While an object is handled, the list is not empty and the cascade holds
\* a copy of every object still on it.
TodoHeld ==
  pc \in Cascade =>
    /\ todo # <<>>
    /\ \A k \in 1..Len(todo) : todo[k] \in DOMAIN held

\* The kinds the cascade has finished with are gone from the store.
EarlierKindsGone ==
  pc \in Cascade \cup {"list"} =>
    \A i \in 1..(stage - 1) : \A o \in Kind(i) : store[o].st = "absent"

\* Every object of the current kind is gone or still on the list.
KindCovered ==
  pc \in Cascade =>
    \A o \in Kind(stage) :
      store[o].st = "absent" \/ \E k \in 1..Len(todo) : todo[k] = o

\* After the cascade, the run is on its way out and the store is empty.
NukedState ==
  nuked =>
    /\ pc \in {"repair", "update", "failed"}
    /\ \A o \in Objs : store[o].st = "absent"

\* The inductive invariant behind NukeLeavesNothing.
NukeInv == TypeOK /\ TodoHeld /\ EarlierKindsGone /\ KindCovered /\ NukedState

-----------------------------------------------------------------------------
(***************************************************************************)
(* Lemmas about the operators of the model.                                *)
(***************************************************************************)

LEMMA ObjsFinite == IsFiniteSet(Objs)
<1>1. IsFiniteSet({Pkg})
  BY FS_Singleton
<1>2. QED
  BY <1>1, FiniteAssumption, FS_Union DEF Objs

LEMMA KindObjs == \A i \in 1..3 : Kind(i) \subseteq Objs
BY DEF Kind, Objs

\* The objects of the three kinds are all the objects.
LEMMA KindsCoverObjs ==
  \A o \in Objs : o \in Kind(1) \/ o \in Kind(2) \/ o \in Kind(3)
BY DEF Kind, Objs

\* A List of a set of objects, in any order, is a sequence of exactly them.
LEMMA ListedTodo ==
  ASSUME NEW S \in SUBSET Objs, NEW s \in SetToSeqs(S)
  PROVE  /\ s \in Seq(Objs)
         /\ \A k \in 1..Len(s) : s[k] \in S
         /\ \A o \in S : \E k \in 1..Len(s) : s[k] = o
         /\ S # {} => s # <<>>
<1> DEFINE C == Cardinality(S)
<1>1. IsFiniteSet(S) /\ C \in Nat
  BY ObjsFinite, FS_Subset, FS_CardinalityType
<1>2. s \in Injection(1..C, S)
  BY DEF SetToSeqs, Injection, IsInjective
<1>3. Cardinality(1..C) = C
  BY <1>1, FS_Interval
<1>4. s \in Surjection(1..C, S)
  BY <1>1, <1>2, <1>3, FS_Injection
<1>5. Len(s) = C /\ s \in Seq(Objs)
  BY <1>1, <1>2 DEF Injection
<1>6. S # {} => C # 0
  BY <1>1, FS_EmptySet
<1>7. QED
  BY <1>4, <1>5, <1>6 DEF Surjection

\* What the cascade's step to the next item takes from the list.
LEMMA TailFacts ==
  ASSUME NEW S, NEW s \in Seq(S), s # <<>>
  PROVE  /\ Len(s) \in Nat \ {0}
         /\ Tail(s) \in Seq(S)
         /\ Len(Tail(s)) = Len(s) - 1
         /\ \A i \in 1..Len(Tail(s)) : Tail(s)[i] = s[i + 1]
         /\ Tail(s) = <<>> <=> Len(s) = 1
<1>1. /\ Len(s) \in Nat \ {0}
      /\ Tail(s) \in Seq(S)
      /\ Len(Tail(s)) = Len(s) - 1
      /\ \A i \in 1..Len(Tail(s)) : Tail(s)[i] = s[i + 1]
  BY HeadTailProperties, EmptySeq
<1>2. Tail(s) = <<>> <=> Len(Tail(s)) = 0
  BY <1>1, EmptySeq
<1>3. QED
  BY <1>1, <1>2

\* Delete leaves a record a record.
LEMMA DeletedRecord ==
  ASSUME NEW r \in Records
  PROVE  Deleted(r) \in Records
<1>1. CASE r.st = "live" /\ r.fin
  <2>1. Deleted(r) = [r EXCEPT !.st = "deleting", !.ver = @ + 1]
    BY <1>1 DEF Deleted
  <2>2. r = [st |-> r.st, fin |-> r.fin, ver |-> r.ver]
    BY DEF Records
  <2>3. Deleted(r) = [st |-> "deleting", fin |-> r.fin, ver |-> r.ver + 1]
    BY <2>1, <2>2
  <2>4. QED
    BY <2>3 DEF Records, ObjStates
<1>2. CASE r.st = "live" /\ ~r.fin
  <2>1. Deleted(r) = [r EXCEPT !.st = "absent"]
    BY <1>2 DEF Deleted
  <2>2. QED
    BY <2>1 DEF Records, ObjStates
<1>3. CASE r.st # "live"
  <2>1. Deleted(r) = r
    BY <1>3 DEF Deleted
  <2>2. QED
    BY <2>1
<1>4. QED
  BY <1>1, <1>2, <1>3

\* A write of one object: every other object is left as it is, and an
\* object that was gone stays gone unless the write is a create.
LEMMA WriteOne ==
  ASSUME NEW s \in [Objs -> Records], NEW x \in Objs, NEW v \in Records
  PROVE  /\ [s EXCEPT ![x] = v] \in [Objs -> Records]
         /\ [s EXCEPT ![x] = v][x] = v
         /\ \A o \in Objs \ {x} : [s EXCEPT ![x] = v][o] = s[o]
         /\ s[x].st # "absent" \/ v.st = "absent" =>
              \A o \in Objs : s[o].st = "absent" =>
                              [s EXCEPT ![x] = v][o].st = "absent"
BY DEF Records

\* The writes of the manager and of the in-cluster controller to the
\* package keep it a record in the same state.
LEMMA BumpRecord ==
  ASSUME NEW r \in Records
  PROVE  /\ [r EXCEPT !.fin = TRUE, !.ver = @ + 1] \in Records
         /\ [r EXCEPT !.fin = TRUE, !.ver = @ + 1].st = r.st
         /\ [r EXCEPT !.ver = @ + 1] \in Records
         /\ [r EXCEPT !.ver = @ + 1].st = r.st
<1>1. [r EXCEPT !.fin = TRUE] \in Records
  BY DEF Records
<1>2. \A q \in Records : [q EXCEPT !.ver = @ + 1] \in Records
  BY DEF Records
<1>3. [r EXCEPT !.fin = TRUE, !.ver = @ + 1]
        = [[r EXCEPT !.fin = TRUE] EXCEPT !.ver = @ + 1]
  OBVIOUS
<1>4. [r EXCEPT !.fin = TRUE, !.ver = @ + 1].st = r.st
      /\ [r EXCEPT !.ver = @ + 1].st = r.st
  BY DEF Records
<1>5. QED
  BY <1>1, <1>2, <1>3, <1>4

\* When the last item of a kind is verified gone, the whole kind is gone.
LEMMA LastOfKindGone ==
  ASSUME NukeInv, pc = "verify", store[Item].st = "absent",
         Tail(todo) = <<>>
  PROVE  \A o \in Kind(stage) : store[o].st = "absent"
<1>1. todo # <<>> /\ todo \in Seq(Objs)
  BY DEF NukeInv, TodoHeld, TypeOK, Cascade
<1>2. Len(todo) = 1
  BY <1>1, TailFacts
<1>3. \A k \in 1..Len(todo) : todo[k] = Item
  <2>1. Item = todo[1]
    BY <1>1 DEF Item
  <2>2. \A k \in 1..Len(todo) : k = 1
    BY <1>2
  <2>3. QED
    BY <2>1, <2>2
<1>4. QED
  BY <1>3 DEF NukeInv, KindCovered, Cascade

\* After the third kind, nothing the cascade deletes is left.
LEMMA AllKindsGone ==
  ASSUME NEW st \in [Objs -> Records],
         \A i \in 1..2 : \A o \in Kind(i) : st[o].st = "absent",
         \A o \in Kind(3) : st[o].st = "absent"
  PROVE  \A o \in Objs : st[o].st = "absent"
<1>1. \A o \in Kind(1) \cup Kind(2) : st[o].st = "absent"
  BY 1 \in 1..2, 2 \in 1..2
<1>2. QED
  BY <1>1, KindsCoverObjs

-----------------------------------------------------------------------------
(***************************************************************************)
(* NukeInv is inductive.                                                   *)
(***************************************************************************)

LEMMA NukeInitial == Init => NukeInv
<1> SUFFICES ASSUME Init PROVE NukeInv
  OBVIOUS
<1>1. /\ avail \in BOOLEAN /\ image = "old" /\ deploy \in DeployStates
      /\ crds \in BOOLEAN /\ pc = "get" /\ branch = "none"
      /\ mine = [fin |-> FALSE, ver |-> 0] /\ stage = 1 /\ todo = <<>>
      /\ poll = "idle" /\ nuked = FALSE
      /\ faults = 0 /\ envWrites = 0 /\ lastErr = "none"
  BY Zenon DEF Init
<1>4. DOMAIN held = {}
  <2>1. held = [o \in {} |-> mine]
    BY Zenon DEF Init
  <2>2. QED
    BY <2>1, Zenon
<1>2. TypeOK
  <2>1. store \in [Objs -> Records]
    BY DEF Init, Records, ObjStates
  <2>2. todo \in Seq(Objs) /\ DOMAIN held = {}
    BY <1>1, <1>4
  <2>3. mine \in Copies /\ faults \in 0..MaxFaults
        /\ envWrites \in 0..MaxEnvWrites
    BY <1>1, BoundsAssumption DEF Copies
  <2>4. DOMAIN held \subseteq Objs /\ \A o \in DOMAIN held : held[o] \in Copies
    BY <2>2
  <2>5. /\ avail \in BOOLEAN /\ image \in {"old", "new"}
        /\ deploy \in DeployStates /\ crds \in BOOLEAN
    BY <1>1
  <2>6. pc = "get" /\ lastErr = "none"
    BY <1>1
  <2>7. pc \in Pcs /\ lastErr \in Errors
    BY <2>6 DEF Pcs, Errors
  <2>8. /\ branch \in {"none", "update", "self"}
        /\ poll \in {"idle", "polling", "cancelled"} /\ nuked \in BOOLEAN
    BY <1>1
  <2>10. stage \in 1..3
    BY <1>1, SMT
  <2>9. QED
    BY <2>1, <2>2, <2>3, <2>4, <2>5, <2>7, <2>8, <2>10 DEF TypeOK
<1>3. QED
  BY <1>1, <1>2, <1>4 DEF NukeInv, TodoHeld, EarlierKindsGone, KindCovered,
     NukedState, Cascade

\* A step that writes no object back to life and leaves the cascade where
\* it is (or moves it from one request on the current item to the next)
\* keeps the cascade's conjuncts.
LEMMA CascadeKept ==
  ASSUME NukeInv, store' \in [Objs -> Records],
         \A o \in Objs : store[o].st = "absent" => store'[o].st = "absent",
         pc' = pc \/ (pc \in Cascade /\ pc' \in Cascade),
         stage' = stage, todo' = todo, DOMAIN held' = DOMAIN held,
         nuked' = nuked
  PROVE  TodoHeld' /\ EarlierKindsGone' /\ KindCovered' /\ NukedState'
<1>1. TodoHeld'
  BY DEF NukeInv, TodoHeld, Cascade
<1>2. EarlierKindsGone'
  <2>1. ASSUME pc' \in Cascade \cup {"list"}
        PROVE  pc \in Cascade \cup {"list"}
    BY <2>1 DEF Cascade
  <2>2. \A i \in 1..(stage - 1) : Kind(i) \subseteq Objs
    BY KindObjs DEF NukeInv, TypeOK
  <2>3. QED
    BY <2>1, <2>2 DEF NukeInv, EarlierKindsGone
<1>3. KindCovered'
  <2>1. Kind(stage) \subseteq Objs
    BY KindObjs DEF NukeInv, TypeOK
  <2>2. QED
    BY <2>1 DEF NukeInv, KindCovered, Cascade
<1>4. NukedState'
  BY DEF NukeInv, NukedState, Cascade
<1>5. QED
  BY <1>1, <1>2, <1>3, <1>4

\* A step that leaves the cascade keeps NukeInv once it keeps the type and
\* what is said of a nuked run.
LEMMA OutsideCascade ==
  ASSUME TypeOK', pc' \notin Cascade \cup {"list"}, NukedState'
  PROVE  NukeInv'
BY DEF NukeInv, TodoHeld, EarlierKindsGone, KindCovered

\* The steps of Bootstrap outside the cascade.
LEMMA StepsOutsideCascade ==
  ASSUME NukeInv,
         \/ GetInstalled \/ GetNotInstalled \/ SkipCleanup \/ Repair
         \/ LoadBundle \/ EnsureCRDs \/ SpawnPoller \/ ManagerReturns
         \/ PollFails \/ ApiFails \/ Restart
  PROVE  NukeInv'
<1> USE BoundsAssumption
<1>1. CASE GetInstalled
  <2>1. TypeOK'
    <3>1. store[Pkg] \in Records
      BY DEF NukeInv, TypeOK, Objs
    <3>2. mine' \in Copies
      BY <1>1, <3>1 DEF GetInstalled, CopyOf, Copies, Records
    <3>3. QED
      BY <1>1, <3>2 DEF GetInstalled, NukeInv, TypeOK, Pcs, storeVars
  <2>2. QED
    BY <1>1, <2>1, OutsideCascade
    DEF GetInstalled, NukeInv, NukedState, Cascade, storeVars
<1>2. CASE GetNotInstalled
  <2>1. TypeOK'
    BY <1>2 DEF GetNotInstalled, NukeInv, TypeOK, Pcs, storeVars
  <2>2. QED
    BY <1>2, <2>1, OutsideCascade
    DEF GetNotInstalled, NukeInv, NukedState, Cascade, storeVars
<1>3. CASE SkipCleanup
  <2>1. TypeOK'
    BY <1>3 DEF SkipCleanup, NukeInv, TypeOK, Pcs, storeVars
  <2>2. QED
    BY <1>3, <2>1, OutsideCascade
    DEF SkipCleanup, NukeInv, NukedState, Cascade, storeVars
<1>4. CASE Repair
  <2>1. nuked => ~RepairPanics
    BY OwnedAssumption DEF NukeInv, NukedState, RepairPanics, Objs
  <2>2. /\ pc' \in {"update", "panicked"} /\ lastErr' \in Errors
        /\ pc' = "panicked" => RepairPanics
    BY <1>4 DEF Repair, NukeInv, TypeOK, Errors
  <2>3. TypeOK'
    BY <1>4, <2>2 DEF Repair, NukeInv, TypeOK, Pcs, storeVars
  <2>4. NukedState'
    BY <1>4, <2>1, <2>2 DEF Repair, NukeInv, NukedState, storeVars
  <2>5. QED
    BY <2>2, <2>3, <2>4, OutsideCascade DEF Cascade
<1>5. CASE LoadBundle \/ EnsureCRDs \/ SpawnPoller \/ ManagerReturns
  <2>1. TypeOK'
    BY <1>5 DEF LoadBundle, EnsureCRDs, SpawnPoller, ManagerReturns,
       NukeInv, TypeOK, Pcs, storeVars
  <2>2. QED
    BY <1>5, <2>1, OutsideCascade
    DEF LoadBundle, EnsureCRDs, SpawnPoller, ManagerReturns, NukeInv,
        NukedState, Cascade, storeVars
<1>6. CASE PollFails \/ ApiFails
  <2>1. TypeOK'
    BY <1>6 DEF PollFails, ApiFails, Fail, NukeInv, TypeOK, Pcs, Errors,
       storeVars
  <2>2. QED
    BY <1>6, <2>1, OutsideCascade
    DEF PollFails, ApiFails, Fail, NukeInv, NukedState, Cascade, storeVars
<1>7. CASE Restart
  <2>1. TypeOK'
    <3>1. DOMAIN held' = {} /\ mine' = [fin |-> FALSE, ver |-> 0]
      BY <1>7, Zenon DEF Restart
    <3>3. mine' \in Copies
      BY <3>1 DEF Copies
    <3>4. /\ pc' = "get" /\ branch' = "none" /\ stage' = 1 /\ todo' = <<>>
          /\ poll' = "idle" /\ nuked' = FALSE
          /\ UNCHANGED <<storeVars, faults, envWrites, lastErr>>
      BY <1>7, Zenon DEF Restart
    <3>5. todo' \in Seq(Objs)
      BY <3>4, EmptySeq
    <3>6. DOMAIN held' \subseteq Objs
          /\ \A o \in DOMAIN held' : held'[o] \in Copies
      BY <3>1
    <3>7. /\ store' \in [Objs -> Records] /\ avail' \in BOOLEAN
          /\ image' \in {"old", "new"} /\ deploy' \in DeployStates
          /\ crds' \in BOOLEAN /\ pc' \in Pcs
          /\ branch' \in {"none", "update", "self"}
          /\ poll' \in {"idle", "polling", "cancelled"} /\ nuked' \in BOOLEAN
          /\ lastErr' \in Errors
      BY <3>4, Zenon DEF NukeInv, TypeOK, Pcs, storeVars
    <3>8. stage' \in 1..3 /\ faults' \in 0..MaxFaults
          /\ envWrites' \in 0..MaxEnvWrites
      BY <3>4, SMT DEF NukeInv, TypeOK
    <3>2. QED
      BY <3>3, <3>5, <3>6, <3>7, <3>8 DEF TypeOK
  <2>2. QED
    BY <1>7, <2>1, OutsideCascade DEF Restart, NukedState, Cascade
<1>8. QED
  BY <1>1, <1>2, <1>3, <1>4, <1>5, <1>6, <1>7

\* A step that only writes the store, the package's condition, the
\* Deployment or the count of other writers keeps the type once those do.
LEMMA EnvTypeKept ==
  ASSUME TypeOK, store' \in [Objs -> Records], avail' \in BOOLEAN,
         deploy' \in DeployStates, envWrites' \in 0..MaxEnvWrites,
         UNCHANGED <<image, crds, procVars, faults>>
  PROVE  TypeOK'
<1>1. /\ image' \in {"old", "new"} /\ crds' \in BOOLEAN /\ pc' \in Pcs
      /\ branch' \in {"none", "update", "self"} /\ mine' \in Copies
      /\ DOMAIN held' \subseteq Objs
      /\ \A o \in DOMAIN held' : held'[o] \in Copies
      /\ poll' \in {"idle", "polling", "cancelled"} /\ nuked' \in BOOLEAN
      /\ lastErr' \in Errors /\ todo' \in Seq(Objs)
  BY Zenon DEF TypeOK, procVars
<1>2. stage' \in 1..3 /\ faults' \in 0..MaxFaults
  BY DEF TypeOK, procVars
<1>3. QED
  BY <1>1, <1>2 DEF TypeOK

\* The other actors: the poller, the manager this process runs, the
\* garbage collector, the in-cluster package-operator and the Deployment.
LEMMA EnvSteps ==
  ASSUME NukeInv,
         \/ PollSeesAvailable \/ ManagerInstalls \/ StatusWrite
         \/ DeploymentRecovers
         \/ \E o \in CODs \cup COSs : GarbageCollect(o)
         \/ \E o \in Objs : FinalizeByOperator(o)
  PROVE  NukeInv'
<1> USE BoundsAssumption
<1>1. store \in [Objs -> Records] /\ Pkg \in Objs
  BY DEF NukeInv, TypeOK, Objs
<1>2. CASE PollSeesAvailable
  <2>1. TypeOK'
    BY <1>2, EnvTypeKept DEF PollSeesAvailable, NukeInv, TypeOK, procVars,
       storeVars
  <2>2. QED
    BY <1>2, <2>1, CascadeKept DEF PollSeesAvailable, NukeInv, TypeOK,
       storeVars, Cascade
<1>3. CASE ManagerInstalls \/ StatusWrite
  <2> DEFINE b == [store[Pkg] EXCEPT !.fin = TRUE, !.ver = @ + 1]
  <2>1. store' = [store EXCEPT ![Pkg] = b]
    BY <1>1, <1>3 DEF ManagerInstalls, StatusWrite, b
  <2>2. b \in Records /\ b.st = store[Pkg].st /\ store[Pkg].st = "live"
    BY <1>1, <1>3, BumpRecord DEF ManagerInstalls, StatusWrite, b
  <2>3. /\ store' \in [Objs -> Records]
        /\ \A o \in Objs : store[o].st = "absent" => store'[o].st = "absent"
    BY <1>1, <2>1, <2>2, WriteOne
  <2>4. /\ avail' \in BOOLEAN /\ deploy' \in DeployStates
        /\ UNCHANGED <<image, crds, procVars, faults>>
    BY <1>3, Zenon DEF ManagerInstalls, StatusWrite, NukeInv, TypeOK,
       DeployStates
  <2>5. envWrites' \in 0..MaxEnvWrites
    BY <1>3, SMT DEF ManagerInstalls, StatusWrite, NukeInv, TypeOK
  <2>6. TypeOK'
    BY <2>3, <2>4, <2>5, EnvTypeKept DEF NukeInv
  <2>7. QED
    BY <2>3, <2>4, <2>6, CascadeKept DEF procVars, NukeInv
<1>4. CASE DeploymentRecovers
  <2>1. TypeOK'
    BY <1>4, EnvTypeKept DEF DeploymentRecovers, NukeInv, TypeOK,
       DeployStates
  <2>2. QED
    BY <1>4, <2>1, CascadeKept DEF DeploymentRecovers, NukeInv, TypeOK,
       procVars
<1>5. CASE \E o \in CODs \cup COSs : GarbageCollect(o)
  <2>1. PICK o \in CODs \cup COSs : GarbageCollect(o)
    BY <1>5
  <2>2. o \in Objs /\ store[o].st = "live" /\ Deleted(store[o]) \in Records
    BY <1>1, <2>1, DeletedRecord DEF GarbageCollect, Objs
  <2>3. store' = [store EXCEPT ![o] = Deleted(store[o])]
    BY <2>1 DEF GarbageCollect
  <2>4. /\ store' \in [Objs -> Records]
        /\ \A x \in Objs : store[x].st = "absent" => store'[x].st = "absent"
    BY <1>1, <2>2, <2>3, WriteOne
  <2>5. TypeOK'
    BY <2>1, <2>4, EnvTypeKept DEF GarbageCollect, NukeInv, TypeOK
  <2>6. QED
    BY <2>1, <2>4, <2>5, CascadeKept DEF GarbageCollect, procVars, NukeInv
<1>6. CASE \E o \in Objs : FinalizeByOperator(o)
  <2>1. PICK o \in Objs : FinalizeByOperator(o)
    BY <1>6
  <2> DEFINE v == [st |-> "absent", fin |-> FALSE, ver |-> store[o].ver + 1]
  <2>2. v \in Records /\ v.st = "absent"
    BY <1>1 DEF Records, ObjStates
  <2>3. store' = [store EXCEPT ![o] = v]
    BY <2>1, Zenon DEF FinalizeByOperator, v
  <2>4. /\ store' \in [Objs -> Records]
        /\ \A x \in Objs : store[x].st = "absent" => store'[x].st = "absent"
    BY <1>1, <2>2, <2>3, WriteOne
  <2>5. TypeOK'
    BY <2>1, <2>4, EnvTypeKept DEF FinalizeByOperator, NukeInv, TypeOK
  <2>6. QED
    BY <2>1, <2>4, <2>5, CascadeKept DEF FinalizeByOperator, procVars,
       NukeInv
<1>7. QED
  BY <1>2, <1>3, <1>4, <1>5, <1>6

\* The writes of the package outside the cascade: the Patch of the update
\* branch, the Create of self-bootstrap and of a racing run.
LEMMA PackageWrites ==
  ASSUME NukeInv, CreatePackage \/ RacingCreate \/ UpdatePackage
  PROVE  NukeInv'
<1> USE BoundsAssumption
<1>1. store \in [Objs -> Records] /\ Pkg \in Objs
  BY DEF NukeInv, TypeOK, Objs
<1>2. CASE CreatePackage \/ RacingCreate
  <2> DEFINE v == [st |-> "live", fin |-> FALSE, ver |-> store[Pkg].ver + 1]
  <2>1. pc \in {"crds", "create"} /\ ~nuked
    BY <1>2 DEF CreatePackage, RacingCreate, NukeInv, NukedState
  <2>2. v \in Records
    BY <1>1 DEF Records, ObjStates
  <2>3. store' = store \/ store' = [store EXCEPT ![Pkg] = v]
    BY <1>2 DEF CreatePackage, RacingCreate, v
  <2>4. store' \in [Objs -> Records]
    BY <1>1, <2>2, <2>3, WriteOne
  <2>5. /\ avail' \in BOOLEAN /\ image' \in {"old", "new"}
        /\ envWrites' \in 0..MaxEnvWrites /\ pc' \in Pcs
        /\ UNCHANGED <<deploy, crds, branch, mine, stage, todo, held, poll,
                       nuked, faults, lastErr>>
    <3>1. CASE CreatePackage
      BY <3>1 DEF CreatePackage, NukeInv, TypeOK, Pcs
    <3>2. CASE RacingCreate
      <4>1. envWrites' \in 0..MaxEnvWrites
        BY <3>2, SMT DEF RacingCreate, NukeInv, TypeOK
      <4>2. /\ avail' \in BOOLEAN /\ image' \in {"old", "new"} /\ pc' \in Pcs
            /\ UNCHANGED <<deploy, crds, branch, mine, stage, todo, held,
                           poll, nuked, faults, lastErr>>
        BY <3>2, Zenon DEF RacingCreate, NukeInv, TypeOK, procVars
      <4>3. QED
        BY <4>1, <4>2
    <3>3. QED
      BY <1>2, <3>1, <3>2
  <2>6. TypeOK'
    BY <2>4, <2>5 DEF NukeInv, TypeOK
  <2>7. pc' \notin Cascade \cup {"list"}
    BY <1>2 DEF CreatePackage, RacingCreate, procVars, Cascade
  <2>8. QED
    BY <2>1, <2>5, <2>6, <2>7, OutsideCascade DEF NukedState
<1>3. CASE UpdatePackage
  <2>1. pc = "update" /\ pc' \in {"failed", "done"}
        /\ UNCHANGED <<avail, deploy, crds, branch, mine, stage, todo, held,
                       poll, nuked, faults, envWrites>>
        /\ lastErr' \in Errors /\ image' \in {"old", "new"}
    BY <1>3 DEF UpdatePackage, Fail, NukeInv, TypeOK, Errors
  <2>2. store' = store \/ store' = [store EXCEPT ![Pkg].ver = @ + 1]
    BY <1>3 DEF UpdatePackage
  <2>3. store' \in [Objs -> Records]
    <3>1. CASE store' = [store EXCEPT ![Pkg].ver = @ + 1]
      <4>1. store' = [store EXCEPT ![Pkg] = [store[Pkg] EXCEPT !.ver = @ + 1]]
        BY <1>1, <3>1
      <4>2. QED
        BY <1>1, <4>1, BumpRecord, WriteOne
    <3>2. QED
      BY <1>1, <2>2, <3>1
  <2>4. TypeOK'
    <3>1. pc' \in Pcs
      BY <2>1 DEF Pcs
    <3>2. QED
      BY <2>1, <2>3, <3>1 DEF NukeInv, TypeOK
  <2>5. nuked => pc' = "failed" /\ store' = store
    BY <1>1, <1>3 DEF UpdatePackage, Fail, NukeInv, NukedState
  <2>6. NukedState'
    BY <2>1, <2>5 DEF NukeInv, NukedState
  <2>7. QED
    BY <2>1, <2>4, <2>6, OutsideCascade DEF Cascade
<1>4. QED
  BY <1>2, <1>3

\* nukeIfNeeded starts the cascade at the package.
LEMMA StartCleanupStep ==
  ASSUME NukeInv, StartCleanup
  PROVE  NukeInv'
<1>1. /\ pc = "check" /\ pc' = "delete" /\ stage' = 1 /\ todo' = <<Pkg>>
      /\ UNCHANGED <<storeVars, branch, mine, poll, nuked, faults, envWrites,
                     lastErr>>
  BY Zenon DEF StartCleanup
<1>2. DOMAIN held' = {Pkg} /\ held'[Pkg] = mine
  BY Zenon DEF StartCleanup
<1>3. ~nuked
  BY <1>1 DEF NukeInv, NukedState
<1>4. Pkg \in Objs /\ Kind(1) = {Pkg}
  BY DEF Objs, Kind
<1>5. /\ todo' \in Seq(Objs) /\ todo' # <<>> /\ Len(todo') = 1
      /\ todo'[1] = Pkg
  BY <1>1, <1>4
<1>6. TypeOK'
  <2>1. stage' \in 1..3 /\ faults' \in 0..MaxFaults
        /\ envWrites' \in 0..MaxEnvWrites
    BY <1>1, SMT DEF NukeInv, TypeOK
  <2>2. DOMAIN held' \subseteq Objs /\ \A o \in DOMAIN held' : held'[o] \in Copies
    BY <1>2, <1>4 DEF NukeInv, TypeOK
  <2>3. /\ store' \in [Objs -> Records] /\ avail' \in BOOLEAN
        /\ image' \in {"old", "new"} /\ deploy' \in DeployStates
        /\ crds' \in BOOLEAN /\ pc' \in Pcs
        /\ branch' \in {"none", "update", "self"} /\ mine' \in Copies
        /\ poll' \in {"idle", "polling", "cancelled"} /\ nuked' \in BOOLEAN
        /\ lastErr' \in Errors
    BY <1>1, Zenon DEF NukeInv, TypeOK, Pcs, storeVars
  <2>4. QED
    BY <1>5, <2>1, <2>2, <2>3 DEF TypeOK
<1>7. TodoHeld'
  BY <1>1, <1>2, <1>5 DEF TodoHeld
<1>8. EarlierKindsGone'
  BY <1>1 DEF EarlierKindsGone
<1>9. KindCovered'
  BY <1>1, <1>4, <1>5 DEF KindCovered
<1>10. NukedState'
  BY <1>1, <1>3 DEF NukedState
<1>11. QED
  BY <1>6, <1>7, <1>8, <1>9, <1>10 DEF NukeInv

\* The item the cascade handles is an object it holds a copy of, and a run
\* in the cascade has not nuked yet.
LEMMA ItemFacts ==
  ASSUME NukeInv, pc \in Cascade
  PROVE  /\ todo \in Seq(Objs) /\ todo # <<>> /\ Item = todo[1]
         /\ Item \in Objs /\ Item \in DOMAIN held /\ ~nuked
<1>1. todo \in Seq(Objs) /\ todo # <<>>
  BY DEF NukeInv, TypeOK, TodoHeld
<1>2. Len(todo) \in Nat \ {0}
  BY <1>1, TailFacts
<1>3. Item = todo[1] /\ todo[1] \in Objs
  BY <1>1, <1>2, ElementOfSeq DEF Item
<1>4. todo[1] \in DOMAIN held
  BY <1>2 DEF NukeInv, TodoHeld
<1>5. ~nuked
  BY DEF NukeInv, NukedState, Cascade
<1>6. QED
  BY <1>1, <1>3, <1>4, <1>5

\* A step of the cascade that fails returns from Bootstrap.
LEMMA CascadeFails ==
  ASSUME NukeInv, pc \in Cascade, pc' = "failed", lastErr' \in Errors,
         UNCHANGED <<storeVars, branch, mine, stage, todo, held, poll, nuked,
                     faults, envWrites>>
  PROVE  NukeInv'
<1>1. ~nuked
  BY ItemFacts
<1>2. TypeOK'
  <2>1. stage' \in 1..3 /\ faults' \in 0..MaxFaults
        /\ envWrites' \in 0..MaxEnvWrites
    BY SMT DEF NukeInv, TypeOK
  <2>2. /\ store' \in [Objs -> Records] /\ avail' \in BOOLEAN
        /\ image' \in {"old", "new"} /\ deploy' \in DeployStates
        /\ crds' \in BOOLEAN /\ pc' \in Pcs
        /\ branch' \in {"none", "update", "self"} /\ mine' \in Copies
        /\ poll' \in {"idle", "polling", "cancelled"} /\ nuked' \in BOOLEAN
        /\ todo' \in Seq(Objs) /\ DOMAIN held' \subseteq Objs
        /\ \A o \in DOMAIN held' : held'[o] \in Copies
        /\ lastErr' \in Errors
    BY Zenon DEF NukeInv, TypeOK, Pcs, storeVars
  <2>3. QED
    BY <2>1, <2>2 DEF TypeOK
<1>3. QED
  BY <1>1, <1>2, OutsideCascade DEF NukedState, Cascade

\* forcedCleanup's Delete of the current item.
LEMMA CascadeDeleteStep ==
  ASSUME NukeInv, CascadeDelete
  PROVE  NukeInv'
<1>1. pc = "delete" /\ pc \in Cascade
  BY DEF CascadeDelete, Cascade
<1>2. Item \in Objs /\ store \in [Objs -> Records]
  BY <1>1, ItemFacts DEF NukeInv, TypeOK
<1>3. CASE store[Item].st = "absent"
  BY <1>1, <1>3, CascadeFails DEF CascadeDelete, Fail, Errors, storeVars
<1>4. CASE store[Item].st # "absent"
  <2>1. /\ store' = [store EXCEPT ![Item] = Deleted(store[Item])]
        /\ pc' \in {"strip", "verify"}
        /\ UNCHANGED <<avail, image, deploy, crds, branch, mine, stage, todo,
                       held, poll, nuked, faults, envWrites, lastErr>>
    BY <1>4 DEF CascadeDelete
  <2>2. Deleted(store[Item]) \in Records
    BY <1>2, DeletedRecord
  <2>3. /\ store' \in [Objs -> Records]
        /\ \A o \in Objs : store[o].st = "absent" => store'[o].st = "absent"
    BY <1>2, <1>4, <2>1, <2>2, WriteOne
  <2>4. TypeOK'
    <3>1. stage' \in 1..3 /\ faults' \in 0..MaxFaults
          /\ envWrites' \in 0..MaxEnvWrites
      BY <2>1, SMT DEF NukeInv, TypeOK
    <3>2. /\ avail' \in BOOLEAN
          /\ image' \in {"old", "new"} /\ deploy' \in DeployStates
          /\ crds' \in BOOLEAN /\ pc' \in Pcs
          /\ branch' \in {"none", "update", "self"} /\ mine' \in Copies
          /\ poll' \in {"idle", "polling", "cancelled"} /\ nuked' \in BOOLEAN
          /\ todo' \in Seq(Objs) /\ DOMAIN held' \subseteq Objs
          /\ \A o \in DOMAIN held' : held'[o] \in Copies
          /\ lastErr' \in Errors
      BY <2>1, Zenon DEF NukeInv, TypeOK, Pcs
    <3>3. QED
      BY <2>3, <3>1, <3>2 DEF TypeOK
  <2>5. QED
    BY <1>1, <2>1, <2>3, <2>4, CascadeKept DEF NukeInv, Cascade
<1>5. QED
  BY <1>3, <1>4

\* forcedCleanup's Update that clears the finalizers of the current item.
LEMMA CascadeStripStep ==
  ASSUME NukeInv, CascadeStrip
  PROVE  NukeInv'
<1>1. pc = "strip" /\ pc \in Cascade
  BY DEF CascadeStrip, Cascade
<1>2. /\ Item \in Objs /\ Item \in DOMAIN held /\ store \in [Objs -> Records]
      /\ held[Item] \in Copies
  BY <1>1, ItemFacts DEF NukeInv, TypeOK
<1>3. CASE store[Item].st = "absent" \/ store[Item].ver # held[Item].ver
  BY <1>1, <1>3, CascadeFails DEF CascadeStrip, Fail, Errors, storeVars
<1>4. CASE store[Item].st # "absent" /\ store[Item].ver = held[Item].ver
  <2> DEFINE r == [st |-> IF store[Item].st = "deleting" THEN "absent"
                                                        ELSE "live",
                   fin |-> FALSE, ver |-> store[Item].ver + 1]
             c == [fin |-> FALSE, ver |-> r.ver]
  <2>1. /\ store' = [store EXCEPT ![Item] = r]
        /\ held' = [held EXCEPT ![Item] = c]
        /\ mine' = IF Item = Pkg THEN held'[Pkg] ELSE mine
        /\ pc' = "verify"
        /\ UNCHANGED <<avail, image, deploy, crds, branch, stage, todo, poll,
                       nuked, faults, envWrites, lastErr>>
    BY <1>4, Zenon DEF CascadeStrip, r, c
  <2>2. r \in Records /\ c \in Copies
    BY <1>2 DEF r, c, Records, ObjStates, Copies
  <2>3. /\ store' \in [Objs -> Records]
        /\ \A o \in Objs : store[o].st = "absent" => store'[o].st = "absent"
    BY <1>2, <1>4, <2>1, <2>2, WriteOne
  <2>4. /\ DOMAIN held' = DOMAIN held
        /\ \A o \in DOMAIN held' : held'[o] \in Copies
        /\ mine' \in Copies
    BY <1>2, <2>1, <2>2 DEF NukeInv, TypeOK
  <2>5. TypeOK'
    <3>1. stage' \in 1..3 /\ faults' \in 0..MaxFaults
          /\ envWrites' \in 0..MaxEnvWrites
      BY <2>1, SMT DEF NukeInv, TypeOK
    <3>2. /\ avail' \in BOOLEAN
          /\ image' \in {"old", "new"} /\ deploy' \in DeployStates
          /\ crds' \in BOOLEAN /\ pc' \in Pcs
          /\ branch' \in {"none", "update", "self"}
          /\ poll' \in {"idle", "polling", "cancelled"} /\ nuked' \in BOOLEAN
          /\ todo' \in Seq(Objs) /\ DOMAIN held' \subseteq Objs
          /\ lastErr' \in Errors
      BY <2>1, <2>4, Zenon DEF NukeInv, TypeOK, Pcs
    <3>3. QED
      BY <2>3, <2>4, <3>1, <3>2 DEF TypeOK
  <2>6. QED
    BY <1>1, <2>1, <2>3, <2>4, <2>5, CascadeKept DEF NukeInv, Cascade
<1>5. QED
  BY <1>3, <1>4

\* forcedCleanup's Get that checks the current item is gone, and the move
\* to the next item, to the next kind or out of the cascade.
LEMMA CascadeVerifyStep ==
  ASSUME NukeInv, CascadeVerify
  PROVE  NukeInv'
<1>1. pc = "verify" /\ pc \in Cascade
  BY DEF CascadeVerify, Cascade
<1>2. /\ todo \in Seq(Objs) /\ todo # <<>> /\ Item = todo[1]
      /\ Item \in Objs /\ ~nuked /\ store \in [Objs -> Records]
  BY <1>1, ItemFacts DEF NukeInv, TypeOK
<1>3. CASE store[Item].st # "absent"
  BY <1>1, <1>3, CascadeFails DEF CascadeVerify, Fail, Errors, storeVars
<1>4. CASE store[Item].st = "absent"
  <2>1. /\ todo' = Tail(todo) /\ Advance
        /\ UNCHANGED <<storeVars, branch, mine, held, poll, faults,
                       envWrites, lastErr>>
    BY <1>4 DEF CascadeVerify
  <2>2. /\ Len(todo) \in Nat \ {0}
        /\ Tail(todo) \in Seq(Objs)
        /\ Len(Tail(todo)) = Len(todo) - 1
        /\ \A i \in 1..Len(Tail(todo)) : Tail(todo)[i] = todo[i + 1]
    BY <1>2, TailFacts
  \* The type, whichever way the run goes on.
  <2>3. ASSUME pc' \in Pcs, stage' \in 1..3, nuked' \in BOOLEAN
        PROVE  TypeOK'
    <3>1. faults' \in 0..MaxFaults /\ envWrites' \in 0..MaxEnvWrites
      BY <2>1, SMT DEF NukeInv, TypeOK
    <3>2. /\ store' \in [Objs -> Records] /\ avail' \in BOOLEAN
          /\ image' \in {"old", "new"} /\ deploy' \in DeployStates
          /\ crds' \in BOOLEAN
          /\ branch' \in {"none", "update", "self"} /\ mine' \in Copies
          /\ poll' \in {"idle", "polling", "cancelled"}
          /\ DOMAIN held' \subseteq Objs
          /\ \A o \in DOMAIN held' : held'[o] \in Copies
          /\ lastErr' \in Errors
      BY <2>1, Zenon DEF NukeInv, TypeOK, storeVars
    <3>3. QED
      BY <2>1, <2>2, <2>3, <3>1, <3>2 DEF TypeOK
  <2>4. CASE Tail(todo) # <<>>
    <3>1. pc' = "delete" /\ UNCHANGED <<stage, nuked>>
      BY <2>1, <2>4 DEF Advance
    <3>2. TypeOK'
      BY <3>1, <2>3 DEF NukeInv, TypeOK, Pcs
    <3>3. TodoHeld'
      <4>1. \A k \in 1..Len(todo) : todo[k] \in DOMAIN held
        BY <1>1 DEF NukeInv, TodoHeld
      <4>2. QED
        BY <2>1, <2>2, <2>4, <3>1, <4>1 DEF TodoHeld, Cascade
    <3>4. EarlierKindsGone'
      BY <1>1, <2>1, <3>1 DEF NukeInv, EarlierKindsGone, Cascade, storeVars
    <3>5. KindCovered'
      <4>1. \A o \in Kind(stage) :
              store[o].st = "absent" \/ \E k \in 1..Len(todo) : todo[k] = o
        BY <1>1 DEF NukeInv, KindCovered
      <4>2. \A k \in 1..Len(todo) : k = 1 \/ k - 1 \in 1..Len(Tail(todo))
        BY <2>2
      <4>3. SUFFICES ASSUME NEW o \in Kind(stage), store[o].st # "absent"
                     PROVE  \E k \in 1..Len(Tail(todo)) : Tail(todo)[k] = o
        BY <2>1, <3>1 DEF KindCovered, Cascade, storeVars
      <4>4. PICK k \in 1..Len(todo) : todo[k] = o
        BY <4>1, <4>3
      <4>5. k # 1
        BY <1>2, <1>4, <4>3, <4>4
      <4>6. k - 1 \in 1..Len(Tail(todo)) /\ Tail(todo)[k - 1] = todo[k]
        BY <2>2, <4>2, <4>5
      <4>7. QED
        BY <4>4, <4>6
    <3>6. NukedState'
      BY <1>2, <3>1 DEF NukedState
    <3>7. QED
      BY <3>2, <3>3, <3>4, <3>5, <3>6 DEF NukeInv
  <2>5. CASE Tail(todo) = <<>> /\ stage < 3
    <3>1. pc' = "list" /\ stage' = stage + 1 /\ UNCHANGED nuked
      BY <2>1, <2>5 DEF Advance, NextKind
    <3>2. stage \in 1..3
      BY DEF NukeInv, TypeOK
    <3>3. TypeOK'
      BY <2>3, <2>5, <3>1, <3>2 DEF NukeInv, TypeOK, Pcs
    <3>4. \A o \in Kind(stage) : store[o].st = "absent"
      BY <1>1, <1>4, <2>5, LastOfKindGone
    <3>5. EarlierKindsGone'
      <4>1. \A i \in 1..(stage - 1) : \A o \in Kind(i) : store[o].st = "absent"
        BY <1>1 DEF NukeInv, EarlierKindsGone, Cascade
      <4>2. \A i \in 1..(stage' - 1) : i \in 1..(stage - 1) \/ i = stage
        BY <3>1, <3>2
      <4>3. QED
        BY <2>1, <3>4, <4>1, <4>2 DEF EarlierKindsGone, storeVars
    <3>6. QED
      BY <1>2, <3>1, <3>3, <3>5
      DEF NukeInv, TodoHeld, KindCovered, NukedState, Cascade
  <2>6. CASE Tail(todo) = <<>> /\ stage = 3
    <3>1. pc' = "repair" /\ nuked' = TRUE /\ UNCHANGED stage
      BY <2>1, <2>6 DEF Advance, NextKind
    <3>2. TypeOK'
      BY <2>3, <3>1 DEF NukeInv, TypeOK, Pcs
    <3>3. \A o \in Kind(3) : store[o].st = "absent"
      BY <1>1, <1>4, <2>6, LastOfKindGone
    <3>4. \A i \in 1..2 : \A o \in Kind(i) : store[o].st = "absent"
      BY <1>1, <2>6 DEF NukeInv, EarlierKindsGone, Cascade
    <3>5. \A o \in Objs : store'[o].st = "absent"
      BY <1>2, <2>1, <3>3, <3>4, AllKindsGone DEF storeVars
    <3>6. NukedState'
      BY <3>1, <3>5 DEF NukedState
    <3>7. QED
      BY <3>1, <3>2, <3>6, OutsideCascade DEF Cascade
  <2>7. QED
    BY <2>4, <2>5, <2>6 DEF NukeInv, TypeOK
<1>5. QED
  BY <1>3, <1>4

\* forcedCleanup's List of the next kind.
LEMMA ListOwnedStep ==
  ASSUME NukeInv, ListOwned
  PROVE  NukeInv'
<1> DEFINE listed == {o \in Kind(stage) : store[o].st # "absent"}
<1>1. /\ pc = "list" /\ ~nuked /\ stage \in 1..3
      /\ store \in [Objs -> Records] /\ Kind(stage) \subseteq Objs
  BY KindObjs DEF ListOwned, NukeInv, NukedState, TypeOK
<1>2. PICK s \in SetToSeqs(listed) :
        /\ todo' = s
        /\ held' = [o \in listed |-> CopyOf(o)]
        /\ \/ listed # {} /\ pc' = "delete" /\ UNCHANGED <<stage, nuked>>
           \/ listed = {} /\ NextKind
        /\ UNCHANGED <<storeVars, branch, mine, poll, faults, envWrites,
                       lastErr>>
  BY Zenon DEF ListOwned, listed
<1>3. /\ s \in Seq(Objs)
      /\ \A k \in 1..Len(s) : s[k] \in listed
      /\ \A o \in listed : \E k \in 1..Len(s) : s[k] = o
      /\ listed # {} => s # <<>>
  BY <1>1, ListedTodo
<1>4. /\ DOMAIN held' = listed
      /\ \A o \in listed : held'[o] \in Copies
  BY <1>1, <1>2 DEF CopyOf, Copies, Records
\* The type, whichever way the run goes on.
<1>5. ASSUME pc' \in Pcs, stage' \in 1..3, nuked' \in BOOLEAN
      PROVE  TypeOK'
  <2>1. faults' \in 0..MaxFaults /\ envWrites' \in 0..MaxEnvWrites
    BY <1>2, SMT DEF NukeInv, TypeOK
  <2>2. /\ store' \in [Objs -> Records] /\ avail' \in BOOLEAN
        /\ image' \in {"old", "new"} /\ deploy' \in DeployStates
        /\ crds' \in BOOLEAN
        /\ branch' \in {"none", "update", "self"} /\ mine' \in Copies
        /\ poll' \in {"idle", "polling", "cancelled"}
        /\ lastErr' \in Errors
    BY <1>2, Zenon DEF NukeInv, TypeOK, storeVars
  <2>3. DOMAIN held' \subseteq Objs
    BY <1>1, <1>4
  <2>4. QED
    BY <1>2, <1>3, <1>4, <1>5, <2>1, <2>2, <2>3 DEF TypeOK
<1>6. CASE listed # {}
  <2>1. pc' = "delete" /\ UNCHANGED <<stage, nuked>>
    BY <1>2, <1>6 DEF NextKind
  <2>2. TypeOK'
    <3>1. pc' \in Pcs /\ stage' \in 1..3 /\ nuked' \in BOOLEAN
      BY <1>1, <2>1 DEF NukeInv, TypeOK, Pcs
    <3>2. QED
      BY <1>5, <3>1
  <2>3. TodoHeld'
    BY <1>2, <1>3, <1>4, <1>6, <2>1 DEF TodoHeld
  <2>4. EarlierKindsGone'
    BY <1>1, <1>2, <2>1 DEF NukeInv, EarlierKindsGone, Cascade, storeVars
  <2>5. KindCovered'
    BY <1>1, <1>2, <1>3, <2>1 DEF KindCovered, storeVars
  <2>6. NukedState'
    BY <1>1, <2>1 DEF NukedState
  <2>7. QED
    BY <2>2, <2>3, <2>4, <2>5, <2>6 DEF NukeInv
<1>7. CASE listed = {} /\ stage < 3
  <2>1. pc' = "list" /\ stage' = stage + 1 /\ UNCHANGED nuked
    BY <1>2, <1>7 DEF NextKind
  <2>2. TypeOK'
    <3>1. pc' \in Pcs /\ stage' \in 1..3 /\ nuked' \in BOOLEAN
      BY <1>1, <1>7, <2>1 DEF NukeInv, TypeOK, Pcs
    <3>2. QED
      BY <1>5, <3>1
  <2>3. \A o \in Kind(stage) : store[o].st = "absent"
    BY <1>7
  <2>4. EarlierKindsGone'
    <3>1. \A i \in 1..(stage - 1) : \A o \in Kind(i) : store[o].st = "absent"
      BY <1>1 DEF NukeInv, EarlierKindsGone, Cascade
    <3>2. \A i \in 1..(stage' - 1) : i \in 1..(stage - 1) \/ i = stage
      BY <1>1, <2>1
    <3>3. QED
      BY <1>2, <2>3, <3>1, <3>2 DEF EarlierKindsGone, storeVars
  <2>5. QED
    BY <1>1, <2>1, <2>2, <2>4
    DEF NukeInv, TodoHeld, KindCovered, NukedState, Cascade
<1>8. CASE listed = {} /\ stage = 3
  <2>1. pc' = "repair" /\ nuked' = TRUE /\ UNCHANGED stage
    BY <1>2, <1>8 DEF NextKind
  <2>2. TypeOK'
    <3>1. pc' \in Pcs /\ stage' \in 1..3 /\ nuked' \in BOOLEAN
      BY <1>1, <2>1 DEF NukeInv, TypeOK, Pcs
    <3>2. QED
      BY <1>5, <3>1
  <2>3. \A o \in Kind(3) : store[o].st = "absent"
    BY <1>8
  <2>4. \A i \in 1..2 : \A o \in Kind(i) : store[o].st = "absent"
    BY <1>1, <1>8 DEF NukeInv, EarlierKindsGone, Cascade
  <2>5. \A o \in Objs : store'[o].st = "absent"
    BY <1>1, <1>2, <2>3, <2>4, AllKindsGone DEF storeVars
  <2>6. NukedState'
    BY <2>1, <2>5 DEF NukedState
  <2>7. QED
    BY <2>1, <2>2, <2>6, OutsideCascade DEF Cascade
<1>9. QED
  BY <1>1, <1>6, <1>7, <1>8

\* Every step of Bootstrap and of the other actors keeps NukeInv.
LEMMA NukeStep == NukeInv /\ [Next]_vars => NukeInv'
<1> SUFFICES ASSUME NukeInv, [Next]_vars PROVE NukeInv'
  OBVIOUS
<1>1. CASE \/ GetInstalled \/ GetNotInstalled \/ SkipCleanup \/ Repair
           \/ LoadBundle \/ EnsureCRDs \/ SpawnPoller \/ ManagerReturns
           \/ PollFails \/ ApiFails \/ Restart
  BY <1>1, StepsOutsideCascade
<1>2. CASE \/ PollSeesAvailable \/ ManagerInstalls \/ StatusWrite
           \/ DeploymentRecovers
           \/ \E o \in CODs \cup COSs : GarbageCollect(o)
           \/ \E o \in Objs : FinalizeByOperator(o)
  BY <1>2, EnvSteps
<1>3. CASE CreatePackage \/ RacingCreate \/ UpdatePackage
  BY <1>3, PackageWrites
<1>4. CASE StartCleanup
  BY <1>4, StartCleanupStep
<1>5. CASE CascadeDelete
  BY <1>5, CascadeDeleteStep
<1>6. CASE CascadeStrip
  BY <1>6, CascadeStripStep
<1>7. CASE CascadeVerify
  BY <1>7, CascadeVerifyStep
<1>8. CASE ListOwned
  BY <1>8, ListOwnedStep
<1>9. CASE UNCHANGED vars
  BY <1>9 DEF vars, NukeInv, TypeOK, TodoHeld, EarlierKindsGone,
     KindCovered, NukedState
<1>10. QED
  BY <1>1, <1>2, <1>3, <1>4, <1>5, <1>6, <1>7, <1>8, <1>9
  DEF Next, BootstrapStep

-----------------------------------------------------------------------------
(***************************************************************************)
(* The theorems.                                                           *)
(***************************************************************************)

\* Every state Bootstrap and the other actors reach is well typed: in
\* particular the cascade only ever handles objects it holds a copy of.
THEOREM TypeCorrect == Spec => []TypeOK
<1>1. NukeInv => TypeOK
  BY DEF NukeInv
<1>2. QED
  BY <1>1, NukeInitial, NukeStep, PTL DEF Spec

\* Once forcedCleanup has returned nil, the package and every object
\* generated for it are gone from the store, for any number of
\* ClusterObjectDeployments and ClusterObjectSets, whatever the garbage
\* collector and the in-cluster package-operator do meanwhile.
THEOREM NukeComplete == Spec => []NukeLeavesNothing
<1>1. NukeInv => NukeLeavesNothing
  BY DEF NukeInv, NukedState, NukeLeavesNothing
<1>2. QED
  BY <1>1, NukeInitial, NukeStep, PTL DEF Spec

-----------------------------------------------------------------------------
(***************************************************************************)
(* The result of a self-bootstrap, whatever the Deployment does.           *)
(***************************************************************************)

\* On the self-bootstrap path the package is absent until it is created,
\* and created at the new image.
SelfBeforeCreate ==
  branch = "self" /\ pc \in {"load", "crds", "create"} =>
    \/ store[Pkg].st = "absent"
    \/ store[Pkg].st = "live" /\ image = "new"
SelfPathInstalled ==
  branch = "self" /\ pc \in {"spawn", "run", "done"} =>
    store[Pkg].st = "live" /\ image = "new"

\* The poll ends only on an Available package, and nothing clears the
\* condition before the process ends.
CancelledAvail == poll = "cancelled" => avail
PollCancelledPc == poll = "cancelled" => pc \in {"run", "done", "failed"}

\* Which branch each step of Bootstrap belongs to.
BranchPc ==
  /\ pc \in {"check", "delete", "strip", "verify", "list", "repair",
             "update"} => branch = "update"
  /\ pc \in {"load", "crds", "create", "spawn", "run"} => branch = "self"

\* How Bootstrap returned nil: from the update branch, or from the self
\* branch once the poll was cancelled.
DoneState ==
  pc = "done" =>
    /\ branch \in {"update", "self"}
    /\ branch = "self" => poll = "cancelled"

DoneInv ==
  /\ SelfBeforeCreate /\ SelfPathInstalled
  /\ CancelledAvail /\ PollCancelledPc /\ BranchPc /\ DoneState

\* The inductive invariant behind SelfBootstrapInstalled.
ResultInv == NukeInv /\ DoneInv

LEMMA DoneInitial == Init => DoneInv
<1> SUFFICES ASSUME Init PROVE DoneInv
  OBVIOUS
<1>1. /\ pc = "get"
      /\ branch = "none" /\ poll = "idle"
      /\ store \in [Objs -> [st : {"live", "deleting"}, fin : BOOLEAN,
                              ver : {1}]]
      /\ store[Pkg].st = "live"
  BY Zenon DEF Init
<1>2. QED
  BY <1>1 DEF DoneInv, SelfBeforeCreate, SelfPathInstalled, CancelledAvail,
     PollCancelledPc, BranchPc, DoneState, Cascade

\* The steps of Bootstrap that write nothing to the store.
LEMMA DoneStepsNoWrite ==
  ASSUME ResultInv,
         \/ GetInstalled \/ GetNotInstalled \/ StartCleanup \/ SkipCleanup
         \/ Repair \/ LoadBundle \/ EnsureCRDs \/ SpawnPoller
         \/ ManagerReturns \/ PollFails \/ ApiFails \/ Restart
  PROVE  DoneInv'
<1>1. deploy \in DeployStates
  BY DEF ResultInv, NukeInv, TypeOK
<1>2. CASE GetInstalled
  BY <1>2 DEF GetInstalled, ResultInv, storeVars, DoneInv, SelfBeforeCreate,
       SelfPathInstalled, CancelledAvail, PollCancelledPc, BranchPc,
       DoneState, Cascade
<1>3. CASE GetNotInstalled
  BY <1>3 DEF GetNotInstalled, ResultInv, storeVars, DoneInv, SelfBeforeCreate,
       SelfPathInstalled, CancelledAvail, PollCancelledPc, BranchPc,
       DoneState, Cascade
<1>4. CASE StartCleanup
  BY <1>1, <1>4 DEF StartCleanup, NeedsForcedCleanup, ResultInv, storeVars,
     DoneInv, SelfBeforeCreate,
       SelfPathInstalled, CancelledAvail, PollCancelledPc, BranchPc,
       DoneState, Cascade
<1>5. CASE SkipCleanup
  BY <1>1, <1>5 DEF SkipCleanup, NeedsForcedCleanup, ResultInv, storeVars,
     DeployStates, DoneInv, SelfBeforeCreate,
       SelfPathInstalled, CancelledAvail, PollCancelledPc, BranchPc,
       DoneState, Cascade
<1>6. CASE Repair \/ LoadBundle \/ EnsureCRDs \/ SpawnPoller
  BY <1>6 DEF Repair, LoadBundle, EnsureCRDs, SpawnPoller, ResultInv,
     storeVars, DoneInv, SelfBeforeCreate,
       SelfPathInstalled, CancelledAvail, PollCancelledPc, BranchPc,
       DoneState, Cascade
<1>7. CASE ManagerReturns
  BY <1>7 DEF ManagerReturns, ResultInv, storeVars, DoneInv, SelfBeforeCreate,
       SelfPathInstalled, CancelledAvail, PollCancelledPc, BranchPc,
       DoneState, Cascade
<1>8. CASE PollFails \/ ApiFails
  BY <1>8 DEF PollFails, ApiFails, Fail, ResultInv, storeVars, DoneInv, SelfBeforeCreate,
       SelfPathInstalled, CancelledAvail, PollCancelledPc, BranchPc,
       DoneState, Cascade
<1>9. CASE Restart
  <2>1. /\ pc' = "get" /\ branch' = "none" /\ poll' = "idle"
        /\ nuked' = FALSE /\ UNCHANGED storeVars
    BY <1>9, Zenon DEF Restart
  <2>2. QED
    BY <2>1 DEF ResultInv, storeVars, DoneInv, SelfBeforeCreate,
       SelfPathInstalled, CancelledAvail, PollCancelledPc, BranchPc,
       DoneState, Cascade
<1>10. QED
  BY <1>2, <1>3, <1>4, <1>5, <1>6, <1>7, <1>8, <1>9

\* The steps of the cascade: they run on the update branch, which the
\* self-path facts leave alone, and leave the cascade only nuked or failed.
LEMMA DoneStepsCascade ==
  ASSUME ResultInv,
         CascadeDelete \/ CascadeStrip \/ CascadeVerify \/ ListOwned
  PROVE  DoneInv'
<1>1. /\ pc \in Cascade \cup {"list"}
      /\ branch = "update" /\ poll # "cancelled"
      /\ branch' = branch /\ poll' = poll
      /\ avail' = avail /\ image' = image
  BY DEF CascadeDelete, CascadeStrip, CascadeVerify, ListOwned, ResultInv,
     storeVars, DoneInv, SelfBeforeCreate,
       SelfPathInstalled, CancelledAvail, PollCancelledPc, BranchPc,
       DoneState, Cascade
<1>2. \/ pc' \in Cascade \cup {"list", "failed"}
      \/ pc' = "repair" /\ nuked'
  BY DEF CascadeDelete, CascadeStrip, CascadeVerify, ListOwned, Fail,
     Advance, NextKind, Cascade
<1>4. (SelfBeforeCreate /\ SelfPathInstalled)'
  BY <1>1, <1>2 DEF SelfBeforeCreate, SelfPathInstalled, Cascade
<1>5. (CancelledAvail /\ PollCancelledPc /\ BranchPc /\ DoneState)'
  BY <1>1, <1>2 DEF CancelledAvail, PollCancelledPc, BranchPc, DoneState,
     Cascade
<1>6. QED
  BY <1>4, <1>5 DEF DoneInv

\* The two groups of conjuncts of DoneInv, to be shown one by one.
DoneB == SelfBeforeCreate /\ SelfPathInstalled
DoneC == CancelledAvail /\ PollCancelledPc /\ BranchPc /\ DoneState

\* The Patch of the update branch.
LEMMA DoneUpdatePackage ==
  ASSUME ResultInv, UpdatePackage
  PROVE  DoneInv'
<1>1. /\ pc = "update" /\ branch = "update" /\ store \in [Objs -> Records]
      /\ Pkg \in Objs /\ DoneInv
      /\ UNCHANGED <<avail, deploy, crds, branch, mine, stage, todo, held,
                     poll, nuked, faults, envWrites>>
  BY DEF UpdatePackage, ResultInv, NukeInv, TypeOK, DoneInv, BranchPc, Objs
<1>2. CASE pc' = "failed"
  <2>1. image' \in {"old", "new"} /\ store'[Pkg].st = store[Pkg].st
    BY <1>2 DEF UpdatePackage, Fail, ResultInv, NukeInv, TypeOK
  <2>2. DoneB' /\ DoneC'
    BY <1>1, <1>2, <2>1 DEF DoneInv, DoneB, DoneC,
       SelfBeforeCreate, SelfPathInstalled, CancelledAvail, PollCancelledPc,
       BranchPc, DoneState, Cascade
  <2>3. QED
    BY <2>2 DEF DoneInv, DoneB, DoneC
<1>3. CASE pc' # "failed"
  <2>1. /\ pc' = "done" /\ image' = "new"
        /\ store' = [store EXCEPT ![Pkg].ver = @ + 1]
    BY <1>3 DEF UpdatePackage, Fail
  <2>2. DoneB' /\ DoneC'
    BY <1>1, <2>1
    DEF DoneInv, DoneB, DoneC,
       SelfBeforeCreate, SelfPathInstalled, CancelledAvail, PollCancelledPc,
       BranchPc, DoneState, Cascade
  <2>3. QED
    BY <2>2 DEF DoneInv, DoneB, DoneC
<1>4. QED
  BY <1>2, <1>3

\* The Create of the package, by this run or by a racing one.
LEMMA DoneCreates ==
  ASSUME ResultInv, CreatePackage \/ RacingCreate
  PROVE  DoneInv'
<1>1. /\ pc \in {"crds", "create"} /\ branch = "self" /\ poll # "cancelled"
      /\ store \in [Objs -> Records] /\ Pkg \in Objs /\ DoneInv
      /\ UNCHANGED <<deploy, branch, poll, nuked>>
  BY DEF CreatePackage, RacingCreate, ResultInv, NukeInv, TypeOK, DoneInv,
     BranchPc, PollCancelledPc, Objs, procVars
<1>2. pc' \in {"crds", "create", "spawn"}
  BY DEF CreatePackage, RacingCreate, procVars
<1>3. CASE store[Pkg].st = "absent"
  <2>1. /\ store'[Pkg].st = "live" /\ image' = "new"
    BY <1>1, <1>3 DEF CreatePackage, RacingCreate
  <2>2. DoneB' /\ DoneC'
    BY <1>1, <1>2, <2>1
    DEF DoneInv, DoneB, DoneC,
       SelfBeforeCreate, SelfPathInstalled, CancelledAvail, PollCancelledPc,
       BranchPc, DoneState, Cascade
  <2>3. QED
    BY <2>2 DEF DoneInv, DoneB, DoneC
<1>4. CASE store[Pkg].st # "absent"
  <2>1. CreatePackage /\ store' = store /\ image' = image
    BY <1>4 DEF CreatePackage, RacingCreate
  <2>2. store[Pkg].st = "live" /\ image = "new"
    BY <1>1, <1>4, <2>1 DEF DoneInv, SelfBeforeCreate, CreatePackage
  <2>3. DoneB' /\ DoneC'
    BY <1>1, <1>2, <2>1, <2>2
    DEF DoneInv, DoneB, DoneC,
       SelfBeforeCreate, SelfPathInstalled, CancelledAvail, PollCancelledPc,
       BranchPc, DoneState, Cascade
  <2>4. QED
    BY <2>3 DEF DoneInv, DoneB, DoneC
<1>5. QED
  BY <1>3, <1>4

\* The other actors, the Deployment recovering by itself included.
LEMMA DoneEnv ==
  ASSUME ResultInv,
         \/ PollSeesAvailable \/ ManagerInstalls \/ StatusWrite
         \/ DeploymentRecovers
         \/ \E o \in CODs \cup COSs : GarbageCollect(o)
         \/ \E o \in Objs : FinalizeByOperator(o)
  PROVE  DoneInv'
<1>1. store \in [Objs -> Records] /\ Pkg \in Objs /\ DoneInv
  BY DEF ResultInv, NukeInv, TypeOK, Objs
<1>2. CASE PollSeesAvailable
  <2>1. DoneB' /\ DoneC'
    BY <1>1, <1>2 DEF PollSeesAvailable, storeVars, DoneInv, DoneB, DoneC,
       SelfBeforeCreate, SelfPathInstalled, CancelledAvail, PollCancelledPc,
       BranchPc, DoneState, Cascade
  <2>2. QED
    BY <2>1 DEF DoneInv, DoneB, DoneC
<1>3. CASE ManagerInstalls \/ StatusWrite
  <2>1. /\ store' = [store EXCEPT ![Pkg].fin = TRUE, ![Pkg].ver = @ + 1]
        /\ UNCHANGED <<image, procVars>>
        /\ store[Pkg].st = "live"
    BY <1>3 DEF ManagerInstalls, StatusWrite
  <2>2. store'[Pkg].st = "live"
    BY <1>1, <2>1
  <2>3. /\ UNCHANGED <<pc, branch, poll, nuked, image>>
        /\ store[Pkg].st = "live" /\ store'[Pkg].st = "live"
    BY <2>1, <2>2 DEF procVars
  <2>4. /\ deploy' \in {deploy, "available"}
        /\ deploy' # deploy => pc = "run"
        /\ avail' \in {avail, TRUE}
    BY <1>3 DEF ManagerInstalls, StatusWrite
  <2>6. DoneB'
    BY <1>1, <2>3, <2>4 DEF DoneInv, DoneB,
       SelfBeforeCreate, SelfPathInstalled
  <2>7. DoneC'
    <3>1. pc' = pc /\ branch' = branch /\ poll' = poll /\ image' = image
      BY <2>3
    <3>2. CancelledAvail'
      <4>1. CASE ManagerInstalls
        BY <4>1 DEF ManagerInstalls, CancelledAvail
      <4>2. CASE StatusWrite
        BY <1>1, <3>1, <4>2 DEF StatusWrite, DoneInv, CancelledAvail
      <4>3. QED
        BY <1>3, <4>1, <4>2
    <3>3. PollCancelledPc' /\ BranchPc'
      BY <1>1, <3>1 DEF DoneInv, PollCancelledPc, BranchPc
    <3>4. DoneState'
      BY <1>1, <2>3, <3>1 DEF DoneInv, DoneState
    <3>5. QED
      BY <3>2, <3>3, <3>4 DEF DoneC
  <2>8. QED
    BY <2>6, <2>7 DEF DoneInv, DoneB, DoneC
<1>4. CASE DeploymentRecovers
  <2>1. DoneB' /\ DoneC'
    BY <1>1, <1>4 DEF DeploymentRecovers, procVars, storeVars, DoneInv,
       DoneB, DoneC, SelfBeforeCreate, SelfPathInstalled, CancelledAvail,
       PollCancelledPc, BranchPc, DoneState
  <2>2. QED
    BY <2>1 DEF DoneInv, DoneB, DoneC
<1>5. CASE \E o \in CODs \cup COSs : GarbageCollect(o)
  <2>1. PICK o \in CODs \cup COSs : GarbageCollect(o)
    BY <1>5
  <2>2. o # Pkg /\ o \in Objs
    BY OwnedAssumption DEF Objs
  <2>3. store'[Pkg] = store[Pkg]
    BY <1>1, <2>1, <2>2 DEF GarbageCollect
  <2>4. DoneB' /\ DoneC'
    BY <1>1, <2>1, <2>3 DEF GarbageCollect, procVars, DoneInv, DoneB,
       DoneC, SelfBeforeCreate, SelfPathInstalled,
       CancelledAvail, PollCancelledPc, BranchPc, DoneState, Cascade
  <2>5. QED
    BY <2>4 DEF DoneInv, DoneB, DoneC
<1>6. CASE \E o \in Objs : FinalizeByOperator(o)
  <2>1. PICK o \in Objs : FinalizeByOperator(o)
    BY <1>6
  <2>2. UNCHANGED <<avail, image, deploy, pc, branch, poll, nuked>>
    BY <2>1 DEF FinalizeByOperator, procVars
  <2>3. CASE o # Pkg
    <3>1. store'[Pkg] = store[Pkg]
      BY <1>1, <2>1, <2>3 DEF FinalizeByOperator
    <3>2. DoneB' /\ DoneC'
      BY <1>1, <2>2, <3>1 DEF DoneInv, DoneB,
         DoneC, SelfBeforeCreate, SelfPathInstalled,
         CancelledAvail, PollCancelledPc, BranchPc, DoneState, Cascade
    <3>3. QED
      BY <3>2 DEF DoneInv, DoneB, DoneC
  <2>4. CASE o = Pkg
    <3>1. store[Pkg].st = "deleting" /\ store'[Pkg].st = "absent"
      BY <1>1, <2>1, <2>4 DEF FinalizeByOperator
    <3>2. /\ ~(branch = "self" /\ pc \in {"spawn", "run", "done"})
          /\ ~(branch = "self" /\ pc \in {"load", "crds", "create"})
      BY <1>1, <3>1 DEF DoneInv, DoneB, SelfBeforeCreate, SelfPathInstalled
    <3>3. DoneB' /\ DoneC'
      BY <1>1, <2>2, <3>1, <3>2 DEF DoneInv, DoneB,
         DoneC, SelfBeforeCreate, SelfPathInstalled,
         CancelledAvail, PollCancelledPc, BranchPc, DoneState, Cascade
    <3>4. QED
      BY <3>3 DEF DoneInv, DoneB, DoneC
  <2>5. QED
    BY <2>3, <2>4
<1>7. QED
  BY <1>2, <1>3, <1>4, <1>5, <1>6

\* Every step keeps ResultInv.
LEMMA ResultStep ==
  ASSUME ResultInv, [Next]_vars
  PROVE  ResultInv'
<1>1. NukeInv'
  BY NukeStep DEF ResultInv
<1>2. DoneInv'
  <2>1. CASE \/ GetInstalled \/ GetNotInstalled \/ StartCleanup
             \/ SkipCleanup \/ Repair \/ LoadBundle \/ EnsureCRDs
             \/ SpawnPoller \/ ManagerReturns \/ PollFails \/ ApiFails
             \/ Restart
    BY <2>1, DoneStepsNoWrite
  <2>2. CASE CascadeDelete \/ CascadeStrip \/ CascadeVerify \/ ListOwned
    BY <2>2, DoneStepsCascade
  <2>3. CASE UpdatePackage
    BY <2>3, DoneUpdatePackage
  <2>4. CASE CreatePackage \/ RacingCreate
    BY <2>4, DoneCreates
  <2>5. CASE \/ PollSeesAvailable \/ ManagerInstalls \/ StatusWrite
             \/ DeploymentRecovers
             \/ \E o \in CODs \cup COSs : GarbageCollect(o)
             \/ \E o \in Objs : FinalizeByOperator(o)
    BY <2>5, DoneEnv
  <2>6. CASE UNCHANGED vars
    BY <2>6 DEF vars, ResultInv, DoneInv,
       SelfBeforeCreate, SelfPathInstalled, CancelledAvail, PollCancelledPc,
       BranchPc, DoneState
  <2>7. QED
    BY <2>1, <2>2, <2>3, <2>4, <2>5, <2>6 DEF Next, BootstrapStep
<1>3. QED
  BY <1>1, <1>2 DEF ResultInv

\* When Bootstrap bootstrapped the package itself and returned nil, the
\* package is in the store at the new image and Available: for any number
\* of objects, faults and writes of the other actors, and whether or not
\* the Deployment becomes Available by itself (that is what breaks the same
\* claim for the update branch, see BootstrapDoomedUpdate.cfg).
THEOREM SelfInstallVerified == Spec => []SelfBootstrapInstalled
<1>1. Init => ResultInv
  BY NukeInitial, DoneInitial DEF ResultInv
<1>2. ResultInv /\ [Next]_vars => ResultInv'
  BY ResultStep
<1>3. ResultInv => SelfBootstrapInstalled
  BY DEF ResultInv, DoneInv, DoneState, SelfPathInstalled, CancelledAvail,
     SelfBootstrapInstalled
<1>4. QED
  BY <1>1, <1>2, <1>3, PTL DEF Spec

=============================================================================
