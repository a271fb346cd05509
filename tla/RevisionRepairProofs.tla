------------------------ MODULE RevisionRepairProofs ------------------------
(***************************************************************************)
(* Proofs about RevisionRepair, for every value of the constants.          *)
(***************************************************************************)
EXTENDS RevisionRepair, FiniteSetTheorems, WellFoundedInduction, TLAPS

(***************************************************************************)
(* highestRevisionNumber returns an upper bound of the revisions it is     *)
(* given, in the set or 0, whenever they are bounded.  The CHOOSE has a    *)
(* witness by the least-number principle: the least upper bound in Nat.    *)
(***************************************************************************)
LEMMA HighestIsUpperBound ==
  ASSUME NEW S \in SUBSET Nat, NEW B \in Nat, \A x \in S : x <= B
  PROVE  /\ HighestRevisionNumber(S) \in Nat
         /\ HighestRevisionNumber(S) <= B
         /\ \A x \in S : x <= HighestRevisionNumber(S)
<1> DEFINE U == {k \in Nat : \A x \in S : x <= k}
<1>1. U \subseteq Nat /\ U # {}
  OBVIOUS
<1>2. \E m \in U : \A y \in U : ~(<<y, m>> \in OpToRel(<, Nat))
  BY <1>1, NatLessThanWellFounded, WFMin
<1>3. PICK m \in U : \A y \in U : ~(y < m)
  BY <1>2 DEF OpToRel
<1>4. \E w \in S \cup {0} : \A x \in S : x <= w
  <2>1. CASE m = 0
    BY <2>1
  <2>2. CASE m # 0
    <3>1. m - 1 \notin U
      BY <1>3, <2>2
    <3>2. PICK x \in S : ~(x <= m - 1)
      BY <3>1, <2>2
    <3>3. x = m
      BY <3>2
    <3>4. QED
      BY <3>3
  <2>3. QED
    BY <2>1, <2>2
<1> DEFINE h == HighestRevisionNumber(S)
<1>5. h \in S \cup {0} /\ \A x \in S : x <= h
  BY <1>4 DEF HighestRevisionNumber
<1>6. \A w \in S \cup {0} : w \in Nat /\ w <= B
  OBVIOUS
<1>7. QED
  BY <1>5, <1>6

-----------------------------------------------------------------------------
(***************************************************************************)
(* The type invariant, strengthened so that it is inductive.  Revisions    *)
(* are bounded (set n never exceeds MaxRev + n, because spec.previous only *)
(* names earlier sets), so the CHOOSE of highestRevisionNumber has a       *)
(* witness; and in the loop every listed item is in cosByName.             *)
(***************************************************************************)
PrevEarlier == \A n \in Names : prev[n] \subseteq 1..(n - 1)

Bounded ==
  /\ \A n \in Names : cos[n].rev <= MaxRev + n
  /\ \A n \in DOMAIN mem : mem[n].rev <= MaxRev + n

LoopWellFormed ==
  rpc = "loop" => \A i \in 1..Len(snap) : snap[i] \in DOMAIN mem

TypeInv == TypeOK /\ PrevEarlier /\ Bounded /\ LoopWellFormed

\* What the loop computes for the item it is at, when its previous sets are
\* all in cosByName: a natural above each of them, and within the bound.
LEMMA RepairedRevisionFacts ==
  ASSUME TypeInv, rpc = "loop", idx <= Len(snap),
         prev[Current] \subseteq DOMAIN mem
  PROVE  /\ Current \in DOMAIN mem
         /\ RepairedRevision(Current) \in Nat
         /\ RepairedRevision(Current) <= MaxRev + Current
         /\ \A p \in prev[Current] : RepairedRevision(Current) > mem[p].rev
<1> USE NAssumption, MaxRevAssumption
<1>1. Current \in DOMAIN mem /\ Current \in Names
  BY DEF TypeInv, TypeOK, LoopWellFormed, Current
<1> DEFINE S == {mem[p].rev : p \in prev[Current]}
<1>2. S \subseteq Nat
  BY <1>1 DEF TypeInv, TypeOK, CosRecords
<1>3. \A p \in prev[Current] :
        /\ p \in Names /\ p <= Current - 1
        /\ mem[p].rev \in Nat /\ mem[p].rev <= MaxRev + p
  BY <1>1 DEF TypeInv, TypeOK, Bounded, PrevEarlier, CosRecords
<1>4. \A x \in S : x <= MaxRev + Current - 1
  BY <1>1, <1>3 DEF Names
<1>5. /\ HighestRevisionNumber(S) \in Nat
      /\ HighestRevisionNumber(S) <= MaxRev + Current - 1
      /\ \A x \in S : x <= HighestRevisionNumber(S)
  <2>1. MaxRev + Current - 1 \in Nat
    BY <1>1 DEF Names
  <2>2. QED
    BY <1>2, <1>4, <2>1, HighestIsUpperBound
<1>9. \A p \in prev[Current] : mem[p].rev \in S
  OBVIOUS
<1>6. ASSUME NEW h \in Nat, h <= MaxRev + Current - 1, \A x \in S : x <= h
      PROVE  /\ h + 1 \in Nat
             /\ h + 1 <= MaxRev + Current
             /\ \A p \in prev[Current] : h + 1 > mem[p].rev
  <2>1. Current \in Nat /\ MaxRev \in Nat
    BY <1>1, MaxRevAssumption DEF Names
  <2>2. h + 1 <= MaxRev + Current
    BY <2>1, <1>6
  <2>3. ASSUME NEW p \in prev[Current] PROVE h + 1 > mem[p].rev
    <3>1. mem[p].rev <= h
      BY <1>9, <1>6
    <3>2. QED
      BY <3>1, <1>3
  <2>4. QED
    BY <2>2, <2>3
<1>7. /\ HighestRevisionNumber(S) + 1 \in Nat
      /\ HighestRevisionNumber(S) + 1 <= MaxRev + Current
      /\ \A p \in prev[Current] : HighestRevisionNumber(S) + 1 > mem[p].rev
  BY <1>5, <1>6, Zenon
<1>8. QED
  BY <1>1, <1>7 DEF RepairedRevision

\* The writes the model makes to a ClusterObjectSet record keep it a record
\* of the same kind and leave its revision alone.
LEMMA CosFieldBumps ==
  ASSUME NEW o \in CosRecords
  PROVE  /\ [o EXCEPT !.ver = @ + 1] \in CosRecords
         /\ [o EXCEPT !.ver = @ + 1].rev = o.rev
         /\ [o EXCEPT !.cond = @ + 1] \in CosRecords
         /\ [o EXCEPT !.cond = @ + 1].rev = o.rev
<1>1. o = [rev |-> o.rev, phase |-> o.phase, cond |-> o.cond, ver |-> o.ver]
  BY DEF CosRecords
<1>2. o.rev \in Nat /\ o.phase \in Phases /\ o.cond \in Nat /\ o.ver \in Nat
  BY DEF CosRecords
<1>3. [o EXCEPT !.ver = @ + 1]
        = [rev |-> o.rev, phase |-> o.phase, cond |-> o.cond, ver |-> o.ver + 1]
  BY <1>1
<1>4. [o EXCEPT !.cond = @ + 1]
        = [rev |-> o.rev, phase |-> o.phase, cond |-> o.cond + 1, ver |-> o.ver]
  BY <1>1
<1>5. QED
  BY <1>2, <1>3, <1>4 DEF CosRecords

LEMMA CosRecordWrites ==
  ASSUME NEW o \in CosRecords
  PROVE  /\ [o EXCEPT !.ver = @ + 1] \in CosRecords
         /\ [o EXCEPT !.ver = @ + 1].rev = o.rev
         /\ [o EXCEPT !.cond = @ + 1, !.ver = @ + 1] \in CosRecords
         /\ [o EXCEPT !.cond = @ + 1, !.ver = @ + 1].rev = o.rev
<1>1. [o EXCEPT !.cond = @ + 1, !.ver = @ + 1]
        = [[o EXCEPT !.cond = @ + 1] EXCEPT !.ver = @ + 1]
  OBVIOUS
<1>2. [o EXCEPT !.cond = @ + 1] \in CosRecords
      /\ [o EXCEPT !.cond = @ + 1].rev = o.rev
  BY CosFieldBumps
<1>3. QED
  BY <1>1, <1>2, CosFieldBumps

\* A snapshot taken by List is a sequence of the sets the store holds.
LEMMA ListedSnapshot ==
  ASSUME NEW s \in SetToSeqs(present), present \subseteq Names
  PROVE  /\ s \in Seq(Names)
         /\ \A i \in 1..Len(s) : s[i] \in present
<1>1. IsFiniteSet(present) /\ Cardinality(present) \in Nat
  <2>1. IsFiniteSet(1..N)
    BY NAssumption, FS_Interval
  <2>2. IsFiniteSet(present)
    BY <2>1, FS_Subset DEF Names
  <2>3. QED
    BY <2>2, FS_CardinalityType
<1>2. s \in [1..Cardinality(present) -> present]
  BY DEF SetToSeqs
<1>3. QED
  BY <1>1, <1>2

\* The initial states satisfy the strengthened type invariant.
LEMMA TypeInitial == Init => TypeInv
  BY NAssumption, MaxRevAssumption, CrashesAssumption, BoundsAssumption
  DEF Init, TypeInv, TypeOK, CosRecords, PrevEarlier, Bounded,
      LoopWellFormed, InitialGraph, Names

\* Every step of the repair and of its environment preserves it.
LEMMA TypeStep == TypeInv /\ [Next]_vars => TypeInv'
<1> USE NAssumption, MaxRevAssumption, CrashesAssumption, BoundsAssumption
<1>2. TypeInv /\ [Next]_vars => TypeInv'
  <2> SUFFICES ASSUME TypeInv, [Next]_vars PROVE TypeInv'
    OBVIOUS
  <2>1. CASE List
    <3>1. PICK s \in SetToSeqs(present) : snap' = s
      BY <2>1 DEF List
    <3>2. /\ s \in Seq(Names)
          /\ \A i \in 1..Len(s) : s[i] \in present
      BY ListedSnapshot DEF TypeInv, TypeOK
    <3>3. QED
      BY <2>1, <3>1, <3>2
      DEF List, TypeInv, TypeOK, PrevEarlier, Bounded, LoopWellFormed,
          storeVars
  <2>2. CASE ListFails
    BY <2>2 DEF ListFails, TypeInv, TypeOK, PrevEarlier, Bounded,
               LoopWellFormed, storeVars
  <2>3. CASE SkipItem
    BY <2>3 DEF SkipItem, TypeInv, TypeOK, PrevEarlier, Bounded,
               LoopWellFormed, storeVars
  <2>4. CASE PanicOnMissingPrevious
    BY <2>4 DEF PanicOnMissingPrevious, TypeInv, TypeOK, PrevEarlier,
               Bounded, LoopWellFormed, storeVars
  <2>5. CASE PatchRevision
    <3> DEFINE c == Current
               obj == [mem[c] EXCEPT !.rev = RepairedRevision(c)]
    <3>1. /\ c \in DOMAIN mem /\ c \in Names
          /\ RepairedRevision(c) \in Nat
          /\ RepairedRevision(c) <= MaxRev + c
      BY <2>5, RepairedRevisionFacts DEF PatchRevision, TypeInv, TypeOK
    <3>2. obj \in CosRecords /\ obj.rev <= MaxRev + c
      BY <3>1 DEF TypeInv, TypeOK, CosRecords
    <3>3. mem' = [mem EXCEPT ![c] = obj]
      BY <2>5 DEF PatchRevision
    <3>4. /\ DOMAIN mem' = DOMAIN mem
          /\ \A n \in DOMAIN mem' : mem'[n] \in CosRecords
          /\ \A n \in DOMAIN mem' : mem'[n].rev <= MaxRev + n
      BY <3>1, <3>2, <3>3 DEF TypeInv, TypeOK, Bounded
    <3>5. /\ cos' \in [Names -> CosRecords]
          /\ \A n \in Names : cos'[n].rev <= MaxRev + n
      <4>1. cos' = [cos EXCEPT ![c] = [obj EXCEPT !.ver = @ + 1]]
        BY <2>5 DEF PatchRevision
      <4>2. [obj EXCEPT !.ver = @ + 1] \in CosRecords
            /\ [obj EXCEPT !.ver = @ + 1].rev = obj.rev
        BY <3>2, CosRecordWrites
      <4>3. cos' \in [Names -> CosRecords]
        BY <3>1, <4>1, <4>2 DEF TypeInv, TypeOK
      <4>4. cos'[c].rev <= MaxRev + c
        BY <3>2, <4>1, <4>2, <3>1 DEF TypeInv, TypeOK
      <4>5. \A n \in Names \ {c} : cos'[n] = cos[n]
        BY <4>1 DEF TypeInv, TypeOK
      <4>6. QED
        BY <4>3, <4>4, <4>5 DEF TypeInv, Bounded
    <3>6. /\ UNCHANGED <<present, prev, rpc, snap, faults, envWrites>>
          /\ idx' = idx + 1
      BY <2>5 DEF PatchRevision
    <3>7. TypeOK'
      BY <3>4, <3>5, <3>6 DEF TypeInv, TypeOK
    <3>8. QED
      BY <3>4, <3>5, <3>6, <3>7
      DEF TypeInv, PrevEarlier, Bounded, LoopWellFormed
  <2>6. CASE PatchFails
    <3> DEFINE c == Current
               obj == [mem[c] EXCEPT !.rev = RepairedRevision(c)]
    <3>1. /\ c \in DOMAIN mem /\ c \in Names
          /\ RepairedRevision(c) \in Nat
          /\ RepairedRevision(c) <= MaxRev + c
      BY <2>6, RepairedRevisionFacts DEF PatchFails, TypeInv, TypeOK
    <3>2. obj \in CosRecords /\ obj.rev <= MaxRev + c
      BY <3>1 DEF TypeInv, TypeOK, CosRecords
    <3>3. mem' = [mem EXCEPT ![c] = obj]
      BY <2>6 DEF PatchFails
    <3>4. /\ DOMAIN mem' = DOMAIN mem
          /\ \A n \in DOMAIN mem' : mem'[n] \in CosRecords
          /\ \A n \in DOMAIN mem' : mem'[n].rev <= MaxRev + n
      BY <3>1, <3>2, <3>3 DEF TypeInv, TypeOK, Bounded
    <3>5. faults' \in 0..MaxFaults
      BY <2>6 DEF PatchFails, TypeInv, TypeOK
    <3>6. QED
      BY <2>6, <3>4, <3>5
      DEF PatchFails, TypeInv, TypeOK, PrevEarlier, Bounded,
          LoopWellFormed, storeVars
  <2>7. CASE Finish
    BY <2>7 DEF Finish, TypeInv, TypeOK, PrevEarlier, Bounded,
               LoopWellFormed, storeVars
  <2>8. CASE Rerun
    BY <2>8 DEF Rerun, TypeInv, TypeOK, PrevEarlier, Bounded,
               LoopWellFormed, storeVars
  <2>9. ASSUME NEW n \in present, ObjectSetStatusWrite(n)
        PROVE  TypeInv'
    <3>1. /\ cos' \in [Names -> CosRecords]
          /\ \A m \in Names : cos'[m].rev = cos[m].rev
      <4>1. cos' = [cos EXCEPT ![n] = [cos[n] EXCEPT !.cond = @ + 1,
                                                     !.ver = @ + 1]]
        BY <2>9 DEF ObjectSetStatusWrite
      <4>2. n \in Names /\ cos[n] \in CosRecords
        BY DEF TypeInv, TypeOK
      <4>3. QED
        BY <4>1, <4>2, CosRecordWrites DEF TypeInv, TypeOK
    <3>2. QED
      BY <2>9, <3>1 DEF ObjectSetStatusWrite, TypeInv, TypeOK,
                        PrevEarlier, Bounded, LoopWellFormed, repairVars
  <2>10. CASE UNCHANGED vars
    BY <2>10 DEF vars, TypeInv, TypeOK, PrevEarlier, Bounded, LoopWellFormed
  <2>11. QED
    BY <2>1, <2>2, <2>3, <2>4, <2>5, <2>6, <2>7, <2>8, <2>9, <2>10
    DEF Next, RepairStep
<1>3. QED
  BY <1>2

\* Type correctness of fixMissingRevisionNumbers and its environment: in
\* particular every revision the loop computes is a natural number (the
\* CHOOSE of highestRevisionNumber always has a witness).
THEOREM TypeCorrect == Spec => []TypeOK
<1>1. Init => TypeInv
  BY TypeInitial
<1>2. TypeInv /\ [Next]_vars => TypeInv'
  BY TypeStep
<1>3. QED
  BY <1>1, <1>2, PTL DEF Spec, TypeInv

-----------------------------------------------------------------------------
(***************************************************************************)
(* Revisions increase along spec.previous, when no rollout was stacked on  *)
(* a crashed set.  RevisionsIncrease alone is not inductive: the loop      *)
(* computes a new revision from the in-memory copy, so the proof needs     *)
(* that the in-memory revision of every set the repair can read is the     *)
(* stored one.  That holds because only crashed sets are ever patched (a   *)
(* set with an assigned revision never looks stuck) and no crashed set is  *)
(* a previous set, so the revisions the loop reads never change.           *)
(***************************************************************************)
NoCrashedPrev == \A n \in Names : prev[n] \cap Crashes = {}

AssignedNonZero == \A n \in Assigned : cos[n].rev # 0

IncreasingEverywhere ==
  \A n \in Names : cos[n].rev # 0 => \A p \in prev[n] : cos[p].rev < cos[n].rev

MemAgrees == \A n \in DOMAIN mem \cap Assigned : mem[n].rev = cos[n].rev

RevInv ==
  TypeInv /\ NoCrashedPrev /\ AssignedNonZero /\ IncreasingEverywhere
          /\ MemAgrees

LEMMA RevInitial == ~Stacked /\ Init => RevInv
<1> SUFFICES ASSUME ~Stacked, Init PROVE RevInv
  OBVIOUS
<1>1. TypeInv
  BY TypeInitial
<1>2. NoCrashedPrev
  BY DEF Init, InitialGraph, NoCrashedPrev
<1>3. AssignedNonZero
  BY DEF Init, InitialStatus, AssignedNonZero
<1>4. IncreasingEverywhere
  <2>1. \A n \in Names : cos[n].rev # 0 => n \in Assigned
    BY DEF Init, InitialStatus, Assigned
  <2>2. \A n \in Names : prev[n] \subseteq Assigned
    BY <1>1, <1>2 DEF NoCrashedPrev, TypeInv, TypeOK, Assigned
  <2>3. QED
    BY <1>1, <2>1, <2>2
    DEF Init, InitialStatus, IncreasingEverywhere, TypeInv, PrevEarlier,
        Assigned, Names
<1>5. MemAgrees
  BY DEF Init, MemAgrees
<1>6. QED
  BY <1>1, <1>2, <1>3, <1>4, <1>5 DEF RevInv

\* The set the loop patches is a crashed one.
LEMMA PatchedIsCrashed ==
  ASSUME RevInv, rpc = "loop", idx <= Len(snap), Stuck(Current)
  PROVE  Current \in Crashes
<1>1. Current \in DOMAIN mem /\ Current \in Names
  BY DEF RevInv, TypeInv, TypeOK, LoopWellFormed, Current
<1>2. mem[Current].rev = 0
  BY DEF Stuck
<1>3. Current \in Assigned => cos[Current].rev = 0
  BY <1>1, <1>2 DEF RevInv, MemAgrees
<1>4. QED
  BY <1>1, <1>3 DEF RevInv, AssignedNonZero, Assigned

LEMMA RevStep == RevInv /\ [Next]_vars => RevInv'
<1> SUFFICES ASSUME RevInv, [Next]_vars PROVE RevInv'
  OBVIOUS
<1>1. TypeInv'
  BY TypeStep DEF RevInv
<1> DEFINE Facts == NoCrashedPrev /\ AssignedNonZero /\ IncreasingEverywhere
                    /\ MemAgrees
<1>2. SUFFICES Facts'
  BY <1>1 DEF RevInv
<1>3. CASE List
  BY <1>3 DEF List, RevInv, NoCrashedPrev, AssignedNonZero,
              IncreasingEverywhere, MemAgrees, storeVars
<1>4. CASE ListFails \/ SkipItem \/ PanicOnMissingPrevious \/ Finish
  BY <1>4 DEF ListFails, SkipItem, PanicOnMissingPrevious, Finish, RevInv,
              NoCrashedPrev, AssignedNonZero, IncreasingEverywhere,
              MemAgrees, storeVars
<1>5. CASE Rerun
  BY <1>5 DEF Rerun, RevInv, NoCrashedPrev, AssignedNonZero,
              IncreasingEverywhere, MemAgrees, storeVars
<1>6. ASSUME NEW n \in present, ObjectSetStatusWrite(n) PROVE Facts'
  <2>1. \A m \in Names : cos'[m].rev = cos[m].rev
    <3>1. cos' = [cos EXCEPT ![n] = [cos[n] EXCEPT !.cond = @ + 1,
                                                   !.ver = @ + 1]]
      BY <1>6 DEF ObjectSetStatusWrite
    <3>2. n \in Names /\ cos[n] \in CosRecords
      BY DEF RevInv, TypeInv, TypeOK
    <3>3. QED
      BY <3>1, <3>2, CosRecordWrites DEF RevInv, TypeInv, TypeOK
  <2>2. QED
    BY <1>6, <2>1 DEF ObjectSetStatusWrite, RevInv, NoCrashedPrev,
       AssignedNonZero, IncreasingEverywhere, MemAgrees, repairVars,
       TypeInv, TypeOK, Assigned
<1>7. CASE PatchRevision
  <2> DEFINE c == Current
             obj == [mem[c] EXCEPT !.rev = RepairedRevision(c)]
  <2>1. /\ c \in DOMAIN mem /\ c \in Names
        /\ RepairedRevision(c) \in Nat
        /\ \A p \in prev[c] : RepairedRevision(c) > mem[p].rev
    BY <1>7, RepairedRevisionFacts DEF PatchRevision, RevInv, TypeInv, TypeOK
  <2>2. c \in Crashes
    BY <1>7, PatchedIsCrashed DEF PatchRevision
  <2>3. obj \in CosRecords /\ obj.rev = RepairedRevision(c)
    BY <2>1 DEF RevInv, TypeInv, TypeOK, CosRecords
  <2>4. /\ cos' = [cos EXCEPT ![c] = [obj EXCEPT !.ver = @ + 1]]
        /\ mem' = [mem EXCEPT ![c] = obj]
        /\ UNCHANGED <<present, prev>>
    BY <1>7 DEF PatchRevision
  <2>5. /\ cos'[c].rev = RepairedRevision(c)
        /\ \A m \in Names \ {c} : cos'[m] = cos[m]
    BY <2>1, <2>3, <2>4, CosRecordWrites DEF RevInv, TypeInv, TypeOK
  <2>6. \A p \in prev[c] : p # c /\ p \in Assigned /\ p \in DOMAIN mem
    <3>1. prev[c] \subseteq DOMAIN mem
      BY <1>7 DEF PatchRevision
    <3>2. prev[c] \subseteq 1..(c - 1)
      BY <2>1 DEF RevInv, TypeInv, PrevEarlier
    <3>3. prev[c] \subseteq Names /\ prev[c] \cap Crashes = {}
      BY <2>1 DEF RevInv, TypeInv, TypeOK, NoCrashedPrev
    <3>4. c \in Nat
      BY <2>1 DEF Names
    <3>5. QED
      BY <3>1, <3>2, <3>3, <3>4 DEF Assigned
  <2>7. IncreasingEverywhere'
    <3>1. \A p \in prev[c] : cos'[p].rev < cos'[c].rev
      BY <2>1, <2>5, <2>6 DEF RevInv, MemAgrees, TypeInv, TypeOK
    <3>2. \A n \in Names \ {c} : \A p \in prev[n] : p # c
      BY <2>2 DEF RevInv, NoCrashedPrev
    <3>3. QED
      BY <2>4, <2>5, <3>1, <3>2 DEF RevInv, IncreasingEverywhere,
                                    TypeInv, TypeOK
  <2>8. QED
    BY <2>2, <2>4, <2>5, <2>7 DEF RevInv, NoCrashedPrev, AssignedNonZero,
                                  MemAgrees, Assigned
<1>8. CASE PatchFails
  <2>1. Current \in Crashes
    BY <1>8, PatchedIsCrashed DEF PatchFails
  <2>2. /\ mem' = [mem EXCEPT ![Current] =
                     [mem[Current] EXCEPT !.rev = RepairedRevision(Current)]]
        /\ UNCHANGED storeVars
    BY <1>8 DEF PatchFails
  <2>3. QED
    BY <2>1, <2>2 DEF RevInv, NoCrashedPrev, AssignedNonZero,
                      IncreasingEverywhere, MemAgrees, Assigned, storeVars
<1>9. CASE UNCHANGED vars
  BY <1>9 DEF vars, RevInv, NoCrashedPrev, AssignedNonZero,
              IncreasingEverywhere, MemAgrees
<1>10. QED
  BY <1>2, <1>3, <1>4, <1>5, <1>6, <1>7, <1>8, <1>9 DEF Next, RepairStep

\* fixMissingRevisionNumbers keeps revision numbers strictly increasing
\* along spec.previous, at every moment and in every interleaving with the
\* in-cluster status writes, Conflicts and Job restarts, provided no rollout
\* was created on top of a set that is still stuck.
THEOREM RevisionsIncreaseHolds ==
  ASSUME ~Stacked PROVE Spec => []RevisionsIncrease
<1>1. Init => RevInv
  BY RevInitial
<1>2. RevInv /\ [Next]_vars => RevInv'
  BY RevStep
<1>3. RevInv => RevisionsIncrease
  BY DEF RevInv, IncreasingEverywhere, RevisionsIncrease, TypeInv, TypeOK
<1>4. QED
  BY <1>1, <1>2, <1>3, PTL DEF Spec

-----------------------------------------------------------------------------
(***************************************************************************)
(* What a completed repair leaves behind, and what its patches never undo. *)
(* Both hold for every value of the constants, Stacked included.  The     *)
(* loop decides from the in-memory copy whether a set looks stuck, so the *)
(* proof needs that, during the loop, the copy agrees with the store on   *)
(* revision and phase (only the loop writes them); that a set at revision *)
(* 0 is Pending; and that every set the store still holds stuck is at or  *)
(* after the loop index, because List returned all of them.  For the      *)
(* conditions, an in-memory copy is never newer than the store, and when  *)
(* its resourceVersion is the stored one it holds the stored conditions.  *)
(***************************************************************************)
StoreAgrees ==
  rpc = "loop" =>
    \A n \in DOMAIN mem : mem[n].rev = cos[n].rev /\ mem[n].phase = cos[n].phase

ZeroPending == \A n \in Names : cos[n].rev = 0 => cos[n].phase = "Pending"

StuckListed ==
  rpc \in {"loop", "done"} =>
    \A n \in present : prev[n] # {} /\ cos[n].rev = 0 =>
      \E k \in idx..Len(snap) : snap[k] = n

DoneVisitedAll == rpc = "done" => idx > Len(snap)

MemNotAhead ==
  \A n \in DOMAIN mem :
    /\ mem[n].ver <= cos[n].ver
    /\ mem[n].ver = cos[n].ver => mem[n].cond = cos[n].cond

LoopInv ==
  /\ TypeInv /\ StoreAgrees /\ ZeroPending /\ StuckListed /\ DoneVisitedAll
  /\ MemNotAhead

\* List returns every set the store holds: an injective sequence of length
\* |present| into present is onto it.
LEMMA SnapshotCoversPresent ==
  ASSUME NEW s \in SetToSeqs(present), present \subseteq Names
  PROVE  \A n \in present : \E k \in 1..Len(s) : s[k] = n
<1> DEFINE C == Cardinality(present)
<1>1. IsFiniteSet(present) /\ C \in Nat
  <2>1. IsFiniteSet(1..N)
    BY NAssumption, FS_Interval
  <2>2. IsFiniteSet(present)
    BY <2>1, FS_Subset DEF Names
  <2>3. QED
    BY <2>2, FS_CardinalityType
<1>2. s \in Injection(1..C, present)
  BY DEF SetToSeqs, Injection, IsInjective
<1>3. Cardinality(1..C) = C
  BY <1>1, FS_Interval
<1>4. s \in Surjection(1..C, present)
  BY <1>1, <1>2, <1>3, FS_Injection
<1>5. Len(s) = C
  BY <1>1, <1>2 DEF Injection
<1>6. QED
  BY <1>4, <1>5 DEF Surjection

\* The fields of a ClusterObjectSet record after the writes of the model.
LEMMA CosBumpFields ==
  ASSUME NEW o \in CosRecords
  PROVE  /\ [o EXCEPT !.ver = @ + 1].rev = o.rev
         /\ [o EXCEPT !.ver = @ + 1].phase = o.phase
         /\ [o EXCEPT !.ver = @ + 1].cond = o.cond
         /\ [o EXCEPT !.ver = @ + 1].ver = o.ver + 1
         /\ [o EXCEPT !.cond = @ + 1].rev = o.rev
         /\ [o EXCEPT !.cond = @ + 1].phase = o.phase
         /\ [o EXCEPT !.cond = @ + 1].cond = o.cond + 1
         /\ [o EXCEPT !.cond = @ + 1].ver = o.ver
<1>1. o = [rev |-> o.rev, phase |-> o.phase, cond |-> o.cond, ver |-> o.ver]
  BY DEF CosRecords
<1>2. [o EXCEPT !.ver = @ + 1]
        = [rev |-> o.rev, phase |-> o.phase, cond |-> o.cond, ver |-> o.ver + 1]
  BY <1>1
<1>3. [o EXCEPT !.cond = @ + 1]
        = [rev |-> o.rev, phase |-> o.phase, cond |-> o.cond + 1, ver |-> o.ver]
  BY <1>1
<1>4. QED
  BY <1>2, <1>3

LEMMA CosWriteFields ==
  ASSUME NEW o \in CosRecords
  PROVE  /\ [o EXCEPT !.ver = @ + 1].rev = o.rev
         /\ [o EXCEPT !.ver = @ + 1].phase = o.phase
         /\ [o EXCEPT !.ver = @ + 1].cond = o.cond
         /\ [o EXCEPT !.ver = @ + 1].ver = o.ver + 1
         /\ [o EXCEPT !.cond = @ + 1, !.ver = @ + 1].rev = o.rev
         /\ [o EXCEPT !.cond = @ + 1, !.ver = @ + 1].phase = o.phase
         /\ [o EXCEPT !.cond = @ + 1, !.ver = @ + 1].cond = o.cond + 1
         /\ [o EXCEPT !.cond = @ + 1, !.ver = @ + 1].ver = o.ver + 1
<1> DEFINE o1 == [o EXCEPT !.cond = @ + 1]
<1>1. [o EXCEPT !.cond = @ + 1, !.ver = @ + 1] = [o1 EXCEPT !.ver = @ + 1]
  OBVIOUS
<1>2. o1 \in CosRecords
  BY CosFieldBumps
<1>3. QED
  BY <1>1, <1>2, CosBumpFields

LEMMA LoopInitial == Init => LoopInv
<1> SUFFICES ASSUME Init PROVE LoopInv
  OBVIOUS
<1>1. TypeInv
  BY TypeInitial
<1>2. ZeroPending
  BY DEF Init, InitialStatus, ZeroPending, Assigned
<1>3. QED
  BY <1>1, <1>2 DEF Init, LoopInv, StoreAgrees, StuckListed, DoneVisitedAll,
                    MemNotAhead


LEMMA LoopStep == LoopInv /\ [Next]_vars => LoopInv'
<1> SUFFICES ASSUME LoopInv, [Next]_vars PROVE LoopInv'
  OBVIOUS
<1> USE NAssumption
<1>1. TypeInv'
  BY TypeStep DEF LoopInv
<1> DEFINE Facts == StoreAgrees /\ ZeroPending /\ StuckListed
                    /\ DoneVisitedAll /\ MemNotAhead
<1>2. SUFFICES Facts'
  BY <1>1 DEF LoopInv
<1>3. CASE List
  <2>1. PICK s \in SetToSeqs(present) : snap' = s
    BY <1>3 DEF List
  <2>2. \A n \in present : \E k \in 1..Len(s) : s[k] = n
    BY SnapshotCoversPresent DEF LoopInv, TypeInv, TypeOK
  <2>3. /\ mem' = [n \in present |-> cos[n]] /\ rpc' = "loop" /\ idx' = 1
        /\ UNCHANGED storeVars
    BY <1>3 DEF List
  <2>4. StuckListed'
    BY <2>1, <2>2, <2>3 DEF StuckListed, storeVars
  <2>5. StoreAgrees' /\ MemNotAhead'
    BY <2>3 DEF StoreAgrees, MemNotAhead, storeVars, LoopInv, TypeInv, TypeOK,
       CosRecords
  <2>6. QED
    BY <2>3, <2>4, <2>5 DEF storeVars, LoopInv, ZeroPending, DoneVisitedAll
<1>4. CASE ListFails \/ PanicOnMissingPrevious
  BY <1>4 DEF ListFails, PanicOnMissingPrevious, storeVars, LoopInv,
     StoreAgrees, ZeroPending, StuckListed, DoneVisitedAll, MemNotAhead
<1>5. CASE Finish
  BY <1>5 DEF Finish, storeVars, LoopInv, StoreAgrees, ZeroPending,
     StuckListed, DoneVisitedAll, MemNotAhead
<1>6. CASE Rerun
  BY <1>6 DEF Rerun, storeVars, LoopInv, StoreAgrees, ZeroPending,
     StuckListed, DoneVisitedAll, MemNotAhead
<1>7. CASE SkipItem
  <2>1. Current \in DOMAIN mem /\ Current \in Names /\ idx \in Nat
    BY <1>7 DEF SkipItem, LoopInv, TypeInv, TypeOK, LoopWellFormed, Current
  <2>2. ~(prev[Current] # {} /\ cos[Current].rev = 0)
    BY <1>7, <2>1 DEF SkipItem, Stuck, LoopInv, StoreAgrees, ZeroPending
  <2>3. StuckListed'
    BY <1>7, <2>1, <2>2 DEF SkipItem, storeVars, LoopInv, StuckListed,
       Current
  <2>4. QED
    BY <1>7, <2>3 DEF SkipItem, storeVars, LoopInv, StoreAgrees,
       ZeroPending, DoneVisitedAll, MemNotAhead
<1>8. CASE PatchRevision
  <2> DEFINE c == Current
             obj == [mem[c] EXCEPT !.rev = RepairedRevision(c)]
  <2>1. /\ c \in DOMAIN mem /\ c \in Names /\ idx \in Nat
        /\ RepairedRevision(c) \in Nat
        /\ \A p \in prev[c] : RepairedRevision(c) > mem[p].rev
    BY <1>8, RepairedRevisionFacts DEF PatchRevision, LoopInv, TypeInv, TypeOK
  <2>2. RepairedRevision(c) # 0
    <3>1. PICK p \in prev[c] : TRUE
      BY <1>8 DEF PatchRevision, Stuck
    <3>2. p \in DOMAIN mem
      BY <1>8 DEF PatchRevision
    <3>3. mem[p].rev \in Nat
      BY <3>2 DEF LoopInv, TypeInv, TypeOK, CosRecords
    <3>4. QED
      BY <2>1, <3>3
  <2>3. mem[c] \in CosRecords /\ obj \in CosRecords
    BY <2>1 DEF LoopInv, TypeInv, TypeOK, CosRecords
  <2>4. /\ obj.rev = RepairedRevision(c) /\ obj.phase = mem[c].phase
        /\ obj.cond = mem[c].cond /\ obj.ver = mem[c].ver
    BY <2>3 DEF CosRecords
  <2>5. /\ cos' = [cos EXCEPT ![c] = [obj EXCEPT !.ver = @ + 1]]
        /\ mem' = [mem EXCEPT ![c] = obj]
        /\ PatchAccepted(c, obj)
        /\ idx' = idx + 1 /\ rpc = "loop"
        /\ UNCHANGED <<present, prev, rpc, snap>>
    BY <1>8 DEF PatchRevision
  <2>6. /\ cos'[c].rev = obj.rev /\ cos'[c].phase = obj.phase
        /\ cos'[c].ver = obj.ver + 1
        /\ \A m \in Names \ {c} : cos'[m] = cos[m]
    BY <2>1, <2>3, <2>5, CosWriteFields DEF LoopInv, TypeInv, TypeOK
  <2>7. /\ mem'[c] = obj /\ DOMAIN mem' = DOMAIN mem
        /\ \A m \in DOMAIN mem \ {c} : mem'[m] = mem[m]
    BY <2>1, <2>5
  <2>8. StoreAgrees'
    BY <2>4, <2>5, <2>6, <2>7, <2>1 DEF LoopInv, StoreAgrees, TypeInv, TypeOK
  <2>9. ZeroPending'
    BY <2>2, <2>4, <2>6 DEF LoopInv, ZeroPending
  <2>10. StuckListed'
    BY <1>8, <2>1, <2>2, <2>4, <2>5, <2>6
    DEF LoopInv, StuckListed, TypeInv, TypeOK, Current
  <2>11. MemNotAhead'
    <3>1. mem'[c].ver <= cos'[c].ver /\ mem'[c].ver # cos'[c].ver
      BY <2>3, <2>4, <2>6, <2>7 DEF CosRecords
    <3>2. ASSUME NEW m \in DOMAIN mem \ {c}
          PROVE  /\ mem'[m].ver <= cos'[m].ver
                 /\ mem'[m].ver = cos'[m].ver => mem'[m].cond = cos'[m].cond
      BY <2>6, <2>7 DEF LoopInv, MemNotAhead, TypeInv, TypeOK
    <3>3. QED
      BY <3>1, <3>2, <2>7 DEF MemNotAhead
  <2>12. QED
    BY <2>5, <2>8, <2>9, <2>10, <2>11 DEF DoneVisitedAll
<1>9. CASE PatchFails
  <2> DEFINE c == Current
             obj == [mem[c] EXCEPT !.rev = RepairedRevision(c)]
  <2>1. c \in DOMAIN mem /\ mem[c] \in CosRecords
    BY <1>9 DEF PatchFails, LoopInv, TypeInv, TypeOK, LoopWellFormed, Current
  <2>2. obj.cond = mem[c].cond /\ obj.ver = mem[c].ver
    BY <2>1 DEF CosRecords
  <2>3. /\ mem' = [mem EXCEPT ![c] = obj]
        /\ rpc' = "failed"
        /\ UNCHANGED storeVars
    BY <1>9 DEF PatchFails
  <2>4. QED
    BY <2>1, <2>2, <2>3 DEF LoopInv, StoreAgrees, ZeroPending, StuckListed,
       DoneVisitedAll, MemNotAhead, storeVars
<1>10. ASSUME NEW n \in present, ObjectSetStatusWrite(n) PROVE Facts'
  <2>1. n \in Names /\ cos[n] \in CosRecords
    BY DEF LoopInv, TypeInv, TypeOK
  <2>2. /\ cos' = [cos EXCEPT ![n] = [cos[n] EXCEPT !.cond = @ + 1,
                                                    !.ver = @ + 1]]
        /\ UNCHANGED <<present, prev, rpc, snap, mem, idx>>
    BY <1>10 DEF ObjectSetStatusWrite, repairVars
  <2>3. /\ cos'[n].rev = cos[n].rev /\ cos'[n].phase = cos[n].phase
        /\ cos'[n].ver = cos[n].ver + 1
        /\ \A m \in Names \ {n} : cos'[m] = cos[m]
    BY <2>1, <2>2, CosWriteFields DEF LoopInv, TypeInv, TypeOK
  <2>4. \A m \in DOMAIN mem : mem[m].ver \in Nat /\ cos[m].ver \in Nat
    BY DEF LoopInv, TypeInv, TypeOK, CosRecords
  <2>5. QED
    BY <2>2, <2>3, <2>4 DEF LoopInv, StoreAgrees, ZeroPending, StuckListed,
       DoneVisitedAll, MemNotAhead, TypeInv, TypeOK
<1>11. CASE UNCHANGED vars
  BY <1>11 DEF vars, LoopInv, StoreAgrees, ZeroPending, StuckListed,
     DoneVisitedAll, MemNotAhead
<1>12. QED
  BY <1>3, <1>4, <1>5, <1>6, <1>7, <1>8, <1>9, <1>10, <1>11 DEF Next,
     RepairStep


\* A repair run that returned nil left no ClusterObjectSet with previous
\* sets at revision 0, for every number of sets, every crash pattern and
\* every interleaving with status writes, Conflicts and Job restarts
\* (RepairLeavesNoneStuck).
THEOREM NoneStuckAfterRepair == Spec => []RepairLeavesNoneStuck
<1>1. LoopInv => RepairLeavesNoneStuck
  <2> SUFFICES ASSUME LoopInv, rpc = "done", NEW n \in present, prev[n] # {},
                      cos[n].rev = 0
               PROVE  FALSE
    BY DEF RepairLeavesNoneStuck
  <2>1. idx > Len(snap) /\ idx \in Nat
    BY DEF LoopInv, DoneVisitedAll, TypeInv, TypeOK
  <2>2. \E k \in idx..Len(snap) : snap[k] = n
    BY DEF LoopInv, StuckListed
  <2>3. QED
    BY <2>1, <2>2
<1>2. QED
  BY <1>1, LoopInitial, LoopStep, PTL DEF Spec

\* The step ConditionsNeverRolledBack constrains.
CondStep == \A n \in Names : cos'[n].cond >= cos[n].cond

\* A status patch of the repair never rolls back the conditions the
\* in-cluster ObjectSet controller wrote: the patch carries the listed
\* resourceVersion, and a copy whose resourceVersion is current holds the
\* current conditions.
LEMMA CondStepHolds == LoopInv /\ [Next]_vars => [CondStep]_vars
<1> SUFFICES ASSUME LoopInv, [Next]_vars PROVE CondStep
  BY DEF CondStep
<1>1. \A m \in Names : cos[m].cond \in Nat
  BY DEF LoopInv, TypeInv, TypeOK, CosRecords
<1>2. CASE PatchRevision
  <2> DEFINE c == Current
             obj == [mem[c] EXCEPT !.rev = RepairedRevision(c)]
  <2>1. c \in DOMAIN mem /\ c \in Names /\ mem[c] \in CosRecords
    BY <1>2 DEF PatchRevision, LoopInv, TypeInv, TypeOK, LoopWellFormed,
       Current
  <2>2. obj \in CosRecords /\ obj.cond = mem[c].cond /\ obj.ver = mem[c].ver
    <3>1. RepairedRevision(c) \in Nat
      BY <1>2, RepairedRevisionFacts DEF PatchRevision, LoopInv
    <3>2. QED
      BY <2>1, <3>1 DEF CosRecords
  <2>3. cos[c].ver = mem[c].ver
    BY <1>2, <2>2 DEF PatchRevision, PatchAccepted
  <2>4. cos[c].cond = mem[c].cond
    BY <2>1, <2>3 DEF LoopInv, MemNotAhead
  <2>5. cos' = [cos EXCEPT ![c] = [obj EXCEPT !.ver = @ + 1]]
    BY <1>2 DEF PatchRevision
  <2>6. cos'[c].cond = cos[c].cond /\ \A m \in Names \ {c} : cos'[m] = cos[m]
    BY <2>1, <2>2, <2>4, <2>5, CosWriteFields DEF LoopInv, TypeInv, TypeOK
  <2>7. QED
    BY <1>1, <2>6 DEF CondStep
<1>3. ASSUME NEW n \in present, ObjectSetStatusWrite(n) PROVE CondStep
  <2>1. n \in Names /\ cos[n] \in CosRecords
    BY DEF LoopInv, TypeInv, TypeOK
  <2>2. cos' = [cos EXCEPT ![n] = [cos[n] EXCEPT !.cond = @ + 1, !.ver = @ + 1]]
    BY <1>3 DEF ObjectSetStatusWrite
  <2>3. cos'[n].cond = cos[n].cond + 1 /\ \A m \in Names \ {n} : cos'[m] = cos[m]
    BY <2>1, <2>2, CosWriteFields DEF LoopInv, TypeInv, TypeOK
  <2>4. QED
    BY <1>1, <2>1, <2>3 DEF CondStep
<1>4. CASE UNCHANGED cos
  BY <1>1, <1>4 DEF CondStep
<1>5. QED
  BY <1>2, <1>3, <1>4 DEF Next, RepairStep, vars, List, ListFails, SkipItem,
     PanicOnMissingPrevious, PatchFails, Finish, Rerun, storeVars

\* fixMissingRevisionNumbers never rolls back the conditions of a
\* ClusterObjectSet, whatever the status writes it races
\* (ConditionsNeverRolledBack).
THEOREM ConditionsKept == Spec => ConditionsNeverRolledBack
<1>1. LoopInv /\ [Next]_vars => [CondStep]_vars
  BY CondStepHolds
<1>2. QED
  BY <1>1, LoopInitial, LoopStep, PTL DEF Spec, ConditionsNeverRolledBack,
     CondStep

=============================================================================
