---------------------------- MODULE MigrationsProofs ----------------------------
(***************************************************************************)
(* What is recorded of a migration is what was made, whatever fails or is    *)
(* stopped, and whatever the server writes in between (Migrations): for any  *)
(* nodes, changes, size of the batches and commands.                         *)
(***************************************************************************)
EXTENDS Migrations, FiniteSetTheorems, WellFoundedInduction, TLAPS

-----------------------------------------------------------------------------
(* The least and the greatest of the ids *)

\* The intervals from 0 to the members of a set are finite, and one of them is least.
LEMMA LeastOf ==
  ASSUME NEW S \in SUBSET Nat, S # {}
  PROVE  \E m \in S : \A k \in S : m <= k
<1> DEFINE R == StrictSubsetOrdering(Nat)
           T == {0..s : s \in S}
<1>1. IsWellFoundedOn(R, FiniteSubsetsOf(Nat))
  BY FS_StrictSubsetOrderingWellFounded
<1>2. T # {}  OBVIOUS
<1>3. T \subseteq FiniteSubsetsOf(Nat)
  <2>1. ASSUME NEW s \in S PROVE 0..s \in FiniteSubsetsOf(Nat)
    BY FS_Interval DEF FiniteSubsetsOf
  <2>2. QED  BY <2>1
<1> HIDE DEF R, T
<1>4. PICK x \in T : \A y \in T : ~(<<y, x>> \in R)
  BY <1>1, <1>2, <1>3, WFMin
<1>5. PICK m \in S : x = 0..m  BY DEF T
<1>6. ASSUME NEW k \in S, k < m PROVE FALSE
  <2>1. 0..k \in T /\ 0..k \subseteq 0..m /\ m \in 0..m /\ m \notin 0..k  BY <1>6 DEF T
  <2>2. 0..k \subseteq Nat /\ 0..m \subseteq Nat  OBVIOUS
  <2>3. 0..k # 0..m  BY <2>1
  <2>4. <<0..k, 0..m>> \in R  BY <2>1, <2>2, <2>3 DEF R, StrictSubsetOrdering
  <2>5. QED  BY <1>4, <1>5, <2>1, <2>4
<1>7. QED  BY <1>6

LEMMA MinIs ==
  ASSUME NEW S \in SUBSET Nat, S # {}
  PROVE  Min(S) \in S /\ \A k \in S : Min(S) <= k
BY LeastOf DEF Min

\* The greatest of what is bounded is as far from the bound as the least of the distances.
LEMMA MaxIs ==
  ASSUME NEW S \in SUBSET Nat, S # {}, NEW bound \in Nat, \A k \in S : k <= bound
  PROVE  Max(S) \in S /\ \A k \in S : k <= Max(S)
<1> DEFINE T == {bound - k : k \in S}
<1>1. T \in SUBSET Nat /\ T # {}
  <2>1. ASSUME NEW k \in S PROVE bound - k \in Nat
    <3>1. k \in Nat /\ k <= bound  OBVIOUS
    <3>2. QED  BY <3>1
  <2>2. QED  BY <2>1
<1>2. PICK x \in T : \A y \in T : x <= y  BY <1>1, LeastOf
<1>3. PICK m \in S : x = bound - m  OBVIOUS
<1>4. ASSUME NEW k \in S PROVE k <= m
  <2>1. bound - k \in T  OBVIOUS
  <2>2. bound - m <= bound - k  BY <1>2, <1>3, <2>1
  <2>3. k \in Nat /\ m \in Nat  OBVIOUS
  <2>4. QED  BY <2>2, <2>3
<1>5. \E y \in S : \A k \in S : y >= k  BY <1>4
<1>6. QED  BY <1>5 DEF Max

\* The first of A up to a number of them: with each it has what is before it in A, and
\* it is all of A when they are fewer.
LEMMA FirstOf ==
  ASSUME NEW A \in SUBSET Nat, IsFiniteSet(A), NEW size \in Nat \ {0},
         NEW ns, ns = {n \in A : Cardinality({k \in A : k <= n}) <= size}
  PROVE  /\ \A n \in ns, k \in A : k <= n => k \in ns
         /\ Cardinality(ns) < size => ns = A
<1> DEFINE UpTo(n) == {k \in A : k <= n}
<1>1. /\ \A n, k : k \in UpTo(n) <=> k \in A /\ k <= n
      /\ ns = {n \in A : Cardinality(UpTo(n)) <= size}
      /\ \A n \in A : n \in Nat
  OBVIOUS
<1> HIDE DEF UpTo
<1>2. ASSUME NEW n \in A
      PROVE  IsFiniteSet(UpTo(n)) /\ Cardinality(UpTo(n)) \in Nat
  <2>1. UpTo(n) \in SUBSET A  BY <1>1
  <2>2. IsFiniteSet(UpTo(n))  BY <2>1, FS_Subset
  <2>3. QED  BY <2>2, FS_CardinalityType
<1>3. ASSUME NEW n \in ns, NEW k \in A, k <= n
      PROVE  k \in ns
  <2>1. n \in A /\ Cardinality(UpTo(n)) <= size  BY <1>1
  <2>2. UpTo(k) \in SUBSET UpTo(n)
    <3>1. ASSUME NEW j \in UpTo(k) PROVE j \in UpTo(n)
      <4>1. j \in A /\ j <= k /\ j \in Nat /\ k \in Nat /\ n \in Nat  BY <1>1, <2>1
      <4>2. QED  BY <1>1, <1>3, <4>1
    <3>2. QED  BY <3>1
  <2>3. Cardinality(UpTo(k)) <= Cardinality(UpTo(n))  BY <1>2, <2>1, <2>2, FS_Subset
  <2>4. Cardinality(UpTo(k)) <= size  BY <1>2, <2>1, <2>3
  <2>5. QED  BY <1>1, <2>4
<1>4. ASSUME Cardinality(ns) < size, ns # A
      PROVE  FALSE
  <2>1. ns \in SUBSET A /\ A \ ns \in SUBSET Nat /\ A \ ns # {}  BY <1>1, <1>4
  <2>2. PICK m \in A \ ns : \A k \in A \ ns : m <= k  BY <2>1, LeastOf
  <2>3. UpTo(m) \in SUBSET (ns \cup {m})
    <3>1. ASSUME NEW k \in A, k <= m, k # m PROVE k \in ns
      <4>1. k \in Nat /\ m \in Nat  BY <1>1
      <4>2. QED  BY <2>2, <3>1, <4>1
    <3>2. QED  BY <1>1, <3>1
  <2>4. /\ IsFiniteSet(ns) /\ Cardinality(ns) \in Nat
        /\ IsFiniteSet(ns \cup {m}) /\ Cardinality(ns \cup {m}) = Cardinality(ns) + 1
    BY <2>1, FS_Subset, FS_CardinalityType, FS_AddElement
  <2>5. Cardinality(UpTo(m)) <= Cardinality(ns \cup {m})  BY <2>3, <2>4, FS_Subset
  <2>6. m \in A /\ Cardinality(UpTo(m)) \in Nat  BY <1>2
  <2>7. Cardinality(UpTo(m)) <= size  BY <1>4, <2>4, <2>5, <2>6
  <2>8. QED  BY <1>1, <2>6, <2>7
<1>5. QED  BY <1>3, <1>4

-----------------------------------------------------------------------------
(* The state *)

\* Ids are numbers, of which there is a greatest, and so are the places of the changes.
LEMMA Numbers ==
  ASSUME TypeOK
  PROVE  /\ Nodes \subseteq Nat \ {0} /\ IsFiniteSet(Nodes) /\ Cardinality(Nodes) \in Nat
         /\ \A n \in Nodes : n <= Cardinality(Nodes)
         /\ Len(plan) \in Nat /\ DOMAIN plan = 1..Len(plan)
         /\ \A i \in DOMAIN plan : plan[i] \in Kinds
         /\ nodes \subseteq Nodes /\ BatchSize \in Nat \ {0}
<1>1. IsFiniteSet(Nodes) /\ Nodes = 1..Cardinality(Nodes) /\ BatchSize \in Nat \ {0}
  BY MigrationsAssumption
<1>2. Cardinality(Nodes) \in Nat  BY <1>1, FS_CardinalityType
<1>3. plan \in Seq(Kinds)  BY MigrationsAssumption DEF TypeOK
<1>4. Nodes \subseteq Nat \ {0} /\ \A n \in Nodes : n <= Cardinality(Nodes)
  <2> DEFINE top == Cardinality(Nodes)
  <2>1. Nodes = 1..top /\ top \in Nat  BY <1>1, <1>2
  <2> HIDE DEF top
  <2>2. Nodes \subseteq Nat \ {0} /\ \A n \in Nodes : n <= top  BY <2>1
  <2>3. QED  BY <2>2 DEF top
<1>5. nodes \subseteq Nodes  BY DEF TypeOK
<1>6. QED  BY <1>1, <1>2, <1>3, <1>4, <1>5

\* The greatest of some nodes is one of them.
LEMMA Greatest ==
  ASSUME TypeOK, NEW ns \in SUBSET Nodes, ns # {}
  PROVE  Max(ns) \in ns /\ Max(ns) \in Nat \ {0} /\ \A n \in ns : n <= Max(ns)
<1>1. ns \in SUBSET Nat /\ Cardinality(Nodes) \in Nat /\ \A k \in ns : k <= Cardinality(Nodes)
  BY Numbers
<1>2. Max(ns) \in ns /\ \A n \in ns : n <= Max(ns)  BY <1>1, MaxIs
<1>3. QED  BY <1>2, Numbers

\* A change is made once more on these nodes, and as often as it was on others.
LEMMA MakesMore ==
  ASSUME TypeOK, UNCHANGED plan, NEW ns, NEW is, Makes(ns, is)
  PROVE  /\ done' \in [Nodes -> [DOMAIN plan -> Nat]]
         /\ \A n \in Nodes, i \in DOMAIN plan :
              /\ done[n][i] \in Nat /\ done'[n][i] \in Nat
              /\ done'[n][i] >= done[n][i]
              /\ n \in ns /\ i \in is => done'[n][i] > 0
              /\ ~(n \in ns /\ i \in is) => done'[n][i] = done[n][i]
<1>1. done \in [Nodes -> [DOMAIN plan -> Nat]]  BY DEF TypeOK
<1>2. \A n \in Nodes, i \in DOMAIN plan : done[n][i] \in Nat  BY <1>1
<1>3. QED  BY <1>2 DEF Makes

\* What is made stays made.
LEMMA StaysCovered ==
  ASSUME TypeOK, NEW p \in Progress, UNCHANGED written,
         \A n \in Nodes, i \in DOMAIN plan :
           done[n][i] \in Nat /\ done'[n][i] \in Nat /\ done'[n][i] >= done[n][i],
         Covers(p)
  PROVE  Covers(p)'
<1>1. UNCHANGED <<plan, nodes, late>>  BY DEF written
<1>2. nodes \subseteq Nodes  BY DEF TypeOK
<1>3. ASSUME NEW n \in nodes \ late, NEW i \in DOMAIN plan,
             i < p.change \/ (i = p.change /\ n <= p.after)
      PROVE  done'[n][i] > 0
  BY <1>2, <1>3 DEF Covers
<1>4. ASSUME p.after # 0
      PROVE  p.after \in nodes /\ p.change \in DOMAIN plan /\ done'[p.after][p.change] > 0
  BY <1>2, <1>4 DEF Covers
<1>5. QED  BY <1>1, <1>3, <1>4 DEF Covers

\* Nothing has to be covered at the beginning.
LEMMA Begun ==
  ASSUME TypeOK, UNCHANGED plan, nodes' \subseteq Nodes
  PROVE  Beginning \in Progress /\ Covers(Beginning) /\ Covers(Beginning)'
<1>1. Beginning \in Progress /\ Beginning.change = 1 /\ Beginning.after = 0
  BY DEF Beginning, Progress
<1>2. /\ \A n \in Nodes : n \in Nat /\ n > 0
      /\ \A i \in DOMAIN plan : i \in Nat /\ i > 0
      /\ nodes \subseteq Nodes
  BY Numbers
<1>3. ASSUME NEW n \in Nodes, NEW i \in DOMAIN plan PROVE ~(i < 1 \/ (i = 1 /\ n <= 0))
  BY <1>2
<1>4. QED  BY <1>1, <1>2, <1>3 DEF Covers

-----------------------------------------------------------------------------
(* Commands *)

Places ==
  {"idle", "lock", "resume", "run", "change", "save", "undo", "unrecord", "failed", "applied", "unlock"}

LEMMA Mine ==
  ASSUME TypeOK, NEW m \in Migrators
  PROVE  /\ Me(m) \in Run /\ Me(m).pc \in Places /\ Me(m).op \in {"apply", "undo"}
         /\ Me(m).batched \in BOOLEAN /\ Me(m).over \in BOOLEAN
         /\ Me(m).at \in Progress /\ Index(m) \in Nat \ {0} /\ Me(m).at.after \in Nat
<1>1. Me(m) \in Run  BY DEF TypeOK, Me
<1>2. /\ Me(m).pc \in Places /\ Me(m).op \in {"apply", "undo"}
      /\ Me(m).batched \in BOOLEAN /\ Me(m).over \in BOOLEAN /\ Me(m).at \in Progress
  BY <1>1 DEF Run, Places
<1>3. Index(m) \in Nat \ {0} /\ Me(m).at.after \in Nat  BY <1>2 DEF Progress, Index
<1>4. QED  BY <1>1, <1>2, <1>3

\* A step of one command leaves the others where they are.
LEMMA Becomes ==
  ASSUME TypeOK, NEW m \in Migrators, NEW run \in Run, Become(m, run)
  PROVE  /\ runs' \in [Migrators -> Run] /\ runs'[m] = run
         /\ \A o \in Migrators \ {m} : runs'[o] = runs[o]
BY DEF TypeOK, Become

LEMMA GoesTo ==
  ASSUME TypeOK, NEW m \in Migrators, NEW place \in Places, Go(m, place)
  PROVE  /\ runs' \in [Migrators -> Run]
         /\ runs'[m].pc = place /\ runs'[m].op = Me(m).op /\ runs'[m].batched = Me(m).batched
         /\ runs'[m].at = Me(m).at /\ runs'[m].over = Me(m).over
         /\ \A o \in Migrators \ {m} : runs'[o] = runs[o]
<1> DEFINE run == [Me(m) EXCEPT !.pc = place]
<1>1. /\ run \in Run /\ run.pc = place /\ run.op = Me(m).op /\ run.batched = Me(m).batched
      /\ run.at = Me(m).at /\ run.over = Me(m).over
  BY Mine DEF Run, Places
<1>2. Become(m, run)  BY DEF Go
<1> HIDE DEF run
<1>3. QED  BY <1>1, <1>2, Becomes

LEMMA NoRunIs == NoRun \in Run /\ NoRun.pc = "idle"
<1>1. Beginning \in Progress  BY DEF Beginning, Progress
<1>2. QED  BY <1>1 DEF NoRun, Run

\* Nothing is said of a command where it does nothing.
LEMMA NothingSaid ==
  ASSUME NEW m \in Migrators,
         runs'[m].pc \in {"idle", "lock", "resume", "failed", "unlock"}
  PROVE  WellRun(m)'
BY DEF WellRun, Works, Me

LEMMA SameRun ==
  ASSUME NEW m \in Migrators, runs'[m] = runs[m],
         UNCHANGED <<data, record, unsaved, undoing>>, WellRun(m)
  PROVE  WellRun(m)'
<1>1. UNCHANGED <<plan, nodes, late, done, status, cursor, unsaved, undoing>>
  BY DEF data, written, record
<1>2. Me(m)' = Me(m)  BY DEF Me
<1>3. QED  BY <1>1, <1>2 DEF WellRun, Works, Covers, Beyond, Undoable, Index

\* The record stays true when neither it nor the data changes.
LEMMA SameRecord ==
  ASSUME UNCHANGED <<data, record, unsaved>>, undoing => undoing', forced => forced',
         NothingElsewhere, AppliedIsDone, ~forced => WellRecorded
  PROVE  NothingElsewhere' /\ AppliedIsDone' /\ (~forced' => WellRecorded')
<1>1. UNCHANGED <<plan, nodes, late, done, status, cursor, unsaved>>
  BY DEF data, written, record
<1>2. QED  BY <1>1 DEF NothingElsewhere, AppliedIsDone, WellRecorded, Covers, Beyond

\* A step of the command that has the lock need not consider the others.
LEMMA Enough ==
  ASSUME IInv, NEW m \in Migrators, Holds(m), UNCHANGED <<writes, forced>>,
         \A o \in Migrators \ {m} : runs'[o] = runs[o],
         Holds(m)' => UNCHANGED lock,
         TypeOK', NothingElsewhere',
         ~forced => AppliedIsDone' /\ WellRecorded' /\ WellRun(m)'
  PROVE  IInv'
<1>1. ASSUME ~forced, NEW o \in Migrators \ {m}
      PROVE  ~Holds(o) /\ ~Holds(o)' /\ WellRun(o)'
  <2>1. ~Holds(o)  BY <1>1 DEF IInv, Alone
  <2>2. runs'[o].pc \in {"idle", "lock"}  BY <1>1, <2>1 DEF Holds, Me
  <2>3. QED  BY <2>1, <2>2, NothingSaid DEF Holds, Me
<1>2. Alone'  BY <1>1 DEF IInv, Alone
<1>3. AppliedIsDone'
  <2>1. CASE forced  BY <2>1 DEF AppliedIsDone
  <2>2. CASE ~forced  BY <2>2
  <2>3. QED  BY <2>1, <2>2
<1>4. ASSUME ~forced, NEW o \in Migrators PROVE WellRun(o)'
  BY <1>1, <1>4
<1>5. QED  BY <1>2, <1>3, <1>4 DEF IInv

-----------------------------------------------------------------------------
(* Each step *)

LEMMA PlanKeeps ==
  ASSUME IInv, NEW m \in Migrators, Plan(m)
  PROVE  IInv'
<1>1. TypeOK /\ Me(m).pc = "idle"  BY DEF IInv, Plan
<1>2. PICK op \in {"apply", "undo"}, batched \in BOOLEAN :
        /\ IF op = "apply" THEN status # "applied" ELSE status # "none"
        /\ Become(m, [NoRun EXCEPT !.pc = "lock", !.op = op, !.batched = batched])
  BY Zenon DEF Plan
<1>3. /\ runs' \in [Migrators -> Run] /\ runs'[m].pc = "lock"
      /\ \A o \in Migrators \ {m} : runs'[o] = runs[o]
  <2> DEFINE run == [NoRun EXCEPT !.pc = "lock", !.op = op, !.batched = batched]
  <2>1. run \in Run /\ run.pc = "lock"  BY NoRunIs DEF Run
  <2>2. Become(m, run)  BY <1>2
  <2> HIDE DEF run
  <2>3. QED  BY <1>1, <2>1, <2>2, Becomes
<1>4. UNCHANGED <<plan, nodes, late, done, status, cursor, lock, writes, faults, forced, unsaved,
        undoing>> /\ begun' \in 0..MaxRuns
  BY <1>1, MigrationsAssumption DEF Plan, data, written, record, TypeOK
<1>5. TypeOK'  BY <1>1, <1>3, <1>4 DEF TypeOK
<1>6. Alone'  BY <1>3, <1>4 DEF IInv, Alone, Holds, Me
<1>7. NothingElsewhere' /\ AppliedIsDone' /\ (~forced' => WellRecorded')
  BY <1>4, SameRecord DEF IInv, data, written, record
<1>8. ASSUME ~forced, NEW o \in Migrators PROVE WellRun(o)'
  <2>1. CASE o = m  BY <1>3, <2>1, NothingSaid
  <2>2. CASE o # m
    BY <1>3, <1>4, <1>8, <2>2, SameRun DEF IInv, data, written, record
  <2>3. QED  BY <2>1, <2>2
<1>9. QED  BY <1>4, <1>5, <1>6, <1>7, <1>8 DEF IInv

\* While the lock is free no command works; the requests that go on have begun before.
LEMMA LockKeeps ==
  ASSUME IInv, NEW m \in Migrators, Lock(m)
  PROVE  IInv'
<1>1. TypeOK /\ Me(m).pc = "lock"  BY DEF IInv, Lock
<1>2. UNCHANGED <<plan, nodes, late, done, status, cursor, begun, faults, forced, unsaved>>
  BY DEF Lock, data, written, record
<1>3. CASE ~Free
  <2>1. Become(m, NoRun) /\ UNCHANGED <<lock, writes, undoing>>  BY <1>3 DEF Lock
  <2>2. /\ runs' \in [Migrators -> Run] /\ runs'[m].pc = "idle"
        /\ \A o \in Migrators \ {m} : runs'[o] = runs[o]
    BY <1>1, <2>1, NoRunIs, Becomes
  <2>3. TypeOK'  BY <1>1, <1>2, <2>1, <2>2 DEF TypeOK
  <2>4. Alone'  BY <1>2, <2>1, <2>2 DEF IInv, Alone, Holds, Me
  <2>5. NothingElsewhere' /\ AppliedIsDone' /\ (~forced' => WellRecorded')
    BY <1>2, <2>1, SameRecord DEF IInv, data, written, record
  <2>6. ASSUME ~forced, NEW o \in Migrators PROVE WellRun(o)'
    <3>1. CASE o = m  BY <2>2, <3>1, NothingSaid
    <3>2. CASE o # m
      BY <1>2, <2>1, <2>2, <2>6, <3>2, SameRun DEF IInv, data, written, record
    <3>3. QED  BY <3>1, <3>2
  <2>7. QED  BY <1>2, <2>3, <2>4, <2>5, <2>6 DEF IInv
<1>4. CASE Free
  <2> DEFINE place == IF Me(m).op = "undo" THEN "undo" ELSE "resume"
  <2>1. /\ lock' = m /\ Go(m, place) /\ lock = Nobody
        /\ writes' = [w \in Writers |-> IF writes[w] = "idle" THEN "idle" ELSE "overtaken"]
        /\ undoing' = (undoing \/ Me(m).op = "undo")
    BY <1>4 DEF Lock, Free
  <2>2. place \in Places  BY DEF Places
  <2>3. /\ runs' \in [Migrators -> Run] /\ runs'[m].pc = place
        /\ \A o \in Migrators \ {m} : runs'[o] = runs[o]
    <3> HIDE DEF place
    <3>1. QED  BY <1>1, <2>1, <2>2, GoesTo
  <2>4. TypeOK'
    <3>1. writes' \in [Writers -> {"idle", "begun", "overtaken"}]  BY <2>1
    <3>2. undoing' \in BOOLEAN  BY <1>1, <2>1 DEF TypeOK
    <3>3. QED  BY <1>1, <1>2, <2>1, <2>3, <3>1, <3>2 DEF TypeOK
  <2>5. ASSUME ~forced, NEW o \in Migrators \ {m}
        PROVE  ~Holds(o) /\ ~Holds(o)' /\ WellRun(o)'
    <3>1. ~Holds(o)  BY <2>1, <2>5, MigrationsAssumption DEF IInv, Alone
    <3>2. runs'[o].pc \in {"idle", "lock"}  BY <2>3, <3>1 DEF Holds, Me
    <3>3. QED  BY <3>1, <3>2, NothingSaid DEF Holds, Me
  <2>6. Alone'  BY <1>2, <2>1, <2>5 DEF Alone
  <2>7. NothingElsewhere' /\ AppliedIsDone' /\ (~forced' => WellRecorded')
    BY <1>2, <2>1, SameRecord DEF IInv, data, written, record
  <2>8. WellRun(m)'
    <3>1. CASE Me(m).op # "undo"  BY <2>3, <3>1, NothingSaid
    <3>2. CASE Me(m).op = "undo"  BY <2>1, <2>3, <3>2 DEF WellRun, Works, Me
    <3>3. QED  BY <3>1, <3>2
  <2>9. QED  BY <1>2, <2>4, <2>5, <2>6, <2>7, <2>8 DEF IInv
<1>5. QED  BY <1>3, <1>4

\* A command goes on where the record says it was, or makes all again.
LEMMA ResumeKeeps ==
  ASSUME IInv, NEW m \in Migrators, Resume(m)
  PROVE  IInv'
<1>1. TypeOK /\ Me(m).pc = "resume" /\ Holds(m)  BY DEF IInv, Resume, Holds
<1>2. UNCHANGED <<plan, nodes, late, done, status, cursor, lock, writes, begun, faults, forced,
        unsaved, undoing>>
  BY DEF Resume, data, written, record
<1> DEFINE from == IF Me(m).batched /\ status \in {"running", "failed"} THEN cursor ELSE Beginning
           again == Touched /\ ~Me(m).batched
           run == [Me(m) EXCEPT !.pc = "run", !.at = from, !.over = again]
<1>3. from \in Progress  BY <1>1, <1>2, Begun DEF TypeOK
<1>4. again \in BOOLEAN  BY DEF Touched
<1>5. Become(m, run)  BY DEF Resume
<1>6. /\ run \in Run /\ run.pc = "run" /\ run.at = from /\ run.over = again
      /\ run.batched = Me(m).batched
  <2> HIDE DEF from, again
  <2>1. QED  BY <1>1, <1>3, <1>4, Mine DEF Run
<1>7. /\ runs' \in [Migrators -> Run] /\ runs'[m] = run
      /\ \A o \in Migrators \ {m} : runs'[o] = runs[o]
  <2> HIDE DEF run
  <2>1. QED  BY <1>1, <1>5, <1>6, Becomes
<1>8. TypeOK'
  <2> HIDE DEF run
  <2>1. QED  BY <1>1, <1>2, <1>7 DEF TypeOK
<1>9. NothingElsewhere' /\ AppliedIsDone' /\ (~forced' => WellRecorded')
  BY <1>2, SameRecord DEF IInv, data, written, record
<1>10. ASSUME ~forced PROVE WellRun(m)'
  <2>1. WellRecorded /\ Covers(Beginning) /\ NothingElsewhere
    BY <1>1, <1>2, <1>10, Begun DEF IInv, TypeOK
  <2>2. status = "none" => from = Beginning  OBVIOUS
  <2>3. ~undoing => Covers(from)  BY <2>1 DEF WellRecorded
  <2>4. ASSUME Me(m).batched PROVE Beyond(from)
    <3>1. CASE status \in {"running", "failed"}  BY <2>1, <2>4, <3>1 DEF WellRecorded
    <3>2. CASE status = "none"  BY <2>1, <3>2 DEF WellRecorded
    <3>3. CASE status = "applied"  BY <2>1, <3>3 DEF WellRecorded, Beyond
    <3>4. QED  BY <1>1, <3>1, <3>2, <3>3 DEF TypeOK
  <2>5. ASSUME ~Me(m).batched
        PROVE  /\ from.after = 0
               /\ ~again => \A n \in Nodes, i \in DOMAIN plan : done[n][i] = 0
    <3>1. from.after = 0  BY <2>5 DEF Beginning
    <3>2. ASSUME ~again, NEW n \in Nodes, NEW i \in DOMAIN plan PROVE done[n][i] = 0
      <4>1. done[n][i] \in Nat  BY <1>1 DEF TypeOK
      <4>2. QED  BY <2>1, <2>5, <3>2, <4>1 DEF Touched, NothingElsewhere
    <3>3. QED  BY <3>1, <3>2
  <2>6. /\ runs'[m].pc = "run" /\ runs'[m].at = from /\ runs'[m].over = again
        /\ runs'[m].batched = Me(m).batched
    BY <1>6, <1>7
  <2>7. (Covers(from) <=> Covers(Me(m).at)') /\ (Beyond(from) <=> Beyond(Me(m).at)')
    BY <1>2, <2>6 DEF Covers, Beyond, Me
  <2> HIDE DEF from, again
  <2>8. QED  BY <1>2, <2>2, <2>3, <2>4, <2>5, <2>6, <2>7 DEF WellRun, Works, Me, Index
<1>11. QED  BY <1>1, <1>2, <1>7, <1>8, <1>9, <1>10, Enough

LEMMA RunningKeeps ==
  ASSUME IInv, NEW m \in Migrators, Running(m)
  PROVE  IInv'
<1>1. TypeOK /\ Me(m).pc = "run" /\ Holds(m) /\ status' = "running"
  BY DEF IInv, Running, Holds
<1>2. UNCHANGED <<plan, nodes, late, done, cursor, lock, writes, begun, faults, forced, unsaved,
        undoing>>
  BY DEF Running, data, written
<1>3. /\ runs' \in [Migrators -> Run] /\ runs'[m].pc = "change"
      /\ runs'[m].batched = Me(m).batched /\ runs'[m].at = Me(m).at /\ runs'[m].over = Me(m).over
      /\ \A o \in Migrators \ {m} : runs'[o] = runs[o]
  <2>1. "change" \in Places /\ Go(m, "change")  BY DEF Running, Places
  <2>2. QED  BY <1>1, <2>1, GoesTo
<1>4. TypeOK'  BY <1>1, <1>2, <1>3 DEF TypeOK
<1>5. NothingElsewhere'  BY <1>2 DEF IInv, NothingElsewhere
<1>6. ASSUME ~forced PROVE AppliedIsDone' /\ WellRecorded' /\ WellRun(m)'
  <2>1. WellRecorded /\ WellRun(m)  BY <1>6 DEF IInv
  <2>2. AppliedIsDone'  BY <1>1 DEF AppliedIsDone
  <2>3. WellRecorded'  BY <1>1, <1>2, <2>1 DEF WellRecorded, Covers, Beyond
  <2>4. (Covers(Me(m).at) <=> Covers(Me(m).at)') /\ (Beyond(Me(m).at) <=> Beyond(Me(m).at)')
    BY <1>2, <1>3 DEF Covers, Beyond, Me
  <2>5. WellRun(m)'  BY <1>1, <1>2, <1>3, <2>1, <2>4 DEF WellRun, Works, Me, Index
  <2>6. QED  BY <2>2, <2>3, <2>5
<1>7. QED  BY <1>1, <1>2, <1>3, <1>4, <1>5, <1>6, Enough

-----------------------------------------------------------------------------
(* The changes in batches *)

\* What is known of a command that makes a change.
LEMMA AtAChange ==
  ASSUME IInv, NEW m \in Migrators, Me(m).pc \in {"change", "save"}
  PROVE  /\ TypeOK /\ Holds(m) /\ NothingElsewhere
         /\ ~forced =>
              /\ status = "running" /\ WellRecorded
              /\ ~undoing => Covers(Me(m).at)
              /\ Me(m).batched => Beyond(Me(m).at)
BY DEF IInv, Holds, WellRun, Works

\* Some more is made, and no more than is kept of its progress.
LEMMA MakesKeeps ==
  ASSUME IInv, NEW m \in Migrators, Me(m).pc = "change", Me(m).batched,
         NEW ns \in SUBSET nodes, NEW i \in DOMAIN plan, i = Index(m), Makes(ns, {i}),
         UNCHANGED <<written, status, lock, writes, begun, faults, forced, undoing>>,
         unsaved' \subseteq DOMAIN plan, unsaved \subseteq unsaved',
         NEW run \in Run, run.pc \in {"change", "save"}, run.batched, run.at.change = i,
         Become(m, run), cursor' \in Progress,
         ~forced /\ ~undoing => Covers(run.at)' /\ Covers(cursor)',
         ~forced => Beyond(run.at)' /\ Beyond(cursor)',
         run.pc = "save" => \A n \in nodes \ late : n \in ns \/ (~forced /\ ~undoing => done[n][i] > 0)
  PROVE  IInv'
<1>1. TypeOK /\ Holds(m) /\ NothingElsewhere  BY AtAChange
<1>2. UNCHANGED <<plan, nodes, late, status, lock, writes, begun, faults, forced, undoing>>
  BY DEF written
<1>3. /\ done' \in [Nodes -> [DOMAIN plan -> Nat]]
      /\ \A n \in Nodes, j \in DOMAIN plan :
           /\ done[n][j] \in Nat /\ done'[n][j] \in Nat /\ done'[n][j] >= done[n][j]
           /\ n \in ns /\ j \in {i} => done'[n][j] > 0
           /\ ~(n \in ns /\ j \in {i}) => done'[n][j] = done[n][j]
  BY <1>1, <1>2, MakesMore
<1>4. /\ runs' \in [Migrators -> Run] /\ runs'[m] = run
      /\ \A o \in Migrators \ {m} : runs'[o] = runs[o]
  BY <1>1, Becomes
<1>5. TypeOK'  BY <1>1, <1>2, <1>3, <1>4 DEF TypeOK
<1>6. NothingElsewhere'  BY <1>1, <1>2, <1>3 DEF NothingElsewhere
<1>7. ASSUME ~forced PROVE AppliedIsDone' /\ WellRecorded' /\ WellRun(m)'
  <2>1. status = "running"  BY <1>7, AtAChange
  <2>2. AppliedIsDone' /\ WellRecorded'
    BY <1>2, <1>7, <2>1 DEF AppliedIsDone, WellRecorded
  <2>3. ASSUME run.pc = "save", ~undoing, NEW n \in nodes \ late
        PROVE  done'[n][i] > 0
    <3>1. n \in Nodes  BY <1>1 DEF TypeOK
    <3>2. n \in ns \/ done[n][i] > 0  BY <1>7, <2>3
    <3>3. QED  BY <1>3, <3>1, <3>2
  <2>4. (Covers(run.at)' <=> Covers(Me(m).at)') /\ (Beyond(run.at)' <=> Beyond(Me(m).at)')
    BY <1>4 DEF Me
  <2>5. /\ Me(m)' = run /\ Index(m)' = i
    BY <1>4 DEF Me, Index
  <2>6. WellRun(m)'
    BY <1>2, <1>7, <2>1, <2>3, <2>4, <2>5 DEF WellRun, Works
  <2>7. QED  BY <2>2, <2>6
<1>8. QED  BY <1>1, <1>2, <1>4, <1>5, <1>6, <1>7, Enough

\* A window ends with the last of its nodes: what is before that is made, what is after
\* is not.
LEMMA WindowKeeps ==
  ASSUME IInv, NEW m \in Migrators, Window(m)
  PROVE  IInv'
<1> DEFINE after == {n \in nodes : n > Me(m).at.after}
           ns == {n \in after : Cardinality({k \in after : k <= n}) <= BatchSize}
           upto == IF ns = {} THEN Me(m).at.after ELSE Max(ns)
           place == IF Last(ns) THEN "save" ELSE "change"
           p == [Me(m).at EXCEPT !.after = upto]
           run == [Me(m) EXCEPT !.at.after = upto, !.pc = place]
<1>0. PICK i : i = Index(m)  OBVIOUS
<1>1. /\ Me(m).pc = "change" /\ Me(m).batched /\ i <= Len(plan) /\ plan[i] = "window"
      /\ Makes(ns, {i}) /\ cursor' = p /\ Become(m, run)
      /\ UNCHANGED <<written, status, lock, writes, begun, faults, forced, unsaved, undoing>>
  BY <1>0 DEF Window, Here, SavedWith
<1>2. /\ TypeOK /\ NothingElsewhere /\ Me(m) \in Run /\ Me(m).at \in Progress
      /\ i \in Nat \ {0} /\ Me(m).at.after \in Nat
      /\ ~forced =>
           /\ ~undoing => Covers(Me(m).at)
           /\ Beyond(Me(m).at)
  BY <1>0, <1>1, AtAChange, Mine
<1>3. /\ Nodes \subseteq Nat \ {0} /\ IsFiniteSet(Nodes) /\ nodes \subseteq Nodes
      /\ BatchSize \in Nat \ {0} /\ DOMAIN plan = 1..Len(plan) /\ Len(plan) \in Nat
  BY <1>2, Numbers
<1>4. i \in DOMAIN plan  BY <1>1, <1>2, <1>3
<1>5. /\ after \in SUBSET Nat /\ IsFiniteSet(after) /\ ns \in SUBSET nodes
      /\ \A n \in nodes : n \in after <=> n > Me(m).at.after
  <2>1. after \in SUBSET Nat /\ after \in SUBSET Nodes  BY <1>3
  <2>2. IsFiniteSet(after)  BY <1>3, <2>1, FS_Subset
  <2>3. QED  BY <2>1, <2>2
<1>6. /\ \A n \in ns, k \in after : k <= n => k \in ns
      /\ Cardinality(ns) < BatchSize => ns = after
  <2> DEFINE A == after
             N == {n \in A : Cardinality({k \in A : k <= n}) <= BatchSize}
  <2>1. A \in SUBSET Nat /\ IsFiniteSet(A)  BY <1>5
  <2> HIDE DEF A
  <2>2. /\ \A n \in N, k \in A : k <= n => k \in N
        /\ Cardinality(N) < BatchSize => N = A
    BY <1>3, <2>1, FirstOf
  <2>3. QED  BY <2>2 DEF A
<1>7. ns \in SUBSET nodes /\ \A n \in ns : n \in after  BY <1>5
<1> HIDE DEF after, ns
<1>8. /\ upto \in Nat /\ upto >= Me(m).at.after
      /\ ns # {} => upto \in ns
      /\ ns = {} => upto = Me(m).at.after
      /\ \A n \in ns : n <= upto
  <2>1. CASE ns = {}  BY <1>2, <2>1
  <2>2. CASE ns # {}
    <3>1. ns \in SUBSET Nodes  BY <1>3, <1>7
    <3>2. Max(ns) \in ns /\ Max(ns) \in Nat \ {0} /\ \A n \in ns : n <= Max(ns)
      BY <1>2, <2>2, <3>1, Greatest
    <3>3. Max(ns) > Me(m).at.after  BY <1>5, <1>7, <3>2
    <3>4. QED  BY <1>2, <2>2, <3>2, <3>3
  <2>3. QED  BY <2>1, <2>2
<1> HIDE DEF upto
<1>9. PICK q \in Progress, new \in Run :
        /\ q.change = i /\ q.after = upto /\ cursor' = q
        /\ new.pc = place /\ new.pc \in {"change", "save"} /\ new.batched /\ new.at = q
        /\ Become(m, new)
  <2>1. p \in Progress /\ p.change = i /\ p.after = upto
    BY <1>0, <1>2, <1>8 DEF Progress, Index
  <2>2. run \in Run /\ run.pc = place /\ run.batched /\ run.at = p /\ place \in {"change", "save"}
    BY <1>1, <1>2, <1>8 DEF Progress, Run
  <2> HIDE DEF p, run, place
  <2>3. QED  BY <1>1, <2>1, <2>2
<1>10. place = "save" => ns = after  BY <1>6 DEF Last
<1> HIDE DEF p, run, place
<1>11. UNCHANGED <<plan, nodes, late, unsaved, undoing>>  BY <1>1 DEF written
<1>12. /\ done' \in [Nodes -> [DOMAIN plan -> Nat]]
       /\ \A n \in Nodes, j \in DOMAIN plan :
            /\ done[n][j] \in Nat /\ done'[n][j] \in Nat /\ done'[n][j] >= done[n][j]
            /\ n \in ns /\ j \in {i} => done'[n][j] > 0
            /\ ~(n \in ns /\ j \in {i}) => done'[n][j] = done[n][j]
  BY <1>1, <1>2, <1>11, MakesMore
<1>13. ASSUME ~forced, ~undoing PROVE Covers(q)'
  <2>1. Covers(Me(m).at) /\ Me(m).at.change = i  BY <1>0, <1>2, <1>13 DEF Index
  <2>2. ASSUME NEW n \in nodes \ late, NEW j \in DOMAIN plan,
               j < i \/ (j = i /\ n <= upto)
        PROVE  done'[n][j] > 0
    <3>1. n \in Nodes /\ n \in Nat  BY <1>3
    <3>2. CASE j < i \/ n <= Me(m).at.after
      <4>1. done[n][j] > 0  BY <2>1, <2>2, <3>2 DEF Covers
      <4>2. QED  BY <1>12, <3>1, <4>1
    <3>3. CASE j = i /\ n > Me(m).at.after
      <4>1. n \in after /\ ns # {}  BY <1>2, <1>5, <1>8, <2>2, <3>1, <3>3
      <4>2. n \in ns  BY <1>2, <1>6, <1>8, <2>2, <3>1, <3>3, <4>1
      <4>3. QED  BY <1>12, <3>1, <3>3, <4>2
    <3>4. QED  BY <1>2, <2>2, <3>1, <3>2, <3>3
  <2>3. ASSUME upto # 0 PROVE upto \in nodes /\ i \in DOMAIN plan /\ done'[upto][i] > 0
    <3>1. CASE ns # {}  BY <1>3, <1>4, <1>7, <1>8, <1>12, <3>1
    <3>2. CASE ns = {}
      <4>1. upto \in nodes /\ done[upto][i] > 0  BY <1>8, <2>1, <2>3, <3>2 DEF Covers
      <4>2. QED  BY <1>3, <1>4, <1>12, <4>1
    <3>3. QED  BY <3>1, <3>2
  <2>4. QED  BY <1>9, <1>11, <2>2, <2>3 DEF Covers
<1>14. ASSUME ~forced PROVE Beyond(q)'
  <2>1. Beyond(Me(m).at) /\ Me(m).at.change = i  BY <1>0, <1>2, <1>14 DEF Index
  <2>2. plan[i] = "window"  BY <1>1
  <2>3. ASSUME NEW n \in Nodes, NEW j \in DOMAIN plan, i <= j, done'[n][j] > 0
        PROVE  j \in unsaved \/ (j = i /\ n <= upto)
    <3>1. CASE n \in ns /\ j = i  BY <1>8, <3>1
    <3>2. CASE ~(n \in ns /\ j = i)
      <4>1. done[n][j] > 0  BY <1>12, <2>3, <3>2
      <4>2. j \in unsaved \/ (j = i /\ n <= Me(m).at.after)
        BY <2>1, <2>2, <2>3, <4>1 DEF Beyond
      <4>3. n \in Nat  BY <1>3
      <4>4. QED  BY <1>2, <1>8, <4>2, <4>3
    <3>3. QED  BY <3>1, <3>2
  <2>4. QED  BY <1>9, <1>11, <2>2, <2>3 DEF Beyond
<1>15. ASSUME new.pc = "save", NEW n \in nodes \ late
       PROVE  n \in ns \/ (~forced /\ ~undoing => done[n][i] > 0)
  <2>1. ns = after /\ n \in Nat  BY <1>3, <1>9, <1>10, <1>15
  <2>2. CASE n > Me(m).at.after  BY <1>5, <2>1, <2>2
  <2>3. CASE n <= Me(m).at.after
    <3>1. Me(m).at.change = i  BY <1>0 DEF Index
    <3>2. ~forced /\ ~undoing => Covers(Me(m).at)  BY <1>2
    <3>3. QED  BY <1>4, <2>3, <3>1, <3>2 DEF Covers
  <2>4. QED  BY <1>2, <2>1, <2>2, <2>3
<1>16. unsaved' \subseteq DOMAIN plan /\ unsaved \subseteq unsaved'  BY <1>2, <1>11 DEF TypeOK
<1>17. /\ ~forced /\ ~undoing => Covers(new.at)' /\ Covers(cursor)'
       /\ ~forced => Beyond(new.at)' /\ Beyond(cursor)'
  <2>1. (Covers(q)' <=> Covers(cursor)') /\ (Beyond(q)' <=> Beyond(cursor)')
    BY <1>9 DEF Covers, Beyond
  <2>2. (Covers(q)' <=> Covers(new.at)') /\ (Beyond(q)' <=> Beyond(new.at)')
    BY <1>9 DEF Covers, Beyond
  <2>3. QED  BY <1>13, <1>14, <2>1, <2>2
<1>18. QED
  BY <1>0, <1>1, <1>4, <1>7, <1>9, <1>15, <1>16, <1>17, MakesKeeps

\* What is made of one change leaves what was made of those before, and what is said of
\* those after.
LEMMA RestKeeps ==
  ASSUME IInv, NEW m \in Migrators, Rest(m)
  PROVE  IInv'
<1>0. PICK i : i = Index(m)  OBVIOUS
<1> DEFINE left == {n \in nodes : done[n][i] = 0}
<1>1. PICK ns \in SUBSET left :
        /\ Cardinality(ns) = BatchSize \/ (ns = left /\ Cardinality(ns) < BatchSize)
        /\ Makes(ns, {i})
        /\ cursor' = [change |-> i, after |-> 0]
        /\ Go(m, IF Last(ns) THEN "save" ELSE "change")
  BY <1>0, Zenon DEF Rest
<1>2. /\ Me(m).pc = "change" /\ Me(m).batched /\ i <= Len(plan) /\ plan[i] = "rest"
      /\ UNCHANGED <<written, status, lock, writes, begun, faults, forced, unsaved, undoing>>
  BY <1>0 DEF Rest, Here
<1>3. /\ TypeOK /\ NothingElsewhere /\ Me(m) \in Run /\ Me(m).at \in Progress
      /\ i \in Nat \ {0} /\ Me(m).at.change = i
      /\ ~forced =>
           /\ ~undoing => Covers(Me(m).at)
           /\ Beyond(Me(m).at)
  BY <1>0, <1>2, AtAChange, Mine DEF Index
<1>4. i \in DOMAIN plan /\ nodes \subseteq Nodes /\ BatchSize \in Nat \ {0}
      /\ \A n \in Nodes : n \in Nat /\ n > 0
  BY <1>2, <1>3, Numbers
<1>5. UNCHANGED <<plan, nodes, late, unsaved, undoing>>  BY <1>2 DEF written
<1>6. /\ done' \in [Nodes -> [DOMAIN plan -> Nat]]
      /\ \A n \in Nodes, j \in DOMAIN plan :
           /\ done[n][j] \in Nat /\ done'[n][j] \in Nat /\ done'[n][j] >= done[n][j]
           /\ n \in ns /\ j \in {i} => done'[n][j] > 0
           /\ ~(n \in ns /\ j \in {i}) => done'[n][j] = done[n][j]
  BY <1>1, <1>3, <1>5, MakesMore
<1> DEFINE place == IF Last(ns) THEN "save" ELSE "change"
           run == [Me(m) EXCEPT !.pc = place]
<1>7. PICK new \in Run :
        /\ new.pc = place /\ new.pc \in {"change", "save"} /\ new.batched /\ new.at = Me(m).at
        /\ Become(m, new)
  <2>1. run \in Run /\ run.pc = place /\ run.batched /\ run.at = Me(m).at /\ place \in {"change", "save"}
    BY <1>2, <1>3 DEF Run
  <2>2. Become(m, run)  BY <1>1 DEF Go
  <2> HIDE DEF run
  <2>3. QED  BY <2>1, <2>2
<1>8. PICK q \in Progress : q.change = i /\ q.after = 0 /\ cursor' = q
  <2>1. [change |-> i, after |-> 0] \in Progress  BY <1>3 DEF Progress
  <2>2. QED  BY <1>1, <2>1
<1>9. new.pc = "save" => ns = left  BY <1>1, <1>4, <1>7 DEF Last
<1>10. ASSUME NEW p \in Progress, p.change = i, ~forced,
              p.after = 0 \/ p = Me(m).at
       PROVE  (~undoing => Covers(p)') /\ Beyond(p)'
  <2>1. /\ Beyond(Me(m).at)
        /\ ~undoing => Covers(Me(m).at)
    BY <1>3, <1>10
  <2>2. Beyond(p)'
    <3>1. ASSUME NEW n \in Nodes, NEW j \in DOMAIN plan, i <= j, done'[n][j] > 0
          PROVE  j \in unsaved \/ (j = i /\ plan[j] = "rest")
      <4>1. CASE j = i  BY <1>2, <4>1
      <4>2. CASE j # i
        <5>1. done[n][j] > 0  BY <1>6, <3>1, <4>2
        <5>2. QED  BY <1>3, <2>1, <3>1, <4>2, <5>1 DEF Beyond
      <4>3. QED  BY <4>1, <4>2
    <3>2. QED  BY <1>5, <1>10, <3>1 DEF Beyond
  <2>3. ~undoing => Covers(p)
    <3>1. CASE p.after = 0
      <4>1. ASSUME ~undoing, NEW n \in nodes \ late, NEW j \in DOMAIN plan,
                   j < i \/ (j = i /\ n <= 0)
            PROVE  done[n][j] > 0
        <5>1. j < i  BY <1>4, <4>1
        <5>2. QED  BY <1>3, <2>1, <4>1, <5>1 DEF Covers
      <4>2. QED  BY <1>10, <3>1, <4>1 DEF Covers
    <3>2. CASE p = Me(m).at  BY <2>1, <3>2
    <3>3. QED  BY <1>10, <3>1, <3>2
  <2>4. ~undoing => Covers(p)'  BY <1>2, <1>3, <1>6, <2>3, StaysCovered
  <2>5. QED  BY <2>2, <2>4
<1>11. /\ ~forced /\ ~undoing => Covers(new.at)' /\ Covers(cursor)'
       /\ ~forced => Beyond(new.at)' /\ Beyond(cursor)'
  <2>1. new.at \in Progress /\ new.at.change = i  BY <1>3, <1>7
  <2>2. (Covers(q)' <=> Covers(cursor)') /\ (Beyond(q)' <=> Beyond(cursor)')
    BY <1>8 DEF Covers, Beyond
  <2>3. QED  BY <1>7, <1>8, <1>10, <2>1, <2>2
<1>12. ASSUME new.pc = "save", NEW n \in nodes \ late
       PROVE  n \in ns \/ (~forced /\ ~undoing => done[n][i] > 0)
  <2>1. ns = left /\ n \in Nodes  BY <1>4, <1>9, <1>12
  <2>2. done[n][i] \in Nat  BY <1>4, <1>6, <2>1
  <2>3. QED  BY <1>12, <2>1, <2>2
<1>13. unsaved' \subseteq DOMAIN plan /\ unsaved \subseteq unsaved'  BY <1>3, <1>5 DEF TypeOK
<1>14. ns \in SUBSET nodes  OBVIOUS
<1>15. new.at.change = i /\ cursor' \in Progress  BY <1>3, <1>7, <1>8
<1> HIDE DEF left, place, run
<1>16. QED
  BY <1>0, <1>1, <1>2, <1>4, <1>7, <1>11, <1>12, <1>13, <1>14, <1>15, MakesKeeps

LEMMA WholeKeeps ==
  ASSUME IInv, NEW m \in Migrators, Whole(m)
  PROVE  IInv'
<1>0. PICK i : i = Index(m)  OBVIOUS
<1>1. /\ Me(m).pc = "change" /\ Me(m).batched /\ i <= Len(plan) /\ plan[i] \in {"whole", "ddl"}
      /\ Makes(nodes, {i}) /\ unsaved' = unsaved \cup {i} /\ Go(m, "save")
      /\ UNCHANGED <<written, record, lock, writes, begun, faults, forced, undoing>>
  BY <1>0 DEF Whole, Here
<1>2. /\ TypeOK /\ NothingElsewhere /\ Me(m) \in Run /\ Me(m).at \in Progress
      /\ i \in Nat \ {0} /\ Me(m).at.change = i /\ cursor \in Progress
      /\ ~forced =>
           /\ ~undoing => Covers(Me(m).at) /\ Covers(cursor)
           /\ Beyond(Me(m).at) /\ Beyond(cursor)
  BY <1>0, <1>1, AtAChange, Mine DEF Index, TypeOK, WellRecorded
<1>3. i \in DOMAIN plan  BY <1>1, <1>2, Numbers
<1>4. UNCHANGED <<plan, nodes, late, status, cursor, undoing>>  BY <1>1 DEF written, record
<1>5. /\ done' \in [Nodes -> [DOMAIN plan -> Nat]]
      /\ \A n \in Nodes, j \in DOMAIN plan :
           /\ done[n][j] \in Nat /\ done'[n][j] \in Nat /\ done'[n][j] >= done[n][j]
           /\ n \in nodes /\ j \in {i} => done'[n][j] > 0
           /\ ~(n \in nodes /\ j \in {i}) => done'[n][j] = done[n][j]
  BY <1>1, <1>2, <1>4, MakesMore
<1>6. PICK new \in Run :
        new.pc = "save" /\ new.batched /\ new.at = Me(m).at /\ Become(m, new)
  <2> DEFINE run == [Me(m) EXCEPT !.pc = "save"]
  <2>1. run \in Run /\ run.pc = "save" /\ run.batched /\ run.at = Me(m).at
    BY <1>1, <1>2 DEF Run
  <2>2. Become(m, run)  BY <1>1 DEF Go
  <2> HIDE DEF run
  <2>3. QED  BY <2>1, <2>2
<1>7. ASSUME NEW p \in Progress, ~forced, Beyond(p), ~undoing => Covers(p)
      PROVE  (~undoing => Covers(p)') /\ Beyond(p)'
  <2>1. ASSUME NEW n \in Nodes, NEW j \in DOMAIN plan, p.change <= j, done'[n][j] > 0
        PROVE  \/ j \in unsaved'
               \/ j = p.change /\ (plan[j] = "rest" \/ (plan[j] = "window" /\ n <= p.after))
    <3>1. CASE j = i  BY <1>1, <3>1
    <3>2. CASE j # i
      <4>1. done[n][j] > 0  BY <1>5, <2>1, <3>2
      <4>2. QED  BY <1>1, <1>7, <2>1, <4>1 DEF Beyond
    <3>3. QED  BY <3>1, <3>2
  <2>2. Beyond(p)'  BY <1>4, <2>1 DEF Beyond
  <2>3. ~undoing => Covers(p)'  BY <1>1, <1>2, <1>5, <1>7, StaysCovered
  <2>4. QED  BY <2>2, <2>3
<1>8. PICK q \in Progress : q = cursor  BY <1>2
<1>9. /\ ~forced /\ ~undoing => Covers(new.at)' /\ Covers(cursor)'
      /\ ~forced => Beyond(new.at)' /\ Beyond(cursor)'
  <2>1. (Beyond(new.at) <=> Beyond(Me(m).at)) /\ (Covers(new.at) <=> Covers(Me(m).at))
    BY <1>6 DEF Beyond, Covers
  <2>2. (Beyond(q) <=> Beyond(cursor)) /\ (Covers(q) <=> Covers(cursor))
    BY <1>8 DEF Beyond, Covers
  <2>3. (Beyond(q)' <=> Beyond(cursor)') /\ (Covers(q)' <=> Covers(cursor)')
    BY <1>4, <1>8 DEF Beyond, Covers
  <2>4. new.at \in Progress  BY <1>2, <1>6
  <2>5. QED  BY <1>2, <1>7, <2>1, <2>2, <2>3, <2>4
<1>10. unsaved' \subseteq DOMAIN plan /\ unsaved \subseteq unsaved'
  BY <1>1, <1>2, <1>3 DEF TypeOK
<1>11. new.at.change = i /\ cursor' \in Progress  BY <1>2, <1>4, <1>6
<1>12. UNCHANGED status  BY <1>4
<1>13. new.pc = "save" =>
         \A n \in nodes \ late : n \in nodes \/ (~forced /\ ~undoing => done[n][i] > 0)
  OBVIOUS
<1>14. QED
  BY <1>0, <1>1, <1>3, <1>6, <1>9, <1>10, <1>11, <1>12, <1>13, MakesKeeps

LEMMA SaveKeeps ==
  ASSUME IInv, NEW m \in Migrators, Save(m)
  PROVE  IInv'
<1>0. PICK i : i = Index(m)  OBVIOUS
<1> DEFINE next == [change |-> i + 1, after |-> 0]
           run == [Me(m) EXCEPT !.pc = "change", !.at = next]
<1>1. /\ Me(m).pc = "save" /\ cursor' = next /\ Become(m, run) /\ unsaved' = unsaved \ {i}
      /\ UNCHANGED <<data, status, lock, writes, begun, faults, forced, undoing>>
  BY <1>0 DEF Save
<1>2. /\ TypeOK /\ Holds(m) /\ NothingElsewhere /\ Me(m) \in Run /\ i \in Nat \ {0}
      /\ Me(m).at.change = i
      /\ ~forced =>
           /\ status = "running" /\ WellRecorded /\ Me(m).batched /\ i \in DOMAIN plan
           /\ ~undoing => Covers(Me(m).at) /\ \A n \in nodes \ late : done[n][i] > 0
           /\ Beyond(Me(m).at)
  <2>1. TypeOK /\ Holds(m) /\ NothingElsewhere  BY <1>1, AtAChange
  <2>2. Me(m) \in Run /\ i \in Nat \ {0} /\ Me(m).at.change = i
    BY <1>0, <2>1, Mine DEF Index
  <2>3. ASSUME ~forced
        PROVE  /\ Me(m).batched /\ i \in DOMAIN plan
               /\ ~undoing => \A n \in nodes \ late : done[n][i] > 0
    <3>1. WellRun(m)  BY <2>3 DEF IInv
    <3>2. Me(m).batched /\ Index(m) \in DOMAIN plan  BY <1>1, <3>1 DEF WellRun
    <3>3. ~undoing => \A n \in nodes \ late : done[n][Index(m)] > 0  BY <1>1, <3>1 DEF WellRun
    <3>4. QED  BY <1>0, <3>2, <3>3
  <2>4. ASSUME ~forced
        PROVE  /\ status = "running" /\ WellRecorded
               /\ ~undoing => Covers(Me(m).at)
               /\ Beyond(Me(m).at)
    BY <1>1, <2>3, <2>4, AtAChange
  <2>5. QED  BY <2>1, <2>2, <2>3, <2>4
<1>3. UNCHANGED <<plan, nodes, late, done, status, lock, writes, begun, faults, forced, undoing>>
  BY <1>1 DEF data, written
<1>4. /\ next \in Progress /\ next.change = i + 1 /\ next.after = 0
      /\ run \in Run /\ run.pc = "change" /\ run.at = next /\ run.batched = Me(m).batched
  <2>1. next \in Progress /\ next.change = i + 1 /\ next.after = 0  BY <1>2 DEF Progress
  <2> HIDE DEF next
  <2>2. run \in Run /\ run.pc = "change" /\ run.at = next /\ run.batched = Me(m).batched
    BY <1>2, <2>1 DEF Run
  <2>3. QED  BY <2>1, <2>2
<1> HIDE DEF next, run
<1>5. /\ runs' \in [Migrators -> Run] /\ runs'[m] = run
      /\ \A o \in Migrators \ {m} : runs'[o] = runs[o]
  BY <1>1, <1>2, <1>4, Becomes
<1>6. TypeOK'  BY <1>1, <1>2, <1>3, <1>4, <1>5 DEF TypeOK
<1>7. NothingElsewhere'  BY <1>2, <1>3 DEF NothingElsewhere
<1>8. ASSUME ~forced PROVE AppliedIsDone' /\ WellRecorded' /\ WellRun(m)'
  <2>1. PICK q \in Progress : q.change = i + 1 /\ q.after = 0 /\ cursor' = q /\ runs'[m].at = q
    BY <1>1, <1>4, <1>5
  <2>2. ASSUME ~undoing PROVE Covers(q)'
    <3>1. ASSUME NEW n \in nodes \ late, NEW j \in DOMAIN plan,
                 j < i + 1 \/ (j = i + 1 /\ n <= 0)
          PROVE  done[n][j] > 0
      <4>1. j \in Nat /\ n \in Nat /\ n > 0  BY <1>2, Numbers
      <4>2. j < i \/ j = i  BY <1>2, <3>1, <4>1
      <4>3. QED  BY <1>2, <1>8, <2>2, <3>1, <4>2 DEF Covers
    <3>2. QED  BY <1>3, <2>1, <3>1 DEF Covers
  <2>3. Beyond(q)'
    <3>1. ASSUME NEW n \in Nodes, NEW j \in DOMAIN plan, i + 1 <= j, done[n][j] > 0
          PROVE  j \in unsaved'
      <4>1. j \in Nat  BY <1>2, Numbers
      <4>2. i <= j /\ j # i  BY <1>2, <3>1, <4>1
      <4>3. j \in unsaved  BY <1>2, <1>8, <3>1, <4>2 DEF Beyond
      <4>4. QED  BY <1>1, <4>2, <4>3
    <3>2. QED  BY <1>3, <2>1, <3>1 DEF Beyond
  <2>4. (Covers(q)' <=> Covers(cursor)') /\ (Beyond(q)' <=> Beyond(cursor)')
    BY <2>1 DEF Covers, Beyond
  <2>5. (Covers(q)' <=> Covers(Me(m).at)') /\ (Beyond(q)' <=> Beyond(Me(m).at)')
    BY <2>1 DEF Covers, Beyond, Me
  <2>6. AppliedIsDone' /\ WellRecorded'
    BY <1>2, <1>3, <1>8, <2>2, <2>3, <2>4 DEF AppliedIsDone, WellRecorded
  <2>7. WellRun(m)'
    BY <1>2, <1>3, <1>4, <1>5, <1>8, <2>2, <2>3, <2>5 DEF WellRun, Works, Me
  <2>8. QED  BY <2>6, <2>7
<1>9. QED  BY <1>2, <1>3, <1>5, <1>6, <1>7, <1>8, Enough

-----------------------------------------------------------------------------
(* The changes in groups *)

\* A group begins where the command is and ends in the migration.
LEMMA GroupIs ==
  ASSUME TypeOK, NEW i \in Nat \ {0}, i <= Len(plan),
         NEW ddl, ddl = {j \in i..Len(plan) : plan[j] = "ddl"},
         NEW end, end = IF plan[i] = "ddl" THEN i ELSE IF ddl = {} THEN Len(plan) ELSE Min(ddl) - 1
  PROVE  end \in Nat /\ i <= end /\ end <= Len(plan)
<1>1. Len(plan) \in Nat  BY Numbers, Zenon
<1>2. CASE plan[i] # "ddl" /\ ddl # {}
  <2>1. ddl \in SUBSET Nat
    <3>1. ASSUME NEW d \in ddl PROVE d \in Nat  BY <1>1
    <3>2. QED  BY <3>1
  <2>2. Min(ddl) \in ddl  BY <1>2, <2>1, MinIs
  <2>3. Min(ddl) # i /\ Min(ddl) \in i..Len(plan)  BY <1>2, <2>2
  <2>4. end = Min(ddl) - 1  BY <1>2
  <2>5. QED  BY <1>1, <2>3, <2>4
<1>3. CASE plan[i] = "ddl"  BY <1>1, <1>3
<1>4. CASE plan[i] # "ddl" /\ ddl = {}  BY <1>1, <1>4
<1>5. QED  BY <1>2, <1>3, <1>4

\* A group is made on all of the nodes, and its progress is not kept.
LEMMA GroupKeeps ==
  ASSUME IInv, NEW m \in Migrators, Group(m)
  PROVE  IInv'
<1>0. PICK i : i = Index(m)  OBVIOUS
<1>1. PICK ddl, end :
        /\ ddl = {j \in i..Len(plan) : plan[j] = "ddl"}
        /\ end = IF plan[i] = "ddl" THEN i ELSE IF ddl = {} THEN Len(plan) ELSE Min(ddl) - 1
        /\ Makes(nodes, i..end) /\ unsaved' = unsaved \cup (i..end)
        /\ Become(m, [Me(m) EXCEPT !.at.change = end + 1])
  <2> DEFINE ddl == {j \in Index(m)..Len(plan) : plan[j] = "ddl"}
             end == IF plan[Index(m)] = "ddl" THEN Index(m)
                    ELSE IF ddl = {} THEN Len(plan) ELSE Min(ddl) - 1
  <2>1. /\ Makes(nodes, i..end) /\ unsaved' = unsaved \cup (i..end)
        /\ Become(m, [Me(m) EXCEPT !.at.change = end + 1])
    BY <1>0 DEF Group
  <2>2. /\ ddl = {j \in i..Len(plan) : plan[j] = "ddl"}
        /\ end = IF plan[i] = "ddl" THEN i ELSE IF ddl = {} THEN Len(plan) ELSE Min(ddl) - 1
    BY <1>0
  <2> HIDE DEF ddl, end
  <2>3. QED  BY <2>1, <2>2, Zenon
<1>2. /\ Me(m).pc = "change" /\ ~Me(m).batched /\ i <= Len(plan)
      /\ UNCHANGED <<plan, nodes, late, status, cursor, lock, writes, begun, faults, forced, undoing>>
  BY <1>0 DEF Group, written, record
<1>3. /\ TypeOK /\ Holds(m) /\ NothingElsewhere /\ Me(m) \in Run /\ Me(m).at \in Progress
      /\ i \in Nat \ {0} /\ Me(m).at.change = i
  BY <1>0, <1>2, AtAChange, Mine DEF Index
<1>4. end \in Nat /\ i <= end /\ end <= Len(plan) /\ Len(plan) \in Nat /\ DOMAIN plan = 1..Len(plan)
      /\ i..end \subseteq DOMAIN plan
  <2>1. end \in Nat /\ i <= end /\ end <= Len(plan)  BY <1>1, <1>2, <1>3, GroupIs
  <2>2. QED  BY <1>3, <2>1, Numbers
<1>5. /\ done' \in [Nodes -> [DOMAIN plan -> Nat]]
      /\ \A n \in Nodes, j \in DOMAIN plan :
           /\ done[n][j] \in Nat /\ done'[n][j] \in Nat /\ done'[n][j] >= done[n][j]
           /\ n \in nodes /\ j \in i..end => done'[n][j] > 0
           /\ ~(n \in nodes /\ j \in i..end) => done'[n][j] = done[n][j]
  <2>1. TypeOK /\ UNCHANGED plan /\ Makes(nodes, i..end)  BY <1>1, <1>2, <1>3
  <2> DEFINE is == i..end
  <2>2. Makes(nodes, is)  BY <2>1
  <2> HIDE DEF is
  <2>3. /\ done' \in [Nodes -> [DOMAIN plan -> Nat]]
        /\ \A n \in Nodes, j \in DOMAIN plan :
             /\ done[n][j] \in Nat /\ done'[n][j] \in Nat /\ done'[n][j] >= done[n][j]
             /\ n \in nodes /\ j \in is => done'[n][j] > 0
             /\ ~(n \in nodes /\ j \in is) => done'[n][j] = done[n][j]
    BY <2>1, <2>2, MakesMore
  <2>4. QED  BY <2>3 DEF is
<1>6. PICK new \in Run :
        /\ new.pc = "change" /\ ~new.batched /\ new.over = Me(m).over /\ Become(m, new)
        /\ new.at.change = end + 1 /\ new.at.after = Me(m).at.after
  <2> DEFINE run == [Me(m) EXCEPT !.at.change = end + 1]
  <2>1. /\ run \in Run /\ run.pc = "change" /\ ~run.batched /\ run.over = Me(m).over
        /\ run.at.change = end + 1 /\ run.at.after = Me(m).at.after
    BY <1>2, <1>3, <1>4 DEF Run, Progress
  <2>2. Become(m, run)  BY <1>1
  <2> HIDE DEF run
  <2>3. QED  BY <2>1, <2>2
<1>7. /\ runs' \in [Migrators -> Run] /\ runs'[m] = new
      /\ \A o \in Migrators \ {m} : runs'[o] = runs[o]
  BY <1>3, <1>6, Becomes
<1>8. TypeOK'  BY <1>1, <1>2, <1>3, <1>4, <1>5, <1>7 DEF TypeOK
<1>9. NothingElsewhere'  BY <1>2, <1>3, <1>5 DEF NothingElsewhere
<1>10. ASSUME ~forced PROVE AppliedIsDone' /\ WellRecorded' /\ WellRun(m)'
  <2>1. /\ status = "running" /\ WellRecorded
        /\ ~undoing => Covers(Me(m).at)
        /\ Me(m).at.after = 0
        /\ ~Me(m).over => \A n \in Nodes, j \in DOMAIN plan : i <= j => done[n][j] = 0
    BY <1>0, <1>2, <1>10, AtAChange DEF IInv, WellRun, Works
  <2>2. PICK q \in Progress : q = cursor  BY <1>3 DEF TypeOK
  <2>3. ~undoing => Covers(cursor)'
    <3>1. ~undoing => Covers(q)  BY <2>1, <2>2 DEF WellRecorded, Covers
    <3>2. ~undoing => Covers(q)'  BY <1>2, <1>3, <1>5, <3>1, StaysCovered DEF written
    <3>3. QED  BY <1>2, <2>2, <3>2 DEF Covers
  <2>4. Beyond(cursor)'
    <3>1. ASSUME NEW n \in Nodes, NEW j \in DOMAIN plan, q.change <= j, done'[n][j] > 0
          PROVE  \/ j \in unsaved'
                 \/ j = q.change /\ (plan[j] = "rest" \/ (plan[j] = "window" /\ n <= q.after))
      <4>1. CASE j \in i..end  BY <1>1, <4>1
      <4>2. CASE j \notin i..end
        <5>1. done[n][j] > 0  BY <1>5, <3>1, <4>2
        <5>2. QED  BY <1>1, <2>1, <2>2, <3>1, <5>1 DEF Beyond, WellRecorded
      <4>3. QED  BY <4>1, <4>2
    <3>2. QED  BY <1>2, <2>2, <3>1 DEF Beyond
  <2>5. AppliedIsDone' /\ WellRecorded'
    BY <1>2, <2>1, <2>3, <2>4 DEF AppliedIsDone, WellRecorded
  <2>6. ~undoing => Covers(new.at)'
    <3>1. ASSUME ~undoing, NEW n \in nodes \ late, NEW j \in DOMAIN plan,
                 j < end + 1 \/ (j = end + 1 /\ n <= 0)
          PROVE  done'[n][j] > 0
      <4>1. n \in nodes /\ n \in Nodes /\ n \in Nat /\ n > 0 /\ j \in Nat  BY <1>3, <1>4, Numbers
      <4>2. CASE j < i
        <5>1. done[n][j] > 0  BY <1>3, <2>1, <3>1, <4>2 DEF Covers
        <5>2. QED  BY <1>5, <4>1, <5>1
      <4>3. CASE ~(j < i)
        <5>1. j \in i..end  BY <1>3, <1>4, <3>1, <4>1, <4>3
        <5>2. QED  BY <1>5, <4>1, <5>1
      <4>4. QED  BY <4>2, <4>3
    <3>2. QED  BY <1>2, <1>6, <2>1, <3>1 DEF Covers
  <2>7. ASSUME ~new.over, NEW n \in Nodes, NEW j \in DOMAIN plan, end + 1 <= j
        PROVE  done'[n][j] = 0
    <3>1. j \in Nat /\ j \notin i..end /\ i <= j  BY <1>3, <1>4, <2>7
    <3>2. QED  BY <1>5, <1>6, <2>1, <2>7, <3>1
  <2>8. Covers(new.at)' <=> Covers(Me(m).at)'  BY <1>7 DEF Me
  <2>9. WellRun(m)'
    BY <1>2, <1>6, <1>7, <2>1, <2>6, <2>7, <2>8 DEF WellRun, Works, Me, Index
  <2>10. QED  BY <2>5, <2>9
<1>11. QED  BY <1>2, <1>3, <1>7, <1>8, <1>9, <1>10, Enough

\* When the last of the changes is made all of them are.
LEMMA AppliedKeeps ==
  ASSUME IInv, NEW m \in Migrators, Applied(m)
  PROVE  IInv'
<1>1. /\ Me(m).pc = "change" /\ Index(m) > Len(plan) /\ status' = "applied"
      /\ unsaved' = DOMAIN plan /\ Go(m, "applied")
      /\ UNCHANGED <<plan, nodes, late, done, cursor, lock, writes, begun, faults, forced, undoing>>
  BY DEF Applied, data, written
<1>2. /\ TypeOK /\ Holds(m) /\ NothingElsewhere /\ Index(m) \in Nat \ {0}
      /\ ~forced => WellRecorded /\ (~undoing => Covers(Me(m).at))
  BY <1>1, AtAChange, Mine
<1>3. /\ runs' \in [Migrators -> Run] /\ runs'[m].pc = "applied"
      /\ \A o \in Migrators \ {m} : runs'[o] = runs[o]
  BY <1>1, <1>2, GoesTo DEF Places
<1>4. TypeOK'  BY <1>1, <1>2, <1>3 DEF TypeOK
<1>5. NothingElsewhere'  BY <1>1, <1>2 DEF NothingElsewhere
<1>6. ASSUME ~forced PROVE AppliedIsDone' /\ WellRecorded' /\ WellRun(m)'
  <2>1. ASSUME ~undoing, NEW n \in nodes \ late, NEW j \in DOMAIN plan
        PROVE  done[n][j] > 0
    <3>1. Covers(Me(m).at)  BY <1>2, <1>6, <2>1
    <3>2. j < Index(m)  BY <1>1, <1>2, Numbers
    <3>3. QED  BY <3>1, <3>2 DEF Covers, Index
  <2>2. AppliedIsDone'  BY <1>1, <2>1 DEF AppliedIsDone
  <2>3. WellRecorded'  BY <1>1, <1>2, <1>6 DEF WellRecorded, Covers, Beyond
  <2>4. WellRun(m)'  BY <1>1, <1>3 DEF WellRun, Works, Me
  <2>5. QED  BY <2>2, <2>3, <2>4
<1>7. QED  BY <1>1, <1>2, <1>3, <1>4, <1>5, <1>6, Enough

LEMMA ForgetCursorKeeps ==
  ASSUME IInv, NEW m \in Migrators, ForgetCursor(m)
  PROVE  IInv'
<1>1. /\ Me(m).pc = "applied" /\ cursor' = Beginning /\ Go(m, "unlock") /\ TypeOK /\ Holds(m)
      /\ UNCHANGED <<plan, nodes, late, done, status, lock, writes, begun, faults, forced, unsaved,
           undoing>>
  BY DEF ForgetCursor, data, written, IInv, Holds
<1>2. /\ runs' \in [Migrators -> Run] /\ runs'[m].pc = "unlock"
      /\ \A o \in Migrators \ {m} : runs'[o] = runs[o]
  BY <1>1, GoesTo DEF Places
<1>3. Beginning \in Progress /\ Covers(Beginning)'  BY <1>1, Begun DEF TypeOK
<1>4. TypeOK'  BY <1>1, <1>2, <1>3 DEF TypeOK
<1>5. NothingElsewhere'  BY <1>1 DEF NothingElsewhere, IInv
<1>6. ASSUME ~forced PROVE AppliedIsDone' /\ WellRecorded' /\ WellRun(m)'
  <2>1. /\ status = "applied" /\ unsaved = DOMAIN plan /\ AppliedIsDone
    BY <1>1, <1>6 DEF IInv, WellRun, WellRecorded
  <2>2. AppliedIsDone'  BY <1>1, <2>1 DEF AppliedIsDone
  <2>3. Covers(cursor)'  BY <1>1, <1>3 DEF Covers
  <2>4. Beyond(cursor)'  BY <1>1, <2>1 DEF Beyond
  <2>5. WellRecorded'  BY <1>1, <2>1, <2>3, <2>4 DEF WellRecorded
  <2>6. WellRun(m)'  BY <1>2, NothingSaid
  <2>7. QED  BY <2>2, <2>5, <2>6
<1>7. QED  BY <1>1, <1>2, <1>4, <1>5, <1>6, Enough

\* A command may end at any point: the record is true at each.
LEMMA FailsKeeps ==
  ASSUME IInv, NEW m \in Migrators, Fails(m) \/ Unlock(m) \/ Stopped(m)
  PROVE  IInv'
<1>1. /\ TypeOK /\ Holds(m)
      /\ UNCHANGED <<plan, nodes, late, done, status, cursor, writes, begun, forced, unsaved, undoing>>
  BY DEF Fails, Unlock, Stopped, IInv, Holds, data, written, record
<1>2. lock' \in Migrators \cup {Nobody} /\ faults' \in 0..MaxFaults
  BY <1>1, MigrationsAssumption DEF Fails, Unlock, Stopped, Fault, TypeOK
<1>3. /\ runs' \in [Migrators -> Run] /\ runs'[m].pc \in {"idle", "failed", "unlock"}
      /\ \A o \in Migrators \ {m} : runs'[o] = runs[o]
  <2>1. CASE Become(m, NoRun)  BY <1>1, <2>1, NoRunIs, Becomes
  <2>2. CASE Go(m, "unlock")  BY <1>1, <2>2, GoesTo DEF Places
  <2>3. CASE Go(m, "failed")  BY <1>1, <2>3, GoesTo DEF Places
  <2>4. QED  BY <2>1, <2>2, <2>3 DEF Fails, Unlock, Stopped
<1>4. Holds(m)' => UNCHANGED lock
  <2>1. ASSUME Unlock(m) PROVE runs'[m].pc = "idle"
    <3>1. Become(m, NoRun)  BY <2>1 DEF Unlock
    <3>2. QED  BY <1>1, <3>1, NoRunIs, Becomes
  <2>2. QED  BY <2>1 DEF Fails, Stopped, Holds, Me
<1>5. TypeOK'  BY <1>1, <1>2, <1>3 DEF TypeOK
<1>6. NothingElsewhere' /\ AppliedIsDone' /\ (~forced' => WellRecorded')
  BY <1>1, SameRecord DEF IInv, data, written, record
<1>7. WellRun(m)'  BY <1>3, NothingSaid
<1>8. QED  BY <1>1, <1>3, <1>4, <1>5, <1>6, <1>7, Enough

LEMMA FailedKeeps ==
  ASSUME IInv, NEW m \in Migrators, Failed(m)
  PROVE  IInv'
<1>1. /\ TypeOK /\ Holds(m) /\ status' = "failed" /\ Go(m, "unlock")
      /\ UNCHANGED <<plan, nodes, late, done, cursor, lock, writes, begun, faults, forced, unsaved,
           undoing>>
  BY DEF Failed, IInv, Holds, data, written
<1>2. /\ runs' \in [Migrators -> Run] /\ runs'[m].pc = "unlock"
      /\ \A o \in Migrators \ {m} : runs'[o] = runs[o]
  BY <1>1, GoesTo DEF Places
<1>3. TypeOK'  BY <1>1, <1>2 DEF TypeOK
<1>4. NothingElsewhere'  BY <1>1 DEF NothingElsewhere, IInv
<1>5. AppliedIsDone'  BY <1>1 DEF AppliedIsDone
<1>6. ASSUME ~forced PROVE WellRecorded'
  BY <1>1, <1>6 DEF IInv, WellRecorded, Covers, Beyond
<1>7. WellRun(m)'  BY <1>2, NothingSaid
<1>8. QED  BY <1>1, <1>2, <1>3, <1>4, <1>5, <1>6, <1>7, Enough

-----------------------------------------------------------------------------
(* Undoing *)

\* What is undone was made, and is no more.
LEMMA UnmakesLess ==
  ASSUME TypeOK, UNCHANGED plan, NEW ns, NEW is, Unmakes(ns, is)
  PROVE  /\ done' \in [Nodes -> [DOMAIN plan -> Nat]]
         /\ \A n \in Nodes, i \in DOMAIN plan :
              done[n][i] \in Nat /\ (done'[n][i] = 0 \/ done'[n][i] = done[n][i])
<1>1. done \in [Nodes -> [DOMAIN plan -> Nat]]  BY DEF TypeOK
<1>2. \A n \in Nodes, i \in DOMAIN plan : done[n][i] \in Nat  BY <1>1
<1>3. QED  BY <1>2 DEF Unmakes, Undone

LEMMA UndoKeeps ==
  ASSUME IInv, NEW m \in Migrators, Undo(m)
  PROVE  IInv'
<1>1. /\ TypeOK /\ Holds(m) /\ Me(m).pc = "undo"
      /\ UNCHANGED <<plan, nodes, late, status, cursor, lock, writes, begun, faults, forced, unsaved,
           undoing>>
  BY DEF Undo, IInv, Holds, written, record
<1>2. ~forced => undoing /\ WellRecorded  BY <1>1 DEF IInv, WellRun
<1>3. CASE Undoable = {}
  <2>1. Go(m, "unrecord") /\ UNCHANGED done  BY <1>3 DEF Undo
  <2>2. /\ runs' \in [Migrators -> Run] /\ runs'[m].pc = "unrecord"
        /\ \A o \in Migrators \ {m} : runs'[o] = runs[o]
    BY <1>1, <2>1, GoesTo DEF Places
  <2>3. TypeOK'  BY <1>1, <2>1, <2>2 DEF TypeOK
  <2>4. NothingElsewhere' /\ AppliedIsDone' /\ (~forced' => WellRecorded')
    BY <1>1, <2>1, SameRecord DEF IInv, data, written, record
  <2>5. Undoable' = {}  BY <1>1, <1>3, <2>1 DEF Undoable
  <2>6. ~forced => WellRun(m)'  BY <1>1, <1>2, <2>2, <2>5 DEF WellRun, Works, Me
  <2>7. QED  BY <1>1, <2>2, <2>3, <2>4, <2>6, Enough
<1>4. CASE Undoable # {}
  <2>1. runs' = runs /\ \E ns, is : Unmakes(ns, is)
    <3> DEFINE i == Max(Undoable)
               ddl == {j \in 1..i : plan[j] = "ddl"}
               left == {n \in nodes : done[n][i] > 0}
               before == {j \in 1..i : \A d \in ddl : d < j}
    <3>1. /\ UNCHANGED runs
          /\ IF Me(m).batched /\ plan[i] \in {"window", "rest"}
             THEN \E ns \in SUBSET left :
                    /\ Cardinality(ns) = BatchSize \/ (ns = left /\ Cardinality(ns) < BatchSize)
                    /\ Unmakes(ns, {i})
             ELSE IF Me(m).batched \/ plan[i] = "ddl" THEN Unmakes(nodes, {i})
             ELSE Unmakes(nodes, before)
      BY <1>4, Zenon DEF Undo
    <3> HIDE DEF i, ddl, left, before
    <3>2. QED  BY <3>1
  <2>2. PICK ns, is : Unmakes(ns, is)  BY <2>1
  <2>3. /\ done' \in [Nodes -> [DOMAIN plan -> Nat]]
        /\ \A n \in Nodes, i \in DOMAIN plan :
             done[n][i] \in Nat /\ (done'[n][i] = 0 \/ done'[n][i] = done[n][i])
    BY <1>1, <2>2, UnmakesLess
  <2>4. TypeOK'  BY <1>1, <2>1, <2>3 DEF TypeOK
  <2>5. NothingElsewhere'  BY <1>1, <2>3 DEF IInv, NothingElsewhere
  <2>6. ASSUME ~forced PROVE AppliedIsDone' /\ WellRecorded' /\ WellRun(m)'
    <3>1. undoing' /\ WellRecorded  BY <1>1, <1>2, <2>6
    <3>2. AppliedIsDone'  BY <3>1 DEF AppliedIsDone
    <3>3. \A n \in Nodes, j \in DOMAIN plan : done'[n][j] > 0 => done[n][j] > 0  BY <2>3
    <3>4. WellRecorded'  BY <1>1, <3>1, <3>3 DEF WellRecorded, Beyond
    <3>5. WellRun(m)'  BY <1>1, <2>1, <3>1 DEF WellRun, Works, Me
    <3>6. QED  BY <3>2, <3>4, <3>5
  <2>7. \A o \in Migrators \ {m} : runs'[o] = runs[o]  BY <2>1
  <2>8. QED  BY <1>1, <2>4, <2>5, <2>6, <2>7, Enough
<1>5. QED  BY <1>3, <1>4

\* The record is removed when there is nothing left.
LEMMA UnrecordKeeps ==
  ASSUME IInv, NEW m \in Migrators, Unrecord(m)
  PROVE  IInv'
<1>1. /\ TypeOK /\ Holds(m) /\ Me(m).pc = "unrecord" /\ Go(m, "unlock")
      /\ status' = "none" /\ cursor' = Beginning /\ undoing' = FALSE /\ unsaved' = {}
      /\ UNCHANGED <<plan, nodes, late, done, lock, writes, begun, faults, forced>>
  BY DEF Unrecord, IInv, Holds, data, written
<1>2. /\ runs' \in [Migrators -> Run] /\ runs'[m].pc = "unlock"
      /\ \A o \in Migrators \ {m} : runs'[o] = runs[o]
  BY <1>1, GoesTo DEF Places
<1>3. Beginning \in Progress /\ Covers(Beginning)'  BY <1>1, Begun DEF TypeOK
<1>4. TypeOK'  BY <1>1, <1>2, <1>3 DEF TypeOK
<1>5. NothingElsewhere'  BY <1>1 DEF NothingElsewhere, IInv
<1>6. ASSUME ~forced PROVE AppliedIsDone' /\ WellRecorded' /\ WellRun(m)'
  <2>1. Undoable = {} /\ NothingElsewhere  BY <1>1, <1>6 DEF IInv, WellRun
  <2>2. ASSUME NEW n \in Nodes, NEW j \in DOMAIN plan PROVE ~(done[n][j] > 0)
    <3>1. CASE n \in nodes  BY <2>1, <3>1 DEF Undoable
    <3>2. CASE n \notin nodes
      <4>1. done[n][j] = 0  BY <2>1, <3>2 DEF NothingElsewhere
      <4>2. QED  BY <4>1
    <3>3. QED  BY <3>1, <3>2
  <2>3. Beyond(cursor)'  BY <1>1, <2>2 DEF Beyond
  <2>4. Covers(cursor)'  BY <1>1, <1>3 DEF Covers
  <2>5. WellRecorded'  BY <1>1, <2>3, <2>4 DEF WellRecorded, Beginning
  <2>6. AppliedIsDone' /\ WellRun(m)'  BY <1>1, <1>2, NothingSaid DEF AppliedIsDone
  <2>7. QED  BY <2>5, <2>6
<1>7. QED  BY <1>1, <1>2, <1>4, <1>5, <1>6, Enough

-----------------------------------------------------------------------------
(* The person and the server *)

LEMMA PersonUnlocksKeeps ==
  ASSUME IInv, PersonUnlocks
  PROVE  IInv'
<1>1. UNCHANGED <<plan, nodes, late, done, status, cursor, runs, writes, faults, unsaved, undoing>>
  BY DEF PersonUnlocks, data, written, record
<1>2. TypeOK /\ begun' \in 0..MaxRuns /\ lock' = Nobody
  BY MigrationsAssumption DEF PersonUnlocks, IInv, TypeOK
<1>3. forced' = (forced \/ \E m \in Migrators : Holds(m))  BY DEF PersonUnlocks
<1>4. TypeOK'  BY <1>1, <1>2, <1>3 DEF TypeOK
<1>5. NothingElsewhere' /\ AppliedIsDone' /\ (~forced' => WellRecorded')
  BY <1>1, <1>3, SameRecord DEF IInv, data, written, record
<1>6. ASSUME ~forced' PROVE Alone' /\ \A m \in Migrators : WellRun(m)'
  <2>1. ~forced /\ \A m \in Migrators : ~Holds(m) /\ WellRun(m)  BY <1>3, <1>6 DEF IInv
  <2>2. Alone'  BY <1>1, <2>1 DEF Alone, Holds, Me
  <2>3. ASSUME NEW m \in Migrators PROVE WellRun(m)'
    BY <1>1, <2>1, SameRun DEF data, written, record
  <2>4. QED  BY <2>2, <2>3
<1>7. Alone'  BY <1>6 DEF Alone
<1>8. QED  BY <1>4, <1>5, <1>6, <1>7 DEF IInv

LEMMA WriteKeeps ==
  ASSUME IInv, NEW w \in Writers, Write(w)
  PROVE  IInv'
<1>1. /\ lock = Nobody /\ writes' = [writes EXCEPT ![w] = "begun"] /\ TypeOK
      /\ UNCHANGED <<plan, nodes, late, done, status, cursor, lock, runs, begun, faults, forced,
           unsaved, undoing>>
  BY DEF Write, NotMigrating, IInv, data, written, record
<1>2. TypeOK'  BY <1>1 DEF TypeOK
<1>3. NothingElsewhere' /\ AppliedIsDone' /\ (~forced' => WellRecorded')
  BY <1>1, SameRecord DEF IInv, data, written, record
<1>4. ~forced => \A m \in Migrators : ~Holds(m)
  BY <1>1, MigrationsAssumption DEF IInv, Alone
<1>5. Alone'  BY <1>1, <1>4 DEF Alone, Holds, Me
<1>6. ASSUME ~forced, NEW m \in Migrators PROVE WellRun(m)'
  BY <1>1, <1>6, SameRun DEF IInv, data, written, record
<1>7. QED  BY <1>1, <1>2, <1>3, <1>5, <1>6 DEF IInv

\* A node that comes after nothing was made may be gone through still: no progress is
\* past it, or the record would be of something made.
LEMMA NewIsAhead ==
  ASSUME TypeOK, ~Touched, NEW k \in nodes \ late, NEW p \in Progress, Covers(p)
  PROVE  p.after = 0 /\ \A i \in DOMAIN plan : ~(i < p.change)
<1>1. p.after = 0  BY DEF Covers, Touched
<1>2. ASSUME NEW i \in DOMAIN plan, i < p.change PROVE FALSE
  <2>1. done[k][i] > 0  BY <1>2 DEF Covers
  <2>2. QED  BY <2>1 DEF Touched
<1>3. QED  BY <1>1, <1>2

LEMMA CommitKeeps ==
  ASSUME IInv, NEW w \in Writers, Commit(w)
  PROVE  IInv'
<1>1. PICK n \in Nodes \ nodes :
        /\ nodes' = nodes \cup {n}
        /\ late' = IF Touched \/ NoneLeft THEN late \cup {n} ELSE late
  BY DEF Commit
<1>2. /\ TypeOK /\ NothingElsewhere /\ n > 0 /\ writes' = [writes EXCEPT ![w] = "idle"]
      /\ UNCHANGED <<plan, done, status, cursor, lock, runs, begun, faults, forced, unsaved, undoing>>
  BY <1>1, Numbers DEF Commit, IInv, record
<1>3. TypeOK'  BY <1>1, <1>2 DEF TypeOK
<1>4. NothingElsewhere'  BY <1>1, <1>2 DEF NothingElsewhere
<1>5. /\ nodes' \ late' \subseteq (nodes \ late) \cup {n}
      /\ nodes \subseteq nodes' /\ \A j \in DOMAIN plan : done[n][j] = 0
      /\ n \notin late' => ~Touched /\ (status = "none" \/ \E k \in nodes : k \notin late)
  BY <1>1, <1>2 DEF NothingElsewhere, NoneLeft
<1>6. ASSUME NEW p \in Progress, Covers(p), p = Beginning \/ status # "none"
      PROVE  Covers(p)'
  <2>1. p.after # 0 => p.after \in nodes' /\ p.change \in DOMAIN plan /\ done[p.after][p.change] > 0
    BY <1>5, <1>6 DEF Covers
  <2>2. ASSUME NEW k \in nodes' \ late', NEW i \in DOMAIN plan,
               i < p.change \/ (i = p.change /\ k <= p.after)
        PROVE  done[k][i] > 0
    <3>1. CASE k # n  BY <1>5, <1>6, <2>2, <3>1 DEF Covers
    <3>2. CASE k = n
      <4>1. i \in Nat /\ i > 0 /\ n > 0 /\ n \in Nat  BY <1>2, Numbers
      <4>2. CASE p = Beginning  BY <2>2, <3>2, <4>1, <4>2 DEF Beginning
      <4>3. CASE status # "none"
        <5>1. ~Touched /\ \E old \in nodes : old \notin late  BY <1>5, <2>2, <3>2, <4>3
        <5>2. p.after = 0 /\ ~(i < p.change)  BY <1>2, <1>6, <5>1, NewIsAhead
        <5>3. QED  BY <2>2, <3>2, <4>1, <5>2
      <4>4. QED  BY <1>6, <4>2, <4>3
    <3>3. QED  BY <3>1, <3>2
  <2>3. QED  BY <1>2, <2>1, <2>2 DEF Covers
<1>7. AppliedIsDone'
  <2> SUFFICES ASSUME status = "applied", ~forced, ~undoing, NEW k \in nodes' \ late',
                      NEW i \in DOMAIN plan
               PROVE  done[k][i] > 0
    BY <1>2 DEF AppliedIsDone
  <2>1. \A old \in nodes \ late : done[old][i] > 0  BY DEF IInv, AppliedIsDone
  <2>2. CASE k # n  BY <1>5, <2>1, <2>2
  <2>3. CASE k = n
    <3>1. PICK old \in nodes : old \notin late /\ ~Touched  BY <1>5, <2>3
    <3>2. QED  BY <2>1, <3>1 DEF Touched
  <2>4. QED  BY <2>2, <2>3
<1>8. ASSUME ~forced PROVE WellRecorded'
  <2>1. WellRecorded  BY <1>8 DEF IInv
  <2>2. PICK q \in Progress : q = cursor  BY <1>2 DEF TypeOK
  <2>3. ~undoing => Covers(q)'
    <3>1. ~undoing => Covers(q)  BY <2>1, <2>2 DEF WellRecorded, Covers
    <3>2. q = Beginning \/ status # "none"  BY <2>1, <2>2 DEF WellRecorded
    <3>3. QED  BY <1>6, <3>1, <3>2
  <2>4. Covers(q)' <=> Covers(cursor)'  BY <1>2, <2>2 DEF Covers
  <2>5. Beyond(cursor)'  BY <1>2, <2>1 DEF Beyond, WellRecorded
  <2>6. QED  BY <1>2, <2>1, <2>3, <2>4, <2>5 DEF WellRecorded
<1>9. ASSUME ~forced, NEW m \in Migrators PROVE WellRun(m)'
  <2>1. WellRun(m)  BY <1>9 DEF IInv
  <2>2. Me(m)' = Me(m) /\ Index(m)' = Index(m)  BY <1>2 DEF Me, Index
  <2>3. ASSUME Works(m), ~undoing PROVE Covers(Me(m).at)'
    <3>1. PICK q \in Progress : q = Me(m).at  BY <1>2, Mine
    <3>2. Covers(q)  BY <2>1, <2>3, <3>1 DEF WellRun, Covers
    <3>3. q = Beginning \/ status # "none"  BY <2>1, <2>3, <3>1 DEF WellRun, Works
    <3>4. Covers(q)'  BY <1>6, <3>2, <3>3
    <3>5. QED  BY <2>2, <3>1, <3>4 DEF Covers
  <2>4. Beyond(Me(m).at) => Beyond(Me(m).at)'  BY <1>2, <2>2 DEF Beyond
  <2>5. ASSUME Undoable = {} PROVE Undoable' = {}
    <3>1. ASSUME NEW i \in DOMAIN plan, NEW k \in nodes' PROVE ~(done[k][i] > 0)
      <4>1. CASE k = n
        <5>1. done[n][i] = 0  BY <1>5
        <5>2. QED  BY <4>1, <5>1
      <4>2. CASE k # n  BY <1>1, <2>5, <4>2 DEF Undoable
      <4>3. QED  BY <4>1, <4>2
    <3>2. QED  BY <1>2, <3>1 DEF Undoable
  <2>6. ASSUME Me(m).pc = "save", ~undoing, NEW k \in nodes' \ late'
        PROVE  done[k][Index(m)] > 0
    <3>1. /\ status = "running" /\ Index(m) \in DOMAIN plan
          /\ \A old \in nodes \ late : done[old][Index(m)] > 0
      BY <2>1, <2>6 DEF WellRun
    <3>2. CASE k # n  BY <1>5, <3>1, <3>2
    <3>3. CASE k = n
      <4>1. PICK old \in nodes : old \notin late /\ ~Touched  BY <1>5, <3>1, <3>3
      <4>2. QED  BY <3>1, <4>1 DEF Touched
    <3>4. QED  BY <3>2, <3>3
  <2>7. QED
    BY <1>2, <2>1, <2>2, <2>3, <2>4, <2>5, <2>6 DEF WellRun, Works
<1>10. Alone'
  <2>1. \A m \in Migrators : Holds(m)' => Holds(m)  BY <1>2 DEF Holds, Me
  <2>2. \A v \in Writers : writes'[v] = "begun" => writes[v] = "begun"  BY <1>2 DEF TypeOK
  <2>3. QED  BY <1>2, <2>1, <2>2 DEF IInv, Alone
<1>11. QED  BY <1>2, <1>3, <1>4, <1>7, <1>8, <1>9, <1>10 DEF IInv

-----------------------------------------------------------------------------
(* What is proved *)

LEMMA InitKeeps == Init => IInv
<1> SUFFICES ASSUME Init PROVE IInv  OBVIOUS
<1>1. /\ plan \in Plans /\ nodes = FirstNodes /\ status = "none" /\ cursor = Beginning
      /\ done = [n \in Nodes |-> [i \in DOMAIN plan |-> 0]]
      /\ runs = [m \in Migrators |-> NoRun]
      /\ unsaved = {} /\ late = {} /\ ~undoing /\ ~forced
  BY DEF Init
<1>2. \A n \in Nodes, i \in DOMAIN plan : done[n][i] = 0  BY <1>1
<1>3. Beginning \in Progress /\ Beginning.change = 1 /\ Beginning.after = 0
  BY DEF Beginning, Progress
<1>4. TypeOK
  <2>1. done \in [Nodes -> [DOMAIN plan -> Nat]]  BY <1>1
  <2>2. runs \in [Migrators -> Run] /\ nodes \subseteq Nodes
    BY <1>1, NoRunIs, MigrationsAssumption
  <2>3. begun \in 0..MaxRuns /\ faults \in 0..MaxFaults  BY MigrationsAssumption DEF Init
  <2>4. lock \in Migrators \cup {Nobody} /\ writes \in [Writers -> {"idle", "begun", "overtaken"}]
        /\ forced = FALSE /\ undoing = FALSE
    BY DEF Init
  <2>5. QED  BY <1>1, <1>3, <2>1, <2>2, <2>3, <2>4 DEF TypeOK
<1>5. Covers(Beginning)
  <2>1. ASSUME NEW n \in Nodes, NEW i \in DOMAIN plan PROVE ~(i < 1 \/ (i = 1 /\ n <= 0))
    BY <1>4, Numbers
  <2>2. nodes \subseteq Nodes  BY <1>4 DEF TypeOK
  <2>3. QED  BY <1>3, <2>1, <2>2 DEF Covers
<1>6. Beyond(Beginning)  BY <1>2 DEF Beyond
<1>7. WellRecorded  BY <1>1, <1>5, <1>6 DEF WellRecorded, Covers, Beyond
<1>8. \A m \in Migrators : Me(m).pc = "idle"  BY <1>1, NoRunIs DEF Me
<1>9. \A m \in Migrators : WellRun(m)  BY <1>8 DEF WellRun, Works
<1>10. Alone /\ NothingElsewhere /\ AppliedIsDone
  BY <1>1, <1>2, <1>8 DEF Alone, Holds, NothingElsewhere, AppliedIsDone
<1>11. QED  BY <1>4, <1>7, <1>9, <1>10 DEF IInv

LEMMA NextKeeps == IInv /\ [Next]_vars => IInv'
<1> SUFFICES ASSUME IInv, [Next]_vars PROVE IInv'  OBVIOUS
<1>1. ASSUME NEW m \in Migrators, Step(m) PROVE IInv'
  BY <1>1, PlanKeeps, LockKeeps, ResumeKeeps, RunningKeeps, WindowKeeps, RestKeeps, WholeKeeps,
     SaveKeeps, GroupKeeps, AppliedKeeps, ForgetCursorKeeps, FailsKeeps, FailedKeeps, UndoKeeps,
     UnrecordKeeps
     DEF Step
<1>2. ASSUME NEW w \in Writers, Write(w) \/ Commit(w) PROVE IInv'
  BY <1>2, WriteKeeps, CommitKeeps
<1>3. CASE UNCHANGED vars
  <2>1. UNCHANGED <<plan, nodes, late, done, status, cursor, lock, runs, writes, begun, faults, forced,
          unsaved, undoing>>
    BY <1>3 DEF vars
  <2>2. TypeOK'  BY <2>1 DEF IInv, TypeOK
  <2>3. Alone'  BY <2>1 DEF IInv, Alone, Holds, Me
  <2>4. NothingElsewhere' /\ AppliedIsDone' /\ (~forced' => WellRecorded')
    BY <2>1, SameRecord DEF IInv, data, written, record
  <2>5. ASSUME ~forced, NEW m \in Migrators PROVE WellRun(m)'
    BY <2>1, <2>5, SameRun DEF IInv, data, written, record
  <2>6. QED  BY <2>1, <2>2, <2>3, <2>4, <2>5 DEF IInv
<1>4. QED  BY <1>1, <1>2, <1>3, PersonUnlocksKeeps DEF Next

\* The record and what a command knows are true of what was made.
THEOREM Invariance == Spec => []IInv
BY InitKeeps, NextKeeps, PTL DEF Spec

\* What is recorded as applied was made, on every node that was there.
THEOREM WhatIsAppliedIsDone == Spec => []AppliedIsDone
<1>1. IInv => AppliedIsDone  BY DEF IInv
<1>2. QED  BY <1>1, Invariance, PTL

\* The lock keeps commands from one another, and from requests that begin later.
THEOREM AloneAtWork == Spec => []WorksAlone
<1>1. ASSUME IInv PROVE WorksAlone
  <2> SUFFICES ASSUME ~forced, NEW m \in Migrators, Holds(m)
               PROVE  /\ \A o \in Migrators \ {m} : ~Holds(o)
                      /\ \A w \in Writers : writes[w] # "begun"
    BY DEF WorksAlone
  <2>1. QED  BY <1>1 DEF IInv, Alone
<1>2. QED  BY <1>1, Invariance, PTL

\* A step of a command that makes something again.
LEMMA OnlyItsOwn ==
  ASSUME IInv, [Next]_vars, NEW m \in Migrators, Me(m).pc = "change", runs'[m] # runs[m], MadeTwice(m)
  PROVE  Window(m) \/ Rest(m) \/ Whole(m) \/ Group(m)
<1>1. TypeOK  BY DEF IInv
<1>2. ASSUME NEW o \in Migrators \ {m}, NEW run, Become(o, run) PROVE FALSE
  BY <1>1, <1>2 DEF Become, TypeOK
<1>3. ASSUME NEW o \in Migrators \ {m}, Step(o) PROVE FALSE
  <2>1. CASE Plan(o) \/ Lock(o) \/ Resume(o) \/ Running(o) \/ Window(o) \/ Rest(o)
    <3>1. CASE Plan(o)  BY <1>2, <3>1, Zenon DEF Plan
    <3>2. CASE Lock(o)  BY <1>2, <3>2, Zenon DEF Lock, Go
    <3>3. CASE Resume(o) \/ Running(o)  BY <1>2, <3>3, Zenon DEF Resume, Running, Go
    <3>4. CASE Window(o)  BY <1>2, <3>4, Zenon DEF Window
    <3>5. CASE Rest(o)  BY <1>2, <3>5, Zenon DEF Rest, Go
    <3>6. QED  BY <2>1, <3>1, <3>2, <3>3, <3>4, <3>5
  <2>2. CASE Whole(o) \/ Save(o) \/ Group(o) \/ Applied(o) \/ ForgetCursor(o) \/ Fails(o) \/ Failed(o)
    BY <1>2, <2>2 DEF Whole, Save, Group, Applied, ForgetCursor, Fails, Failed, Go
  <2>3. CASE Unrecord(o) \/ Unlock(o) \/ Stopped(o)
    BY <1>2, <2>3 DEF Unrecord, Unlock, Stopped, Go
  <2>4. CASE Undo(o)
    <3>1. CASE Undoable = {}  BY <1>2, <2>4, <3>1 DEF Undo, Go
    <3>2. CASE Undoable # {}  BY <2>4, <3>2 DEF Undo
    <3>3. QED  BY <3>1, <3>2
  <2>5. QED  BY <1>3, <2>1, <2>2, <2>3, <2>4 DEF Step
<1>4. done' # done
  <2>1. ASSUME done' = done PROVE FALSE
    <3>1. PICK n \in Nodes, i \in DOMAIN plan : done[n][i] > done[n][i]
      BY <2>1 DEF MadeTwice
    <3>2. done[n][i] \in Nat  BY <1>1 DEF TypeOK
    <3>3. QED  BY <3>1, <3>2
  <2>2. QED  BY <2>1
<1>5. Step(m)
  BY <1>3 DEF Next, vars, PersonUnlocks, Write, Commit
<1>6. ~(Plan(m) \/ Lock(m) \/ Resume(m) \/ Running(m) \/ Undo(m) \/ Unrecord(m) \/ Unlock(m))
  BY <1>4 DEF Plan, Lock, Resume, Running, Undo, Unrecord, Unlock, data
<1>7. ~(Save(m) \/ Applied(m) \/ ForgetCursor(m) \/ Fails(m) \/ Failed(m) \/ Stopped(m))
  BY <1>4 DEF Save, Applied, ForgetCursor, Fails, Failed, Stopped, data
<1>8. QED  BY <1>5, <1>6, <1>7 DEF Step

\* What is made again over itself is what no progress was kept of.
THEOREM NothingTwice == Spec => BatchesOnce
<1>1. ASSUME IInv, [Next]_vars
      PROVE  [\A m \in Migrators :
                Me(m).pc = "change" /\ runs'[m] # runs[m] /\ MadeTwice(m) =>
                  Me(m).over \/ forced \/ Index(m) \in unsaved]_vars
  <2> SUFFICES ASSUME NEW m \in Migrators, Me(m).pc = "change", runs'[m] # runs[m], MadeTwice(m),
                      ~Me(m).over, ~forced
               PROVE  Index(m) \in unsaved
    OBVIOUS
  <2>1. Window(m) \/ Rest(m) \/ Whole(m) \/ Group(m)  BY <1>1, OnlyItsOwn
  <2>2. TypeOK /\ (Me(m).batched => Beyond(Me(m).at))  BY <1>1, AtAChange
  <2>3. PICK n \in Nodes, j \in DOMAIN plan : done'[n][j] > done[n][j] /\ done[n][j] > 0
    BY DEF MadeTwice
  <2>4. PICK i : i = Index(m) /\ i \in Nat \ {0} /\ Me(m).at.change = i  BY <2>2, Mine DEF Index
  <2>5. ASSUME NEW ns, NEW is, Makes(ns, is), UNCHANGED plan PROVE n \in ns /\ j \in is
    <3>1. ~(n \in ns /\ j \in is) => done'[n][j] = done[n][j]  BY <2>2, <2>5, MakesMore
    <3>2. done[n][j] \in Nat  BY <2>2 DEF TypeOK
    <3>3. QED  BY <2>3, <3>1, <3>2
  <2>6. CASE Window(m)
    <3> DEFINE after == {k \in nodes : k > Me(m).at.after}
               ns == {k \in after : Cardinality({l \in after : l <= k}) <= BatchSize}
    <3>1. /\ Me(m).batched /\ plan[i] = "window" /\ Makes(ns, {i}) /\ UNCHANGED plan
      BY <2>4, <2>6 DEF Window, Here, written
    <3>2. \A k \in ns : k > Me(m).at.after  OBVIOUS
    <3> HIDE DEF ns
    <3>3. n \in ns /\ j \in {i}  BY <2>5, <3>1
    <3>4. n \in Nat /\ Me(m).at.after \in Nat  BY <2>2, Numbers, Mine
    <3>5. n > Me(m).at.after  BY <3>2, <3>3
    <3>6. j \in unsaved \/ n <= Me(m).at.after  BY <2>2, <2>3, <2>4, <3>1, <3>3 DEF Beyond
    <3>7. QED  BY <2>4, <3>3, <3>4, <3>5, <3>6
  <2>7. CASE Rest(m)
    <3>1. PICK ns \in SUBSET {k \in nodes : done[k][i] = 0} : Makes(ns, {i})
      BY <2>4, <2>7, Zenon DEF Rest
    <3>2. n \in ns /\ j \in {i}  BY <2>5, <2>7, <3>1 DEF Rest, written
    <3>3. QED  BY <2>3, <3>1, <3>2
  <2>8. CASE Whole(m)
    <3>1. Me(m).batched /\ plan[i] \in {"whole", "ddl"} /\ Makes(nodes, {i}) /\ UNCHANGED plan
      BY <2>4, <2>8 DEF Whole, Here, written
    <3>2. j \in {i}  BY <2>5, <3>1
    <3>3. QED  BY <2>2, <2>3, <2>4, <3>1, <3>2 DEF Beyond
  <2>9. CASE Group(m)
    <3>1. PICK end : Makes(nodes, i..end)  BY <2>4, <2>9 DEF Group
    <3>2. ~Me(m).batched /\ UNCHANGED plan  BY <2>9 DEF Group, written
    <3>3. j \in i..end  BY <2>5, <3>1, <3>2
    <3>4. i <= j  BY <3>3
    <3>5. WellRun(m)  BY <1>1 DEF IInv
    <3>6. done[n][j] = 0  BY <2>4, <3>2, <3>4, <3>5 DEF WellRun, Works
    <3>7. QED  BY <2>3, <3>6
  <2>10. QED  BY <2>1, <2>6, <2>7, <2>8, <2>9
<1>2. QED  BY <1>1, Invariance, PTL DEF Spec, BatchesOnce
=============================================================================
