------------------------- MODULE DerivedWorkerProofs -------------------------
(***************************************************************************)
(* Proofs about DerivedWorker: its types, for any constants; and, when no   *)
(* lease runs out on a process that works or waits to try again, and no     *)
(* deployment is undone unseen, that one worker works at a time and that    *)
(* what is stored is accounted for.                                         *)
(***************************************************************************)
EXTENDS DerivedWorker, TLAPS

-----------------------------------------------------------------------------
(* Types *)

\* A mark gives a token that no node has had.
LEMMA MarkType ==
  ASSUME QueueTypeOK, NEW h \in Heads, MarkHeads({h})
  PROVE  QueueTypeOK'
<1>1. /\ pending' = pending \cup {h} /\ claimed' = claimed
      /\ token' = [i \in Heads |-> IF i \in {h} THEN nextToken ELSE token[i]]
      /\ nextToken' = nextToken + 1
  BY DEF MarkHeads
<1>2. nextToken \in Nat \ {0} /\ token \in [Heads -> Nat] /\ \A i \in Heads : token[i] < nextToken
  BY DEF QueueTypeOK
<1>3. token' \in [Heads -> Nat]
  BY <1>1, <1>2
<1>4. \A i \in Heads : token'[i] < nextToken'
  BY <1>1, <1>2
<1> QED
  BY <1>1, <1>2, <1>3, <1>4 DEF QueueTypeOK

\* Who holds the lease is a process, nobody, or one that is gone.
LEMMA LeaseType ==
  ASSUME lease \in Workers \cup {Nobody, Gone}, leaseHolds \in BOOLEAN,
         NEW w \in Workers,
         TakeLease(w) \/ GiveUpLease(w) \/ UNCHANGED leaseVars
  PROVE  lease' \in Workers \cup {Nobody, Gone} /\ leaseHolds' \in BOOLEAN
<1>1. CASE TakeLease(w)
  <2>1. CASE CanTake(w)
    BY <1>1, <2>1 DEF TakeLease
  <2>2. CASE ~CanTake(w)
    BY <1>1, <2>2 DEF TakeLease, leaseVars
  <2> QED
    BY <2>1, <2>2
<1>2. CASE GiveUpLease(w)
  <2>1. CASE lease = w
    BY <1>2, <2>1 DEF GiveUpLease
  <2>2. CASE lease # w
    BY <1>2, <2>2 DEF GiveUpLease, leaseVars
  <2> QED
    BY <2>1, <2>2
<1> QED
  BY <1>1, <1>2 DEF leaseVars

\* Each step keeps the types.
LEMMA TypeStep == TypeOK /\ [Next]_vars => TypeOK'
<1> SUFFICES ASSUME TypeOK, [Next]_vars PROVE TypeOK'
  OBVIOUS
<1> USE DerivedAssumption
<1>1. ASSUME NEW h \in Heads, NEW c \in SUBSET Justs, Write(h, c) PROVE TypeOK'
  <2>1. content' \in [Heads -> SUBSET Justs]
    BY <1>1 DEF TypeOK, Write
  <2>2. QueueTypeOK'
    <3>1. CASE rule # NoRule
      BY <1>1, <3>1, MarkType DEF TypeOK, Write
    <3>2. CASE rule = NoRule
      BY <1>1, <3>2 DEF TypeOK, QueueTypeOK, Write
    <3> QED
      BY <3>1, <3>2
  <2> QED
    BY <1>1, <2>1, <2>2 DEF TypeOK, Write, storeVars, leaseVars, jobVars, boundVars
<1>2. ASSUME NEW r \in Rules \cup {NoRule}, Deploy(r) PROVE TypeOK'
  BY <1>2 DEF TypeOK, QueueTypeOK, Deploy, queueVars, storeVars, leaseVars, jobVars
<1>3. CASE LeaseRunsOut
  BY <1>3 DEF TypeOK, QueueTypeOK, LeaseRunsOut, queueVars, dataVars, storeVars, jobVars, boundVars
<1>4. ASSUME NEW h \in Heads, ClaimEnds(h) PROVE TypeOK'
  BY <1>4 DEF TypeOK, QueueTypeOK, ClaimEnds, ClaimRunsOut, dataVars, storeVars, leaseVars, jobVars, boundVars
<1>5. ASSUME NEW w \in Workers, Start(w) PROVE TypeOK'
  BY <1>5 DEF TypeOK, QueueTypeOK, Start, Goto, Places, Working, queueVars, dataVars, storeVars, leaseVars, jobVars, boundVars
<1>6. ASSUME NEW w \in Workers, Enter(w) \/ SyncDone(w) PROVE TypeOK'
  <2>1. pc' \in [Workers -> Places]
    BY <1>6 DEF TypeOK, Enter, SyncDone, Goto, Places, Working, InSync
  <2>2. lease' \in Workers \cup {Nobody, Gone} /\ leaseHolds' \in BOOLEAN
    BY <1>6, LeaseType DEF TypeOK, Enter, SyncDone
  <2> QED
    BY <1>6, <2>1, <2>2 DEF TypeOK, QueueTypeOK, Enter, SyncDone, queueVars, dataVars, storeVars, jobVars, boundVars
<1>7. ASSUME NEW w \in Workers, Rebuilding(w) PROVE TypeOK'
  <2>1. CASE BeginRebuild(w)
    BY <2>1 DEF TypeOK, QueueTypeOK, BeginRebuild, Goto, Places, Working, InSync, queueVars, dataVars, leaseVars, jobVars, boundVars
  <2>2. CASE ReadIds(w)
    BY <2>2 DEF TypeOK, QueueTypeOK, ReadIds, Goto, Places, Working, InSync, queueVars, dataVars, storeVars, leaseVars, boundVars
  <2>3. CASE CompareChunk(w)
    BY <2>3 DEF TypeOK, QueueTypeOK, CompareChunk, Goto, Places, Working, InSync, queueVars, dataVars, storeVars, leaseVars, boundVars
  <2>4. CASE ChunkDone(w)
    BY <2>4, LeaseType DEF TypeOK, QueueTypeOK, ChunkDone, Goto, Places, Working, InSync, queueVars, dataVars, storeVars, leaseVars, boundVars
  <2>5. CASE EndRebuild(w)
    BY <2>5 DEF TypeOK, QueueTypeOK, EndRebuild, Forget, NoTokens, Goto, Places, Working, InSync, queueVars, dataVars, leaseVars, boundVars
  <2>6. ASSUME NEW S \in SUBSET Heads, FindChunk(w, S) PROVE TypeOK'
    BY <2>6 DEF TypeOK, QueueTypeOK, FindChunk, FoundForSeeds, Right, Goto, Places, Working, InSync, queueVars, dataVars, storeVars, leaseVars, boundVars
  <2>7. ASSUME NEW S \in SUBSET Justs, TouchOld(w, S) PROVE TypeOK'
    BY <2>7 DEF TypeOK, QueueTypeOK, TouchOld, queueVars, dataVars, leaseVars, boundVars
  <2>8. ASSUME NEW S \in SUBSET Justs, Sweep(w, S) PROVE TypeOK'
    BY <2>8 DEF TypeOK, QueueTypeOK, Sweep, DeleteJusts, Goto, Places, Working, InSync, queueVars, dataVars, leaseVars, jobVars, boundVars
  <2> QED
    BY <1>7, <2>1, <2>2, <2>3, <2>4, <2>5, <2>6, <2>7, <2>8 DEF Rebuilding
<1>8. ASSUME NEW w \in Workers, Removing(w) PROVE TypeOK'
  <2>1. CASE ForgetRule(w)
    BY <2>1 DEF TypeOK, QueueTypeOK, ForgetRule, Goto, Places, Working, InSync, queueVars, dataVars, leaseVars, jobVars, boundVars
  <2>2. ASSUME NEW S \in SUBSET Justs, RemoveFacts(w, S) PROVE TypeOK'
    BY <2>2 DEF TypeOK, QueueTypeOK, RemoveFacts, DeleteJusts, Goto, Places, Working, InSync, queueVars, dataVars, leaseVars, jobVars, boundVars
  <2> QED
    BY <1>8, <2>1, <2>2 DEF Removing
<1>9. ASSUME NEW w \in Workers, Draining(w) PROVE TypeOK'
  <2>1. CASE NothingToClaim(w) \/ TryAgain(w)
    <3>1. pc' \in [Workers -> Places]
      BY <2>1 DEF TypeOK, NothingToClaim, TryAgain, Goto, Places, Working
    <3> QED
      BY <2>1, <3>1 DEF TypeOK, QueueTypeOK, NothingToClaim, TryAgain, queueVars, dataVars, storeVars, leaseVars, jobVars, boundVars
  <2>2. CASE Find(w)
    BY <2>2 DEF TypeOK, QueueTypeOK, Find, FoundForHeads, Right, Goto, Places, Working, InBatch, queueVars, dataVars, storeVars, leaseVars, boundVars
  <2>3. CASE Compare(w)
    BY <2>3 DEF TypeOK, QueueTypeOK, Compare, Goto, Places, Working, InBatch, queueVars, dataVars, storeVars, leaseVars, boundVars
  <2>4. CASE Evidenced(w)
    BY <2>4 DEF TypeOK, QueueTypeOK, Evidenced, Goto, Places, Working, InBatch, queueVars, dataVars, storeVars, leaseVars, boundVars
  <2>5. CASE Complete(w)
    BY <2>5 DEF TypeOK, QueueTypeOK, Complete, CompleteHeads, Completed, Forget, NoTokens, Goto, Places, Working, dataVars, leaseVars, boundVars
  <2>6. CASE Renew(w) \/ Wake(w)
    <3>1. pc' \in [Workers -> Places]
      BY <2>6 DEF TypeOK, Renew, Wake, Goto, Places, Working
    <3>2. lease' \in Workers \cup {Nobody, Gone} /\ leaseHolds' \in BOOLEAN
      BY <2>6, LeaseType DEF TypeOK, Renew, Wake
    <3> QED
      BY <2>6, <3>1, <3>2 DEF TypeOK, QueueTypeOK, Renew, Wake, queueVars, dataVars, storeVars, jobVars, boundVars
  <2>7. ASSUME NEW S \in SUBSET Heads, Claim(w, S) PROVE TypeOK'
    BY <2>7 DEF TypeOK, QueueTypeOK, Claim, ClaimHeads, Claimable, Goto, Places, Working, InBatch, dataVars, storeVars, leaseVars, boundVars
  <2>8. ASSUME NEW S \in SUBSET Justs, DeleteStale(w, S) PROVE TypeOK'
    BY <2>8 DEF TypeOK, QueueTypeOK, DeleteStale, DeleteJusts, queueVars, dataVars, leaseVars, boundVars
  <2> QED
    BY <1>9, <2>1, <2>2, <2>3, <2>4, <2>5, <2>6, <2>7, <2>8 DEF Draining
<1>10. ASSUME NEW w \in Workers, NEW S \in SUBSET Justs, WriteNew(w, S) PROVE TypeOK'
  BY <1>10 DEF TypeOK, QueueTypeOK, WriteNew, queueVars, dataVars, leaseVars, boundVars
<1>11. ASSUME NEW w \in Workers, Interrupted(w) PROVE TypeOK'
  <2>1. CASE RunFails(w)
    BY <2>1, LeaseType DEF TypeOK, QueueTypeOK, RunFails, Forget, NoTokens, Goto, Places, queueVars, dataVars, storeVars, leaseVars
  <2>2. CASE BatchFails(w)
    BY <2>2 DEF TypeOK, QueueTypeOK, BatchFails, ReleaseHeads, Forget, NoTokens, Goto, Places, queueVars, dataVars, storeVars, leaseVars
  <2>3. CASE Stop(w)
    BY <2>3, LeaseType DEF TypeOK, QueueTypeOK, Stop, Goto, Places, queueVars, dataVars, storeVars, leaseVars, jobVars
  <2>4. CASE Crash(w)
    BY <2>4 DEF TypeOK, QueueTypeOK, Crash, Forget, NoTokens, Goto, Places, queueVars, dataVars, storeVars
  <2> QED
    BY <1>11, <2>1, <2>2, <2>3, <2>4 DEF Interrupted
<1>12. CASE UNCHANGED vars
  BY <1>12 DEF TypeOK, QueueTypeOK, vars, queueVars, dataVars, storeVars, leaseVars, jobVars, boundVars
<1> QED
  BY <1>1, <1>2, <1>3, <1>4, <1>5, <1>6, <1>7, <1>8, <1>9, <1>10, <1>11, <1>12 DEF Next, Work

\* The variables keep their types, and a token in use is always an older one.
THEOREM TypeCorrect == Spec => []TypeOK
<1>1. Init => TypeOK
  <2> SUFFICES ASSUME Init PROVE TypeOK
    OBVIOUS
  <2>1. QueueTypeOK
    BY DEF Init, QueueInit, QueueTypeOK
  <2> QED
    BY <2>1, DerivedAssumption DEF Init, TypeOK, NoTokens, Places
<1> QED
  BY <1>1, TypeStep, PTL DEF Spec

-----------------------------------------------------------------------------
(* The lease *)

\* Who works holds the lease: it is taken only when it is free or has run out,
\* and, by the hypothesis, it does not run out on a process that works.
LEMMA LeaseStep ==
  ASSUME LeaseOutlivesWork, TypeOK, WorkerHoldsLease, [Next]_vars
  PROVE  WorkerHoldsLease'
<1> USE DerivedAssumption DEF TypeOK, WorkerHoldsLease
<1>1. ASSUME NEW h \in Heads, NEW c \in SUBSET Justs, Write(h, c) PROVE WorkerHoldsLease'
  BY <1>1 DEF Write, leaseVars
<1>2. ASSUME NEW r \in Rules \cup {NoRule}, Deploy(r) PROVE WorkerHoldsLease'
  BY <1>2 DEF Deploy, leaseVars
<1>3. CASE LeaseRunsOut
  BY <1>3 DEF LeaseRunsOut, LeaseOutlivesWork
<1>4. ASSUME NEW h \in Heads, ClaimEnds(h) PROVE WorkerHoldsLease'
  BY <1>4 DEF ClaimEnds, leaseVars
<1>5. ASSUME NEW w \in Workers, Start(w) \/ NothingToClaim(w) PROVE WorkerHoldsLease'
  BY <1>5 DEF Start, NothingToClaim, Goto, leaseVars, Holding, Working, InBatch, InSync
<1>6. ASSUME NEW w \in Workers, Enter(w) \/ Wake(w) PROVE WorkerHoldsLease'
  <2>1. lease' = w /\ leaseHolds'
    BY <1>6 DEF Enter, Wake, TakeLease
  <2>2. \A v \in Workers \ {w} : pc'[v] = pc[v] /\ pc[v] \notin Holding
    BY <1>6 DEF Enter, Wake, CanTake, Goto
  <2> QED
    BY <2>1, <2>2
<1>7. ASSUME NEW w \in Workers, pc[w] \in Holding, lease' = w, leaseHolds',
             \A v \in Workers \ {w} : pc'[v] = pc[v]
      PROVE  WorkerHoldsLease'
  BY <1>7
<1>8. ASSUME NEW w \in Workers, SyncDone(w) \/ Rebuilding(w) \/ Removing(w)
      PROVE  WorkerHoldsLease'
  <2>1. pc[w] \in Holding /\ \A v \in Workers \ {w} : pc'[v] = pc[v]
    BY <1>8 DEF SyncDone, Rebuilding, BeginRebuild, ReadIds, FindChunk, CompareChunk, TouchOld,
       ChunkDone, Sweep, EndRebuild, Removing, RemoveFacts, ForgetRule, Goto, Holding, Working, InSync
  <2>2. lease' = w /\ leaseHolds'
    <3>1. CASE ChunkDone(w)
      BY <2>1, <3>1 DEF ChunkDone, TakeLease, CanTake
    <3> QED
      BY <1>8, <2>1, <3>1 DEF SyncDone, Rebuilding, BeginRebuild, ReadIds, FindChunk, CompareChunk,
         TouchOld, Sweep, EndRebuild, Removing, RemoveFacts, ForgetRule, leaseVars
  <2> QED
    BY <2>1, <2>2, <1>7
<1>9. ASSUME NEW w \in Workers, Draining(w) PROVE WorkerHoldsLease'
  <2>1. CASE Wake(w) \/ NothingToClaim(w)
    BY <2>1, <1>5, <1>6
  <2>2. CASE ~(Wake(w) \/ NothingToClaim(w))
    <3>1. pc[w] \in Holding /\ \A v \in Workers \ {w} : pc'[v] = pc[v]
      BY <1>9, <2>2 DEF Draining, Find, Compare, Evidenced, Complete, Renew, TryAgain, Claim,
         DeleteStale, Goto, Holding, Working, InBatch
    <3>2. lease' = w /\ leaseHolds'
      <4>1. CASE Renew(w)
        BY <3>1, <4>1 DEF Renew, TakeLease, CanTake
      <4> QED
        BY <1>9, <2>2, <3>1, <4>1 DEF Draining, Find, Compare, Evidenced, Complete, TryAgain,
           Claim, DeleteStale, leaseVars
    <3> QED
      BY <3>1, <3>2, <1>7
  <2> QED
    BY <2>1, <2>2
<1>10. ASSUME NEW w \in Workers, NEW S \in SUBSET Justs, WriteNew(w, S) PROVE WorkerHoldsLease'
  BY <1>10 DEF WriteNew, leaseVars
<1>11. ASSUME NEW w \in Workers, Interrupted(w) PROVE WorkerHoldsLease'
  <2>1. CASE BatchFails(w)
    BY <2>1 DEF BatchFails, Goto, leaseVars, Holding, Working
  <2>2. CASE Crash(w)
    BY <2>2 DEF Crash, Goto, Holding, Working, InBatch, InSync
  <2>3. CASE RunFails(w) \/ Stop(w)
    <3>1. pc'[w] \notin Holding /\ \A v \in Workers \ {w} : pc'[v] = pc[v]
      BY <2>3 DEF RunFails, Stop, Goto, Holding, Working, InBatch, InSync
    <3>2. lease = w \/ (lease' = lease /\ leaseHolds' = leaseHolds)
      BY <2>3 DEF RunFails, Stop, GiveUpLease, leaseVars
    <3> QED
      BY <3>1, <3>2
  <2> QED
    BY <1>11, <2>1, <2>2, <2>3 DEF Interrupted
<1>12. CASE UNCHANGED vars
  BY <1>12 DEF vars, leaseVars
<1> QED
  BY <1>1, <1>2, <1>3, <1>4, <1>5, <1>6, <1>8, <1>9, <1>10, <1>11, <1>12 DEF Next, Work

\* What holds the lease is alone, so one worker works at a time.
LEMMA Alone ==
  ASSUME WorkerHoldsLease, NEW v \in Workers, NEW w \in Workers,
         pc[v] \in Holding, pc[w] \in Holding
  PROVE  v = w
  BY DEF WorkerHoldsLease

\* The lease keeps two processes from working at once, in a batch or a rebuild
\* (worker.py: "Only one worker works at a time"), if it outlives the work.
THEOREM OneWorker ==
  ASSUME LeaseOutlivesWork
  PROVE  Spec => []OneWorkerWorks
<1>1. Init => WorkerHoldsLease
  BY DEF Init, WorkerHoldsLease, Holding, Working, InBatch, InSync
<1>2. TypeOK /\ WorkerHoldsLease /\ [Next]_vars => WorkerHoldsLease'
  BY LeaseStep
<1>3. WorkerHoldsLease => OneWorkerWorks
  BY Alone DEF OneWorkerWorks, Holding
<1> QED
  BY <1>1, <1>2, <1>3, TypeCorrect, PTL DEF Spec

-----------------------------------------------------------------------------
(* The steps of a worker, for another one and for the rule *)

\* What a worker does changes only its own place.
LEMMA OnlyItsPlace ==
  ASSUME NEW w \in Workers, TypeOK, Start(w) \/ Work(w) \/ Interrupted(w)
  PROVE  \A v \in Workers \ {w} : pc'[v] = pc[v]
  BY DEF TypeOK, Start, Work, Enter, SyncDone, Rebuilding, BeginRebuild, ReadIds, FindChunk,
     CompareChunk, TouchOld, ChunkDone, Sweep, EndRebuild, Removing, RemoveFacts, ForgetRule,
     Draining, NothingToClaim, Find, Compare, Evidenced, Complete, Renew, TryAgain, Wake, Claim,
     DeleteStale, WriteNew, Interrupted, RunFails, BatchFails, Stop, Crash, Goto

\* The state of the rule is changed by a deployment, and by the beginning and
\* the end of a rebuild or a removal, nowhere else.
LEMMA RuleKept ==
  ASSUME [Next]_vars,
         \A r \in Rules \cup {NoRule} : ~Deploy(r),
         \A w \in Workers : ~BeginRebuild(w) /\ ~EndRebuild(w) /\ ~ForgetRule(w)
  PROVE  rule' = rule /\ built' = built /\ ready' = ready
<1>1. CASE (\E h \in Heads, c \in SUBSET Justs : Write(h, c)) \/ LeaseRunsOut
           \/ (\E h \in Heads : ClaimEnds(h)) \/ UNCHANGED vars
  BY <1>1 DEF Write, LeaseRunsOut, ClaimEnds, vars, dataVars, storeVars
<1>2. ASSUME NEW w \in Workers, Start(w) \/ Enter(w) \/ SyncDone(w) \/ Rebuilding(w) \/ Removing(w)
      PROVE  rule' = rule /\ built' = built /\ ready' = ready
  BY <1>2 DEF Start, Enter, SyncDone, Rebuilding, ReadIds, FindChunk, CompareChunk, TouchOld,
     ChunkDone, Sweep, Removing, RemoveFacts, dataVars, storeVars
<1>3. ASSUME NEW w \in Workers, Draining(w) \/ \E S \in SUBSET Justs : WriteNew(w, S)
      PROVE  rule' = rule /\ built' = built /\ ready' = ready
  BY <1>3 DEF Draining, NothingToClaim, Find, Compare, Evidenced, Complete, Renew, TryAgain, Wake,
     Claim, DeleteStale, WriteNew, dataVars, storeVars
<1>4. ASSUME NEW w \in Workers, Interrupted(w) PROVE rule' = rule /\ built' = built /\ ready' = ready
  BY <1>4 DEF Interrupted, RunFails, BatchFails, Stop, Crash, dataVars, storeVars
<1> QED
  BY <1>1, <1>2, <1>3, <1>4 DEF Next, Work

\* No worker is in its loop before the rule that is deployed is built.
LEMMA SyncedStep ==
  ASSUME TypeOK, Synced, RebuildInv, [Next]_vars
  PROVE  Synced'
<1> USE DerivedAssumption
<1> DEFINE Loop == InBatch \cup {"loop", "renew", "backoff", "idle"}
<1>1. ASSUME NEW r \in Rules \cup {NoRule}, Deploy(r) PROVE Synced'
  BY <1>1 DEF Deploy, Synced, InBatch
<1>2. ASSUME NEW w \in Workers, BeginRebuild(w) PROVE Synced'
  <2>1. \A v \in Workers : pc[v] \notin Loop
    BY <1>2 DEF BeginRebuild, Synced
  <2>2. \A v \in Workers : pc'[v] \in {pc[v], "seeding"}
    BY <1>2 DEF BeginRebuild, Goto, TypeOK
  <2> QED
    BY <2>1, <2>2 DEF Synced, InBatch
<1>3. ASSUME NEW w \in Workers, EndRebuild(w) PROVE Synced'
  <2>1. UpToDate'
    BY <1>3 DEF EndRebuild, UpToDate, RebuildInv, InRebuild, dataVars
  <2> QED
    BY <2>1 DEF Synced
<1>4. ASSUME NEW w \in Workers, ForgetRule(w) PROVE Synced'
  <2>1. UpToDate'
    BY <1>4 DEF ForgetRule, UpToDate, RebuildInv, dataVars
  <2> QED
    BY <2>1 DEF Synced
<1>5. CASE /\ \A r \in Rules \cup {NoRule} : ~Deploy(r)
           /\ \A w \in Workers : ~BeginRebuild(w) /\ ~EndRebuild(w) /\ ~ForgetRule(w)
  <2>1. UpToDate' = UpToDate
    BY <1>5, RuleKept DEF UpToDate
  <2>2. \A v \in Workers : pc'[v] \in Loop => pc[v] \in Loop \/ UpToDate
    <3>1. ASSUME NEW w \in Workers, Start(w) \/ Work(w) \/ Interrupted(w)
          PROVE  pc'[w] \in Loop => pc[w] \in Loop \/ UpToDate
      BY <1>5, <3>1 DEF TypeOK, Start, Work, Enter, SyncDone, Rebuilding, ReadIds, FindChunk,
         CompareChunk, TouchOld, ChunkDone, Sweep, Removing, RemoveFacts, Draining,
         NothingToClaim, Find, Compare, Evidenced, Complete, Renew, TryAgain, Wake, Claim,
         DeleteStale, WriteNew, Interrupted, RunFails, BatchFails, Stop, Crash, Goto, InBatch
    <3>2. CASE \E w \in Workers : Start(w) \/ Work(w) \/ Interrupted(w)
      BY <3>1, <3>2, OnlyItsPlace
    <3>3. CASE ~\E w \in Workers : Start(w) \/ Work(w) \/ Interrupted(w)
      BY <1>5, <3>3 DEF Next, Write, LeaseRunsOut, ClaimEnds, vars
    <3> QED
      BY <3>2, <3>3
  <2> QED
    BY <2>1, <2>2 DEF Synced
<1> QED
  BY <1>1, <1>2, <1>3, <1>4, <1>5

\* Nothing is stored of a rule of which there is no node.
LEMMA NothingStep ==
  ASSUME TypeOK, Synced, DrainInv, RebuildInv, NothingOfNoRule, [Next]_vars
  PROVE  NothingOfNoRule'
<1> USE DerivedAssumption
<1>1. ASSUME NEW w \in Workers, NEW S \in SUBSET Justs, WriteNew(w, S) PROVE NothingOfNoRule'
  <2>1. CASE pc[w] = "rebuild_write"
    BY <1>1, <2>1 DEF WriteNew, NothingOfNoRule, RebuildInv, InRebuild
  <2>2. CASE pc[w] = "writing"
    <3>1. UpToDate /\ S \subseteq Body[rule]
      BY <1>1, <2>2 DEF WriteNew, Synced, InBatch, DrainInv, FoundInv, WritingInv
    <3> QED
      BY <1>1, <3>1 DEF WriteNew, NothingOfNoRule, UpToDate
  <2> QED
    BY <1>1, <2>1, <2>2 DEF WriteNew
<1>2. ASSUME NEW w \in Workers, BeginRebuild(w) \/ EndRebuild(w) \/ ForgetRule(w)
      PROVE  NothingOfNoRule'
  BY <1>2 DEF BeginRebuild, EndRebuild, ForgetRule, NothingOfNoRule, RebuildInv, InRebuild
<1>3. ASSUME NEW r \in Rules \cup {NoRule}, Deploy(r) PROVE NothingOfNoRule'
  BY <1>3 DEF Deploy, NothingOfNoRule, storeVars
<1>4. CASE /\ \A r \in Rules \cup {NoRule} : ~Deploy(r)
           /\ \A w \in Workers : ~BeginRebuild(w) /\ ~EndRebuild(w) /\ ~ForgetRule(w)
           /\ \A w \in Workers, S \in SUBSET Justs : ~WriteNew(w, S)
  <2>1. justs' \subseteq justs
    <3>1. CASE (\E h \in Heads, c \in SUBSET Justs : Write(h, c)) \/ LeaseRunsOut
               \/ (\E h \in Heads : ClaimEnds(h)) \/ UNCHANGED vars
      BY <3>1 DEF Write, LeaseRunsOut, ClaimEnds, vars, storeVars
    <3>2. ASSUME NEW w \in Workers,
                 Start(w) \/ Enter(w) \/ SyncDone(w) \/ Rebuilding(w) \/ Removing(w)
          PROVE  justs' \subseteq justs
      BY <1>4, <3>2 DEF Start, Enter, SyncDone, Rebuilding, ReadIds, FindChunk, CompareChunk,
         TouchOld, ChunkDone, Sweep, Removing, RemoveFacts, DeleteJusts, storeVars
    <3>3. ASSUME NEW w \in Workers, Draining(w) PROVE justs' \subseteq justs
      BY <3>3 DEF Draining, NothingToClaim, Find, Compare, Evidenced, Complete, Renew, TryAgain,
         Wake, Claim, DeleteStale, DeleteJusts, storeVars
    <3>4. ASSUME NEW w \in Workers, Interrupted(w) PROVE justs' \subseteq justs
      BY <3>4 DEF Interrupted, RunFails, BatchFails, Stop, Crash, storeVars
    <3> QED
      BY <1>4, <3>1, <3>2, <3>3, <3>4 DEF Next, Work
  <2> QED
    BY <1>4, <2>1, RuleKept DEF NothingOfNoRule
<1> QED
  BY <1>1, <1>2, <1>3, <1>4

-----------------------------------------------------------------------------
(* What is right, and what is accounted for *)

\* A write of h changes what is right only of what rests on h; and, with a rule
\* deployed, its own transaction leaves h pending.
LEMMA WriteTells ==
  ASSUME TypeOK, NEW h \in Heads, NEW c \in SUBSET Justs, Write(h, c)
  PROVE  /\ \A j \in Justs : h \notin Evidence[j] => (j \in Right(rule)' <=> j \in Right(rule))
         /\ rule # NoRule => pending' = pending \cup {h}
         /\ rule = NoRule => Right(rule)' = {} /\ Right(rule) = {} /\ pending' = pending
<1> USE DerivedAssumption
<1>1. rule' = rule /\ content' = [content EXCEPT ![h] = c]
  BY DEF Write
<1>2. \A j \in Justs : h \notin Evidence[j] => (AllEvidence(j)' <=> AllEvidence(j))
  BY <1>1 DEF AllEvidence, TypeOK
<1>3. \A j \in Justs : h \notin Evidence[j] => (j \in Right(rule)' <=> j \in Right(rule))
  BY <1>1, <1>2 DEF Right
<1>4. rule # NoRule => pending' = pending \cup {h}
  BY DEF Write, MarkHeads
<1>5. rule = NoRule => Right(rule)' = {} /\ Right(rule) = {} /\ pending' = pending
  BY <1>1 DEF Write, Right
<1> QED
  BY <1>3, <1>4, <1>5

\* Nothing else changes what is right.
LEMMA RightKept ==
  ASSUME content' = content, rule' = rule
  PROVE  Right(rule)' = Right(rule)
  BY DEF Right, AllEvidence

\* When a batch completes, what it replaced is right, or rests on a head that
\* was written again and keeps its mark; the rest is accounted for as before.
LEMMA CompleteAccounts ==
  ASSUME TypeOK, Accounted, DrainInv, UpToDate, NEW w \in Workers, Complete(w)
  PROVE  Accounted'
<1> USE DerivedAssumption
<1>1. /\ pending' = pending \ Completed(batch[w], seen[w])
      /\ capped' = (capped \ batch[w]) \cup short[w]
      /\ justs' = justs /\ rest[w] = {} /\ pc[w] = "deleting"
      /\ content' = content /\ rule' = rule
  BY DEF Complete, CompleteHeads, dataVars
<1>2. BatchInv(w) /\ FoundInv(w) /\ DeletingInv(w)
  BY <1>1 DEF DrainInv, InBatch
<1>3. Right(rule)' = Right(rule)
  BY <1>1, RightKept
<1> SUFFICES ASSUME NEW j \in Justs, (j \in justs) # (j \in Right(rule))
             PROVE  Evidence[j] \cap (pending' \cup capped') # {}
  BY <1>1, <1>3 DEF Accounted
<1>4. CASE j \in Replaced(w)
  <2>1. j \in justs <=> j \in found[w]
    BY <1>1, <1>2, <1>4 DEF DeletingInv
  <2>2. PICK h \in Evidence[j] : WrittenSince(w, h)
    BY <1>2, <1>4, <2>1 DEF FoundInv
  <2>3. h \in pending'
    BY <1>1, <2>2 DEF WrittenSince, Completed
  <2> QED
    BY <2>2, <2>3
<1>5. CASE j \notin Replaced(w)
  <2>1. PICK h \in Evidence[j] : h \in pending \cup capped
    BY DEF Accounted
  <2>2. h \in batch[w] => h \in short[w]
    BY <1>5, <2>1 DEF Replaced
  <2>3. h \in pending' \cup capped'
    BY <1>1, <2>1, <2>2 DEF Completed
  <2> QED
    BY <2>1, <2>3
<1> QED
  BY <1>4, <1>5

\* When a rebuild ends, each justification there is was found by it, and each
\* one it did not seed, or that changed since, rests on a pending head.
LEMMA RebuildAccounts ==
  ASSUME TypeOK, RebuildInv, NEW w \in Workers, EndRebuild(w)
  PROVE  Accounted'
<1> USE DerivedAssumption
<1>1. /\ pc[w] = "swept" /\ capped' = short[w] /\ justs' = justs
      /\ content' = content /\ rule' = rule /\ pending' = pending
  BY DEF EndRebuild, dataVars, queueVars
<1>2. SeededInv(w) /\ seeds[w] = {} /\ justs = stamped[w]
  BY <1>1 DEF RebuildInv, InRebuild
<1>3. \A j \in Justs : \/ j \in justs <=> j \in Right(rule)
                     \/ Evidence[j] \cap (pending' \cup capped') # {}
  BY <1>1, <1>2 DEF SeededInv, FoundSoFar
<1> QED
  BY <1>1, <1>3, RightKept DEF Accounted

\* Each step keeps what is stored accounted for.
LEMMA AccountedStep ==
  ASSUME ~RollsBack, TypeOK, Synced, DrainInv, RebuildInv, NothingOfNoRule, Accounted, [Next]_vars
  PROVE  Accounted'
<1> USE DerivedAssumption
<1>1. ASSUME NEW h \in Heads, NEW c \in SUBSET Justs, Write(h, c) PROVE Accounted'
  <2>1. UpToDate' = UpToDate /\ justs' = justs /\ capped' = capped /\ rule' = rule
    BY <1>1 DEF Write, UpToDate, storeVars
  <2> QED
    BY <1>1, <2>1, WriteTells DEF Accounted
<1>2. ASSUME NEW r \in Rules \cup {NoRule}, Deploy(r) PROVE Accounted'
  <2>1. /\ r # rule /\ (built = rule \/ ~ready) /\ rule' = r
        /\ built' = built /\ ready' = ready /\ justs' = justs
    BY <1>2 DEF Deploy, storeVars
  <2>2. UpToDate' => r = NoRule /\ justs = {}
    BY <2>1 DEF UpToDate, NothingOfNoRule
  <2> QED
    BY <2>1, <2>2 DEF Accounted, Right
<1>3. ASSUME NEW w \in Workers, BeginRebuild(w) PROVE Accounted'
  BY <1>3 DEF BeginRebuild, Accounted, UpToDate, dataVars
<1>4. ASSUME NEW w \in Workers, EndRebuild(w) PROVE Accounted'
  BY <1>4, RebuildAccounts
<1>5. ASSUME NEW w \in Workers, ForgetRule(w) PROVE Accounted'
  BY <1>5 DEF ForgetRule, Accounted, Right, RebuildInv, dataVars
<1>6. ASSUME NEW w \in Workers, Complete(w) PROVE Accounted'
  <2>1. UpToDate
    BY <1>6 DEF Complete, Synced, InBatch
  <2> QED
    BY <1>6, <2>1, CompleteAccounts
<1>7. ASSUME UNCHANGED <<content, rule, built, ready>>, pending \subseteq pending', capped' = capped,
             UpToDate => \A j \in Justs : (j \in justs) # (j \in justs') => Evidence[j] \cap pending # {}
      PROVE  Accounted'
  BY <1>7, RightKept DEF Accounted, UpToDate
<1>8. ASSUME NEW w \in Workers, NEW S \in SUBSET Justs, WriteNew(w, S) PROVE Accounted'
  <2>1. CASE pc[w] = "writing"
    <3>1. \A j \in S : Evidence[j] \cap pending # {}
      BY <1>8, <2>1 DEF WriteNew, DrainInv, InBatch, BatchInv, FoundInv, WritingInv, Replaced
    <3> QED
      BY <1>8, <3>1, <1>7 DEF WriteNew, dataVars, queueVars
  <2>2. CASE pc[w] = "rebuild_write"
    <3>1. ~UpToDate
      BY <2>2 DEF RebuildInv, InRebuild, UpToDate
    <3> QED
      BY <1>8, <3>1, <1>7 DEF WriteNew, dataVars, queueVars
  <2> QED
    BY <1>8, <2>1, <2>2 DEF WriteNew
<1>9. ASSUME NEW w \in Workers, NEW S \in SUBSET Justs, DeleteStale(w, S) PROVE Accounted'
  <2>1. \A j \in S : Evidence[j] \cap pending # {}
    BY <1>9 DEF DeleteStale, DrainInv, InBatch, BatchInv, DeletingInv, Replaced
  <2> QED
    BY <1>9, <2>1, <1>7 DEF DeleteStale, DeleteJusts, dataVars, queueVars
<1>10. ASSUME NEW w \in Workers, NEW S \in SUBSET Justs, Sweep(w, S) \/ RemoveFacts(w, S)
       PROVE  Accounted'
  <2>1. ~UpToDate
    BY <1>10 DEF Sweep, RemoveFacts, RebuildInv, InRebuild, UpToDate
  <2> QED
    BY <1>10, <2>1, <1>7 DEF Sweep, RemoveFacts, dataVars, queueVars
<1>11. ASSUME NEW w \in Workers,
              \/ Start(w) \/ Enter(w) \/ SyncDone(w) \/ ReadIds(w) \/ CompareChunk(w) \/ ChunkDone(w)
              \/ \E S \in SUBSET Heads : FindChunk(w, S)
              \/ \E S \in SUBSET Justs : TouchOld(w, S)
       PROVE  Accounted'
  <2>1. UNCHANGED <<content, rule, built, ready, justs, pending, capped>>
    BY <1>11 DEF Start, Enter, SyncDone, ReadIds, CompareChunk, ChunkDone, FindChunk, TouchOld,
       dataVars, storeVars, queueVars
  <2> QED
    BY <2>1, <1>7
<1>12. ASSUME NEW w \in Workers,
              \/ NothingToClaim(w) \/ Find(w) \/ Compare(w) \/ Evidenced(w)
              \/ Renew(w) \/ TryAgain(w) \/ Wake(w) \/ \E S \in SUBSET Heads : Claim(w, S)
       PROVE  Accounted'
  <2>1. UNCHANGED <<content, rule, built, ready, justs, pending, capped>>
    BY <1>12 DEF NothingToClaim, Find, Compare, Evidenced, Renew, TryAgain, Wake, Claim, ClaimHeads,
       dataVars, storeVars, queueVars
  <2> QED
    BY <2>1, <1>7
<1>13. CASE \/ LeaseRunsOut \/ (\E h \in Heads : ClaimEnds(h))
            \/ (\E w \in Workers : Interrupted(w)) \/ UNCHANGED vars
  <2>1. UNCHANGED <<content, rule, built, ready, justs, pending, capped>>
    BY <1>13 DEF LeaseRunsOut, ClaimEnds, ClaimRunsOut, Interrupted, RunFails, BatchFails, Stop,
       Crash, ReleaseHeads, dataVars, storeVars, queueVars, vars
  <2> QED
    BY <2>1, <1>7
<1> QED
  BY <1>1, <1>2, <1>3, <1>4, <1>5, <1>6, <1>8, <1>9, <1>10, <1>11, <1>12, <1>13
  DEF Next, Work, Rebuilding, Removing, Draining

-----------------------------------------------------------------------------
(* A batch *)

\* What DrainInv says of one worker.
DrainOf(w) ==
  /\ pc[w] \in InBatch => BatchInv(w)
  /\ pc[w] \in {"found", "writing", "deleting"} => FoundInv(w)
  /\ pc[w] = "writing" => WritingInv(w)
  /\ pc[w] = "deleting" => DeletingInv(w)

\* A worker not in a batch has nothing to keep.
LEMMA NotInBatch ==
  ASSUME NEW w \in Workers, pc[w] \notin InBatch
  PROVE  DrainOf(w)
  BY DEF DrainOf, InBatch

\* A step that leaves a worker's batch, the data, and the marks and facts it
\* relies on alone keeps what holds of it.
LEMMA DrainKept ==
  ASSUME NEW w \in Workers, DrainOf(w), pc'[w] = pc[w],
         UNCHANGED <<content, rule, justs, pending, token, nextToken>>,
         batch'[w] = batch[w], seen'[w] = seen[w], found'[w] = found[w],
         short'[w] = short[w], fresh'[w] = fresh[w], rest'[w] = rest[w]
  PROVE  DrainOf(w)'
<1>1. BatchInv(w)' = BatchInv(w)
  BY DEF BatchInv
<1>2. Replaced(w)' = Replaced(w)
  BY DEF Replaced
<1>3. \A h : WrittenSince(w, h)' = WrittenSince(w, h)
  BY DEF WrittenSince
<1>4. FoundInv(w)' = FoundInv(w)
  BY <1>2, <1>3, RightKept DEF FoundInv
<1>5. WritingInv(w)' = WritingInv(w) /\ DeletingInv(w)' = DeletingInv(w)
  BY <1>2 DEF WritingInv, DeletingInv
<1> QED
  BY <1>1, <1>4, <1>5 DEF DrainOf

\* A write while a batch is worked on: what rests on the head written has a
\* mark that is not the one the batch claimed.
LEMMA DrainWrite ==
  ASSUME TypeOK, DrainInv, NEW h \in Heads, NEW c \in SUBSET Justs, Write(h, c)
  PROVE  DrainInv'
<1> USE DerivedAssumption
<1>1. /\ rule' = rule /\ justs' = justs /\ pc' = pc /\ batch' = batch /\ seen' = seen
      /\ found' = found /\ short' = short /\ fresh' = fresh /\ rest' = rest
      /\ pending \subseteq pending' /\ nextToken' = nextToken + 1
  BY DEF Write, MarkHeads, storeVars, jobVars
<1> SUFFICES ASSUME NEW w \in Workers, pc[w] \in InBatch PROVE DrainOf(w)'
  BY <1>1, NotInBatch DEF DrainInv, DrainOf, InBatch
<1>2. BatchInv(w)
  BY DEF DrainInv
<1>3. BatchInv(w)'
  BY <1>1, <1>2 DEF BatchInv, TypeOK, QueueTypeOK
<1>4. \A i \in Heads : WrittenSince(w, i) => WrittenSince(w, i)'
  <2> SUFFICES ASSUME NEW i \in Heads, WrittenSince(w, i) PROVE WrittenSince(w, i)'
    OBVIOUS
  <2>1. token'[i] = token[i] \/ token'[i] = nextToken
    BY DEF Write, MarkHeads
  <2>2. seen[w][i] < nextToken
    BY <1>2 DEF BatchInv
  <2>3. seen[w][i] \in Nat /\ nextToken \in Nat
    BY DEF TypeOK, QueueTypeOK
  <2> QED
    BY <1>1, <2>1, <2>2, <2>3 DEF WrittenSince
<1>5. rule # NoRule => WrittenSince(w, h)'
  <2> SUFFICES ASSUME rule # NoRule PROVE WrittenSince(w, h)'
    OBVIOUS
  <2>1. token'[h] = nextToken /\ h \in pending'
    BY DEF Write, MarkHeads
  <2>2. seen[w][h] < nextToken
    BY <1>2 DEF BatchInv
  <2>3. seen[w][h] \in Nat /\ nextToken \in Nat
    BY DEF TypeOK, QueueTypeOK
  <2> QED
    BY <1>1, <2>1, <2>2, <2>3 DEF WrittenSince
<1>6. Replaced(w)' = Replaced(w)
  BY <1>1 DEF Replaced
<1>7. FoundInv(w) => FoundInv(w)'
  <2> SUFFICES ASSUME FoundInv(w) PROVE FoundInv(w)'
    OBVIOUS
  <2>1. ASSUME NEW j \in Replaced(w)
        PROVE  (j \in found[w] <=> j \in Right(rule)') \/ \E i \in Evidence[j] : WrittenSince(w, i)'
    <3>1. j \in Justs /\ Evidence[j] \subseteq Heads
      BY DEF Replaced
    <3>2. CASE \E i \in Evidence[j] : WrittenSince(w, i)
      BY <3>1, <3>2, <1>4
    <3>3. CASE j \in found[w] <=> j \in Right(rule)
      <4>1. CASE rule # NoRule /\ h \in Evidence[j]
        BY <4>1, <1>5
      <4>2. CASE h \notin Evidence[j] \/ rule = NoRule
        BY <3>1, <3>3, <4>2, WriteTells
      <4> QED
        BY <4>1, <4>2
    <3> QED
      BY <3>2, <3>3 DEF FoundInv
  <2> QED
    BY <1>1, <1>6, <2>1 DEF FoundInv
<1>8. (WritingInv(w) => WritingInv(w)') /\ (DeletingInv(w) => DeletingInv(w)')
  BY <1>1, <1>6 DEF WritingInv, DeletingInv
<1> QED
  BY <1>1, <1>3, <1>7, <1>8 DEF DrainInv, DrainOf

\* The steps of a batch, for the worker that takes them.
LEMMA BatchStep ==
  ASSUME TypeOK, DrainInv, NEW w \in Workers,
         \/ Find(w) \/ Compare(w) \/ Evidenced(w)
         \/ \E S \in SUBSET Heads : Claim(w, S)
         \/ \E S \in SUBSET Justs : DeleteStale(w, S) \/ WriteNew(w, S)
  PROVE  DrainOf(w)'
<1> USE DerivedAssumption
<1>1. ASSUME NEW S \in SUBSET Heads, Claim(w, S) PROVE DrainOf(w)'
  <2>1. /\ pc'[w] = "claimed" /\ batch'[w] = S /\ S \subseteq pending
        /\ seen'[w] = [h \in Heads |-> IF h \in S THEN token[h] ELSE 0]
        /\ pending' = pending /\ nextToken' = nextToken
    BY <1>1 DEF Claim, Goto, TypeOK, ClaimHeads, Claimable
  <2>2. \A h \in Heads : seen'[w][h] < nextToken
    BY <2>1 DEF TypeOK, QueueTypeOK
  <2> QED
    BY <2>1, <2>2 DEF DrainOf, BatchInv
<1>2. CASE Find(w)
  <2>1. /\ pc[w] = "claimed" /\ pc'[w] = "found" /\ UNCHANGED <<content, rule, pending, nextToken>>
        /\ found'[w] = FoundForHeads(batch[w], rule)
        /\ short'[w] = {h \in batch[w] : Overflows(h, rule)}
        /\ batch' = batch /\ seen' = seen
    BY <1>2 DEF Find, Goto, TypeOK, dataVars, queueVars
  <2>2. BatchInv(w)'
    BY <2>1 DEF DrainInv, InBatch, BatchInv
  <2>3. \A j \in Justs : j \in found'[w] <=> j \in Right(rule) /\ j \in Replaced(w)'
    BY <2>1 DEF FoundForHeads, Replaced, Right, TypeOK
  <2>4. FoundInv(w)'
    BY <2>1, <2>3, RightKept DEF FoundInv, Right, Replaced, FoundForHeads, TypeOK
  <2> QED
    BY <2>1, <2>2, <2>4 DEF DrainOf
<1>3. ASSUME batch' = batch, seen' = seen, short' = short, found' = found,
             UNCHANGED <<content, rule, pending, token, nextToken>>
      PROVE  /\ BatchInv(w)' = BatchInv(w) /\ FoundInv(w)' = FoundInv(w)
             /\ Replaced(w)' = Replaced(w)
  BY <1>3, RightKept DEF BatchInv, FoundInv, Replaced, WrittenSince
<1>4. CASE Compare(w)
  <2>1. /\ pc[w] = "found" /\ pc'[w] = "writing" /\ justs' = justs
        /\ batch' = batch /\ seen' = seen /\ short' = short /\ found' = found
        /\ UNCHANGED <<content, rule, pending, token, nextToken>>
        /\ fresh'[w] = found[w] \ justs
    BY <1>4 DEF Compare, Goto, TypeOK, dataVars, queueVars, storeVars
  <2> QED
    BY <2>1, <1>3 DEF DrainInv, DrainOf, InBatch, WritingInv
<1>5. CASE Evidenced(w)
  <2>1. /\ pc[w] = "writing" /\ pc'[w] = "deleting" /\ justs' = justs /\ fresh[w] = {}
        /\ batch' = batch /\ seen' = seen /\ short' = short /\ found' = found
        /\ UNCHANGED <<content, rule, pending, token, nextToken>>
        /\ rest'[w] = {j \in justs \ found[w] : Evidence[j] \cap (batch[w] \ short[w]) # {}}
    BY <1>5 DEF Evidenced, Goto, TypeOK, dataVars, queueVars, storeVars
  <2>2. DeletingInv(w)'
    BY <2>1 DEF DrainInv, WritingInv, DeletingInv, Replaced, TypeOK
  <2> QED
    BY <2>1, <2>2, <1>3 DEF DrainInv, DrainOf, InBatch
<1>6. ASSUME NEW S \in SUBSET Justs, DeleteStale(w, S) PROVE DrainOf(w)'
  <2>1. /\ pc[w] = "deleting" /\ pc' = pc /\ justs' = justs \ S /\ S \subseteq rest[w]
        /\ batch' = batch /\ seen' = seen /\ short' = short /\ found' = found
        /\ UNCHANGED <<content, rule, pending, token, nextToken>>
        /\ rest'[w] = rest[w] \ S
    BY <1>6 DEF DeleteStale, DeleteJusts, TypeOK, dataVars, queueVars
  <2>2. DeletingInv(w)'
    BY <2>1, <1>3 DEF DrainInv, DeletingInv
  <2> QED
    BY <2>1, <2>2, <1>3 DEF DrainInv, DrainOf, InBatch
<1>7. ASSUME NEW S \in SUBSET Justs, WriteNew(w, S) PROVE DrainOf(w)'
  <2>1. CASE pc[w] = "writing"
    <3>1. /\ pc' = pc /\ justs' = justs \cup S /\ S \subseteq fresh[w]
          /\ batch' = batch /\ seen' = seen /\ short' = short /\ found' = found
          /\ UNCHANGED <<content, rule, pending, token, nextToken>>
          /\ fresh'[w] = fresh[w] \ S
      BY <1>7 DEF WriteNew, TypeOK, dataVars, queueVars
    <3> QED
      BY <2>1, <3>1, <1>3 DEF DrainInv, DrainOf, InBatch, WritingInv
  <2>2. CASE pc[w] # "writing"
    <3>1. pc'[w] \notin InBatch
      BY <1>7, <2>2 DEF WriteNew, InBatch
    <3> QED
      BY <3>1 DEF DrainOf, InBatch
  <2> QED
    BY <2>1, <2>2
<1> QED
  BY <1>1, <1>2, <1>4, <1>5, <1>6, <1>7

\* A worker that waits or idles, or is stopped or killed then, changes nothing
\* that another one works with.
LEMMA Bystander ==
  ASSUME TypeOK, NEW w \in Workers, pc[w] \notin Holding,
         Start(w) \/ Work(w) \/ Interrupted(w),
         NEW v \in Workers, v # w
  PROVE  /\ pc'[v] = pc[v]
         /\ UNCHANGED <<content, rule, justs, stamped, built, ready, pending, token, nextToken>>
         /\ batch'[v] = batch[v] /\ seen'[v] = seen[v] /\ found'[v] = found[v]
         /\ short'[v] = short[v] /\ fresh'[v] = fresh[v] /\ rest'[v] = rest[v]
         /\ seeds'[v] = seeds[v]
<1>1. Start(w) \/ Enter(w) \/ Wake(w) \/ Stop(w) \/ Crash(w)
  BY DEF Work, SyncDone, Rebuilding, BeginRebuild, ReadIds, FindChunk, CompareChunk, TouchOld,
     ChunkDone, Sweep, EndRebuild, Removing, RemoveFacts, ForgetRule, Draining, NothingToClaim,
     Find, Compare, Evidenced, Complete, Renew, TryAgain, Claim, DeleteStale, WriteNew,
     Interrupted, RunFails, BatchFails, Holding, Working, InBatch, InSync
<1>2. CASE Crash(w)
  BY <1>2 DEF Crash, Forget, Goto, TypeOK, queueVars, dataVars, storeVars
<1>3. CASE Start(w) \/ Enter(w) \/ Wake(w) \/ Stop(w)
  BY <1>3 DEF Start, Enter, Wake, Stop, Goto, TypeOK, queueVars, dataVars, storeVars, jobVars
<1> QED
  BY <1>1, <1>2, <1>3

\* Each step keeps what holds of the batches.
LEMMA DrainStep ==
  ASSUME TypeOK, WorkerHoldsLease, DrainInv, [Next]_vars
  PROVE  DrainInv'
<1> USE DerivedAssumption
<1>0. \A v \in Workers : DrainOf(v)
  BY DEF DrainInv, DrainOf
<1> SUFFICES (\E h \in Heads, c \in SUBSET Justs : Write(h, c)) \/ \A v \in Workers : DrainOf(v)'
  BY DrainWrite DEF DrainInv, DrainOf
<1>1. ASSUME NEW w \in Workers, Start(w) \/ Work(w) \/ Interrupted(w)
      PROVE  \A v \in Workers : DrainOf(v)'
  <2>1. DrainOf(w)'
    <3>1. CASE \/ Find(w) \/ Compare(w) \/ Evidenced(w)
               \/ \E S \in SUBSET Heads : Claim(w, S)
               \/ \E S \in SUBSET Justs : DeleteStale(w, S) \/ WriteNew(w, S)
      BY <3>1, BatchStep
    <3>2. CASE ~(\/ Find(w) \/ Compare(w) \/ Evidenced(w)
                 \/ \E S \in SUBSET Heads : Claim(w, S)
                 \/ \E S \in SUBSET Justs : DeleteStale(w, S) \/ WriteNew(w, S))
      <4>1. pc'[w] \notin InBatch
        BY <1>1, <3>2 DEF TypeOK, Start, Work, Enter, SyncDone, Rebuilding, BeginRebuild, ReadIds,
           FindChunk, CompareChunk, TouchOld, ChunkDone, Sweep, EndRebuild, Removing, RemoveFacts,
           ForgetRule, Draining, NothingToClaim, Complete, Renew, TryAgain, Wake, Interrupted,
           RunFails, BatchFails, Stop, Crash, Goto, InBatch
      <4> QED
        BY <4>1 DEF DrainOf, InBatch
    <3> QED
      BY <3>1, <3>2
  <2>2. ASSUME NEW v \in Workers, v # w PROVE DrainOf(v)'
    <3>1. pc'[v] = pc[v]
      BY <1>1, <2>2, OnlyItsPlace
    <3>2. CASE pc[w] \in Holding
      <4>1. pc'[v] \notin InBatch
        BY <2>2, <3>1, <3>2, Alone DEF Holding, Working
      <4> QED
        BY <4>1 DEF DrainOf, InBatch
    <3>3. CASE pc[w] \notin Holding
      BY <1>0, <1>1, <2>2, <3>3, Bystander, DrainKept
    <3> QED
      BY <3>2, <3>3
  <2> QED
    BY <2>1, <2>2
<1>2. ASSUME NEW r \in Rules \cup {NoRule}, Deploy(r) PROVE \A v \in Workers : DrainOf(v)'
  BY <1>2 DEF Deploy, DrainOf, InBatch
<1>3. ASSUME LeaseRunsOut \/ (\E h \in Heads : ClaimEnds(h)) \/ UNCHANGED vars,
             NEW v \in Workers
      PROVE  DrainOf(v)'
  <2>1. UNCHANGED <<pc, content, rule, justs, pending, token, nextToken, jobVars>>
    BY <1>3 DEF LeaseRunsOut, ClaimEnds, ClaimRunsOut, vars, queueVars, dataVars, storeVars
  <2> QED
    BY <1>0, <2>1, DrainKept DEF jobVars
<1> QED
  BY <1>1, <1>2, <1>3 DEF Next

-----------------------------------------------------------------------------
(* A rebuild *)

\* What RebuildInv says of one worker.
RebuildOf(w) ==
  /\ pc[w] \in InRebuild => rule # NoRule /\ built = rule /\ ~ready
  /\ pc[w] = "seeding" => stamped[w] = {}
  /\ pc[w] \in InRebuild \ {"seeding"} => SeededInv(w)
  /\ pc[w] = "rebuild_write" => rest[w] \subseteq justs
  /\ pc[w] = "swept" => seeds[w] = {} /\ justs = stamped[w]
  /\ pc[w] = "removed" => rule = NoRule /\ justs = {}
  /\ stamped[w] \subseteq justs

\* A worker in neither has only its stamps to keep.
LEMMA NotInRebuild ==
  ASSUME NEW w \in Workers, pc'[w] \notin InRebuild \cup {"removed"}, stamped'[w] \subseteq justs'
  PROVE  RebuildOf(w)'
  BY DEF RebuildOf, InRebuild

\* A step that leaves the data and a rebuild alone keeps what holds of it.
LEMMA RebuildKept ==
  ASSUME NEW w \in Workers, RebuildOf(w), pc'[w] = pc[w],
         UNCHANGED <<content, rule, justs, stamped, built, ready, pending>>,
         found'[w] = found[w], short'[w] = short[w], fresh'[w] = fresh[w],
         rest'[w] = rest[w], seeds'[w] = seeds[w]
  PROVE  RebuildOf(w)'
<1>1. FoundSoFar(w)' = FoundSoFar(w)
  BY DEF FoundSoFar
<1>2. SeededInv(w)' = SeededInv(w)
  BY <1>1, RightKept DEF SeededInv
<1> QED
  BY <1>2 DEF RebuildOf

\* A write while a rebuild is under way leaves a mark on what it makes wrong.
LEMMA RebuildWrite ==
  ASSUME TypeOK, RebuildInv, NEW h \in Heads, NEW c \in SUBSET Justs, Write(h, c)
  PROVE  RebuildInv'
<1> USE DerivedAssumption
<1>1. /\ pc' = pc /\ pending \subseteq pending'
      /\ UNCHANGED <<rule, justs, stamped, built, ready, found, short, fresh, rest, seeds>>
  BY DEF Write, MarkHeads, storeVars, jobVars
<1>2. ASSUME NEW w \in Workers, SeededInv(w) PROVE SeededInv(w)'
  <2>1. FoundSoFar(w)' = FoundSoFar(w)
    BY <1>1 DEF FoundSoFar
  <2> QED
    BY <1>1, <1>2, <2>1, WriteTells DEF SeededInv
<1> QED
  BY <1>1, <1>2 DEF RebuildInv

\* The steps of a rebuild, for the worker that takes them.
LEMMA RebuildingStep ==
  ASSUME TypeOK, RebuildInv, NEW w \in Workers,
         Rebuilding(w) \/ \E S \in SUBSET Justs : WriteNew(w, S) /\ pc[w] = "rebuild_write"
  PROVE  RebuildOf(w)'
<1> USE DerivedAssumption
<1>0. RebuildOf(w)
  BY DEF RebuildInv, RebuildOf
<1>1. CASE BeginRebuild(w)
  BY <1>1 DEF BeginRebuild, RebuildOf, InRebuild, Goto, TypeOK, dataVars
<1>2. CASE ReadIds(w)
  <2>1. /\ pc[w] = "seeding" /\ pc'[w] = "chunk" /\ seeds'[w] = {h \in Heads : content[h] # {}}
        /\ UNCHANGED <<content, rule, justs, stamped, built, ready, pending, short>>
    BY <1>2 DEF ReadIds, Goto, TypeOK, dataVars, storeVars, queueVars
  <2>2. FoundSoFar(w)' = {}
    BY <1>0, <2>1 DEF FoundSoFar, RebuildOf
  <2>3. ASSUME NEW j \in Justs, j \in Right(rule) PROVE SeedOf[j] \in seeds'[w]
    <3>1. SeedOf[j] \in Heads /\ SeedOf[j] \in Evidence[j]
      OBVIOUS
    <3>2. j \in content[SeedOf[j]]
      BY <2>3, <3>1 DEF Right, AllEvidence
    <3> QED
      BY <2>1, <3>1, <3>2
  <2>4. SeededInv(w)'
    BY <2>1, <2>2, <2>3, RightKept DEF SeededInv
  <2> QED
    BY <1>0, <2>1, <2>4 DEF RebuildOf, InRebuild
<1>3. ASSUME NEW S \in SUBSET Heads, FindChunk(w, S) PROVE RebuildOf(w)'
  <2>1. /\ pc[w] = "chunk" /\ pc'[w] = "rebuild_found" /\ S \subseteq seeds[w]
        /\ seeds'[w] = seeds[w] \ S
        /\ found'[w] = FoundForSeeds(S, rule)
        /\ short'[w] = short[w] \cup {h \in S : Overflows(h, rule)}
        /\ UNCHANGED <<content, rule, justs, stamped, built, ready, pending>>
    BY <1>3 DEF FindChunk, Goto, TypeOK, dataVars, storeVars, queueVars
  <2>2. FoundSoFar(w) = stamped[w] /\ FoundSoFar(w)' = stamped[w] \cup found'[w]
    BY <2>1 DEF FoundSoFar
  <2>3. SeededInv(w)
    BY <1>0, <2>1 DEF RebuildOf, InRebuild
  <2>4. ASSUME NEW j \in Justs
        PROVE  /\ j \in found'[w] <=> j \in Right(rule) /\ SeedOf[j] \in S /\ ~Overflows(SeedOf[j], rule)
    BY <2>1 DEF FoundForSeeds, Right
  <2>5. SeededInv(w)'
    BY <2>1, <2>2, <2>3, <2>4, RightKept DEF SeededInv
  <2> QED
    BY <1>0, <2>1, <2>5 DEF RebuildOf, InRebuild
<1>4. ASSUME UNCHANGED <<content, rule, pending, short, seeds>>, FoundSoFar(w)' = FoundSoFar(w),
             SeededInv(w)
      PROVE  SeededInv(w)'
  BY <1>4, RightKept DEF SeededInv
<1>5. CASE CompareChunk(w)
  <2>1. /\ pc[w] = "rebuild_found" /\ pc'[w] = "rebuild_write"
        /\ fresh'[w] = found[w] \ justs /\ rest'[w] = found[w] \cap justs
        /\ UNCHANGED <<content, rule, justs, stamped, built, ready, pending, short, seeds>>
    BY <1>5 DEF CompareChunk, Goto, TypeOK, dataVars, storeVars, queueVars
  <2>2. FoundSoFar(w)' = FoundSoFar(w)
    BY <2>1 DEF FoundSoFar
  <2> QED
    BY <1>0, <1>4, <2>1, <2>2 DEF RebuildOf, InRebuild
<1>6. ASSUME NEW S \in SUBSET Justs, TouchOld(w, S) PROVE RebuildOf(w)'
  <2>1. /\ pc[w] = "rebuild_write" /\ pc' = pc /\ S \subseteq rest[w] /\ fresh' = fresh
        /\ stamped'[w] = stamped[w] \cup (S \cap justs) /\ rest'[w] = rest[w] \ S
        /\ UNCHANGED <<content, rule, justs, built, ready, pending, short, seeds>>
    BY <1>6 DEF TouchOld, TypeOK, dataVars, queueVars
  <2>2. FoundSoFar(w)' = FoundSoFar(w)
    BY <1>0, <2>1 DEF FoundSoFar, RebuildOf
  <2> QED
    BY <1>0, <1>4, <2>1, <2>2 DEF RebuildOf, InRebuild
<1>7. ASSUME NEW S \in SUBSET Justs, WriteNew(w, S), pc[w] = "rebuild_write" PROVE RebuildOf(w)'
  <2>1. /\ pc' = pc /\ S \subseteq fresh[w] /\ rest' = rest
        /\ justs' = justs \cup S /\ stamped'[w] = stamped[w] \cup S /\ fresh'[w] = fresh[w] \ S
        /\ UNCHANGED <<content, rule, built, ready, pending, short, seeds>>
    BY <1>7 DEF WriteNew, TypeOK, dataVars, queueVars
  <2>2. FoundSoFar(w)' = FoundSoFar(w)
    BY <1>7, <2>1 DEF FoundSoFar
  <2> QED
    BY <1>0, <1>4, <1>7, <2>1, <2>2 DEF RebuildOf, InRebuild
<1>8. CASE ChunkDone(w)
  <2>1. /\ pc[w] = "rebuild_write" /\ pc'[w] = "chunk" /\ fresh[w] = {} /\ rest[w] = {}
        /\ UNCHANGED <<content, rule, justs, stamped, built, ready, pending, short, seeds>>
    BY <1>8 DEF ChunkDone, Goto, TypeOK, dataVars, storeVars, queueVars
  <2>2. FoundSoFar(w)' = FoundSoFar(w)
    BY <2>1 DEF FoundSoFar
  <2> QED
    BY <1>0, <1>4, <2>1, <2>2 DEF RebuildOf, InRebuild
<1>9. ASSUME NEW S \in SUBSET Justs, Sweep(w, S) PROVE RebuildOf(w)'
  <2>1. /\ pc[w] = "chunk" /\ pc'[w] \in {"chunk", "swept"} /\ seeds[w] = {}
        /\ S \subseteq justs \ stamped[w] /\ justs' = justs \ S /\ stamped'[w] = stamped[w] \ S
        /\ UNCHANGED <<content, rule, built, ready, pending, short, seeds>>
        /\ pc'[w] = "swept" => S = justs \ stamped[w]
    BY <1>9 DEF Sweep, DeleteJusts, Goto, TypeOK, dataVars, queueVars, jobVars
  <2>2. stamped'[w] = stamped[w] /\ (pc'[w] = "swept" => justs' = stamped'[w])
    BY <1>0, <2>1 DEF RebuildOf
  <2>3. FoundSoFar(w)' = FoundSoFar(w)
    BY <2>1, <2>2 DEF FoundSoFar
  <2> QED
    BY <1>0, <1>4, <2>1, <2>2, <2>3 DEF RebuildOf, InRebuild
<1>10. CASE EndRebuild(w)
  BY <1>0, <1>10 DEF EndRebuild, RebuildOf, InRebuild, Goto, TypeOK
<1> QED
  BY <1>1, <1>2, <1>3, <1>5, <1>6, <1>7, <1>8, <1>9, <1>10 DEF Rebuilding

\* Each step keeps what holds of a rebuild.
LEMMA RebuildStep ==
  ASSUME TypeOK, WorkerHoldsLease, RebuildInv, [Next]_vars
  PROVE  RebuildInv'
<1> USE DerivedAssumption
<1>0. \A v \in Workers : RebuildOf(v)
  BY DEF RebuildInv, RebuildOf
<1> SUFFICES (\E h \in Heads, c \in SUBSET Justs : Write(h, c)) \/ \A v \in Workers : RebuildOf(v)'
  BY RebuildWrite DEF RebuildInv, RebuildOf
<1>1. ASSUME NEW w \in Workers, Start(w) \/ Work(w) \/ Interrupted(w)
      PROVE  \A v \in Workers : stamped'[v] \subseteq justs'
  <2>1. ASSUME NEW S \in SUBSET Justs,
               TouchOld(w, S) \/ Sweep(w, S) \/ RemoveFacts(w, S) \/ DeleteStale(w, S) \/ WriteNew(w, S)
        PROVE  \A v \in Workers : stamped'[v] \subseteq justs'
    BY <1>0, <2>1 DEF TouchOld, Sweep, RemoveFacts, DeleteStale, WriteNew, DeleteJusts, RebuildOf
  <2>2. CASE BeginRebuild(w)
    BY <1>0, <2>2 DEF BeginRebuild, RebuildOf, TypeOK
  <2>3. CASE ~BeginRebuild(w) /\ ~\E S \in SUBSET Justs :
               TouchOld(w, S) \/ Sweep(w, S) \/ RemoveFacts(w, S) \/ DeleteStale(w, S) \/ WriteNew(w, S)
    <3>1. justs' = justs /\ stamped' = stamped
      BY <1>1, <2>3 DEF Start, Work, Enter, SyncDone, Rebuilding, ReadIds, FindChunk, CompareChunk,
         ChunkDone, EndRebuild, Removing, ForgetRule, Draining, NothingToClaim, Find, Compare,
         Evidenced, Complete, Renew, TryAgain, Wake, Claim, Interrupted, RunFails, BatchFails,
         Stop, Crash, storeVars
    <3> QED
      BY <1>0, <3>1 DEF RebuildOf
  <2> QED
    BY <2>1, <2>2, <2>3
<1>2. ASSUME NEW w \in Workers, Start(w) \/ Work(w) \/ Interrupted(w)
      PROVE  RebuildOf(w)'
  <2>1. CASE Rebuilding(w) \/ \E S \in SUBSET Justs : WriteNew(w, S) /\ pc[w] = "rebuild_write"
    BY <2>1, RebuildingStep
  <2>2. ASSUME NEW S \in SUBSET Justs, RemoveFacts(w, S) PROVE RebuildOf(w)'
    BY <1>0, <2>2 DEF RemoveFacts, DeleteJusts, RebuildOf, InRebuild, Goto, TypeOK, dataVars
  <2>3. CASE ~(Rebuilding(w) \/ \E S \in SUBSET Justs : WriteNew(w, S) /\ pc[w] = "rebuild_write")
             /\ ~\E S \in SUBSET Justs : RemoveFacts(w, S)
    <3>1. pc'[w] \notin InRebuild \cup {"removed"}
      <4>1. CASE \E S \in SUBSET Justs : WriteNew(w, S)
        BY <2>3, <4>1 DEF WriteNew, InRebuild
      <4>2. CASE \/ Start(w) \/ Enter(w) \/ SyncDone(w) \/ ForgetRule(w) \/ Draining(w)
                 \/ Interrupted(w)
        BY <4>2 DEF TypeOK, Start, Enter, SyncDone, ForgetRule, Draining, NothingToClaim, Find,
           Compare, Evidenced, Complete, Renew, TryAgain, Wake, Claim, DeleteStale, Interrupted,
           RunFails, BatchFails, Stop, Crash, Goto, InRebuild
      <4> QED
        BY <1>2, <2>3, <4>1, <4>2 DEF Work, Removing
    <3> QED
      BY <1>1, <1>2, <3>1, NotInRebuild
  <2> QED
    BY <2>1, <2>2, <2>3
<1>3. ASSUME NEW w \in Workers, Start(w) \/ Work(w) \/ Interrupted(w), NEW v \in Workers, v # w
      PROVE  RebuildOf(v)'
  <2>1. pc'[v] = pc[v]
    BY <1>3, OnlyItsPlace
  <2>2. CASE pc[w] \in Holding
    <3>1. pc'[v] \notin InRebuild \cup {"removed"}
      BY <1>3, <2>1, <2>2, Alone DEF Holding, Working, InSync, InRebuild
    <3> QED
      BY <1>1, <1>3, <3>1, NotInRebuild
  <2>3. CASE pc[w] \notin Holding
    BY <1>0, <1>3, <2>3, Bystander, RebuildKept
  <2> QED
    BY <2>2, <2>3
<1>4. ASSUME NEW r \in Rules \cup {NoRule}, Deploy(r), NEW v \in Workers PROVE RebuildOf(v)'
  BY <1>0, <1>4 DEF Deploy, RebuildOf, InRebuild, storeVars
<1>5. ASSUME LeaseRunsOut \/ (\E h \in Heads : ClaimEnds(h)) \/ UNCHANGED vars, NEW v \in Workers
      PROVE  RebuildOf(v)'
  <2>1. UNCHANGED <<pc, content, rule, pending, storeVars, jobVars>>
    BY <1>5 DEF LeaseRunsOut, ClaimEnds, ClaimRunsOut, vars, queueVars, dataVars
  <2> QED
    BY <1>0, <2>1, RebuildKept DEF jobVars, storeVars
<1> QED
  BY <1>2, <1>3, <1>4, <1>5 DEF Next

-----------------------------------------------------------------------------
(* The invariant, and what follows *)

\* What a lease must do, and a deployment must not, for the rest to hold.
Hypotheses == LeaseOutlivesWork /\ ~RollsBack

\* The invariant holds at first.
LEMMA IInvInit == Init => IInv
<1> SUFFICES ASSUME Init PROVE IInv
  OBVIOUS
<1> USE DerivedAssumption
<1>1. TypeOK
  <2>1. QueueTypeOK
    BY DEF Init, QueueInit, QueueTypeOK
  <2> QED
    BY <2>1 DEF Init, TypeOK, NoTokens, Places
<1>2. \A w \in Workers : pc[w] = "down" /\ stamped[w] = {}
  BY DEF Init
<1>3. WorkerHoldsLease /\ Synced /\ DrainInv /\ RebuildInv
  BY <1>2 DEF WorkerHoldsLease, Synced, DrainInv, RebuildInv, Holding, Working, InBatch, InSync,
     InRebuild
<1>4. NothingOfNoRule
  BY DEF Init, NothingOfNoRule
<1>5. Accounted
  BY DEF Init, Accounted, UpToDate, Right
<1> QED
  BY <1>1, <1>3, <1>4, <1>5 DEF IInv

\* Each step keeps the invariant.
LEMMA IInvStep == Hypotheses /\ IInv /\ [Next]_vars => IInv'
<1> SUFFICES ASSUME Hypotheses, IInv, [Next]_vars PROVE IInv'
  OBVIOUS
<1>1. TypeOK'
  BY TypeStep DEF IInv
<1>2. WorkerHoldsLease' /\ Synced' /\ NothingOfNoRule'
  BY LeaseStep, SyncedStep, NothingStep DEF IInv, Hypotheses
<1>3. DrainInv' /\ RebuildInv' /\ Accounted'
  BY DrainStep, RebuildStep, AccountedStep DEF IInv, Hypotheses
<1> QED
  BY <1>1, <1>2, <1>3 DEF IInv

\* The inductive invariant of the worker holds.
THEOREM Invariant ==
  ASSUME Hypotheses
  PROVE  Spec => []IInv
  BY IInvInit, IInvStep, PTL DEF Spec

\* No interleaving of writes, batches, crashes and rebuilds leaves a stored
\* fact wrong, or one missing, with no head pending that would put it right.
THEOREM NothingIsForgotten ==
  ASSUME Hypotheses
  PROVE  Spec => []Accounted
<1>1. IInv => Accounted
  BY DEF IInv
<1> QED
  BY <1>1, Invariant, PTL

\* What a batch may delete although it is right was written since it claimed.
LEMMA RightIsKeptStep ==
  ASSUME IInv, [Next]_vars, UpToDate,
         NEW j \in justs \ justs', j \in Right(rule)
  PROVE  \E h \in Evidence[j] :
           h \in pending /\ \A w \in Workers : pc[w] \in InBatch => WrittenSince(w, h)
<1>1. PICK w \in Workers, S \in SUBSET Justs : DeleteStale(w, S) \/ Sweep(w, S) \/ RemoveFacts(w, S)
  <2>1. CASE (\E h \in Heads, c \in SUBSET Justs : Write(h, c)) \/ LeaseRunsOut
             \/ (\E r \in Rules \cup {NoRule} : Deploy(r))
             \/ (\E h \in Heads : ClaimEnds(h)) \/ UNCHANGED vars
    BY <2>1 DEF Write, Deploy, LeaseRunsOut, ClaimEnds, vars, storeVars
  <2>2. ASSUME NEW w \in Workers,
               \/ Start(w) \/ Enter(w) \/ SyncDone(w) \/ Rebuilding(w) \/ Removing(w)
               \/ \E S \in SUBSET Justs : WriteNew(w, S)
        PROVE  \E S \in SUBSET Justs : Sweep(w, S) \/ RemoveFacts(w, S)
    BY <2>2 DEF Start, Enter, SyncDone, Rebuilding, BeginRebuild, ReadIds, FindChunk, CompareChunk,
       TouchOld, ChunkDone, EndRebuild, Removing, ForgetRule, WriteNew, storeVars
  <2>3. ASSUME NEW w \in Workers, Draining(w) PROVE \E S \in SUBSET Justs : DeleteStale(w, S)
    BY <2>3 DEF Draining, NothingToClaim, Find, Compare, Evidenced, Complete, Renew, TryAgain, Wake,
       Claim, storeVars
  <2>4. ASSUME NEW w \in Workers, Interrupted(w) PROVE FALSE
    BY <2>4 DEF Interrupted, RunFails, BatchFails, Stop, Crash, storeVars
  <2> QED
    BY <2>1, <2>2, <2>3, <2>4 DEF Next, Work
<1>2. DeleteStale(w, S)
  BY <1>1 DEF Sweep, RemoveFacts, IInv, RebuildInv, InRebuild, UpToDate
<1>3. /\ pc[w] = "deleting" /\ j \in rest[w]
      /\ BatchInv(w) /\ FoundInv(w) /\ DeletingInv(w)
  BY <1>2 DEF DeleteStale, DeleteJusts, IInv, DrainInv, InBatch
<1>4. PICK h \in Evidence[j] : WrittenSince(w, h)
  BY <1>3 DEF FoundInv, DeletingInv
<1>5. \A v \in Workers : pc[v] \in InBatch => v = w
  BY <1>3, Alone DEF IInv, Holding, Working, InBatch
<1> QED
  BY <1>4, <1>5 DEF WrittenSince

\* Once the rule is built, no batch deletes a justification that is right,
\* unless a head of it was written meanwhile and will be done again.
THEOREM RightStays ==
  ASSUME Hypotheses
  PROVE  Spec => RightIsKept
<1>1. IInv /\ [Next]_vars =>
        [UpToDate =>
           \A j \in justs \ justs' : j \in Right(rule) =>
             \E h \in Evidence[j] :
               h \in pending /\ \A w \in Workers : pc[w] \in InBatch => WrittenSince(w, h)]_vars
  BY RightIsKeptStep
<1> QED
  BY <1>1, Invariant, PTL DEF Spec, RightIsKept

-----------------------------------------------------------------------------
(* The worker implements the promise of DerivedStore *)

\* Every justification rests on something.
LEMMA EvidenceIsThere == \A j \in Justs : Evidence[j] \cap Heads # {}
<1> USE DerivedAssumption
<1> TAKE j \in Justs
<1>1. SeedOf[j] \in Heads /\ SeedOf[j] \in Evidence[j]
  OBVIOUS
<1> QED
  BY <1>1

\* What is wrong is dirty: Accounted once the rule is built, all heads before.
LEMMA AlwaysCovered == Accounted => Store!Covered
<1> SUFFICES ASSUME Accounted, NEW j \in Justs, (j \in justs) # (j \in Store!Right)
             PROVE  Evidence[j] \cap dirtyHeads # {}
  BY DEF Store!Covered
<1>1. Store!Right = Right(rule)
  BY DEF Store!Right, Right, AllEvidence
<1>2. CASE UpToDate
  BY <1>1, <1>2 DEF Accounted, dirtyHeads
<1>3. CASE ~UpToDate
  BY <1>3, EvidenceIsThere DEF dirtyHeads
<1> QED
  BY <1>2, <1>3

\* A step that leaves the data alone, writes and deletes only where something
\* is dirty, and cleans nothing, or changes no fact and soils nothing, is a
\* step of the promise.
LEMMA PromisedStep ==
  ASSUME Accounted', content' = content, rule' = rule, justs' \subseteq Justs,
         \/ /\ dirtyHeads' = dirtyHeads
            /\ \A j \in Justs : (j \in justs) # (j \in justs') => Evidence[j] \cap dirtyHeads # {}
         \/ justs' = justs /\ dirtyHeads' \subseteq dirtyHeads
  PROVE  [Store!Next]_(Store!vars)
<1>1. Store!Covered'
  BY AlwaysCovered, PTL
<1> QED
  BY <1>1 DEF Store!Next, Store!Derive, Store!Settle

\* Each step of the worker, the writes and the deployments is one of the
\* promise, or changes nothing of it.
LEMMA PromiseStep ==
  ASSUME Hypotheses, IInv, [Next]_vars
  PROVE  [Store!Next]_(Store!vars)
<1> USE DerivedAssumption
<1>0. IInv' /\ TypeOK /\ Accounted' /\ justs' \subseteq Justs /\ dirtyHeads \subseteq Heads /\ dirtyHeads' \subseteq Heads
  <2>1. IInv'
    BY IInvStep
  <2> QED
    BY <2>1 DEF IInv, TypeOK, QueueTypeOK, dirtyHeads
<1>1. ASSUME NEW h \in Heads, NEW c \in SUBSET Justs, Write(h, c) PROVE Store!Next
  <2>1. /\ content' = [content EXCEPT ![h] = c] /\ UNCHANGED <<rule, built, ready, justs, capped>>
        /\ pending' = IF rule = NoRule THEN pending ELSE pending \cup {h}
    BY <1>1 DEF Write, MarkHeads, storeVars
  <2>2. dirtyHeads' = IF rule = NoRule THEN dirtyHeads ELSE dirtyHeads \cup {h}
    BY <2>1 DEF dirtyHeads, UpToDate
  <2>3. Store!Edit(h, c)
    BY <2>1, <2>2 DEF Store!Edit
  <2> QED
    BY <2>3 DEF Store!Next
<1>2. ASSUME NEW r \in Rules \cup {NoRule}, Deploy(r) PROVE Store!Next
  <2>1. Store!Covered'
    BY <1>0, AlwaysCovered, PTL
  <2>2. Store!Revise(r)
    BY <1>0, <1>2, <2>1 DEF Store!Revise, Deploy, storeVars
  <2> QED
    BY <2>2 DEF Store!Next
<1>3. ASSUME UNCHANGED <<content, rule, built, ready, pending, capped>>,
             \A j \in Justs : (j \in justs) # (j \in justs') => Evidence[j] \cap dirtyHeads # {}
      PROVE  [Store!Next]_(Store!vars)
  <2>1. dirtyHeads' = dirtyHeads
    BY <1>3 DEF dirtyHeads, UpToDate
  <2> QED
    BY <1>0, <1>3, <2>1, PromisedStep
<1>4. ASSUME NEW w \in Workers, NEW S \in SUBSET Justs,
             WriteNew(w, S) \/ DeleteStale(w, S) \/ Sweep(w, S) \/ RemoveFacts(w, S) \/ TouchOld(w, S)
      PROVE  [Store!Next]_(Store!vars)
  <2>1. UNCHANGED <<content, rule, built, ready, pending, capped>>
    BY <1>4 DEF WriteNew, DeleteStale, Sweep, RemoveFacts, TouchOld, dataVars, queueVars
  <2>2. \A j \in Justs : (j \in justs) # (j \in justs') => Evidence[j] \cap dirtyHeads # {}
    <3>1. CASE ~UpToDate
      BY <3>1, EvidenceIsThere DEF dirtyHeads
    <3>2. CASE UpToDate
      <4>1. pc[w] \notin InRebuild
        BY <3>2 DEF UpToDate, IInv, RebuildInv
      <4>2. CASE WriteNew(w, S)
        <5>1. \A j \in S : Evidence[j] \cap pending # {}
          BY <4>1, <4>2 DEF WriteNew, IInv, InRebuild, DrainInv, InBatch, BatchInv, FoundInv,
             WritingInv, Replaced
        <5> QED
          BY <3>2, <4>2, <5>1 DEF WriteNew, dirtyHeads
      <4>3. CASE DeleteStale(w, S)
        <5>1. \A j \in S : Evidence[j] \cap pending # {}
          BY <4>3 DEF DeleteStale, IInv, DrainInv, InBatch, BatchInv, DeletingInv, Replaced
        <5> QED
          BY <3>2, <4>3, <5>1 DEF DeleteStale, DeleteJusts, dirtyHeads
      <4> QED
        BY <1>4, <3>2, <4>1, <4>2, <4>3 DEF Sweep, RemoveFacts, TouchOld, InRebuild
    <3> QED
      BY <3>1, <3>2
  <2> QED
    BY <2>1, <2>2, <1>3
<1>5. ASSUME NEW w \in Workers, Complete(w) PROVE [Store!Next]_(Store!vars)
  <2>1. /\ UNCHANGED <<content, rule, built, ready, justs>> /\ pc[w] = "deleting"
        /\ pending' \subseteq pending /\ capped' = (capped \ batch[w]) \cup short[w]
    BY <1>5 DEF Complete, CompleteHeads, dataVars
  <2>2. short[w] \subseteq pending
    BY <2>1 DEF IInv, DrainInv, InBatch, BatchInv, FoundInv
  <2>3. dirtyHeads' \subseteq dirtyHeads
    BY <1>0, <2>1, <2>2 DEF dirtyHeads, UpToDate
  <2> QED
    BY <1>0, <2>1, <2>3, PromisedStep
<1>6. ASSUME NEW w \in Workers, BeginRebuild(w) \/ EndRebuild(w) \/ ForgetRule(w)
      PROVE  [Store!Next]_(Store!vars)
  <2>1. UNCHANGED <<content, rule, justs>>
    BY <1>6 DEF BeginRebuild, EndRebuild, ForgetRule, dataVars
  <2>2. ~UpToDate \/ dirtyHeads' = dirtyHeads
    BY <1>6 DEF BeginRebuild, EndRebuild, ForgetRule, IInv, RebuildInv, InRebuild, UpToDate,
       dirtyHeads, dataVars, queueVars
  <2>3. dirtyHeads' \subseteq dirtyHeads
    BY <1>0, <2>2 DEF dirtyHeads
  <2> QED
    BY <1>0, <2>1, <2>3, PromisedStep
<1>7. ASSUME NEW w \in Workers,
             \/ Start(w) \/ Enter(w) \/ SyncDone(w) \/ ReadIds(w) \/ CompareChunk(w) \/ ChunkDone(w)
             \/ \E S \in SUBSET Heads : FindChunk(w, S)
      PROVE  [Store!Next]_(Store!vars)
  <2>1. UNCHANGED <<content, rule, built, ready, justs, pending, capped>>
    BY <1>7 DEF Start, Enter, SyncDone, ReadIds, CompareChunk, ChunkDone, FindChunk, dataVars,
       storeVars, queueVars
  <2> QED
    BY <2>1, <1>3
<1>8. ASSUME NEW w \in Workers,
             \/ NothingToClaim(w) \/ Find(w) \/ Compare(w) \/ Evidenced(w)
             \/ Renew(w) \/ TryAgain(w) \/ Wake(w) \/ \E S \in SUBSET Heads : Claim(w, S)
      PROVE  [Store!Next]_(Store!vars)
  <2>1. UNCHANGED <<content, rule, built, ready, justs, pending, capped>>
    BY <1>8 DEF NothingToClaim, Find, Compare, Evidenced, Renew, TryAgain, Wake, Claim, ClaimHeads,
       dataVars, storeVars, queueVars
  <2> QED
    BY <2>1, <1>3
<1>9. CASE \/ LeaseRunsOut \/ (\E h \in Heads : ClaimEnds(h))
           \/ (\E w \in Workers : Interrupted(w)) \/ UNCHANGED vars
  <2>1. UNCHANGED <<content, rule, built, ready, justs, pending, capped>>
    BY <1>9 DEF LeaseRunsOut, ClaimEnds, ClaimRunsOut, Interrupted, RunFails, BatchFails, Stop,
       Crash, ReleaseHeads, dataVars, storeVars, queueVars, vars
  <2> QED
    BY <2>1, <1>3
<1> QED
  BY <1>1, <1>2, <1>4, <1>5, <1>6, <1>7, <1>8, <1>9 DEF Next, Work, Rebuilding, Removing, Draining

\* The worker, with its queue, batches, lease, crashes and rebuilds, implements
\* the promise: a fact that is wrong or missing rests on a head known to be
\* dirty, and facts change nowhere else.
THEOREM ImplementsStore ==
  ASSUME Hypotheses
  PROVE  Spec => StorePromise
<1>1. Init => Store!Init
  <2> SUFFICES ASSUME Init PROVE Store!Init
    OBVIOUS
  <2>1. IInv
    BY IInvInit
  <2>2. Store!Covered
    BY <2>1, AlwaysCovered DEF IInv
  <2>3. dirtyHeads \subseteq Heads
    BY <2>1 DEF IInv, TypeOK, QueueTypeOK, dirtyHeads
  <2> QED
    BY <2>2, <2>3 DEF Init, Store!Init
<1>2. IInv /\ [Next]_vars => [Store!Next]_(Store!vars)
  BY PromiseStep
<1> QED
  BY <1>1, <1>2, Invariant, PTL DEF Spec, StorePromise, Store!Spec

=============================================================================
