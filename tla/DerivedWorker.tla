---------------------------- MODULE DerivedWorker ----------------------------
(***************************************************************************)
(* The worker that keeps derived facts up to date (pangloss_derived:        *)
(* worker.py and store.py), with the writes that leave it work and the      *)
(* queue between them (Pending).                                            *)
(*                                                                         *)
(* A justification j rests on the head nodes Evidence[j].  What the data    *)
(* say is abstracted to content[h], the justifications the tree of h        *)
(* supports: j is right, under a rule, when the body of the rule admits it  *)
(* and each of its evidence supports it.  A fact is there as long as a      *)
(* justification is (both change in one transaction), so facts are not kept *)
(* apart.  One rule, in one of several bodies (Rules), or removed (NoRule). *)
(*                                                                         *)
(* Every await between two transactions is a point where another process   *)
(* acts, a write commits, the lease or a claim runs out, or the process     *)
(* stops: each transaction is an action of its own.                         *)
(***************************************************************************)
EXTENDS Pending

CONSTANTS
  Justs,        \* the justifications there can be
  Evidence,     \* Evidence[j]: the head nodes j rests on
  SeedOf,       \* SeedOf[j]: the one at the place a rebuild seeds from
  Rules,        \* the versions of the rule that are ever deployed
  Body,         \* Body[r]: the justifications that version r admits
  NoRule,       \* the rule is not declared (or nothing of it is stored)
  Workers,      \* the processes that can run the worker
  Nobody, Gone, \* no holder; a holder whose process is gone
  Batch,        \* Settings.batch
  MaxPerSeed,   \* Derived.Meta(max_per_seed)
  LapseAt,      \* where the lease of a process that is alive may run out
  RollsBack,    \* a deployment may be undone before a worker ran in it
  MaxWrites, MaxFailures, MaxDeploys   \* bounds of the model

ASSUME DerivedAssumption ==
  /\ Evidence \in [Justs -> SUBSET Heads]
  /\ SeedOf \in [Justs -> Heads]
  /\ \A j \in Justs : SeedOf[j] \in Evidence[j]
  /\ NoRule \notin Rules
  /\ Body \in [Rules \cup {NoRule} -> SUBSET Justs]
  /\ Body[NoRule] = {}
  /\ {Nobody, Gone} \cap Workers = {}
  /\ Nobody # Gone
  /\ Batch \in Nat \ {0}
  /\ MaxPerSeed \in Nat
  /\ RollsBack \in BOOLEAN
  /\ MaxWrites \in Nat /\ MaxFailures \in Nat /\ MaxDeploys \in Nat

VARIABLES
  content,      \* content[h]: what the tree of h supports, as committed
  rule,         \* the rule of the code that is deployed
  justs,        \* the PGJustification nodes
  stamped,      \* stamped[w]: those whose generation is that of w's rebuild
  built, ready, \* PGDeriveRule: hash (NoRule: no node), state = "ready"
  lease,        \* PGDeriveWorker: holder
  leaseHolds,   \* PGDeriveWorker: until >= now
  pc,           \* where each process is
  batch, seen,  \* the claimed heads, and the tokens the claim gave
  found,        \* what the seeded queries found
  short,        \* the seeds that gave more than MaxPerSeed (Found.overflowed)
  fresh,        \* what was found and was not there: left to write
  rest,         \* left to delete (of a batch), or to touch (of a rebuild)
  seeds,        \* the seeds left to a rebuild
  capped,       \* (auxiliary) heads whose last processing overflowed
  failures, deploys   \* (bounds) failures and deployments so far

dataVars  == <<content, rule>>
storeVars == <<justs, stamped, built, ready, capped>>
leaseVars == <<lease, leaseHolds>>
jobVars   == <<batch, seen, found, short, fresh, rest, seeds>>
boundVars == <<failures, deploys>>
vars == <<queueVars, dataVars, storeVars, leaseVars, pc, jobVars, boundVars>>

-----------------------------------------------------------------------------
(* What is right *)

AllEvidence(j) == \A h \in Evidence[j] : j \in content[h]

\* The justifications the queries of a rule give, with the data as committed.
Right(r) == {j \in Body[r] : AllEvidence(j)}

\* run_seeded: a seed that gives more than the limit gives none.
Overflows(h, r) ==
  Cardinality({j \in Right(r) : h \in Evidence[j]}) > MaxPerSeed

\* (mutant) seeded at one place of the rule only
FoundAtOnePlace(S, r) ==
  {j \in Right(r) : SeedOf[j] \in S /\ ~Overflows(SeedOf[j], r)}

\* find_for_heads: seeded at every place, with every node of the heads.
FoundForHeads(S, r) ==
  {j \in Right(r) : \E h \in S \cap Evidence[j] : ~Overflows(h, r)}

\* rebuild: seeded at one place.
FoundForSeeds(S, r) ==
  {j \in Right(r) : SeedOf[j] \in S /\ ~Overflows(SeedOf[j], r)}

\* Inside process_batch, and inside rebuild or remove_rule.
InBatch == {"claimed", "found", "writing", "deleting"}
InSync  == {"sync", "seeding", "chunk", "rebuild_found", "rebuild_write",
            "swept", "removed"}
Working == InBatch \cup InSync \cup {"loop", "renew"}
Places  == Working \cup {"down", "waiting", "backoff", "idle"}

-----------------------------------------------------------------------------
TypeOK ==
  /\ QueueTypeOK
  /\ content \in [Heads -> SUBSET Justs]
  /\ rule \in Rules \cup {NoRule}
  /\ justs \subseteq Justs
  /\ stamped \in [Workers -> SUBSET Justs]
  /\ built \in Rules \cup {NoRule}
  /\ ready \in BOOLEAN
  /\ lease \in Workers \cup {Nobody, Gone}
  /\ leaseHolds \in BOOLEAN
  /\ pc \in [Workers -> Places]
  /\ batch \in [Workers -> SUBSET Heads]
  /\ seen \in [Workers -> [Heads -> Nat]]
  /\ found \in [Workers -> SUBSET Justs]
  /\ short \in [Workers -> SUBSET Heads]
  /\ fresh \in [Workers -> SUBSET Justs]
  /\ rest \in [Workers -> SUBSET Justs]
  /\ seeds \in [Workers -> SUBSET Heads]
  /\ capped \subseteq Heads
  /\ failures \in Nat
  /\ deploys \in Nat

NoTokens == [h \in Heads |-> 0]

\* The heads there were before anything was derived left no marks.
Init ==
  /\ QueueInit
  /\ content \in [Heads -> SUBSET Justs]
  /\ \A h \in Heads : \A j \in content[h] : h \in Evidence[j]
  /\ rule \in Rules \cup {NoRule}
  /\ justs = {}
  /\ stamped = [w \in Workers |-> {}]
  /\ built = NoRule
  /\ ready = FALSE
  /\ lease = Nobody
  /\ leaseHolds = FALSE
  /\ pc = [w \in Workers |-> "down"]
  /\ batch = [w \in Workers |-> {}]
  /\ seen = [w \in Workers |-> NoTokens]
  /\ found = [w \in Workers |-> {}]
  /\ short = [w \in Workers |-> {}]
  /\ fresh = [w \in Workers |-> {}]
  /\ rest = [w \in Workers |-> {}]
  /\ seeds = [w \in Workers |-> {}]
  /\ capped = {}
  /\ failures = 0
  /\ deploys = 0

Goto(w, place) == pc' = [pc EXCEPT ![w] = place]

\* The local variables of a call that has ended.
Forget(w) ==
  /\ batch' = [batch EXCEPT ![w] = {}]
  /\ seen' = [seen EXCEPT ![w] = NoTokens]
  /\ found' = [found EXCEPT ![w] = {}]
  /\ short' = [short EXCEPT ![w] = {}]
  /\ fresh' = [fresh EXCEPT ![w] = {}]
  /\ rest' = [rest EXCEPT ![w] = {}]
  /\ seeds' = [seeds EXCEPT ![w] = {}]

-----------------------------------------------------------------------------
(* The rest of the system *)

\* A create, update, delete or undelete of h commits.  With a rule deployed
\* its class can trigger it, and the write's own transaction leaves h pending.
Write(h, c) ==
  /\ nextToken <= MaxWrites
  /\ \A j \in c : h \in Evidence[j]
  /\ content' = [content EXCEPT ![h] = c]
  /\ IF rule # NoRule
     THEN MarkHeads({h})
     ELSE /\ nextToken' = nextToken + 1
          /\ UNCHANGED <<pending, token, claimed>>
  /\ UNCHANGED <<rule, storeVars, leaseVars, pc, jobVars, boundVars>>

\* The processes are stopped, and started on code with another version of the
\* rule.  Unless it RollsBack, the version before had been brought up to date,
\* or begun to be: with no worker in between, a stored hash can be equal to
\* that of a rule whose triggers were not there while heads were written.
Deploy(r) ==
  /\ deploys < MaxDeploys
  /\ \A w \in Workers : pc[w] = "down"
  /\ r # rule
  /\ RollsBack \/ built = rule \/ ~ready
  /\ rule' = r
  /\ deploys' = deploys + 1
  /\ UNCHANGED <<queueVars, content, storeVars, leaseVars, pc, jobVars, failures>>

\* Time passes: the lease's until is in the past.
LeaseRunsOut ==
  /\ leaseHolds
  /\ \/ lease = Gone
     \/ lease \in Workers /\ pc[lease] \in LapseAt
  /\ leaseHolds' = FALSE
  /\ UNCHANGED <<queueVars, dataVars, storeVars, lease, pc, jobVars, boundVars>>

\* The same for a claim on h.  A claim and the lease hold equally long, and a
\* worker claims after it took the lease: a claim it works on ends no earlier.
ClaimEnds(h) ==
  /\ ClaimRunsOut(h)
  /\ \A w \in Workers : h \in batch[w] => pc[w] \in LapseAt
  /\ UNCHANGED <<dataVars, storeVars, leaseVars, pc, jobVars, boundVars>>

-----------------------------------------------------------------------------
(* The lease *)

\* (mutant) the lease is taken from whoever has it
CanAlwaysTake(w) == w \in Workers

CanTake(w) == lease \in {Nobody, w} \/ ~leaseHolds

TakeLease(w) ==
  IF CanTake(w)
  THEN lease' = w /\ leaseHolds' = TRUE
  ELSE UNCHANGED leaseVars

GiveUpLease(w) ==
  IF lease = w
  THEN lease' = Nobody /\ leaseHolds' = FALSE
  ELSE UNCHANGED leaseVars

Start(w) ==
  /\ pc[w] = "down"
  /\ Goto(w, "waiting")
  /\ UNCHANGED <<queueVars, dataVars, storeVars, leaseVars, jobVars, boundVars>>

\* run: while not take_lease; then sync_rules.
Enter(w) ==
  /\ pc[w] = "waiting"
  /\ CanTake(w)
  /\ TakeLease(w)
  /\ Goto(w, "sync")
  /\ UNCHANGED <<queueVars, dataVars, storeVars, jobVars, boundVars>>

-----------------------------------------------------------------------------
(* sync_rules, rebuild, remove_rule *)

\* A justification that is deleted has no generation any more.
DeleteJusts(S) ==
  /\ justs' = justs \ S
  /\ stamped' = [v \in Workers |-> stamped[v] \ S]

UpToDate == IF rule = NoRule THEN built = NoRule ELSE built = rule /\ ready

SyncDone(w) ==
  /\ pc[w] = "sync"
  /\ UpToDate
  /\ Goto(w, "loop")
  /\ UNCHANGED <<queueVars, dataVars, storeVars, leaseVars, jobVars, boundVars>>

\* (mutant) the new hash is stored, and the state is not "building"
BeginRebuildReady(w) ==
  /\ pc[w] = "sync"
  /\ rule # NoRule
  /\ ~UpToDate
  /\ built' = rule
  /\ stamped' = [stamped EXCEPT ![w] = {}]
  /\ Goto(w, "seeding")
  /\ UNCHANGED <<queueVars, dataVars, justs, ready, capped, leaseVars, jobVars, boundVars>>

\* mark("building"), with a generation that no justification has.
BeginRebuild(w) ==
  /\ pc[w] = "sync"
  /\ rule # NoRule
  /\ ~UpToDate
  /\ built' = rule
  /\ ready' = FALSE
  /\ stamped' = [stamped EXCEPT ![w] = {}]
  /\ Goto(w, "seeding")
  /\ UNCHANGED <<queueVars, dataVars, justs, capped, leaseVars, jobVars, boundVars>>

\* ids_of_class: the nodes of the class at the place the rebuild seeds from.
ReadIds(w) ==
  /\ pc[w] = "seeding"
  /\ seeds' = [seeds EXCEPT ![w] = {h \in Heads : content[h] # {}}]
  /\ Goto(w, "chunk")
  /\ UNCHANGED <<queueVars, dataVars, storeVars, leaseVars, batch, seen, found,
                 short, fresh, rest, boundVars>>

FindChunk(w, S) ==
  /\ pc[w] = "chunk"
  /\ S # {} /\ S \subseteq seeds[w]
  /\ seeds' = [seeds EXCEPT ![w] = @ \ S]
  /\ found' = [found EXCEPT ![w] = FoundForSeeds(S, rule)]
  /\ short' = [short EXCEPT ![w] = @ \cup {h \in S : Overflows(h, rule)}]
  /\ Goto(w, "rebuild_found")
  /\ UNCHANGED <<queueVars, dataVars, storeVars, leaseVars, batch, seen, fresh,
                 rest, boundVars>>

\* write_found, with a generation: what is there is touched after the writing.
CompareChunk(w) ==
  /\ pc[w] = "rebuild_found"
  /\ fresh' = [fresh EXCEPT ![w] = found[w] \ justs]
  /\ rest' = [rest EXCEPT ![w] = found[w] \cap justs]
  /\ Goto(w, "rebuild_write")
  /\ UNCHANGED <<queueVars, dataVars, storeVars, leaseVars, batch, seen, found,
                 short, seeds, boundVars>>

TouchOld(w, S) ==
  /\ pc[w] = "rebuild_write"
  /\ fresh[w] = {}
  /\ S # {} /\ S \subseteq rest[w]
  /\ stamped' = [v \in Workers |-> IF v = w THEN stamped[v] \cup (S \cap justs)
                                            ELSE stamped[v] \ S]
  /\ rest' = [rest EXCEPT ![w] = @ \ S]
  /\ UNCHANGED <<queueVars, dataVars, justs, built, ready, capped, leaseVars, pc,
                 batch, seen, found, short, fresh, seeds, boundVars>>

\* The lease is asked for again; the answer is not looked at.
ChunkDone(w) ==
  /\ pc[w] = "rebuild_write"
  /\ fresh[w] = {} /\ rest[w] = {}
  /\ found' = [found EXCEPT ![w] = {}]
  /\ TakeLease(w)
  /\ Goto(w, "chunk")
  /\ UNCHANGED <<queueVars, dataVars, storeVars, batch, seen, short, fresh, rest,
                 seeds, boundVars>>

\* remove_justifications: those of another generation, some at a time, until a
\* transaction found no more than it could take.
Sweep(w, S) ==
  LET old == justs \ stamped[w] IN
  /\ pc[w] = "chunk"
  /\ seeds[w] = {}
  /\ S \subseteq old
  /\ S = {} => old = {}
  /\ DeleteJusts(S)
  /\ Goto(w, IF S = old THEN "swept" ELSE "chunk")
  /\ UNCHANGED <<queueVars, dataVars, built, ready, capped, leaseVars, jobVars,
                 boundVars>>

\* mark("ready")
EndRebuild(w) ==
  /\ pc[w] = "swept"
  /\ built' = rule
  /\ ready' = TRUE
  /\ capped' = short[w]
  /\ Forget(w)
  /\ Goto(w, "sync")
  /\ UNCHANGED <<queueVars, dataVars, justs, stamped, leaseVars, boundVars>>

\* remove_rule, of a rule that is stored and is not declared any more.
RemoveFacts(w, S) ==
  /\ pc[w] = "sync"
  /\ rule = NoRule
  /\ ~UpToDate
  /\ S \subseteq justs
  /\ S = {} => justs = {}
  /\ DeleteJusts(S)
  /\ Goto(w, IF S = justs THEN "removed" ELSE "sync")
  /\ UNCHANGED <<queueVars, dataVars, built, ready, capped, leaseVars, jobVars,
                 boundVars>>

ForgetRule(w) ==
  /\ pc[w] = "removed"
  /\ built' = NoRule
  /\ ready' = FALSE
  /\ Goto(w, "sync")
  /\ UNCHANGED <<queueVars, dataVars, justs, stamped, capped, leaseVars, jobVars,
                 boundVars>>

\* An error leaves run: the lease is given up (if that does not fail too), and
\* the supervisor of the background tasks runs it again.
RunFails(w) ==
  /\ pc[w] \in InSync
  /\ failures < MaxFailures
  /\ failures' = failures + 1
  /\ GiveUpLease(w) \/ UNCHANGED leaseVars
  /\ Forget(w)
  /\ Goto(w, "waiting")
  /\ UNCHANGED <<queueVars, dataVars, storeVars, deploys>>

-----------------------------------------------------------------------------
(* drain, process_batch *)

Claim(w, S) ==
  /\ pc[w] = "loop"
  /\ S # {} /\ Cardinality(S) <= Batch
  /\ ClaimHeads(S)
  /\ batch' = [batch EXCEPT ![w] = S]
  /\ seen' = [seen EXCEPT ![w] = [h \in Heads |-> IF h \in S THEN token[h] ELSE 0]]
  /\ Goto(w, "claimed")
  /\ UNCHANGED <<dataVars, storeVars, leaseVars, found, short, fresh, rest, seeds,
                 boundVars>>

NothingToClaim(w) ==
  /\ pc[w] = "loop"
  /\ Claimable = {}
  /\ Goto(w, "idle")
  /\ UNCHANGED <<queueVars, dataVars, storeVars, leaseVars, jobVars, boundVars>>

Find(w) ==
  /\ pc[w] = "claimed"
  /\ found' = [found EXCEPT ![w] = FoundForHeads(batch[w], rule)]
  /\ short' = [short EXCEPT ![w] = {h \in batch[w] : Overflows(h, rule)}]
  /\ Goto(w, "found")
  /\ UNCHANGED <<queueVars, dataVars, storeVars, leaseVars, batch, seen, fresh,
                 rest, seeds, boundVars>>

\* write_found: existing_justifications
Compare(w) ==
  /\ pc[w] = "found"
  /\ fresh' = [fresh EXCEPT ![w] = found[w] \ justs]
  /\ Goto(w, "writing")
  /\ UNCHANGED <<queueVars, dataVars, storeVars, leaseVars, batch, seen, found,
                 short, rest, seeds, boundVars>>

\* write_new, of a chunk: with the generation of the rebuild, or none.
WriteNew(w, S) ==
  /\ pc[w] \in {"writing", "rebuild_write"}
  /\ S # {} /\ S \subseteq fresh[w]
  /\ justs' = justs \cup S
  /\ stamped' = [v \in Workers |-> IF v = w /\ pc[w] = "rebuild_write"
                                   THEN stamped[v] \cup S ELSE stamped[v] \ S]
  /\ fresh' = [fresh EXCEPT ![w] = @ \ S]
  /\ UNCHANGED <<queueVars, dataVars, built, ready, capped, leaseVars, pc, batch,
                 seen, found, short, rest, seeds, boundVars>>

\* (mutants) a seed past the limit replaces what was there; only what rests on
\* heads of the batch alone is replaced
EvidencedByAny(w) ==
  /\ pc[w] = "writing"
  /\ fresh[w] = {}
  /\ rest' = [rest EXCEPT ![w] = {j \in justs \ found[w] : Evidence[j] \cap batch[w] # {}}]
  /\ Goto(w, "deleting")
  /\ UNCHANGED <<queueVars, dataVars, storeVars, leaseVars, batch, seen, found,
                 short, fresh, seeds, boundVars>>

EvidencedByAll(w) ==
  /\ pc[w] = "writing"
  /\ fresh[w] = {}
  /\ rest' = [rest EXCEPT ![w] = {j \in justs \ found[w] : Evidence[j] \subseteq batch[w]}]
  /\ Goto(w, "deleting")
  /\ UNCHANGED <<queueVars, dataVars, storeVars, leaseVars, batch, seen, found,
                 short, fresh, seeds, boundVars>>

\* evidenced: what rests on the heads whose work was complete, and was not found
Evidenced(w) ==
  /\ pc[w] = "writing"
  /\ fresh[w] = {}
  /\ rest' = [rest EXCEPT ![w] =
        {j \in justs \ found[w] : Evidence[j] \cap (batch[w] \ short[w]) # {}}]
  /\ Goto(w, "deleting")
  /\ UNCHANGED <<queueVars, dataVars, storeVars, leaseVars, batch, seen, found,
                 short, fresh, seeds, boundVars>>

DeleteStale(w, S) ==
  /\ pc[w] = "deleting"
  /\ S # {} /\ S \subseteq rest[w]
  /\ DeleteJusts(S)
  /\ rest' = [rest EXCEPT ![w] = @ \ S]
  /\ UNCHANGED <<queueVars, dataVars, built, ready, capped, leaseVars, pc, batch,
                 seen, found, short, fresh, seeds, boundVars>>

Complete(w) ==
  /\ pc[w] = "deleting"
  /\ rest[w] = {}
  /\ CompleteHeads(batch[w], seen[w])
  /\ capped' = (capped \ batch[w]) \cup short[w]
  /\ Forget(w)
  /\ Goto(w, "renew")
  /\ UNCHANGED <<dataVars, justs, stamped, built, ready, leaseVars, boundVars>>

\* drain asks for the lease again; the answer is not looked at.
Renew(w) ==
  /\ pc[w] = "renew"
  /\ TakeLease(w)
  /\ Goto(w, "loop")
  /\ UNCHANGED <<queueVars, dataVars, storeVars, jobVars, boundVars>>

\* A step of the drain raises: the claims of the batch are given back, unless
\* that fails too; the worker sleeps before it tries again.
BatchFails(w) ==
  /\ pc[w] \in InBatch \cup {"loop", "renew"}
  /\ failures < MaxFailures
  /\ failures' = failures + 1
  /\ ReleaseHeads(batch[w]) \/ UNCHANGED queueVars
  /\ Forget(w)
  /\ Goto(w, "backoff")
  /\ UNCHANGED <<dataVars, storeVars, leaseVars, deploys>>

\* The loop goes on to drain: take_lease is not called on this path.
TryAgain(w) ==
  /\ pc[w] = "backoff"
  /\ Goto(w, "loop")
  /\ UNCHANGED <<queueVars, dataVars, storeVars, leaseVars, jobVars, boundVars>>

\* Woken, or idle for long enough: works again if it can have the lease.
Wake(w) ==
  /\ pc[w] = "idle"
  /\ CanTake(w)
  /\ TakeLease(w)
  /\ Goto(w, "loop")
  /\ UNCHANGED <<queueVars, dataVars, storeVars, jobVars, boundVars>>

\* Cancelled between batches: the finally of run gives the lease up.
Stop(w) ==
  /\ pc[w] \in {"waiting", "backoff", "idle"}
  /\ failures < MaxFailures
  /\ failures' = failures + 1
  /\ GiveUpLease(w)
  /\ Goto(w, "down")
  /\ UNCHANGED <<queueVars, dataVars, storeVars, jobVars, deploys>>

\* The process dies: its claims and its lease stay, until they run out.
Crash(w) ==
  /\ pc[w] # "down"
  /\ failures < MaxFailures
  /\ failures' = failures + 1
  /\ lease' = IF lease = w THEN Gone ELSE lease
  /\ Forget(w)
  /\ Goto(w, "down")
  /\ UNCHANGED <<queueVars, dataVars, storeVars, leaseHolds, deploys>>

-----------------------------------------------------------------------------
Rebuilding(w) ==
  \/ BeginRebuild(w) \/ ReadIds(w) \/ CompareChunk(w) \/ ChunkDone(w)
  \/ EndRebuild(w)
  \/ \E S \in SUBSET Heads : FindChunk(w, S)
  \/ \E S \in SUBSET Justs : TouchOld(w, S) \/ Sweep(w, S)

Removing(w) == ForgetRule(w) \/ \E S \in SUBSET Justs : RemoveFacts(w, S)

Draining(w) ==
  \/ NothingToClaim(w) \/ Find(w) \/ Compare(w) \/ Evidenced(w) \/ Complete(w)
  \/ Renew(w) \/ TryAgain(w) \/ Wake(w)
  \/ \E S \in SUBSET Heads : Claim(w, S)
  \/ \E S \in SUBSET Justs : DeleteStale(w, S)

\* What a worker that runs goes on to do by itself.
Work(w) ==
  \/ Enter(w) \/ SyncDone(w) \/ Rebuilding(w) \/ Removing(w) \/ Draining(w)
  \/ \E S \in SUBSET Justs : WriteNew(w, S)

Interrupted(w) == RunFails(w) \/ BatchFails(w) \/ Stop(w) \/ Crash(w)

Next ==
  \/ \E h \in Heads, c \in SUBSET Justs : Write(h, c)
  \/ \E r \in Rules \cup {NoRule} : Deploy(r)
  \/ LeaseRunsOut
  \/ \E h \in Heads : ClaimEnds(h)
  \/ \E w \in Workers : Start(w) \/ Work(w) \/ Interrupted(w)

Spec == Init /\ [][Next]_vars

\* A server is started again, a worker that runs goes on, and time passes.
Fairness ==
  /\ \A w \in Workers : WF_vars(Start(w)) /\ WF_vars(Work(w))
  /\ WF_vars(LeaseRunsOut)
  /\ \A h \in Heads : WF_vars(ClaimEnds(h))

FairSpec == Spec /\ Fairness

-----------------------------------------------------------------------------
(* Properties *)

\* Never two workers between taking the lease and the end of what they do
\* (worker.py: "Only one worker works at a time").
OneWorkerWorks ==
  \A v, w \in Workers : pc[v] \in Working /\ pc[w] \in Working => v = w

\* Once the rule that is deployed is built, what is stored is what the data
\* give, but for what rests on a head that is still pending (or that gave too
\* much): no interleaving of writes, batches, crashes and rebuilds leaves a
\* wrong fact, or a missing one, with nothing left to do about it (worker.py:
\* "which is what makes this exact").
Accounted ==
  UpToDate =>
    \A j \in Justs : (j \in justs) # (j \in Right(rule)) =>
      Evidence[j] \cap (pending \cup capped) # {}

\* h was written after w claimed its batch: the mark will stay.
WrittenSince(w, h) == h \in pending /\ (h \in batch[w] => token[h] # seen[w][h])

\* Once the rule is built, a justification that is right is deleted only when
\* one of its heads was written again after the batch claimed it, so that the
\* mark stays and it is derived again.  Until it is built nothing is said: what a
\* rebuild gives no generation to is swept (Sweep), and so is what a seed gave that
\* is past the limit now, although docs/derived-implementation.md says of such a
\* seed that its existing justifications are kept.  A batch does keep them.
RightIsKept ==
  [][UpToDate =>
       \A j \in justs \ justs' : j \in Right(rule) =>
         \E h \in Evidence[j] :
           h \in pending /\ \A w \in Workers : pc[w] \in InBatch => WrittenSince(w, h)]_vars

\* Each mark is done in the end, whatever crashes and fails on the way
\* (pending.py: "a write that is committed is never forgotten").
EveryMarkIsDone == \A h \in Heads : h \in pending ~> h \notin pending

\* When the writes stop, what is stored becomes, and stays, what the data give
\* under the rule deployed ("Why one sequential worker converges").
Converges == <>[](justs = Right(rule))

\* The worker implements the promise: while the rule is not built everything
\* is dirty, then what is pending and what gave too much.
dirtyHeads == IF UpToDate THEN pending \cup capped ELSE Heads

Store == INSTANCE DerivedStore WITH dirty <- dirtyHeads

StorePromise == Store!Spec

-----------------------------------------------------------------------------
(* The inductive invariant behind Accounted, for leases that do not run out  *)
(* on a process that works.                                                 *)

\* Works, or will go on without asking for the lease.
Holding == Working \cup {"backoff"}

LeaseOutlivesWork == LapseAt \cap Holding = {}

WorkerHoldsLease == \A w \in Workers : pc[w] \in Holding => lease = w /\ leaseHolds

\* No claim is worked on before the rule is built.
Synced ==
  \A w \in Workers :
    pc[w] \in InBatch \cup {"loop", "renew", "backoff", "idle"} => UpToDate

BatchInv(w) ==
  /\ batch[w] \subseteq pending
  /\ \A h \in Heads : seen[w][h] < nextToken

\* What the batch will have replaced when it completes.
Replaced(w) == {j \in Justs : Evidence[j] \cap (batch[w] \ short[w]) # {}}

FoundInv(w) ==
  /\ short[w] \subseteq batch[w]
  /\ found[w] \subseteq Replaced(w) \cap Body[rule]
  /\ \A j \in Replaced(w) :
       \/ j \in found[w] <=> j \in Right(rule)
       \/ \E h \in Evidence[j] : WrittenSince(w, h)

WritingInv(w) == fresh[w] \subseteq found[w] /\ found[w] \ fresh[w] \subseteq justs

DeletingInv(w) ==
  /\ found[w] \subseteq justs
  /\ rest[w] \subseteq Replaced(w) \ found[w]
  /\ (justs \cap Replaced(w)) \ found[w] \subseteq rest[w]

DrainInv ==
  \A w \in Workers :
    /\ pc[w] \in InBatch => BatchInv(w)
    /\ pc[w] \in {"found", "writing", "deleting"} => FoundInv(w)
    /\ pc[w] = "writing" => WritingInv(w)
    /\ pc[w] = "deleting" => DeletingInv(w)

InRebuild == {"seeding", "chunk", "rebuild_found", "rebuild_write", "swept"}

\* What the rebuild has found so far: stamped, or on the way to be.
FoundSoFar(w) ==
  stamped[w] \cup (IF pc[w] = "rebuild_found" THEN found[w] ELSE {})
             \cup (IF pc[w] = "rebuild_write" THEN fresh[w] \cup rest[w] ELSE {})

\* What was seeded is found exactly if it is right, unless it changed since.
SeededInv(w) ==
  \A j \in Justs :
    /\ j \in FoundSoFar(w) => SeedOf[j] \notin seeds[w]
    /\ SeedOf[j] \notin seeds[w] =>
         \/ j \in FoundSoFar(w) <=> j \in Right(rule)
         \/ Evidence[j] \cap pending # {}
         \/ SeedOf[j] \in short[w]

RebuildInv ==
  \A w \in Workers :
    /\ pc[w] \in InRebuild => rule # NoRule /\ built = rule /\ ~ready
    /\ pc[w] = "seeding" => stamped[w] = {}
    /\ pc[w] \in InRebuild \ {"seeding"} => SeededInv(w)
    /\ pc[w] = "rebuild_write" => rest[w] \subseteq justs
    /\ pc[w] = "swept" => seeds[w] = {} /\ justs = stamped[w]
    /\ pc[w] = "removed" => rule = NoRule /\ justs = {}
    /\ stamped[w] \subseteq justs

NothingOfNoRule == built = NoRule => justs = {} /\ ~ready

IInv ==
  /\ TypeOK
  /\ WorkerHoldsLease
  /\ Synced
  /\ DrainInv
  /\ RebuildInv
  /\ NothingOfNoRule
  /\ Accounted

=============================================================================
