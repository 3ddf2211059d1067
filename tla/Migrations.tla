----------------------------- MODULE Migrations -----------------------------
(***************************************************************************)
(* Migrating the data: `pangloss migrate` (pangloss_cli.migrations), the     *)
(* record and the lock (databases/*/migration_backend) and the changes      *)
(* (pangloss_cypher.migrations.runner), while the server goes on writing    *)
(* (refuse_while_migrating).                                                *)
(*                                                                         *)
(* There is one migration, a sequence of changes; it is applied, in batches *)
(* or each group of changes in one transaction, and undone.  A transaction   *)
(* is a step.  A command may be stopped at any of them, and its lock is then *)
(* left until a person removes it.                                          *)
(***************************************************************************)
EXTENDS Integers, Sequences, FiniteSetsExt

CONSTANTS
  Nodes,       \* the ids of nodes, 1..n in their order
  FirstNodes,  \* those there are at first
  Plans,       \* the kinds of the changes of the migration: one of these sequences
  Migrators,   \* the processes that run the command
  Writers,     \* the requests that write, one at a time each
  Nobody,
  BatchSize,   \* --batch-size
  MaxRuns,     \* (bound) commands
  MaxFaults    \* (bound) changes that fail, commands that are stopped

\* How a change is made in batches (batch_kind): "window" by the ids of nodes,
\* "rest" while something is left of it ("wrap", "edges"), "whole" at once; "ddl" in
\* no transaction (is_ddl).
Kinds == {"window", "rest", "whole", "ddl"}

ASSUME MigrationsAssumption ==
  /\ IsFiniteSet(Nodes) /\ Nodes = 1..Cardinality(Nodes)
  /\ FirstNodes \subseteq Nodes
  /\ \A p \in Plans : p \in Seq(Kinds)
  /\ Nobody \notin Migrators
  /\ BatchSize \in Nat \ {0} /\ MaxRuns \in Nat /\ MaxFaults \in Nat

VARIABLES
  plan,      \* the migration
  nodes,     \* the nodes there are
  done,      \* how often each change has been made on each of them
  status,    \* PGMigration: status ("none": there is no record)
  cursor,    \*   and cursor
  lock,      \* PGMigrationLock: who has made it
  runs,      \* where each command is
  writes,    \* where each request is
  begun, faults,
  forced,    \* (history) a lock was removed whose command was still running
  unsaved,   \* (history) the changes that were made, and of which no progress is kept
  undoing,   \* (history) an undo has begun that has not ended
  late       \* (history) nodes written after something had been made

vars ==
  <<plan, nodes, done, status, cursor, lock, runs, writes, begun, faults, forced, unsaved,
    undoing, late>>
written == <<plan, nodes, late>>
data == <<written, done>>
record == <<status, cursor>>

\* The changes before `change` are done, and `change` is for ids up to `after`.
Progress == [change : Nat \ {0}, after : Nat]
Beginning == [change |-> 1, after |-> 0]

Run ==
  [pc : {"idle", "lock", "resume", "run", "change", "save", "undo", "unrecord", "failed", "applied",
         "unlock"},
   op : {"apply", "undo"}, batched : BOOLEAN, at : Progress,
   over : BOOLEAN]    \* (history) it makes all again, in one transaction, over what is made
NoRun == [pc |-> "idle", op |-> "apply", batched |-> FALSE, at |-> Beginning, over |-> FALSE]

TypeOK ==
  /\ plan \in Plans
  /\ nodes \subseteq Nodes
  /\ done \in [Nodes -> [DOMAIN plan -> Nat]]
  /\ status \in {"none", "running", "failed", "applied"} /\ cursor \in Progress
  /\ lock \in Migrators \cup {Nobody}
  /\ runs \in [Migrators -> Run]
  /\ writes \in [Writers -> {"idle", "begun", "overtaken"}]
  /\ begun \in 0..MaxRuns /\ faults \in 0..MaxFaults
  /\ forced \in BOOLEAN /\ undoing \in BOOLEAN
  /\ unsaved \subseteq DOMAIN plan /\ late \subseteq nodes

Init ==
  /\ plan \in Plans
  /\ nodes = FirstNodes
  /\ done = [n \in Nodes |-> [i \in DOMAIN plan |-> 0]]
  /\ status = "none" /\ cursor = Beginning
  /\ lock = Nobody
  /\ runs = [m \in Migrators |-> NoRun]
  /\ writes = [w \in Writers |-> "idle"]
  /\ begun = 0 /\ faults = 0
  /\ forced = FALSE /\ unsaved = {} /\ undoing = FALSE
  /\ late = {}

-----------------------------------------------------------------------------
(* The command *)

Me(m) == runs[m]
Become(m, run) == runs' = [runs EXCEPT ![m] = run]
Go(m, place) == Become(m, [Me(m) EXCEPT !.pc = place])

\* migrate: what the database has had is read, before anything else.
Plan(m) ==
  /\ Me(m).pc = "idle" /\ begun < MaxRuns /\ begun' = begun + 1
  /\ \E op \in {"apply", "undo"}, batched \in BOOLEAN :
       /\ IF op = "apply" THEN status # "applied" ELSE status # "none"
       /\ Become(m, [NoRun EXCEPT !.pc = "lock", !.op = op, !.batched = batched])
  /\ UNCHANGED <<data, record, lock, writes, faults, forced, unsaved, undoing>>

\* (Mutant: the lock is there for those who look only.)
FreeForAll == TRUE

\* lock: the database has room for one node of its id.
Free == lock = Nobody

\* Requests that have begun are not waited for.
Lock(m) ==
  /\ Me(m).pc = "lock"
  /\ IF Free
     THEN /\ lock' = m
          /\ writes' = [w \in Writers |-> IF writes[w] = "idle" THEN "idle" ELSE "overtaken"]
          /\ Go(m, IF Me(m).op = "undo" THEN "undo" ELSE "resume")
          /\ undoing' = (undoing \/ Me(m).op = "undo")
     ELSE Become(m, NoRun) /\ UNCHANGED <<lock, writes, undoing>>
  /\ UNCHANGED <<data, record, begun, faults, forced, unsaved>>

\* Is there anything that was made already?
Touched == \E n \in nodes, i \in DOMAIN plan : done[n][i] > 0

\* stored_progress: of a migration that is made in batches.
Resume(m) ==
  /\ Me(m).pc = "resume"
  /\ Become(m, [Me(m) EXCEPT
       !.pc = "run",
       !.at = IF Me(m).batched /\ status \in {"running", "failed"} THEN cursor ELSE Beginning,
       !.over = Touched /\ ~Me(m).batched])
  /\ UNCHANGED <<data, record, lock, writes, begun, faults, forced, unsaved, undoing>>

\* record "running".  (The cursor is left as it is.)
Running(m) ==
  /\ Me(m).pc = "run"
  /\ status' = "running"
  /\ Go(m, "change")
  /\ UNCHANGED <<data, cursor, lock, writes, begun, faults, forced, unsaved, undoing>>

Makes(ns, is) ==
  done' = [n \in Nodes |-> [i \in DOMAIN plan |->
             done[n][i] + (IF n \in ns /\ i \in is THEN 1 ELSE 0)]]

Index(m) == Me(m).at.change
Here(m, kind) ==
  /\ Me(m).pc = "change" /\ Me(m).batched
  /\ Index(m) <= Len(plan) /\ plan[Index(m)] = kind

\* (Mutant: the batch's progress is that of the batch before.)
SavedBefore(m, ns) == Me(m).at

\* (Mutant: its progress is that of the whole change.)
SavedAsDone(m, ns) == [change |-> Index(m) + 1, after |-> 0]

\* What a batch saves in its transaction: how far it has got.
SavedWith(m, ns) == [Me(m).at EXCEPT !.after = IF ns = {} THEN @ ELSE Max(ns)]

\* (Mutant: a full batch is taken for the last.)
LastWhenFull(ns) == Cardinality(ns) <= BatchSize

\* Nothing is left after a batch that is not full.
Last(ns) == Cardinality(ns) < BatchSize

\* A batch of the nodes after the last one, with the progress.
Window(m) ==
  /\ Here(m, "window")
  /\ LET after == {n \in nodes : n > Me(m).at.after}
         ns == {n \in after : Cardinality({k \in after : k <= n}) <= BatchSize}
     IN /\ Makes(ns, {Index(m)})
        /\ cursor' = SavedWith(m, ns)
        /\ Become(m, [Me(m) EXCEPT
             !.at.after = IF ns = {} THEN @ ELSE Max(ns),
             !.pc = IF Last(ns) THEN "save" ELSE "change"])
  /\ UNCHANGED <<written, status, lock, writes, begun, faults, forced, unsaved, undoing>>

\* A batch of what is left.
Rest(m) ==
  /\ Here(m, "rest")
  /\ LET left == {n \in nodes : done[n][Index(m)] = 0}
     IN \E ns \in SUBSET left :
          /\ Cardinality(ns) = BatchSize \/ (ns = left /\ Cardinality(ns) < BatchSize)
          /\ Makes(ns, {Index(m)})
          /\ cursor' = [change |-> Index(m), after |-> 0]
          /\ Go(m, IF Last(ns) THEN "save" ELSE "change")
  /\ UNCHANGED <<written, status, lock, writes, begun, faults, forced, unsaved, undoing>>

\* A change that is made at once.
Whole(m) ==
  /\ Here(m, "whole") \/ Here(m, "ddl")
  /\ Makes(nodes, {Index(m)})
  /\ unsaved' = unsaved \cup {Index(m)}
  /\ Go(m, "save")
  /\ UNCHANGED <<written, record, lock, writes, begun, faults, forced, undoing>>

\* The progress after a change, in a transaction of its own.  (What rederives after the
\* batches is a transaction before it, which writes nothing that is modelled, and fails
\* as this one does.)
Save(m) ==
  /\ Me(m).pc = "save"
  /\ LET next == [change |-> Index(m) + 1, after |-> 0]
     IN /\ cursor' = next
        /\ Become(m, [Me(m) EXCEPT !.pc = "change", !.at = next])
  /\ unsaved' = unsaved \ {Index(m)}
  /\ UNCHANGED <<data, status, lock, writes, begun, faults, forced, undoing>>

\* apply_changes: the changes up to the next of the database itself, in one
\* transaction; or that one.
Group(m) ==
  /\ Me(m).pc = "change" /\ ~Me(m).batched /\ Index(m) <= Len(plan)
  /\ LET ddl == {i \in Index(m)..Len(plan) : plan[i] = "ddl"}
         end == IF plan[Index(m)] = "ddl" THEN Index(m)
                ELSE IF ddl = {} THEN Len(plan) ELSE Min(ddl) - 1
     IN /\ Makes(nodes, Index(m)..end)
        /\ unsaved' = unsaved \cup (Index(m)..end)
        /\ Become(m, [Me(m) EXCEPT !.at.change = end + 1])
  /\ UNCHANGED <<written, record, lock, writes, begun, faults, forced, undoing>>

\* record "applied", and then, in another transaction, no cursor
Applied(m) ==
  /\ Me(m).pc = "change" /\ Index(m) > Len(plan)
  /\ status' = "applied"
  /\ unsaved' = DOMAIN plan
  /\ Go(m, "applied")
  /\ UNCHANGED <<data, cursor, lock, writes, begun, faults, forced, undoing>>
ForgetCursor(m) ==
  /\ Me(m).pc = "applied"
  /\ cursor' = Beginning
  /\ Go(m, "unlock")
  /\ UNCHANGED <<data, status, lock, writes, begun, faults, forced, unsaved, undoing>>

Fault == faults < MaxFaults /\ faults' = faults + 1

\* A change fails, or its progress is not saved; it is recorded.  (An undo that fails
\* is not; nor is what fails once the last change is made, which Stopped stands for.)
Fails(m) ==
  /\ Me(m).pc \in {"save", "undo"} \/ (Me(m).pc = "change" /\ Index(m) <= Len(plan))
  /\ Fault
  /\ Go(m, IF Me(m).op = "undo" THEN "unlock" ELSE "failed")
  /\ UNCHANGED <<data, record, lock, writes, begun, forced, unsaved, undoing>>
Failed(m) ==
  /\ Me(m).pc = "failed"
  /\ status' = "failed"
  /\ Go(m, "unlock")
  /\ UNCHANGED <<data, cursor, lock, writes, begun, faults, forced, unsaved, undoing>>

\* unapply: the changes that undo each, the last first, over what is there still; in
\* batches (a whole change is a batch of all), or as the groups of apply_changes.
Undoable == {i \in DOMAIN plan : \E n \in nodes : done[n][i] > 0}

Undone(times) == 0

Unmakes(ns, is) ==
  done' = [n \in Nodes |-> [i \in DOMAIN plan |->
             IF n \in ns /\ i \in is THEN Undone(done[n][i]) ELSE done[n][i]]]
Undo(m) ==
  /\ Me(m).pc = "undo"
  /\ IF Undoable = {}
     THEN Go(m, "unrecord") /\ UNCHANGED done
     ELSE LET i == Max(Undoable)
              ddl == {j \in 1..i : plan[j] = "ddl"}
              left == {n \in nodes : done[n][i] > 0}
          IN /\ UNCHANGED runs
             /\ IF Me(m).batched /\ plan[i] \in {"window", "rest"}
                THEN \E ns \in SUBSET left :
                       /\ Cardinality(ns) = BatchSize \/ (ns = left /\ Cardinality(ns) < BatchSize)
                       /\ Unmakes(ns, {i})
                ELSE IF Me(m).batched \/ plan[i] = "ddl" THEN Unmakes(nodes, {i})
                ELSE Unmakes(nodes, {j \in 1..i : \A d \in ddl : d < j})
  /\ UNCHANGED <<written, record, lock, writes, begun, faults, forced, unsaved, undoing>>

\* The record of what has been undone is removed.
Unrecord(m) ==
  /\ Me(m).pc = "unrecord"
  /\ status' = "none" /\ cursor' = Beginning
  /\ undoing' = FALSE /\ unsaved' = {}
  /\ Go(m, "unlock")
  /\ UNCHANGED <<data, lock, writes, begun, faults, forced>>

\* finally: unlock, whoever has made the lock that is there now
Unlock(m) ==
  /\ Me(m).pc = "unlock"
  /\ lock' = Nobody
  /\ Become(m, NoRun)
  /\ UNCHANGED <<data, record, writes, begun, faults, forced, unsaved, undoing>>

Holds(m) == Me(m).pc \notin {"idle", "lock"}

\* The process is killed, and the lock stays; or it is interrupted, and removes it.
Stopped(m) ==
  /\ Holds(m) /\ Me(m).pc # "unlock" /\ Fault
  /\ Become(m, NoRun) \/ Go(m, "unlock")
  /\ UNCHANGED <<data, record, lock, writes, begun, forced, unsaved, undoing>>

\* `pangloss migrate --unlock`, which a person calls when they think that no command
\* is running.
PersonUnlocks ==
  /\ lock # Nobody /\ begun < MaxRuns /\ begun' = begun + 1
  /\ lock' = Nobody
  /\ forced' = (forced \/ \E m \in Migrators : Holds(m))
  /\ UNCHANGED <<data, record, runs, writes, faults, unsaved, undoing>>

-----------------------------------------------------------------------------
(* The server, which writes as before the migration *)

\* refuse_while_migrating
NotMigrating == lock = Nobody

Write(w) ==
  /\ writes[w] = "idle" /\ status # "applied" /\ nodes # Nodes
  /\ NotMigrating
  /\ writes' = [writes EXCEPT ![w] = "begun"]
  /\ UNCHANGED <<data, record, lock, runs, begun, faults, forced, unsaved, undoing>>

\* What a command has gone through it may have gone through with no node to make it on.
NoneLeft == nodes \subseteq late /\ status # "none"

\* It commits a node, of any id: ids are made before the transaction begins.
Commit(w) ==
  /\ writes[w] # "idle"
  /\ \E n \in Nodes \ nodes :
       /\ nodes' = nodes \cup {n}
       /\ late' = IF Touched \/ NoneLeft THEN late \cup {n} ELSE late
  /\ writes' = [writes EXCEPT ![w] = "idle"]
  /\ UNCHANGED <<plan, done, record, lock, runs, begun, faults, forced, unsaved, undoing>>

-----------------------------------------------------------------------------
Step(m) ==
  \/ Plan(m) \/ Lock(m) \/ Resume(m) \/ Running(m) \/ Window(m) \/ Rest(m) \/ Whole(m) \/ Save(m)
  \/ Group(m) \/ Applied(m) \/ ForgetCursor(m) \/ Fails(m) \/ Failed(m) \/ Undo(m) \/ Unrecord(m)
  \/ Unlock(m) \/ Stopped(m)

Next ==
  \/ \E m \in Migrators : Step(m)
  \/ PersonUnlocks
  \/ \E w \in Writers : Write(w) \/ Commit(w)

Spec == Init /\ [][Next]_vars

-----------------------------------------------------------------------------
(* What a migration promises *)

\* Recorded as applied, it has been made, every change of it on every node, however
\* often it was stopped and gone on with.  Not on what was written after a part of it
\* was made: a command that fails, or is stopped, lets the server write before another
\* goes on after what it had done.  Nor if an undo was begun and not ended, which leaves
\* the record; nor if a lock was removed under a running command.
AppliedIsDone ==
  status = "applied" /\ ~forced /\ ~undoing =>
    \A n \in nodes \ late, i \in DOMAIN plan : done[n][i] > 0

\* A batch is not made twice, whatever fails or is stopped in between: what is made
\* again over itself is a change that was made at once, or in one transaction with
\* others, and whose progress was not saved; all of a migration that was made in part
\* in batches, and is then made in one transaction; or one that another command has
\* applied after this one had planned to.
MadeTwice(m) == \E n \in Nodes, i \in DOMAIN plan : done'[n][i] > done[n][i] /\ done[n][i] > 0
BatchesOnce ==
  [][\A m \in Migrators :
       Me(m).pc = "change" /\ runs'[m] # runs[m] /\ MadeTwice(m) =>
         Me(m).over \/ forced \/ Index(m) \in unsaved]_vars

\* A command works alone, though locks are left, taken over and removed: no other
\* works, and no request writes that began while it did (unless a lock was removed
\* under a running command).
WorksAlone ==
  \A m \in Migrators : ~forced /\ Holds(m) =>
    /\ \A o \in Migrators \ {m} : ~Holds(o)
    /\ \A w \in Writers : writes[w] # "begun"

-----------------------------------------------------------------------------
(* Why it keeps it *)

Alone ==
  ~forced => \A m \in Migrators : Holds(m) => lock = m /\ \A w \in Writers : writes[w] # "begun"

\* Nothing has been made on what is not there.
NothingElsewhere == \A n \in Nodes \ nodes, i \in DOMAIN plan : done[n][i] = 0

\* What comes before p has been made,
Covers(p) ==
  /\ \A n \in nodes \ late, i \in DOMAIN plan :
       i < p.change \/ (i = p.change /\ n <= p.after) => done[n][i] > 0
  /\ p.after # 0 =>
       p.after \in nodes /\ p.change \in DOMAIN plan /\ done[p.after][p.change] > 0

\* and what comes after it has not, or its progress was not kept; or it is seen that it has.
Beyond(p) ==
  \A n \in Nodes, i \in DOMAIN plan :
    p.change <= i /\ done[n][i] > 0 =>
      \/ i \in unsaved
      \/ i = p.change /\ (plan[i] = "rest" \/ (plan[i] = "window" /\ n <= p.after))

WellRecorded ==
  /\ status = "none" => cursor = Beginning
  /\ status = "applied" => unsaved = DOMAIN plan
  /\ ~undoing => Covers(cursor)
  /\ Beyond(cursor)

\* A command works from where it says it is.
Works(m) == Me(m).pc \in {"run", "change", "save"}
WellRun(m) ==
  /\ Me(m).pc = "run" /\ status = "none" => Me(m).at = Beginning
  /\ Me(m).pc \in {"change", "save"} => status = "running"
  /\ Me(m).pc = "applied" => status = "applied"
  /\ Me(m).pc \in {"undo", "unrecord"} => undoing
  /\ Me(m).pc = "unrecord" => Undoable = {}
  /\ Works(m) /\ ~undoing => Covers(Me(m).at)
  /\ Works(m) /\ Me(m).batched => Beyond(Me(m).at)
  /\ Works(m) /\ ~Me(m).batched =>
       /\ Me(m).at.after = 0
       /\ ~Me(m).over => \A n \in Nodes, i \in DOMAIN plan : Index(m) <= i => done[n][i] = 0
  /\ Me(m).pc = "save" =>
       /\ Me(m).batched /\ Index(m) \in DOMAIN plan
       /\ ~undoing => \A n \in nodes \ late : done[n][Index(m)] > 0

IInv ==
  /\ TypeOK /\ Alone /\ NothingElsewhere /\ AppliedIsDone
  /\ ~forced => WellRecorded /\ \A m \in Migrators : WellRun(m)
=============================================================================
