------------------------------- MODULE History -------------------------------
(***************************************************************************)
(* History (pangloss_history): a record of each version of a head, made      *)
(* after the write has committed, by way of a queue and a thread of the      *)
(* server; baselines, which a command makes of what has no record; and       *)
(* restores, which write an earlier version again.  A write of a head is one *)
(* step, as is what the database is asked in between (HeadWrites).           *)
(***************************************************************************)
EXTENDS Integers, Sequences, SequencesExt, FiniteSets

CONSTANTS
  Heads,
  First,         \* which are there at first, in their first version: one of these sets
  Callers,       \* who writes, in the server
  QueueSize,     \* HISTORY_QUEUE_SIZE
  BatchSize,     \* HISTORY_BATCH_SIZE
  MaxVersions,   \* (bound) versions of a head
  MaxCalls,      \* (bound) calls, and runs of `baseline`
  MaxFaults      \* (bound) crashes of the server, failures of the store

ASSUME HistoryAssumption ==
  /\ IsFiniteSet(Heads) /\ Heads # {} /\ First \subseteq SUBSET Heads
  /\ QueueSize \in Nat \ {0} /\ BatchSize \in Nat \ {0}
  /\ MaxVersions \in Nat \ {0} /\ MaxCalls \in Nat /\ MaxFaults \in Nat

VARIABLES
  contents,   \* what each head is in each of its versions, and of which it is a restore (or 0)
  deleted,
  calls,      \* where each caller is
  queue,
  worker,     \* the thread that writes records
  store,      \* the records, in the order they were written
  base,       \* the command `baseline`
  begun, faults,
  missed,     \* (history) records that were dropped, failed, or died with the server
  late        \* (history) <<head, version>>, announced by a relink with what a later one is

vars == <<contents, deleted, calls, queue, worker, store, base, begun, faults, missed, late>>
server == <<calls, queue, worker>>

None == 0
Content == 0..MaxCalls + 1
HistoryRecord ==
  [head : Heads, version : Nat, op : {"create", "update", "delete", "undelete", "restore", "baseline"},
   content : Content, restored_from : Nat]
ContentOperations == {"create", "update", "restore", "baseline"}
Record(h, version, op, content, from) ==
  [head |-> h, version |-> version, op |-> op, content |-> content, restored_from |-> from]

\* A caller: the records that it has to announce, the first `unread` of them to be read first.
Call ==
  [pc : {"idle", "say", "look", "revive", "base", "save"}, then : {"idle", "base"},
   says : Seq(HistoryRecord), unread : BOOLEAN, head : Heads, from : Nat, what : Content, based : Nat]
Idle == [pc |-> "idle", then |-> "idle", says |-> <<>>, unread |-> FALSE,
         head |-> CHOOSE h \in Heads : TRUE, from |-> 0, what |-> None, based |-> 0]
NoBatch == [pc |-> "collect", batch |-> <<>>, seq |-> 0]
NoBase == [pc |-> "idle", todo |-> {}, at |-> <<>>, head |-> CHOOSE h \in Heads : TRUE, latest |-> 0,
           batch |-> <<>>, seq |-> 0]

\* The command `baseline`: the heads to look at, and the version each had when it began.
Base ==
  [pc : {"idle", "look", "read", "insert", "done"}, todo : SUBSET Heads,
   at : UNION {[hs -> 0..MaxVersions] : hs \in SUBSET Heads}, head : Heads, latest : Nat,
   batch : Seq(HistoryRecord), seq : Nat]

TypeOK ==
  /\ contents \in [Heads -> Seq([what : Content, from : Nat])]
  /\ deleted \subseteq Heads
  /\ calls \in [Callers -> Call]
  /\ queue \in Seq(HistoryRecord) /\ Len(queue) <= QueueSize
  /\ worker \in [pc : {"collect", "insert"}, batch : Seq(HistoryRecord), seq : Nat]
  /\ Len(worker.batch) <= BatchSize
  /\ store \in Seq(HistoryRecord)
  /\ base \in Base
  /\ begun \in 0..MaxCalls /\ faults \in 0..MaxFaults
  /\ missed \subseteq HistoryRecord /\ late \subseteq Heads \X Nat

-----------------------------------------------------------------------------
(* The graph, and the store *)

Version(h) == Len(contents[h])
Made == {h \in Heads : contents[h] # <<>>}
Live == Made \ deleted
Now(h) == Last(contents[h]).what

NextSeq(h) == Cardinality({i \in DOMAIN store : store[i].head = h}) + 1
\* latest_version: of the records without content too (or 0).
LatestVersion(h) == Max({0} \cup {r.version : r \in {s \in ToSet(store) : s.head = h}})

\* (Mutant: or of an earlier version, if this one was not recorded.)
GetNearest(h, version) ==
  {i \in DOMAIN store : store[i].head = h /\ store[i].version <= version /\ store[i].content # None}

\* get: where the records are that have content and are of this version (the last counts).
Get(h, version) ==
  {i \in DOMAIN store : store[i].head = h /\ store[i].version = version /\ store[i].content # None}

\* find_gaps: the versions that this is not of.
Recorded(h, version) ==
  \E r \in ToSet(store) : r.head = h /\ r.version = version /\ r.op \in ContentOperations

FirstRecord(h) == Record(h, 1, "create", 1, 0)

\* Heads of before history was installed have no record.
Init ==
  /\ \E there \in First : \E recorded \in SUBSET there :
       /\ contents = [h \in Heads |-> IF h \in there THEN <<[what |-> 1, from |-> 0]>> ELSE <<>>]
       /\ store = SetToSeq({FirstRecord(h) : h \in recorded})
       /\ missed = {FirstRecord(h) : h \in there \ recorded}
  /\ deleted = {}
  /\ calls = [p \in Callers |-> Idle]
  /\ queue = <<>> /\ worker = NoBatch /\ base = NoBase
  /\ begun = 0 /\ faults = 0 /\ late = {}

-----------------------------------------------------------------------------
(* Writes, each of which announces itself after it has committed *)

Me(p) == calls[p]
Become(p, call) == calls' = [calls EXCEPT ![p] = call]
Ends(p) == Become(p, Idle)
Says(p, records, call) == Become(p, [call EXCEPT !.pc = "say", !.says = records])

Begins(p) ==
  /\ Me(p).pc = "idle" /\ begun < MaxCalls /\ begun' = begun + 1
  /\ UNCHANGED <<queue, worker, store, base, faults, missed, late>>

\* The new version of each of some heads, whose content is that of this call.
Writes(hs) ==
  /\ \A h \in hs : Version(h) < MaxVersions
  /\ contents' = [h \in Heads |->
                    IF h \in hs THEN Append(contents[h], [what |-> begun', from |-> 0]) ELSE contents[h]]
Event(h, op) == Record(h, Len(contents'[h]), op, begun', 0)

\* With the entities that it makes: each has its own first version, before the document's.
Create(p) ==
  /\ Begins(p)
  /\ \E h \in Heads \ Made : \E inline \in SUBSET (Heads \ (Made \cup {h})) :
       /\ Writes(inline \cup {h})
       /\ Says(p, SetToSeq({Event(e, "create") : e \in inline}) \o <<Event(h, "create")>>, Idle)
  /\ UNCHANGED deleted

Update(p) ==
  /\ Begins(p)
  /\ \E h \in Live : Writes({h}) /\ Says(p, <<Event(h, "update")>>, Idle)
  /\ UNCHANGED deleted

\* They change no content, and have the version there is.
Delete(p) ==
  /\ Begins(p)
  /\ \E h \in Live :
       /\ deleted' = deleted \cup {h}
       /\ Says(p, <<Record(h, Version(h), "delete", None, 0)>>, Idle)
  /\ UNCHANGED contents
Undeleted(p, h, call) ==
  /\ deleted' = deleted \ {h}
  /\ Says(p, <<Record(h, Version(h), "undelete", None, 0)>>, call)
  /\ UNCHANGED contents
Undelete(p) == Begins(p) /\ \E h \in deleted : Undeleted(p, h, Idle)

\* A batch of a relink, of deleted heads too: what each is then is read after it.
Relink(p) ==
  /\ Begins(p)
  /\ \E hs \in (SUBSET Made) \ {{}} :
       /\ Writes(hs)
       /\ Says(p, SetToSeq({Event(h, "update") : h \in hs}), [Idle EXCEPT !.unread = TRUE])
  /\ UNCHANGED deleted

\* written_form, or no content, of a head that is deleted by then.
ReadForm(p) ==
  /\ Me(p).pc = "say" /\ Me(p).unread
  /\ LET h == Head(Me(p).says).head
         read == [Head(Me(p).says) EXCEPT !.content = IF h \in deleted THEN None ELSE Now(h)] IN
     /\ Become(p, [Me(p) EXCEPT !.unread = FALSE, !.says = <<read>> \o Tail(@)])
     /\ late' = IF read.version = Version(h) THEN late ELSE late \cup {<<h, read.version>>}
  /\ UNCHANGED <<contents, deleted, queue, worker, store, base, begun, faults, missed>>

\* on_write: a record is put on the queue, or dropped.
Submit(p) ==
  /\ Me(p).pc = "say" /\ ~Me(p).unread
  /\ LET record == Head(Me(p).says)
         rest == Tail(Me(p).says)
         full == Len(queue) = QueueSize IN
     /\ queue' = IF full THEN queue ELSE Append(queue, record)
     /\ missed' = IF full THEN missed \cup {record} ELSE missed
     /\ IF rest # <<>>
        THEN Become(p, [Me(p) EXCEPT !.says = rest, !.unread = (Head(rest).op = "update")])
        ELSE IF Me(p).then = "idle" THEN Ends(p)
        ELSE Become(p, [Me(p) EXCEPT !.pc = Me(p).then, !.says = <<>>])
  /\ UNCHANGED <<contents, deleted, worker, store, base, begun, faults, late>>

-----------------------------------------------------------------------------
(* restore *)

\* (expected: the version that the person saw, or 0)
Restore(p) ==
  /\ Begins(p)
  /\ \E h \in Made : \E v \in 1..Version(h), expected \in {0, Version(h)} :
       /\ Get(h, v) # {}
       /\ Become(p, [Idle EXCEPT !.pc = "look", !.head = h, !.from = v,
                                 !.what = store[Max(Get(h, v))].content, !.based = expected])
  /\ UNCHANGED <<contents, deleted>>

Restores(p) == UNCHANGED <<queue, worker, store, base, begun, faults, missed, late>>

Look(p) ==
  /\ Me(p).pc = "look"
  /\ Become(p, [Me(p) EXCEPT !.pc = IF Me(p).head \in deleted THEN "revive" ELSE "base"])
  /\ UNCHANGED <<contents, deleted>> /\ Restores(p)
Revive(p) ==
  /\ Me(p).pc = "revive"
  /\ IF Me(p).head \in deleted THEN Undeleted(p, Me(p).head, [Me(p) EXCEPT !.then = "base"])
     ELSE Ends(p) /\ UNCHANGED <<contents, deleted>>
  /\ Restores(p)
ReadVersion(p) ==
  /\ Me(p).pc = "base"
  /\ IF Me(p).head \in deleted THEN Ends(p)
     ELSE Become(p, [Me(p) EXCEPT !.pc = "save", !.based = IF @ = 0 THEN Version(Me(p).head) ELSE @])
  /\ UNCHANGED <<contents, deleted>> /\ Restores(p)

\* The update, of the version that it is based on.
Save(p) ==
  /\ Me(p).pc = "save"
  /\ LET c == Me(p) IN
     IF c.head \in Live /\ c.based = Version(c.head)
     THEN /\ c.based < MaxVersions
          /\ contents' = [contents EXCEPT ![c.head] = Append(@, [what |-> c.what, from |-> c.from])]
          /\ Says(p, <<Record(c.head, c.based + 1, "restore", c.what, c.from)>>, Idle)
     ELSE Ends(p) /\ UNCHANGED contents
  /\ UNCHANGED deleted /\ Restores(p)

-----------------------------------------------------------------------------
(* The thread that writes records.  The number of the first record of a batch is read  *)
(* before its transaction begins: another process may give the same one meanwhile, and *)
(* then the batch fails.                                                               *)

Take ==
  /\ worker.pc = "collect" /\ queue # <<>> /\ Len(worker.batch) < BatchSize
  /\ worker' = [worker EXCEPT !.batch = Append(@, Head(queue))]
  /\ queue' = Tail(queue)
  /\ UNCHANGED <<contents, deleted, calls, store, base, begun, faults, missed, late>>
Select ==
  /\ worker.pc = "collect" /\ worker.batch # <<>>
  /\ worker' = [worker EXCEPT !.pc = "insert", !.seq = NextSeq(Head(worker.batch).head)]
  /\ UNCHANGED <<contents, deleted, calls, queue, store, base, begun, faults, missed, late>>

FitsStore(batch, seq) == seq = NextSeq(Head(batch).head)

\* (Mutant: a batch that fails is tried again, with the number that was read.)
InsertAgain ==
  /\ worker.pc = "insert" /\ FitsStore(worker.batch, worker.seq)
  /\ store' = store \o worker.batch
  /\ worker' = NoBatch
  /\ UNCHANGED <<contents, deleted, calls, queue, base, begun, faults, missed, late>>

Insert ==
  /\ worker.pc = "insert"
  /\ IF FitsStore(worker.batch, worker.seq)
     THEN store' = store \o worker.batch /\ UNCHANGED missed
     ELSE missed' = missed \cup ToSet(worker.batch) /\ UNCHANGED store
  /\ worker' = NoBatch
  /\ UNCHANGED <<contents, deleted, calls, queue, base, begun, faults, late>>

StoreFails ==
  /\ worker.pc = "insert" /\ faults < MaxFaults /\ faults' = faults + 1
  /\ missed' = missed \cup ToSet(worker.batch)
  /\ worker' = NoBatch
  /\ UNCHANGED <<contents, deleted, calls, queue, store, base, begun, late>>

\* The server dies (or stops, and its queue is not written in time).
Crash ==
  /\ faults < MaxFaults /\ faults' = faults + 1
  /\ missed' = missed \cup ToSet(queue) \cup ToSet(worker.batch) \cup UNION {ToSet(Me(p).says) : p \in Callers}
  /\ calls' = [p \in Callers |-> Idle] /\ queue' = <<>> /\ worker' = NoBatch
  /\ UNCHANGED <<contents, deleted, store, base, begun, late>>

-----------------------------------------------------------------------------
(* baseline, a command *)

Baseline ==
  /\ base.pc \in {"idle", "done"} /\ begun < MaxCalls /\ begun' = begun + 1
  /\ base' = [NoBase EXCEPT !.pc = "look", !.todo = Live, !.at = [h \in Live |-> Version(h)]]
  /\ UNCHANGED <<contents, deleted, server, store, faults, missed, late>>

\* The version that the head had when it was listed is recorded already.
UpToDate(h) == LatestVersion(h) # 0 /\ LatestVersion(h) >= base.at[h]

BaselineLooks ==
  /\ base.pc = "look"
  /\ \E h \in base.todo :
       base' = IF UpToDate(h) THEN [base EXCEPT !.todo = @ \ {h}]
               ELSE [base EXCEPT !.pc = "read", !.todo = @ \ {h}, !.head = h,
                                 !.latest = LatestVersion(h)]
  /\ UNCHANGED <<contents, deleted, server, store, begun, faults, missed, late>>

\* (Mutant: only what has no record at all needs one.)
NeverRecorded(latest, version) == latest = 0

NeedsOne(latest, version) == latest < version

\* write_form: what is deleted by now cannot be read, and is said to have failed.
BaselineReads ==
  /\ base.pc = "read"
  /\ LET h == base.head
         looks == [base EXCEPT !.pc = "look"]
         record == Record(h, Version(h), "baseline", Now(h), 0) IN
     base' = CASE h \in deleted -> [looks EXCEPT !.at = [g \in DOMAIN @ \ {h} |-> @[g]]]
               [] h \notin deleted /\ NeedsOne(base.latest, Version(h)) ->
                    [looks EXCEPT !.batch = Append(@, record)]
               [] OTHER -> looks
  /\ UNCHANGED <<contents, deleted, server, store, begun, faults, missed, late>>
BaselineSelects ==
  /\ base.pc = "look" /\ base.todo = {}
  /\ base' = IF base.batch = <<>> THEN [base EXCEPT !.pc = "done"]
             ELSE [base EXCEPT !.pc = "insert", !.seq = NextSeq(Head(base.batch).head)]
  /\ UNCHANGED <<contents, deleted, server, store, begun, faults, missed, late>>
BaselineInserts ==
  /\ base.pc = "insert"
  /\ IF FitsStore(base.batch, base.seq)
     THEN store' = store \o base.batch /\ base' = [base EXCEPT !.pc = "done", !.batch = <<>>]
     ELSE base' = NoBase /\ UNCHANGED store
  /\ UNCHANGED <<contents, deleted, server, begun, faults, missed, late>>

-----------------------------------------------------------------------------
Serve(p) ==
  \/ Create(p) \/ Update(p) \/ Delete(p) \/ Undelete(p) \/ Relink(p) \/ Restore(p)
  \/ ReadForm(p) \/ Submit(p) \/ Look(p) \/ Revive(p) \/ ReadVersion(p) \/ Save(p)

Next ==
  \/ \E p \in Callers : Serve(p)
  \/ Take \/ Select \/ Insert \/ StoreFails \/ Crash
  \/ Baseline \/ BaselineLooks \/ BaselineReads \/ BaselineSelects \/ BaselineInserts

Spec == Init /\ [][Next]_vars

\* A call goes on, and so does the thread.
FairSpec ==
  /\ Spec
  /\ \A p \in Callers : WF_vars(ReadForm(p)) /\ WF_vars(Submit(p))
  /\ WF_vars(Take) /\ WF_vars(Select) /\ WF_vars(Insert)

-----------------------------------------------------------------------------
(* What history promises *)

\* What a record says that a head was in a version, it was: wherever the record is on its
\* way, in whatever order they arrive.  But of a relink, which announces what the head is
\* by the time it is read, with the version that the relink made.
Right(r) ==
  /\ r.version \in 1..Version(r.head)
  /\ r.content # None /\ <<r.head, r.version>> \notin late =>
       contents[r.head][r.version].what = r.content
OnTheirWay ==
  ToSet(queue) \cup ToSet(worker.batch) \cup ToSet(base.batch) \cup UNION {ToSet(Me(p).says) : p \in Callers}
RecordsAreRight == \A r \in ToSet(store) \cup OnTheirWay : Right(r)

\* A restore brings back what the head was in the version that was asked for, though others
\* write, delete and undelete it meanwhile.
RestoredIsWhatWas ==
  \A h \in Heads : \A v \in 1..Version(h) :
    LET from == contents[h][v].from IN
    /\ from < v
    /\ from # 0 /\ <<h, from>> \notin late => contents[h][v].what = contents[h][from].what

\* When `baseline` has ended well, each head that there was when it began (and that it
\* could read) has a record of the version it had then or of a later one, whatever was
\* written, recorded and lost meanwhile.
BaselineMends == base.pc = "done" => \A h \in DOMAIN base.at : LatestVersion(h) >= base.at[h]

\* When no more is written, every version is recorded, or is one of those that were
\* dropped from a full queue, or failed with their batch, or died with the server: none
\* stays behind in the queue, or goes without being counted.
Missed(h, v) == \E r \in missed : r.head = h /\ r.version = v /\ r.op \in ContentOperations
EndsRecordedOrMissed ==
  <>[](\A h \in Heads : \A v \in 1..Version(h) : Recorded(h, v) \/ Missed(h, v))

-----------------------------------------------------------------------------
(* Why it keeps it *)

\* A restore has what the head was in the version that was asked for,
Restoring(c) ==
  /\ c.from \in 1..Version(c.head)
  /\ <<c.head, c.from>> \notin late => contents[c.head][c.from].what = c.what

\* until it has written it; who announces has something to.
WellCall(c) ==
  /\ c.pc = "say" => c.says # <<>>
  /\ c.pc \in {"look", "revive", "base", "save"} \/ c.then = "base" => Restoring(c)

\* A head that the command has dealt with has a record of what it was when the command
\* began, or of what it was later, or is to have one.
DealtWith(h, rs) == \E r \in rs : r.head = h /\ r.version >= base.at[h]
WellBase ==
  /\ base.todo \subseteq Made
  /\ base.pc \notin {"look", "read"} => base.todo = {}
  /\ \A h \in DOMAIN base.at :
       /\ base.at[h] <= Version(h)
       /\ \/ h \in base.todo \/ (base.pc = "read" /\ h = base.head)
          \/ DealtWith(h, ToSet(store) \cup ToSet(base.batch))
  /\ base.pc = "done" => base.batch = <<>>
  /\ base.pc = "read" =>
       /\ base.head \in Made
       /\ base.latest # 0 => \E r \in ToSet(store) : r.head = base.head /\ r.version >= base.latest

IInv ==
  /\ TypeOK /\ RecordsAreRight /\ RestoredIsWhatWas
  /\ \A h \in Heads : Version(h) <= MaxVersions
  /\ deleted \subseteq Made
  /\ \A p \in Callers : WellCall(Me(p))
  /\ WellBase
=============================================================================
