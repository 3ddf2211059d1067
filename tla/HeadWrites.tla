------------------------------ MODULE HeadWrites ------------------------------
(***************************************************************************)
(* Writes of head nodes (pangloss_cypher: write_functions, validate_write,  *)
(* build_update_query, delete_node, relink), by several processes at once.  *)
(*                                                                         *)
(* A head node (a document, or an entity) is what a transaction reads and   *)
(* writes; the tree below it is part of it.  Every query of a transaction   *)
(* is a step of its own, and its writes are seen when it commits.           *)
(*                                                                         *)
(* Snapshot is the database.  TRUE, Memgraph: a transaction reads what was  *)
(* committed when it began, and is run again by the driver if it writes to  *)
(* a node that another has written to.  FALSE, Neo4j: each query reads what *)
(* is committed, and a write waits for the transactions that have written   *)
(* to the node.  On both, edges that two transactions make at a node do not *)
(* disturb each other; an edge and a change of its properties do.           *)
(***************************************************************************)
EXTENDS Naturals, FiniteSets

CONSTANTS
  Docs, Entities,   \* the ids that documents, and entities, have or are given
  Urls,             \* the URLs that entities have
  Existing,         \* the heads there are at first, with
  InitialRefs,      \*   the entities each refers to
  InitialUrls,      \*   and its URLs
  Procs,            \* the processes (or tasks of a server) that write
  Requests, Asks,   \* the calls that may be made, Asks[r]: what each asks for
  MaxRequests,      \* (bound) how many of them are made
  Nothing,          \* none: no request, no entity, no URL
  Snapshot,         \* which database (see above)
  WriteAttempts,    \* WRITE_ATTEMPTS
  RelinkBatch       \* RELINK_BATCH

Heads == Docs \cup Entities
Ops   == {"create", "update", "delete", "undelete", "relink"}

\* head: what is written (of a relink, what is no longer referred to); to: what
\* is referred to instead; key: the URL of an entity written in the document,
\* which is made as `inline` if there is none; keepUrls: an update that gives no
\* urls leaves them alone; expected: 0 is no expected_version.
AskType ==
  [op : Ops, head : Heads, refs : SUBSET Entities, urls : SUBSET Urls, keepUrls : BOOLEAN,
   expected : Nat, key : Urls \cup {Nothing}, inline : Entities \cup {Nothing},
   to : Entities \cup {Nothing}]

ASSUME HeadWritesAssumption ==
  /\ Docs \cap Entities = {}
  /\ Heads \cap Urls = {}
  /\ Nothing \notin Heads \cup Urls \cup Requests
  /\ Existing \subseteq Heads
  /\ InitialRefs \in [Heads -> SUBSET (Entities \cap Existing)]
  /\ InitialUrls \in [Heads -> SUBSET Urls]
  /\ \A h \in Heads \ Existing : InitialRefs[h] = {} /\ InitialUrls[h] = {}
  /\ \A g, h \in Heads : g # h => InitialUrls[g] \cap InitialUrls[h] = {}
  /\ Asks \in [Requests -> AskType]
  /\ \A r \in Requests :
       /\ Asks[r].key # Nothing <=> Asks[r].inline # Nothing
       /\ Asks[r].inline \notin Existing    \* (a new uuid)
       /\ Asks[r].key \notin Asks[r].urls   \* (the database refuses both)
       /\ \A q \in Requests : Asks[r].inline # Nothing =>
            /\ Asks[q].head # Asks[r].inline
            /\ Asks[q].inline = Asks[r].inline => q = r
       /\ Asks[r].op = "relink" => Asks[r].head \in Entities /\ Asks[r].to # Nothing
                                     /\ Asks[r].to # Asks[r].head
  /\ MaxRequests \in Nat
  /\ Snapshot \in BOOLEAN
  /\ WriteAttempts \in Nat \ {0}
  /\ RelinkBatch \in Nat \ {0}

VARIABLES
  db,         \* what is committed (DbType)
  todo,       \* the requests not made yet
  done,       \* how each request ended, as its caller is told
  req,        \* the request each process is at
  attempt,    \* of write_with_retries
  pc,         \* the next query of the transaction
  view,       \* what was committed when the transaction began
  changed, edged,  \* the heads whose properties, edges were written by others since
  sets, links,     \* the heads whose properties, edges it has written
  makes,      \* the ids and URLs it has given to new nodes
  target,     \* the entity written in the document: the one there is, or `inline`
  batch, left,     \* (relink) the heads of the batch; those still to be locked
  said        \* the versions that will be announced (0: none)

txVars == <<view, changed, edged, sets, links, makes, target, batch, left, said>>
vars == <<db, todo, done, req, attempt, pc, txVars>>

\* version: 0 of what is not there; revived: undeleted, and not written since.
DbType ==
  [state : [Heads -> {"absent", "live", "deleted"}], version : [Heads -> Nat],
   refs : [Heads -> SUBSET Entities], urls : [Heads -> SUBSET Urls],
   marked : SUBSET Heads, revived : SUBSET Heads]

Places ==
  {"idle", "begin", "lock", "read", "inline", "refs", "free", "replace", "urls",
   "merge", "render", "mark", "delete", "undelete", "find", "heads", "rewire",
   "commit", "announce"}
Outcomes ==
  {"none", "made", "not_found", "stale", "bad_reference", "conflict", "in_use",
   "not_deleted", "failed"}

TypeOK ==
  /\ db \in DbType
  /\ todo \subseteq Requests
  /\ done \in [Requests -> Outcomes]
  /\ req \in [Procs -> Requests \cup {Nothing}]
  /\ attempt \in [Procs -> Nat]
  /\ pc \in [Procs -> Places]
  /\ view \in [Procs -> DbType]
  /\ changed \in [Procs -> SUBSET Heads]
  /\ edged \in [Procs -> SUBSET Heads]
  /\ sets \in [Procs -> SUBSET Heads]
  /\ links \in [Procs -> SUBSET Heads]
  /\ makes \in [Procs -> SUBSET (Heads \cup Urls)]
  /\ target \in [Procs -> Entities \cup {Nothing}]
  /\ batch \in [Procs -> SUBSET Heads]
  /\ left \in [Procs -> SUBSET Heads]
  /\ said \in [Procs -> [Heads -> Nat]]
  /\ \A p \in Procs : pc[p] # "idle" => req[p] \in Requests

EmptyDb ==
  [state |-> [h \in Heads |-> "absent"], version |-> [h \in Heads |-> 0],
   refs |-> [h \in Heads |-> {}], urls |-> [h \in Heads |-> {}],
   marked |-> {}, revived |-> {}]

Unsaid == [h \in Heads |-> 0]

Init ==
  /\ db = [EmptyDb EXCEPT
             !.state = [h \in Heads |-> IF h \in Existing THEN "live" ELSE "absent"],
             !.version = [h \in Heads |-> IF h \in Existing THEN 1 ELSE 0],
             !.refs = InitialRefs,
             !.urls = InitialUrls]
  /\ todo \in SUBSET Requests
  /\ Cardinality(todo) <= MaxRequests
  /\ done = [r \in Requests |-> "none"]
  /\ req = [p \in Procs |-> Nothing]
  /\ attempt = [p \in Procs |-> 0]
  /\ pc = [p \in Procs |-> "idle"]
  /\ view = [p \in Procs |-> EmptyDb]
  /\ changed = [p \in Procs |-> {}]
  /\ edged = [p \in Procs |-> {}]
  /\ sets = [p \in Procs |-> {}]
  /\ links = [p \in Procs |-> {}]
  /\ makes = [p \in Procs |-> {}]
  /\ target = [p \in Procs |-> Nothing]
  /\ batch = [p \in Procs |-> {}]
  /\ left = [p \in Procs |-> {}]
  /\ said = [p \in Procs |-> Unsaid]

-----------------------------------------------------------------------------
(* Transactions *)

Ask(p) == Asks[req[p]]

\* What a query of p reads.
Sees(p) == IF Snapshot THEN view[p] ELSE db

Goto(p, place) == pc' = [pc EXCEPT ![p] = place]

\* The transaction is over: what it read and wrote goes.
Closed(p) ==
  /\ view' = [view EXCEPT ![p] = EmptyDb]
  /\ changed' = [changed EXCEPT ![p] = {}]
  /\ edged' = [edged EXCEPT ![p] = {}]
  /\ sets' = [sets EXCEPT ![p] = {}]
  /\ links' = [links EXCEPT ![p] = {}]
  /\ makes' = [makes EXCEPT ![p] = {}]
  /\ target' = [target EXCEPT ![p] = Nothing]
  /\ batch' = [batch EXCEPT ![p] = {}]
  /\ left' = [left EXCEPT ![p] = {}]
  /\ said' = [said EXCEPT ![p] = Unsaid]

\* The call returns, or raises; what the transaction wrote is rolled back.
End(p, outcome) ==
  /\ Closed(p)
  /\ done' = [done EXCEPT ![req[p]] = outcome]
  /\ req' = [req EXCEPT ![p] = Nothing]
  /\ attempt' = [attempt EXCEPT ![p] = 0]
  /\ Goto(p, "idle")
  /\ UNCHANGED <<db, todo>>

\* The driver runs the transaction again.
Rerun(p) ==
  /\ Closed(p)
  /\ Goto(p, "begin")
  /\ UNCHANGED <<db, todo, done, req, attempt>>

\* (Mutant: it is run again, however often it was.)
TryForEver(p) == Rerun(p)

\* write_with_retries runs it again, if it has not too often.
TryAgain(p) ==
  IF attempt[p] < WriteAttempts
  THEN /\ Closed(p)
       /\ attempt' = [attempt EXCEPT ![p] = @ + 1]
       /\ Goto(p, "begin")
       /\ UNCHANGED <<db, todo, done, req>>
  ELSE End(p, "conflict")

\* PanglossConflictError, raised by a check: see retry_on_check_conflict.
CheckConflict(p) == IF Snapshot THEN End(p, "conflict") ELSE TryAgain(p)

Exists(d, n) == IF n \in Heads THEN d.state[n] # "absent" ELSE \E h \in Heads : n \in d.urls[h]

\* The entity written in the document is not there, and is made.
MakesInline(p) == target[p] # Nothing /\ target[p] = Ask(p).inline

\* The nodes that the next query of p writes to: their properties, their edges,
\* and the ids and URLs of the nodes it makes.
SetsNext(p) ==
  CASE pc[p] \in {"replace", "mark", "delete", "undelete"} -> {Ask(p).head}
    [] pc[p] = "lock" -> {Ask(p).head} \cap {h \in Heads : Exists(db, h)}
    [] OTHER -> {}

LinksNext(p) ==
  CASE pc[p] = "replace" -> Sees(p).refs[Ask(p).head]
    [] pc[p] = "render" -> (Ask(p).refs \cup {Ask(p).head, target[p]}) \ {Nothing}
    [] pc[p] = "rewire" -> batch[p] \cup {Ask(p).head, Ask(p).to}
    [] OTHER -> {}

MakesNext(p) ==
  CASE pc[p] = "merge" -> {u \in Ask(p).urls : ~Exists(Sees(p), u)}
    [] pc[p] = "render" ->
         (IF Ask(p).op = "create" THEN {Ask(p).head} \cup Ask(p).urls ELSE {})
         \cup (IF MakesInline(p) THEN {Ask(p).inline, Ask(p).key} ELSE {})
    [] OTHER -> {}

\* What of it q has written to, and not committed yet.
Held(p, q, S) ==
  \/ S \cap (sets[q] \cup links[q]) # {}
  \/ LinksNext(p) \cap sets[q] # {}
  \/ ~Snapshot /\ MakesNext(p) \cap makes[q] # {}

\* What of it others have committed since p began.
Outdated(p, S) ==
  /\ Snapshot
  /\ S \cap (changed[p] \cup edged[p]) # {} \/ LinksNext(p) \cap changed[p] # {}

\* p writes to S and what comes next, when nobody else does.
Writes(p, S) ==
  /\ ~Outdated(p, S)
  /\ \A q \in Procs \ {p} : ~Held(p, q, S)
  /\ sets' = [sets EXCEPT ![p] = @ \cup S]
  /\ links' = [links EXCEPT ![p] = @ \cup LinksNext(p)]
  /\ makes' = [makes EXCEPT ![p] = @ \cup MakesNext(p)]

WritePlaces == {"lock", "replace", "merge", "render", "mark", "delete", "undelete", "rewire"}

\* Memgraph: a write conflict.  The driver runs the transaction again, for a
\* while (max_transaction_retry_time).
WriteConflict(p) ==
  /\ Snapshot
  /\ pc[p] \in WritePlaces
  /\ Outdated(p, SetsNext(p)) \/ \E q \in Procs \ {p} : Held(p, q, SetsNext(p))
  /\ Rerun(p) \/ End(p, "failed")

Wants(p) == IF pc[p] = "heads" THEN left[p] ELSE SetsNext(p)

\* Neo4j: p waits in a circle, and is the one that is stopped and run again.
Deadlock(p) ==
  /\ ~Snapshot
  /\ \E S \in SUBSET Procs :
       /\ p \in S
       /\ \A q \in S : /\ pc[q] \in WritePlaces \cup {"heads"}
                       /\ \E o \in S \ {q} : Held(q, o, Wants(q))
  /\ Rerun(p) \/ End(p, "failed")

-----------------------------------------------------------------------------
(* Every write *)

\* A call: create_head_node, update_head_node, delete_..., undelete_..., relink.
Call(p, r) ==
  /\ pc[p] = "idle"
  /\ r \in todo
  /\ todo' = todo \ {r}
  /\ req' = [req EXCEPT ![p] = r]
  /\ attempt' = [attempt EXCEPT ![p] = 1]
  /\ Goto(p, "begin")
  /\ UNCHANGED <<db, done, txVars>>

\* (Mutant: an update locks nothing, on any database.)
LockNothing(op) ==
  CASE op = "create" -> "inline" [] op = "relink" -> "find" [] OTHER -> "read"

FirstQuery(op) ==
  CASE op = "create" -> "inline"
    [] op = "update" -> IF Snapshot THEN "read" ELSE "lock"
    [] op = "relink" -> "find"
    [] OTHER -> "read"

Begin(p) ==
  /\ pc[p] = "begin"
  /\ view' = [view EXCEPT ![p] = db]
  /\ Goto(p, FirstQuery(Ask(p).op))
  /\ UNCHANGED <<db, todo, done, req, attempt, changed, edged, sets, links, makes,
                 target, batch, left, said>>

\* A query that only reads.
Reads(p, place) ==
  /\ Goto(p, place)
  /\ UNCHANGED <<db, todo, done, req, attempt, view, changed, edged, sets, links,
                 makes, batch, left>>

\* A query that writes to what comes next.
WritesOn(p, place) ==
  /\ Writes(p, SetsNext(p))
  /\ Goto(p, place)
  /\ UNCHANGED <<db, todo, done, req, attempt, view, changed, edged, target, batch, left>>

\* The process dies, or the database cannot be reached: nothing more is done.
Fail(p) ==
  /\ pc[p] # "idle"
  /\ End(p, "failed")

-----------------------------------------------------------------------------
(* create_head_node, update_head_node *)

\* before_replace: lock_node.  There is nothing to lock if there is no such node.
Lock(p) ==
  /\ pc[p] = "lock"
  /\ WritesOn(p, "read")
  /\ UNCHANGED said

\* (Mutant: expected_version is not looked at.)
ReadAnyVersion(p) ==
  /\ pc[p] = "read"
  /\ Ask(p).op = "update"
  /\ IF Sees(p).state[Ask(p).head] # "live" THEN End(p, "not_found")
     ELSE /\ Reads(p, "inline")
          /\ said' = [said EXCEPT ![p][Ask(p).head] = Sees(p).version[Ask(p).head] + 1]
          /\ UNCHANGED target

\* (Mutant: the version that was read is announced.)
SayOldVersion(p) ==
  LET h == Ask(p).head
      version == Sees(p).version[h]
  IN  /\ pc[p] = "read"
      /\ Ask(p).op = "update"
      /\ IF Sees(p).state[h] # "live" THEN End(p, "not_found")
         ELSE IF Ask(p).expected \notin {0, version} THEN End(p, "stale")
         ELSE /\ Reads(p, "inline")
              /\ said' = [said EXCEPT ![p][h] = version]
              /\ UNCHANGED target

\* get_existing_head, and expected_version.
ReadHead(p) ==
  LET h == Ask(p).head
      version == Sees(p).version[h]
  IN  /\ pc[p] = "read"
      /\ Ask(p).op = "update"
      /\ IF Sees(p).state[h] # "live" THEN End(p, "not_found")
         ELSE IF Ask(p).expected \notin {0, version} THEN End(p, "stale")
         ELSE /\ Reads(p, "inline")
              /\ said' = [said EXCEPT ![p][h] = version + 1]
              /\ UNCHANGED target

\* (Mutant: the entity there is is not looked for.)
FindNoInline(p) ==
  /\ pc[p] = "inline"
  /\ Reads(p, "refs")
  /\ target' = [target EXCEPT ![p] = Ask(p).inline]
  /\ UNCHANGED said

\* find_existing_entities, check_inline_entities
FindInline(p) ==
  LET owners == {e \in Heads : Ask(p).key \in Sees(p).urls[e]}
  IN  /\ pc[p] = "inline"
      /\ \/ /\ owners = {}
            /\ Reads(p, "refs")
            /\ target' = [target EXCEPT ![p] = Ask(p).inline]
            /\ UNCHANGED said
         \/ \E e \in owners :
              IF Sees(p).state[e] = "live" /\ e \in Entities
              THEN /\ Reads(p, "refs")
                   /\ target' = [target EXCEPT ![p] = e]
                   /\ UNCHANGED said
              ELSE CheckConflict(p)

\* (Mutant: what is deleted may be referred to.)
CheckRefsExist(p) ==
  /\ pc[p] = "refs"
  /\ Ask(p).op \in {"create", "update"}
  /\ IF \A e \in Ask(p).refs : Sees(p).state[e] # "absent"
     THEN Reads(p, "free") /\ UNCHANGED <<target, said>>
     ELSE End(p, "bad_reference")

\* check_references_exist
CheckRefs(p) ==
  /\ pc[p] = "refs"
  /\ Ask(p).op \in {"create", "update"}
  /\ IF \A e \in Ask(p).refs : Sees(p).state[e] = "live"
     THEN Reads(p, "free") /\ UNCHANGED <<target, said>>
     ELSE End(p, "bad_reference")

\* The URLs of the entities the write makes (urls_to_write).
UrlsToWrite(p) ==
  (IF Ask(p).op = "create" THEN Ask(p).urls ELSE {})
  \cup (IF MakesInline(p) THEN {Ask(p).key} ELSE {})

\* check_ids_available, check_urls_available
CheckFree(p) ==
  LET ids == IF Ask(p).op = "create" THEN {Ask(p).head} ELSE {}
  IN  /\ pc[p] = "free"
      /\ IF \E n \in ids \cup UrlsToWrite(p) : Exists(Sees(p), n)
         THEN CheckConflict(p)
         ELSE /\ Reads(p, IF Ask(p).op = "create" THEN "render" ELSE "replace")
              /\ UNCHANGED <<target, said>>

\* build_replace_head_query
Replace(p) ==
  /\ pc[p] = "replace"
  /\ WritesOn(p, IF Ask(p).keepUrls THEN "render" ELSE "urls")
  /\ UNCHANGED said

\* (Mutant: whose they are is not looked at.)
CheckNoUrls(p) == pc[p] = "urls" /\ Reads(p, "merge") /\ UNCHANGED <<target, said>>

\* replace_urls: is one of them another's?
CheckUrls(p) ==
  /\ pc[p] = "urls"
  /\ IF \E h \in Heads \ {Ask(p).head} : Ask(p).urls \cap Sees(p).urls[h] # {}
     THEN CheckConflict(p)
     ELSE Reads(p, "merge") /\ UNCHANGED <<target, said>>

\* replace_urls: MERGE.  What there is by then is had, whoever else has it.
MergeUrls(p) ==
  /\ pc[p] = "merge"
  /\ WritesOn(p, "render")
  /\ UNCHANGED said

\* render: CREATE (on Neo4j, what exists by then is a unique violation at once).
Render(p) ==
  /\ pc[p] = "render"
  /\ IF ~Snapshot /\ \E n \in MakesNext(p) : Exists(db, n)
     THEN TryAgain(p)
     ELSE /\ WritesOn(p, "commit")
          /\ said' = IF Ask(p).op = "create" THEN [said EXCEPT ![p][Ask(p).head] = 1] ELSE said

-----------------------------------------------------------------------------
(* soft_delete, undelete *)

\* (Mutant: what refers to an entity is not looked for before it is deleted.)
FindNodeOnly(p) ==
  LET state == Sees(p).state[Ask(p).head]
  IN  /\ pc[p] = "read"
      /\ Ask(p).op \in {"delete", "undelete"}
      /\ CASE state = "absent" -> End(p, "not_found")
           [] state = (IF Ask(p).op = "delete" THEN "deleted" ELSE "live") ->
                End(p, IF Ask(p).op = "delete" THEN "not_found" ELSE "not_deleted")
           [] OTHER -> Reads(p, Ask(p).op) /\ UNCHANGED <<target, said>>

\* FIND_QUERY (Neo4j takes no lock before it).
FindNode(p) ==
  LET state == Sees(p).state[Ask(p).head]
  IN  /\ pc[p] = "read"
      /\ \/ /\ Ask(p).op = "delete"
            /\ IF state # "live" THEN End(p, "not_found")
               ELSE /\ Reads(p, IF Ask(p).head \in Entities THEN "refs" ELSE "delete")
                    /\ UNCHANGED <<target, said>>
         \/ /\ Ask(p).op = "undelete"
            /\ CASE state = "absent" -> End(p, "not_found")
                 [] state = "live" -> End(p, "not_deleted")
                 [] state = "deleted" -> Reads(p, "undelete") /\ UNCHANGED <<target, said>>

\* (Mutant: only what documents refer to is in use.)
DocHolders(d, e) == {h \in Docs \ {e} : d.state[h] = "live" /\ e \in d.refs[h]}

\* REFERENCES_QUERY: what refers to e, is not e, and is not deleted.
Holders(d, e) == {h \in Heads \ {e} : d.state[h] = "live" /\ e \in d.refs[h]}

FindHolders(p) ==
  /\ pc[p] = "refs"
  /\ Ask(p).op = "delete"
  /\ Reads(p, IF Holders(Sees(p), Ask(p).head) = {} THEN "delete" ELSE "mark")
  /\ UNCHANGED <<target, said>>

\* MARK_QUERY
Mark(p) ==
  /\ pc[p] = "mark"
  /\ WritesOn(p, "commit")
  /\ UNCHANGED said

\* DELETE_QUERY, UNDELETE_QUERY; then version_of.
Flag(p) ==
  LET h == Ask(p).head
  IN  /\ pc[p] \in {"delete", "undelete"}
      /\ WritesOn(p, "commit")
      /\ said' = [said EXCEPT ![p][h] = Sees(p).version[h]]

-----------------------------------------------------------------------------
(* relink, one batch a transaction *)

\* What refers to the first node (what is deleted, too), as many as a batch has.
FindBatch(p) ==
  LET rows == {h \in Heads : Ask(p).head \in Sees(p).refs[h]}
  IN  /\ pc[p] = "find"
      /\ \/ rows = {} /\ End(p, "made")
         \/ \E S \in SUBSET rows :
              /\ S # {}
              /\ Cardinality(S) <= RelinkBatch
              /\ S = rows \/ Cardinality(S) = RelinkBatch
              /\ batch' = [batch EXCEPT ![p] = S]
              /\ left' = [left EXCEPT ![p] = S]
              /\ Goto(p, IF Snapshot THEN "rewire" ELSE "heads")
              /\ UNCHANGED <<db, todo, done, req, attempt, view, changed, edged, sets,
                             links, makes, target, said>>

\* before_replace of each head: lock_node.  (In the order of the ids, which may be any;
\* two relinks at once take theirs in the same one, here they need not.)
LockHead(p, h) ==
  /\ pc[p] = "heads"
  /\ h \in left[p]
  /\ Writes(p, {h})
  /\ left' = [left EXCEPT ![p] = @ \ {h}]
  /\ Goto(p, IF left[p] = {h} THEN "rewire" ELSE "heads")
  /\ UNCHANGED <<db, todo, done, req, attempt, view, changed, edged, target, batch, said>>

\* The edges, the PGUpdate of each head, and the versions that makes.
Rewire(p) ==
  /\ pc[p] = "rewire"
  /\ IF \A h \in batch[p] : Ask(p).head \notin Sees(p).refs[h]
     THEN End(p, "failed")
     ELSE /\ WritesOn(p, "commit")
          /\ said' = [said EXCEPT ![p] =
               [h \in Heads |-> IF h \in batch[p] THEN Sees(p).version[h] + 1 ELSE 0]]

-----------------------------------------------------------------------------
(* Commit *)

\* A head that is written: its properties are replaced, the mark's too.
Written(d, h, refs, urls) ==
  [d EXCEPT !.state[h] = "live", !.version[h] = @ + 1, !.refs[h] = refs, !.urls[h] = urls,
            !.marked = @ \ {h}, !.revived = @ \ {h}]

WithInline(d, p) ==
  IF MakesInline(p) THEN Written(d, Ask(p).inline, {}, {Ask(p).key}) ELSE d

Relinked(d, p) ==
  [d EXCEPT
     !.version = [h \in Heads |-> d.version[h] + (IF h \in batch[p] THEN 1 ELSE 0)],
     !.refs = [h \in Heads |-> IF h \in batch[p] /\ Ask(p).head \in d.refs[h]
                               THEN (d.refs[h] \ {Ask(p).head}) \cup {Ask(p).to}
                               ELSE d.refs[h]]]

Result(d, p) ==
  LET h == Ask(p).head IN
  CASE Ask(p).op \in {"create", "update"} ->
         Written(WithInline(d, p), h, (Ask(p).refs \cup {target[p]}) \ {Nothing},
                 IF Ask(p).op = "update" /\ Ask(p).keepUrls THEN d.urls[h] ELSE Ask(p).urls)
    [] Ask(p).op = "delete" /\ said[p][h] = 0 -> [d EXCEPT !.marked = @ \cup {h}]
    [] Ask(p).op = "delete" /\ said[p][h] # 0 ->
         [d EXCEPT !.state[h] = "deleted", !.marked = @ \ {h}, !.revived = @ \ {h}]
    [] Ask(p).op = "undelete" -> [d EXCEPT !.state[h] = "live", !.revived = @ \cup {h}]
    [] Ask(p).op = "relink" -> Relinked(d, p)

InTransaction(p) == pc[p] \notin {"idle", "begin", "announce"}

\* What the other transactions will find to have been written since they began.
Told(seen, p, S) ==
  [q \in Procs |-> IF q = p THEN {} ELSE seen[q] \cup (IF InTransaction(q) THEN S ELSE {})]

Committed(p) ==
  /\ db' = Result(db, p)
  /\ changed' = Told(changed, p, sets[p])
  /\ edged' = Told(edged, p, links[p])
  /\ view' = [view EXCEPT ![p] = EmptyDb]
  /\ sets' = [sets EXCEPT ![p] = {}]
  /\ links' = [links EXCEPT ![p] = {}]
  /\ makes' = [makes EXCEPT ![p] = {}]
  /\ target' = [target EXCEPT ![p] = Nothing]
  /\ batch' = [batch EXCEPT ![p] = {}]
  /\ Goto(p, "announce")
  /\ UNCHANGED <<todo, done, req, attempt, left, said>>

\* On Memgraph, a unique violation is found here.
Commit(p) ==
  /\ pc[p] = "commit"
  /\ IF Snapshot /\ \E n \in makes[p] : Exists(db, n) THEN TryAgain(p) ELSE Committed(p)

\* The write event, then the call returns (or raises PanglossEntityInUseError,
\* or goes on to the next batch).
Announce(p) ==
  /\ pc[p] = "announce"
  /\ CASE Ask(p).op = "relink" -> Rerun(p)
       [] Ask(p).op = "delete" /\ said[p] = Unsaid -> End(p, "in_use")
       [] OTHER -> End(p, "made")

-----------------------------------------------------------------------------
Query(p) ==
  \/ Begin(p) \/ Lock(p) \/ ReadHead(p) \/ FindInline(p) \/ CheckRefs(p) \/ CheckFree(p)
  \/ Replace(p) \/ CheckUrls(p) \/ MergeUrls(p) \/ Render(p) \/ FindNode(p)
  \/ FindHolders(p) \/ Mark(p) \/ Flag(p) \/ FindBatch(p) \/ Rewire(p)
  \/ \E h \in Heads : LockHead(p, h)

\* What a process does by itself, once it is called.
Step(p) == Query(p) \/ Commit(p) \/ Announce(p) \/ WriteConflict(p) \/ Deadlock(p)

Next == \E p \in Procs : Step(p) \/ Fail(p) \/ \E r \in Requests : Call(p, r)

Spec == Init /\ [][Next]_vars

\* A process goes on; who waits for a lock is given it at last, wherever it
\* waits (locks are queued for), and who waits in a circle is found.
FairSpec ==
  Spec /\ \A p \in Procs :
    /\ WF_vars(Query(p) \/ Commit(p) \/ Announce(p))
    /\ WF_vars(Deadlock(p))
    /\ SF_vars(Lock(p) \/ \E h \in Heads : LockHead(p, h))
    /\ SF_vars(Replace(p) \/ Mark(p) \/ Flag(p) \/ Rewire(p))
    /\ SF_vars(MergeUrls(p))
    /\ SF_vars(Render(p))

-----------------------------------------------------------------------------
(* Properties *)

Commits(p) == pc[p] = "commit" /\ pc'[p] = "announce"

\* An update that says which version it was made from replaces that version and
\* no other (write_functions.py: "Two updates at once are safe").
EditsAreNotLost ==
  [][\A p \in Procs : Commits(p) /\ Ask(p).op = "update" /\ Ask(p).expected # 0 =>
       db.state[Ask(p).head] = "live" /\ db.version[Ask(p).head] = Ask(p).expected]_vars

\* The version that a write announces, which history records it as, is the one
\* that it made, although it is worked out queries before the commit.
AnnouncedVersions ==
  [][\A p \in Procs : Commits(p) =>
       \A h \in Heads : said[p][h] # 0 => said[p][h] = db'.version[h]]_vars

\* What is not deleted refers to nothing that is, unless it was undeleted since
\* it was written (models.md: what is deleted "can no longer be ... referred to").
NoDeadRefs ==
  \A h \in Heads : db.state[h] = "live" /\ h \notin db.revived =>
    \A e \in db.refs[h] : db.state[e] = "live"

\* memgraph.md: "a URL cannot belong to two entities, even if they are written
\* at the same moment".
OneOwner == \A g, h \in Heads : g # h => db.urls[g] \cap db.urls[h] = {}

\* The calls that have ended, or have committed and are about to.
Past == {q \in Requests : done[q] # "none" \/ \E p \in Procs : req[p] = q /\ pc[p] = "announce"}

\* There was one at first, whom r cannot but conflict with.
Preceded(r) ==
  \/ Asks[r].op = "create" /\ Asks[r].head \in Existing
  \/ \E h \in Heads \ {Asks[r].head} : Asks[r].urls \cap InitialUrls[h] # {}
  \/ \E d \in Docs : Asks[r].key \in InitialUrls[d]

\* The calls that r cannot but conflict with, if they come first: those that make
\* what it makes, give a head of their own what it gives, or the entity that it
\* names, and (they may be of that entity) those that delete.
Rivals(r) ==
  {q \in Requests \ {r} :
     \/ Asks[r].op = "create" /\ Asks[q].op = "create" /\ Asks[q].head = Asks[r].head
     \/ (Asks[q].urls \cup {Asks[q].key}) \cap Asks[r].urls # {}
     \/ Asks[r].key \in Asks[q].urls
     \/ Asks[q].op = "delete" /\ Asks[r].key # Nothing}

Excused(B, r) == Preceded(r) \/ Rivals(r) \cap B # {}

\* Documents that name the same new entity at the same moment share it: a write
\* is refused as a conflict only with what was there at first or with a call that
\* came before it, never with one that only names the entity that it names, too
\* (memgraph.md: "it then finds the entity and uses it").
SharingIsNoConflict == \A r \in Requests : done[r] = "conflict" => Excused(Past, r)

\* The inductive invariant, on Memgraph and while nothing is relinked: what p has
\* read is still so where it has written, nobody else writes there, and p has
\* checked what its place in the transaction says.
Good(d) ==
  /\ \A h \in Heads : d.state[h] = "absent" =>
       /\ d.version[h] = 0 /\ d.refs[h] = {} /\ d.urls[h] = {}
       /\ h \notin d.marked /\ h \notin d.revived
  /\ \A h \in Heads : d.state[h] # "absent" => d.version[h] > 0

Same(d, e, h) ==
  /\ d.state[h] = e.state[h] /\ d.version[h] = e.version[h]
  /\ d.refs[h] = e.refs[h] /\ d.urls[h] = e.urls[h]

RefersTo(d, h, e) == d.state[h] = "live" /\ e \in d.refs[h]

Kept(p) ==
  InTransaction(p) =>
    /\ Good(view[p])
    /\ \A h \in Heads \ changed[p] : view[p].state[h] # "absent" => Same(db, view[p], h)
    /\ \A e \in Entities \ edged[p], h \in Heads \ db.revived :
         RefersTo(db, h, e) => RefersTo(view[p], h, e)

Locked(p) ==
  /\ sets[p] \cap (changed[p] \cup edged[p]) = {}
  /\ links[p] \cap changed[p] = {}
  /\ \A q \in Procs \ {p} : sets[p] \cap (sets[q] \cup links[q]) = {}
  /\ ~InTransaction(p) => sets[p] = {} /\ links[p] = {}

Says(p, version) == said[p] = [Unsaid EXCEPT ![Ask(p).head] = version]

Creating(p) ==
  /\ pc[p] \in {"inline", "refs", "free", "render"} => said[p] = Unsaid
  /\ pc[p] \in {"inline", "refs", "free", "render", "commit"}
  /\ pc[p] = "commit" => /\ Says(p, 1)
                         /\ Ask(p).head \in links[p]
                         /\ {Ask(p).head} \cup Ask(p).urls \subseteq makes[p]

Updating(p) ==
  LET h == Ask(p).head IN
  /\ pc[p] \in {"read", "inline", "refs", "free", "replace", "urls", "merge", "render", "commit"}
  /\ pc[p] = "read" => said[p] = Unsaid
  /\ pc[p] # "read" => /\ view[p].state[h] = "live"
                       /\ Ask(p).expected \in {0, view[p].version[h]}
                       /\ Says(p, view[p].version[h] + 1)
  /\ pc[p] \in {"urls", "merge", "render", "commit"} => h \in sets[p]
  /\ pc[p] \in {"merge", "render", "commit"} /\ ~Ask(p).keepUrls =>
       \A g \in Heads \ {h} : Ask(p).urls \cap view[p].urls[g] = {}
  /\ pc[p] \in {"render", "commit"} /\ ~Ask(p).keepUrls =>
       Ask(p).urls \subseteq makes[p] \cup view[p].urls[h]

\* Of both: what it refers to, and the entity written in it.
Referring(p) ==
  /\ pc[p] \notin {"read", "inline"} =>
       target[p] \in {Nothing, Ask(p).inline} \/ view[p].state[target[p]] = "live"
  /\ pc[p] \notin {"read", "inline", "refs"} => \A e \in Ask(p).refs : view[p].state[e] = "live"
  /\ pc[p] = "commit" =>
       /\ (Ask(p).refs \cup {target[p]}) \ {Nothing} \subseteq links[p]
       /\ MakesInline(p) => {Ask(p).inline, Ask(p).key} \subseteq makes[p]

Deleting(p) ==
  LET h == Ask(p).head IN
  /\ pc[p] \in {"read", "refs", "mark", "delete", "commit"}
  /\ pc[p] # "commit" => said[p] = Unsaid
  /\ pc[p] # "read" => view[p].state[h] = "live"
  /\ pc[p] = "delete" => Holders(view[p], h) = {}
  /\ pc[p] = "commit" => /\ h \in sets[p]
                         /\ said[p] # Unsaid => /\ Holders(view[p], h) = {}
                                               /\ Says(p, view[p].version[h])

Undeleting(p) ==
  LET h == Ask(p).head IN
  /\ pc[p] \in {"read", "undelete", "commit"}
  /\ pc[p] # "commit" => said[p] = Unsaid
  /\ pc[p] # "read" => view[p].state[h] = "deleted"
  /\ pc[p] = "commit" => h \in sets[p] /\ Says(p, view[p].version[h])

Knows(p) ==
  /\ pc[p] \in {"idle", "begin"} => said[p] = Unsaid
  /\ InTransaction(p) =>
       CASE Ask(p).op = "create"   -> Creating(p) /\ Referring(p)
         [] Ask(p).op = "update"   -> Updating(p) /\ Referring(p)
         [] Ask(p).op = "delete"   -> Deleting(p)
         [] Ask(p).op = "undelete" -> Undeleting(p)

\* Each call is made once, by one process.
Once ==
  /\ \A p \in Procs : pc[p] = "idle" => req[p] = Nothing
  /\ \A p \in Procs : req[p] # Nothing => req[p] \notin todo /\ done[req[p]] = "none"
  /\ \A r \in todo : done[r] = "none"
  /\ \A p \in Procs : \A q \in Procs \ {p} : req[p] = req[q] => req[p] = Nothing

\* One of the calls B has given h the URL u, made h, deleted.
Gave(B, h, u) ==
  \E q \in B : \/ h = Asks[q].head /\ u \in Asks[q].urls
               \/ h = Asks[q].inline /\ u = Asks[q].key

Made(B, h) ==
  \E q \in B : \/ h = Asks[q].inline
               \/ h = Asks[q].head /\ Asks[q].op = "create"

Deleted(B) == \E q \in B : Asks[q].op = "delete"

\* What there is in d was there at first, or is of the calls B.
Traced(B, d) ==
  \A h \in Heads :
    /\ \A u \in d.urls[h] : u \in InitialUrls[h] \/ Gave(B, h, u)
    /\ d.state[h] # "absent" => (h \in Existing \/ Made(B, h))
    /\ d.state[h] = "deleted" => Deleted(B)

\* Another of the calls B has made the entity that r names (or r may conflict).
Shared(B, r, d) ==
  \/ Excused(B, r)
  \/ \E q \in B \ {r} : /\ Asks[q].key = Asks[r].key /\ Asks[q].key # Nothing
                        /\ Asks[q].key \in d.urls[Asks[q].inline]

IsWrite(p) == Ask(p).op \in {"create", "update"}

\* What p has found to be free, and what it has made, was free when it began.
Free(p, n) == ~Exists(view[p], n)

Makes(p) ==
  /\ \A n \in makes[p] :
       /\ IsWrite(p) /\ Free(p, n) /\ pc[p] \in {"render", "commit"}
       /\ \/ Ask(p).op = "create" /\ n = Ask(p).head
          \/ n \in Ask(p).urls
          \/ MakesInline(p) /\ n \in {Ask(p).inline, Ask(p).key}
  /\ IsWrite(p) /\ MakesInline(p) /\ pc[p] \notin {"read", "inline"} => Free(p, Ask(p).key)
  /\ Ask(p).op = "create" /\ pc[p] \in {"render", "commit"} =>
       \A n \in {Ask(p).head} \cup Ask(p).urls : Free(p, n)

Sharing(p) ==
  /\ ~InTransaction(p) => makes[p] = {}
  /\ InTransaction(p) =>
       /\ Traced(Past, view[p]) /\ Makes(p)
       /\ \A h \in Heads : \A u \in db.urls[h] \ view[p].urls[h] : Gave(Past, h, u)
  /\ attempt[p] > 1 => /\ Shared(Past, req[p], db)
                       /\ InTransaction(p) => Shared(Past, req[p], view[p])

IInv ==
  /\ TypeOK
  /\ Good(db) /\ NoDeadRefs /\ OneOwner
  /\ \A p \in Procs : Kept(p) /\ Locked(p) /\ Knows(p)
  /\ Once /\ Traced(Past, db)
  /\ \A p \in Procs : Sharing(p)
  /\ WriteAttempts > 1 => SharingIsNoConflict

\* On Memgraph (and while nothing is relinked) a call is as good as one made at
\* a single moment, although it checks first and writes later (HeadStore).
Store ==
  INSTANCE HeadStore WITH state <- db.state, version <- db.version, refs <- db.refs,
                          urls <- db.urls, marked <- db.marked, revived <- db.revived

StorePromise == Store!Spec

\* Every call ends, whatever waits for what, and however often it is run again.
CallsEnd == \A p \in Procs : pc[p] # "idle" ~> pc[p] = "idle"
=============================================================================
