------------------------------- MODULE Zotero -------------------------------
(***************************************************************************)
(* A Zotero library kept in the database: pangloss_zotero.                  *)
(*                                                                         *)
(* The watcher of the server syncs the library when it starts, when the     *)
(* stream of Zotero is connected and when the stream says so, and a person  *)
(* may sync by hand (`pangloss zotero sync`) meanwhile.  A sync asks Zotero  *)
(* what has changed since the version that is stored, writes each item, and *)
(* stores the new version last.  A request to Zotero or a transaction is a   *)
(* step, and people go on editing, citing, linking and deleting between any  *)
(* two.  There is one library; of two, each is synced by itself.             *)
(***************************************************************************)
EXTENDS Integers, FiniteSets

CONSTANTS
  Keys,         \* the items
  FirstItems,   \*   and those that Zotero has at first
  Watcher,      \* the server's task
  ByHand,       \* the person's command
  Nothing,      \* no item; never synced
  BatchSize,    \* BATCH_SIZE: items in one request
  Attempts,     \* ATTEMPTS: of an update
  Scenarios,    \* who takes part besides Zotero and the watcher, in one of them
  MaxVersion,   \* (bound) changes in Zotero (one only in a "quiet" scenario)
  MaxActs,      \* (bound) what people do in Pangloss
  MaxFaults     \* (bound) requests and writes that fail, crashes, lost connections

ASSUME ZoteroAssumption ==
  /\ IsFiniteSet(Keys) /\ FirstItems \subseteq Keys
  /\ Nothing \notin Keys \cup Int
  /\ Watcher # ByHand
  /\ BatchSize \in Nat \ {0} /\ Attempts \in Nat \ {0}
  /\ Scenarios \subseteq SUBSET {"people", "by hand", "faults", "disconnects", "quiet"}
  /\ MaxVersion \in Nat /\ MaxActs \in Nat /\ MaxFaults \in Nat

Syncers == {Watcher, ByHand}

\* In Zotero; at: the version of the library that changed it.
Item == [key : Keys, at : Nat, is : {"none", "live", "trash", "gone"}]

ASSUME NothingAssumption == Nothing \notin Item

\* In Pangloss; version: meta.version; held: zotero_version (0: none); synced:
\* zotero_synced_entity_version; flagged: removed_from_zotero; edited: by a person,
\* since the sync wrote the item (a history value).
Node ==
  [state : {"absent", "live", "deleted"}, version : Nat, held : Nat,
   synced : Nat \cup {Nothing}, flagged : BOOLEAN, referenced : BOOLEAN, edited : BOOLEAN]

NoNode ==
  [state |-> "absent", version |-> 0, held |-> 0, synced |-> Nothing, flagged |-> FALSE,
   referenced |-> FALSE, edited |-> FALSE]

VARIABLES
  library,    \* Zotero's items
  version,    \*   and the version it is at
  nodes,      \* the nodes with the items' URLs
  saved,      \* ZoteroLibrary: synced_version
  lastError,  \*   and last_error
  sync,       \* where each sync is
  pending,    \* the watcher has something to sync
  wake,       \*   and has been woken
  stream,     \* the connection to Zotero's stream
  event,      \*   has brought a topicUpdated that is not read yet
  link,       \* a link_item that has fetched its item
  asked,      \* nodes that a person deletes, which were flagged when the route looked
  acts, faults,
  scenario,
  excused     \* (history) items of which something happened that a sync cannot know

vars ==
  <<library, version, nodes, saved, lastError, sync, pending, wake, stream, event, link, asked,
    acts, faults, scenario, excused>>
people == <<link, asked, acts, scenario>>
zotero == <<library, version>>
watching == <<pending, wake, stream, event>>

Places ==
  {"idle", "versions", "items", "again", "create", "edit", "save", "delete",
   "store", "sleep"}

\* was: state.synced_version, as read at first, and since: what Zotero is asked for;
\* todo: keys still to be fetched; got: items fetched (or to be removed), still to
\* be applied; item: the one at hand; seen: the node as `find` gave it, and
\* restored; read: meta.version, as read for editing; errors: report.errors.
Sync ==
  [pc : Places, was : Nat, since : Nat, latest : Nat, todo : SUBSET Keys, got : SUBSET Item,
   item : Item \cup {Nothing}, seen : Node, restored : BOOLEAN, read : Nat, tries : Nat,
   removing : BOOLEAN, errors : BOOLEAN]

NoSync ==
  [pc |-> "idle", was |-> 0, since |-> 0, latest |-> 0, todo |-> {}, got |-> {}, item |-> Nothing,
   seen |-> NoNode, restored |-> FALSE, read |-> 0, tries |-> 0, removing |-> FALSE,
   errors |-> FALSE]

TypeOK ==
  /\ library \in [Keys -> Item] /\ version \in Nat
  /\ nodes \in [Keys -> Node]
  /\ saved \in Nat /\ lastError \in {"none", "items", "zotero"}
  /\ sync \in [Syncers -> Sync]
  /\ pending \in BOOLEAN /\ wake \in BOOLEAN
  /\ stream \in {"down", "up"} /\ event \in BOOLEAN
  /\ link \in Item \cup {Nothing} /\ asked \subseteq Keys
  /\ acts \in 0..MaxActs /\ faults \in 0..MaxFaults
  /\ scenario \in Scenarios /\ excused \subseteq Keys

\* Zotero has some items already; the watcher is started.
Init ==
  /\ library = [k \in Keys |-> [key |-> k, at |-> IF k \in FirstItems THEN 1 ELSE 0,
                               is |-> IF k \in FirstItems THEN "live" ELSE "none"]]
  /\ version = 1
  /\ nodes = [k \in Keys |-> NoNode]
  /\ saved = 0 /\ lastError = "none"
  /\ sync = [s \in Syncers |-> NoSync]
  /\ pending = TRUE /\ wake = TRUE
  /\ stream = "down" /\ event = FALSE
  /\ link = Nothing /\ asked = {} /\ acts = 0 /\ faults = 0
  /\ scenario \in Scenarios /\ excused = {}

-----------------------------------------------------------------------------
(* Zotero, and its stream *)

\* An item is added, changed, put in the trash, taken out of it or deleted for
\* good.  Who listens is told.
Change(k, is) ==
  /\ version < MaxVersion /\ ("quiet" \in scenario => version = 1)
  /\ library[k].is # "gone" /\ is # "none"
  /\ library[k].is = "none" => is = "live"
  /\ version' = version + 1
  /\ library' = [library EXCEPT ![k] = [library[k] EXCEPT !.at = version', !.is = is]]
  /\ event' = (stream = "up" \/ event)
  /\ UNCHANGED <<nodes, saved, lastError, sync, pending, wake, stream, people, faults, excused>>

\* (Mutant: a connection is not followed by a sync.)
NoCatchUp(before) == before

\* What `listen` tells the watcher when it has connected: to catch up.
CatchUp(before) == TRUE

\* listen: connect and subscribe; `changed` for each library.
Connect ==
  /\ stream = "down"
  /\ stream' = "up"
  /\ pending' = CatchUp(pending) /\ wake' = CatchUp(wake)
  /\ UNCHANGED <<zotero, nodes, saved, lastError, sync, event, people, faults, excused>>

\* listen: topicUpdated
Told ==
  /\ event
  /\ event' = FALSE /\ pending' = TRUE /\ wake' = TRUE
  /\ UNCHANGED <<zotero, nodes, saved, lastError, sync, stream, people, faults, excused>>

Faulty == faults < MaxFaults /\ faults' = faults + 1
Fault == "faults" \in scenario /\ Faulty

Disconnect ==
  /\ stream = "up" /\ "disconnects" \in scenario /\ Faulty
  /\ stream' = "down" /\ event' = FALSE
  /\ UNCHANGED <<zotero, nodes, saved, lastError, sync, pending, wake, people, excused>>

-----------------------------------------------------------------------------
(* A sync *)

Me(s) == sync[s]
Become(s, next) == sync' = [sync EXCEPT ![s] = next]
Only(s, next) ==
  /\ Become(s, next)
  /\ UNCHANGED <<zotero, nodes, saved, lastError, watching, people, faults, excused>>

\* sync_library: the state that is stored.  Two at once excuse everything, and so
\* does a link that was begun before.
Begin(s, full) ==
  /\ Me(s).pc = "idle"
  /\ Become(s, [NoSync EXCEPT !.pc = "versions", !.was = saved,
                                  !.since = IF full THEN 0 ELSE saved])
  /\ excused' = IF \E r \in Syncers \ {s} : Me(r).pc \notin {"idle", "sleep"} THEN Keys
                ELSE IF link # Nothing THEN excused \cup {link.key} ELSE excused
  /\ UNCHANGED <<zotero, nodes, saved, lastError, stream, event, link, asked, scenario, faults>>

\* watch: everything that is pending is in this sync, and what comes later in another.
WatcherSyncs ==
  /\ wake /\ wake' = FALSE /\ pending' = FALSE
  /\ Begin(Watcher, FALSE)
  /\ UNCHANGED acts

ByHandSyncs ==
  /\ "by hand" \in scenario /\ acts < MaxActs /\ acts' = acts + 1
  /\ \E full \in BOOLEAN : Begin(ByHand, full)
  /\ UNCHANGED <<pending, wake>>

Changed(since) == {k \in Keys : library[k].at > since}

\* item_versions: the keys that have changed, and the version now.
Versions(s) ==
  /\ Me(s).pc = "versions"
  /\ Only(s, [Me(s) EXCEPT
       !.pc = "items", !.latest = version,
       !.todo = {k \in Changed(Me(s).since) : library[k].is \in {"live", "trash"}}])

\* items: a batch of them, as they are by now.  One that has gone is not there.
Items(s) ==
  /\ Me(s).pc = "items" /\ Me(s).got = {} /\ Me(s).todo # {}
  /\ \E batch \in SUBSET Me(s).todo :
       /\ \/ Cardinality(batch) = BatchSize
          \/ batch = Me(s).todo /\ Cardinality(batch) < BatchSize
       /\ Only(s, [Me(s) EXCEPT
            !.todo = @ \ batch,
            !.got = {library[k] : k \in {k \in batch : library[k].is # "gone"}}])

\* All are written.  The deletions are asked for if a version was held.
DeletedItems(s) ==
  /\ Me(s).pc = "items" /\ Me(s).got = {} /\ Me(s).todo = {}
  /\ IF Me(s).removing \/ Me(s).since = 0
     THEN Only(s, [Me(s) EXCEPT !.pc = "store"])
     ELSE Only(s, [Me(s) EXCEPT
            !.removing = TRUE,
            !.got = {library[k] : k \in {k \in Changed(Me(s).since) : library[k].is = "gone"}}])

\* The item at hand is dealt with, or could not be (report.errors).
Done(me) == [me EXCEPT !.pc = "items", !.item = Nothing, !.seen = NoNode, !.read = 0, !.tries = 0,
                       !.restored = FALSE]
Error(me) == [Done(me) EXCEPT !.errors = TRUE]

\* (Mutant: only what is referred to is kept.)
KeptIfReferenced(seen) == seen.referenced

EditedByPerson(seen) == seen.synced # Nothing /\ seen.version # seen.synced

\* apply_deletion: what is deleted in Zotero is kept here.
Kept(seen) == seen.referenced \/ EditedByPerson(seen)

\* apply_item: what is not written again.
Unchanged(me, seen) ==
  /\ ~me.restored
  /\ seen.held = me.item.at
  /\ seen.flagged = (me.item.is = "trash")

\* apply_item and apply_deletion, once the node has been found.
Decide(me, seen) ==
  IF me.item.is = "gone"
  THEN CASE ~Kept(seen) -> [me EXCEPT !.pc = "delete", !.seen = seen]
         [] Kept(seen) /\ seen.flagged /\ ~me.restored -> Done(me)
         [] OTHER -> [me EXCEPT !.pc = "edit", !.seen = seen]
  ELSE IF Unchanged(me, seen) THEN Done(me) ELSE [me EXCEPT !.pc = "edit", !.seen = seen]

NotFound(me) == IF me.item.is = "gone" THEN Done(me) ELSE [me EXCEPT !.pc = "create"]

\* find: read by its URL, or else undeleted (a transaction), and read again.
Find(s) ==
  /\ Me(s).pc = "items"
  /\ \E item \in Me(s).got :
       LET n == nodes[item.key]
           me == [Me(s) EXCEPT !.got = @ \ {item}, !.item = item, !.tries = 1]
       IN \/ n.state = "live" /\ Only(s, Decide(me, n))
          \/ n.state = "absent" /\ Only(s, NotFound(me))
          \/ /\ n.state = "deleted"
             /\ nodes' = [nodes EXCEPT ![item.key].state = "live"]
             /\ Become(s, [me EXCEPT !.pc = "again", !.restored = TRUE])
             /\ UNCHANGED <<zotero, saved, lastError, watching, people, faults, excused>>
FindAgain(s) ==
  /\ Me(s).pc = "again"
  /\ LET n == nodes[Me(s).item.key]
     IN Only(s, IF n.state = "live" THEN Decide(Me(s), n) ELSE NotFound(Me(s)))

Writes(s, k, n) ==
  /\ nodes' = [nodes EXCEPT ![k] = n]
  /\ Become(s, Done(Me(s)))
  /\ UNCHANGED <<zotero, saved, lastError, watching, people, faults, excused>>

\* create: refused if there is a node with the URL by now.
Create(s) ==
  /\ Me(s).pc = "create"
  /\ LET item == Me(s).item
     IN IF nodes[item.key].state # "absent"
        THEN Only(s, Error(Me(s)))
        ELSE Writes(s, item.key,
               [NoNode EXCEPT !.state = "live", !.version = 1, !.held = item.at, !.synced = 1,
                              !.flagged = (item.is = "trash")])

\* update: get_for_edit
Edit(s) ==
  /\ Me(s).pc = "edit"
  /\ LET n == nodes[Me(s).item.key]
     IN Only(s, IF n.state = "live" THEN [Me(s) EXCEPT !.pc = "save", !.read = n.version]
                ELSE Error(Me(s)))

\* What an update makes of the node (edit_data): the item's fields or, of an item
\* that has gone, the flag only; and the version that this makes.
Updated(n, item) ==
  [n EXCEPT !.version = @ + 1, !.synced = n.version + 1,
            !.flagged = (item.is # "live"),
            !.held = IF item.is = "gone" THEN @ ELSE item.at,
            !.edited = IF item.is = "gone" THEN @ ELSE FALSE]

\* update: save, against the version that was read; a few times.
Save(s) ==
  /\ Me(s).pc = "save"
  /\ LET item == Me(s).item
         n == nodes[item.key]
     IN CASE n.state # "live" -> Only(s, Error(Me(s)))
          [] n.state = "live" /\ n.version # Me(s).read ->
               Only(s, IF Me(s).tries = Attempts THEN Error(Me(s))
                       ELSE [Me(s) EXCEPT !.pc = "edit", !.tries = @ + 1])
          [] OTHER -> Writes(s, item.key, Updated(n, item))

\* delete: refused, if something refers to the node by now.
Delete(s) ==
  /\ Me(s).pc = "delete"
  /\ LET k == Me(s).item.key
     IN IF nodes[k].state # "live" \/ nodes[k].referenced
        THEN Only(s, Error(Me(s)))
        ELSE Writes(s, k, [nodes[k] EXCEPT !.state = "deleted"])

\* (Mutant: the version is stored whatever could not be written.)
StoredAnyway(me) == me.latest

\* The version that is stored at the end: the one that was read at first, after errors.
Stored(me) == IF me.errors THEN me.was ELSE me.latest

\* What has gone that a sync from 0 does not ask about.
Unasked(me) ==
  {k \in Keys : /\ me.since = 0 /\ library[k].is = "gone" /\ library[k].at <= me.latest
                /\ nodes[k].state = "live" /\ ~nodes[k].flagged}

\* save_library_state
Store(s) ==
  /\ Me(s).pc = "store"
  /\ saved' = Stored(Me(s))
  /\ lastError' = IF Me(s).errors THEN "items" ELSE "none"
  /\ Become(s, NoSync)
  /\ excused' = excused \cup Unasked(Me(s))
  /\ UNCHANGED <<zotero, nodes, watching, people, faults>>

\* A write fails (an exception that is the item's only).
WriteFails(s) ==
  /\ Me(s).pc \in {"create", "save", "delete"} /\ Fault
  /\ Become(s, Error(Me(s)))
  /\ UNCHANGED <<zotero, nodes, saved, lastError, watching, people, excused>>

\* A request to Zotero fails (ZoteroError): it is recorded, with the version that was
\* read at first; the watcher has the library pending again, and sleeps.
RequestFails(s) ==
  /\ \/ Me(s).pc = "versions"
     \/ /\ Me(s).pc = "items" /\ Me(s).got = {}
        /\ Me(s).todo # {} \/ (~Me(s).removing /\ Me(s).since # 0)
  /\ Fault
  /\ lastError' = "zotero" /\ saved' = Me(s).was
  /\ IF s = Watcher
     THEN pending' = TRUE /\ Become(s, [NoSync EXCEPT !.pc = "sleep"])
     ELSE UNCHANGED pending /\ Become(s, NoSync)
  /\ UNCHANGED <<zotero, nodes, wake, stream, event, people, excused>>

\* (Mutant: the loop waits to be woken by the stream.)
NotWoken == wake

\* After the sleep: `wake.set()`.
Woken == TRUE

Slept ==
  /\ Me(Watcher).pc = "sleep"
  /\ wake' = Woken
  /\ Become(Watcher, NoSync)
  /\ UNCHANGED <<zotero, nodes, saved, lastError, pending, stream, event, people, faults, excused>>

\* The server, or the command, dies.  The server is started again (and what is
\* raised in `watch` but a ZoteroError is the same: its task is run again).
Crash(s) ==
  /\ Me(s).pc # "idle" /\ Fault
  /\ Become(s, NoSync)
  /\ IF s = Watcher
     THEN pending' = TRUE /\ wake' = TRUE /\ stream' = "down" /\ event' = FALSE
     ELSE UNCHANGED watching
  /\ UNCHANGED <<zotero, nodes, saved, lastError, people, excused>>

Syncing(s) ==
  \/ Versions(s) \/ Items(s) \/ Find(s) \/ FindAgain(s) \/ Create(s) \/ Edit(s) \/ Save(s)
  \/ Delete(s) \/ DeletedItems(s) \/ Store(s)

-----------------------------------------------------------------------------
(* People *)

Acts ==
  /\ "people" \in scenario /\ acts < MaxActs /\ acts' = acts + 1
  /\ UNCHANGED <<zotero, saved, lastError, sync, watching, faults, scenario>>

PersonEdits(k) ==
  /\ Acts /\ nodes[k].state = "live"
  /\ nodes' = [nodes EXCEPT ![k].version = @ + 1, ![k].edited = TRUE]
  /\ UNCHANGED <<link, asked, excused>>

\* A document cites the item, which may make a node for it (`create_new`); or does
\* so no more.
PersonCites(k) ==
  /\ Acts /\ nodes[k].state # "deleted"
  /\ nodes' = [nodes EXCEPT ![k] =
       IF nodes[k].state = "absent"
       THEN [NoNode EXCEPT !.state = "live", !.version = 1, !.referenced = TRUE]
       ELSE [nodes[k] EXCEPT !.referenced = ~@]]
  /\ UNCHANGED <<link, asked, excused>>

\* The route deletes an item that is flagged: it looks, and then deletes.
PersonLooks(k) ==
  /\ Acts /\ nodes[k].state = "live" /\ nodes[k].flagged
  /\ asked' = asked \cup {k}
  /\ UNCHANGED <<nodes, link, excused>>
PersonDeletes(k) ==
  /\ k \in asked
  /\ asked' = asked \ {k}
  /\ nodes' = IF nodes[k].state = "live" /\ ~nodes[k].referenced
              THEN [nodes EXCEPT ![k].state = "deleted"] ELSE nodes
  /\ UNCHANGED <<zotero, saved, lastError, sync, watching, acts, scenario, faults, link, excused>>

\* An item that has been deleted is given back by hand: a sync does not know.
PersonUndeletes(k) ==
  /\ Acts /\ nodes[k].state = "deleted"
  /\ nodes' = [nodes EXCEPT ![k].state = "live"]
  /\ excused' = excused \cup {k}
  /\ UNCHANGED <<link, asked>>

\* link_item of a node made by hand: there is no node with the URL, and the item is
\* fetched; then the node is written, and refused if there is one by now.
PersonLinks(k) ==
  /\ Acts /\ link = Nothing
  /\ nodes[k].state # "live" /\ library[k].is \in {"live", "trash"}
  /\ link' = library[k]
  /\ excused' = IF \A s \in Syncers : Me(s).pc \in {"idle", "sleep"} THEN excused
                ELSE excused \cup {k}
  /\ UNCHANGED <<nodes, asked>>
PersonLinked ==
  /\ link # Nothing
  /\ link' = Nothing
  /\ nodes' = [nodes EXCEPT ![link.key] =
       IF @.state # "absent" THEN @
       ELSE [NoNode EXCEPT !.state = "live", !.version = 2, !.held = link.at, !.synced = 0,
                           !.flagged = (link.is = "trash"), !.edited = TRUE]]
  /\ UNCHANGED <<zotero, saved, lastError, sync, watching, acts, scenario, faults, asked, excused>>

People ==
  \/ \E k \in Keys :
       \/ PersonEdits(k) \/ PersonCites(k) \/ PersonLooks(k) \/ PersonDeletes(k)
       \/ PersonUndeletes(k) \/ PersonLinks(k)
  \/ PersonLinked

-----------------------------------------------------------------------------
Next ==
  \/ \E k \in Keys, is \in {"live", "trash", "gone"} : Change(k, is)
  \/ Connect \/ Told \/ Disconnect
  \/ WatcherSyncs \/ ByHandSyncs \/ Slept
  \/ \E s \in Syncers : Syncing(s) \/ WriteFails(s) \/ RequestFails(s) \/ Crash(s)
  \/ People

Spec == Init /\ [][Next]_vars

\* The event loop of the server runs its tasks, and Zotero can be reached again.
FairSpec ==
  /\ Spec
  /\ WF_vars(Connect) /\ WF_vars(Told) /\ WF_vars(WatcherSyncs) /\ WF_vars(Slept)
  /\ WF_vars(Syncing(Watcher))

-----------------------------------------------------------------------------
(* What the library in the database promises *)

\* A node is what Zotero made of its item last: also one that is deleted here, until a sync
\* undeletes it.  What has gone is not here, or is flagged (or a document's that cites it).
InStep(k) ==
  LET n == nodes[k]
  IN CASE library[k].is = "none" -> TRUE
       [] library[k].is = "gone" -> n.state = "live" => n.flagged \/ n.held = 0
       [] OTHER -> n.state # "absent" /\ n.held = library[k].at /\ n.flagged = (library[k].is = "trash")

\* The version that is stored is a promise: what Zotero did up to it is in the
\* database, although items change, go and are edited while they are fetched and
\* written one by one, and whatever failed or crashed.  Not of what is `excused`:
\* two syncs at once, a link during a sync, what was undeleted by hand, and what had
\* gone when a sync from 0 was made.
Reconciled == \A k \in Keys \ excused : library[k].at <= saved => InStep(k)

\* What a person has edited is not deleted by the sync (sync.py: "no person has
\* edited it").  Unless the edit comes after the sync has looked; or no sync has written the
\* node, which a document's citation made (edited_by_person says no of it, though a person
\* may have edited it since); or the node was flagged by an earlier pass, whose update has
\* made the version its own: the pass that repeats it then deletes what a person has edited.
EditedIsKept ==
  [][\A s \in Syncers, k \in Keys :
       /\ Me(s).pc = "delete" /\ Me(s).item.key = k
       /\ nodes[k].state = "live" /\ nodes'[k].state = "deleted"
       /\ nodes[k].edited
       => \/ Me(s).seen.flagged \/ Me(s).seen.synced = Nothing
          \/ Me(s).seen.version # nodes[k].version]_vars

\* When Zotero changes no more, the database catches up with it, or last_error says
\* that items could not be written.  (Unless everything is excused.)
CatchesUp == <>[](saved = version \/ lastError = "items" \/ excused = Keys)

-----------------------------------------------------------------------------
(* Why it keeps it *)

\* Every item is at a version that Zotero has been at; what a sync has written last, and no
\* person has edited since, is not `edited` (but by the flagging of what has gone).
WellKnown(k) ==
  /\ library[k].key = k /\ library[k].at <= version
  /\ library[k].at = 0 => library[k].is = "none"
  /\ nodes[k].synced # Nothing =>
       /\ nodes[k].synced <= nodes[k].version
       /\ nodes[k].synced = nodes[k].version /\ nodes[k].edited => nodes[k].flagged

\* Where a sync is, and what it holds there.
Holds(me) == me.got \cup ({me.item} \ {Nothing})
Decided(me, n) ==
  /\ n.state # "absent" /\ me.seen.version <= n.version
  /\ me.seen.version = n.version /\ n.edited => me.seen.flagged \/ me.seen.synced = Nothing
WellPlaced(me) ==
  /\ me.latest <= version /\ me.was <= version
  /\ \A x \in Holds(me) : x.is # "none"
  /\ \A k \in me.todo : library[k].is # "none"
  /\ me.removing => me.since # 0 /\ me.todo = {}
  /\ me.item = Nothing <=> me.pc \in {"idle", "sleep", "versions", "items", "store"}
  /\ me.pc = "versions" => me.got = {} /\ me.todo = {} /\ ~me.removing
  /\ me.pc = "store" => me.got = {} /\ me.todo = {} /\ (me.removing \/ me.since = 0)
  /\ me.pc = "create" => me.item.is # "gone"
  /\ me.pc = "delete" => me.item.is = "gone" /\ Decided(me, nodes[me.item.key])

\* What is to be in step when a sync stores its version is so already, or the sync still has
\* it to fetch, to write or to ask for; what it holds is how the item is, or has changed by now.
Brings(me, k) ==
  /\ me.was = saved /\ me.since \in {0, saved}
  /\ \A x \in Holds(me) : x.key = k =>
       /\ library[k] = x \/ (library[k].at > saved /\ library[k].at > me.latest)
       /\ x.is = "gone" => x.at > saved
  /\ k \in me.todo /\ library[k].at <= me.latest => library[k].is # "gone"
  /\ me.pc # "versions" /\ ~me.errors /\ library[k].at <= me.latest =>
       \/ InStep(k) \/ k \in me.todo \/ library[k] \in me.got \/ me.item = library[k]
       \/ library[k].is = "gone" /\ (me.since = 0 \/ ~me.removing)

\* Of what is not excused: one sync brings it, and no link while one does.
Works(s) == Me(s).pc \notin {"idle", "sleep"}
Known(k) ==
  /\ library[k].at <= saved => InStep(k)
  /\ \A s \in Syncers : Works(s) => Brings(Me(s), k) /\ \A r \in Syncers \ {s} : ~Works(r)
  /\ link # Nothing /\ link.key = k =>
       /\ \A s \in Syncers : ~Works(s)
       /\ library[k] = link \/ library[k].at > saved

IInv ==
  /\ TypeOK /\ saved <= version
  /\ link # Nothing => link.is \in {"live", "trash"}
  /\ \A k \in Keys : WellKnown(k)
  /\ \A s \in Syncers : WellPlaced(Me(s))
  /\ \A k \in Keys \ excused : Known(k)
=============================================================================
