# TLA+ models of Pangloss

Pangloss is a toolkit for prosopographical databases: documents (factoids, sources, bibliography...) and entities
(persons, places, types...) are trees of nodes in a graph database, Memgraph or Neo4j, which researchers edit through
a FastAPI server and a browser interface. This directory holds TLA+ models of those parts of it whose correctness
depends on the order in which things happen, the TLC configurations that check them on small instances, and proofs,
checked by TLAPS, that hold of every instance.

Modelled, checked and proved: **the worker that keeps derived facts up to date**, with the queue that writes leave it
(`Pending`, `DerivedWorker`, `DerivedStore`); **the writes of heads**, query by query, on both databases
(`HeadWrites`, `HeadStore`); **users and their sessions** (`Users`); **a Zotero library kept in the database**
(`Zotero`); **migrations** (`Migrations`); **the hierarchy of a typology** (`Typology`); **history** (`History`); and
**dates**: how days are counted, Easter among them, how dates are compared, recurrences, and what is on a day (`Days`,
`DateBounds`, `Recurrences`, `Almanac`).

Contents: [the system](#the-system), [how its parts interact](#how-the-parts-interact), [plan](#plan), [derived
facts](#derived-facts), [writes of heads](#writes-of-heads), [users](#users), [Zotero](#zotero),
[migrations](#migrations), [typology](#typology), [dates](#dates-and-calendars), [history](#history), [what the code
does otherwise](#what-the-code-does-otherwise), [what is proved](#what-is-proved), [what is only
checked](#what-is-only-checked), [what is not modelled](#what-is-not-modelled), [how to run it](#how-to-run-it).

## The system

A *head* is the node of a document or an entity; what is below it (embedded nodes, reifications, subclasses' fields)
is its tree, and is written with it. An update adds a `PGUpdate` node to the head: the version of a head is one more
than the number of them.

| Component (package) | State it keeps | Operations | What is hard | What makes it correct |
|-|-|-|-|-|
| **Writes of heads** (`pangloss-cypher`: `write_functions`, `validate_write`, `delete_node`, `relink`, `transactions`) | heads with their trees and edges, versions, `PGUrl` nodes, `deleted`, `marked_for_deletion` | create, update, delete, undelete, relink | a write checks, then writes, several queries later; two databases with different isolation; conflicts, deadlocks, runs again | no edit lost; nothing refers to what is deleted; a URL has one owner; the announced version is the one made |
| **Pending work** (`pangloss-cypher`: `pending`) | one `PGPending` node per head and kind of work: token, claim | mark (in the write's transaction), claim, complete, release | claims run out; a head is marked again while it is worked on | what is marked is done, after its last mark |
| **Derived facts** (`pangloss-derived`: `worker`, `store`) | facts and justifications, `PGDeriveRule` (hash, state), the lease `PGDeriveWorker` | batches, rebuilds, removal of rules | several processes, crashes, writes between what is found and what is written | stored facts are what the data give, but for what is pending |
| **History** (`pangloss-history`) | one entry per version of a head, a queue in each process | record, baseline, restore | a bounded queue that drops; announcements out of the order of commits | history has each version once, in order, after a baseline |
| **Users** (`pangloss-users`, `pangloss-api`: `tokens`, `throttle`) | accounts, token generations, failed logins | login, change of password, end of sessions, admin changes | read in one transaction, write in another; check, await, count | ended sessions stay ended; a limit on logins; an admin remains |
| **Migrations** (`pangloss-cypher`: `migrations`; `pangloss-cli`) | `PGMigration` with progress, `PGMigrationLock` | plan, lock, batches, resume, unlock | a crash between a change and its record; who has the lock | each change is made once to each node |
| **Bulk load** (`pangloss-memgraph`: `bulk`) | the lock of migrations, no constraints meanwhile | load in storage mode analytical | checks before it locks | no write while it loads |
| **Typology** (`pangloss-typology`) | a hierarchy of terms | move, merge, delete under a lock | a merge is many transactions | no loops; nothing keeps a merged term |
| **Review and publishing** (`pangloss-review`, `cypher.review`) | `review_status`, `published` of a head, comments | set the status (`checked` publishes), comment | the state is read in one transaction and set in another; the document is edited after it was read | what is published is what was checked; nobody checks their own edit |
| **Background tasks** (`pangloss-api`: `background`) | tasks of one event loop | supervise, restart, stop | cancellation while it sleeps | a task that fails is run again; none outlives the server |
| **Zotero** (`pangloss-zotero`) | a copy of a library and its version | sync, watch | a remote service that changes meanwhile | the copy is that of its version |
| **SDK server** (`pangloss-sdk-server`) | the built package on disk, the one that is served | build (under a lock of the process), load, serve | a build that fails or stops half way | what is served is a whole build |
| **Dates, calendars** (`pangloss-dates`, `pangloss-calendar`) | none | bounds, recurrences, conversions | edges of calendars | an interval contains what it stands for |
| **Reads and searches** (`pangloss-cypher`) | none | build and run one query | | the query's result |
| **Models** (`pangloss-models`) | classes, made at start | declare, resolve | | |
| **API, CLI, settings, SDK, interface** | what the above keep; a form, a token | route, call, show | | |

`PROJECT.json` lists them with their sources, and under `hazards` the lines where the code can go wrong in a way that
a test would hardly reach, each with the property that covers it, or why none does yet.

## How the parts interact

```
        browser, SDK ----> API ----> writes of heads ------ the database ------ reads
                                      |        |               |    |
                     marks, in the    |        | announces     |    | PGMigrationLock:
                     write's own      |        | after it      |    | writes are refused
                     transaction      v        v commits       |    v
                                  PGPending   History,     typology   migrations, bulk load
                                      |       review...    (relinks)
                              claims  v
                               derived worker (one, by a lease) ----> facts and justifications
```

* A write marks the heads it changes as pending **in its own transaction** (`pending.mark`), so that a mark is never
  lost when the write is not. `DerivedWorker!Write` is a write as the worker sees it: the data change and the mark
  together.
* A write announces itself **after** its transaction committed, in its process. Nothing orders two announcements, and
  a process that dies in between announces nothing. `HeadWrites!Announce` is that step, and `History!Submit` what the
  listener of history makes of it.
* The worker takes what is pending, reads the heads in one transaction and writes facts in later ones, while writes go
  on. Only a lease keeps two workers apart.
* A relink (the merge of two typology terms) is many transactions of the same kind as updates, with updates in
  between: `HeadWrites` has its queries, `Typology` what a merge of several relinks does to the hierarchy, `History`
  what its announcements say.
* `Users`, `Zotero`, `Migrations`, `Typology` and `History` take a transaction as one step. That a write of a head is
  as good as made at one moment, on Memgraph, is what `HeadWritesProofs!ImplementsStore` proves; on Neo4j it is so but
  for what is said [below](#what-the-code-does-otherwise).

## Plan

Modules, in the order of what matters most; each is written to be proved about (parameters are constants with named
assumptions, one action per operation, invariants are conjunctions of named parts, no RECURSIVE operators).

| | Modules | State |
|-|-|-|
| 1 | `Pending`, `DerivedWorker`, with `DerivedStore` as what the worker promises | checked, proved |
| 2 | `HeadWrites`, with `HeadStore` as what the calls promise | checked; proved for Memgraph without relinks, and of versions for both databases with relinks |
| 3 | `Users`: each call split where it awaits | checked, proved |
| 4 | `Zotero`: a sync, request by request, with people, faults and a stream | checked, proved but for liveness |
| 5 | `Migrations`: plan, lock, batches, resume, undo, unlock, a server that writes | checked, proved |
| 6 | `Typology`: moves, edits, merges, deletions, restores | checked, proved |
| 7 | `Days`, `DateBounds`, `Recurrences`, with `Almanac`, who counts days | checked; proved |
| 8 | `History`: queue, thread, baselines, restores | checked, proved but for liveness |
| 9 | Review and publishing: a look and a status, with edits in between | not begun |

Two abstract specifications are stated and refined (`DerivedStore`, `HeadStore`). The other modules have their promise
as invariants over history variables, which say what happened, rather than as a specification of their own.

## Derived facts

### Correspondence

| TLA+ | Code |
|-|-|
| `pending`, `token`, `claimed` | `PGPending` nodes of one kind of work, their `token`, and `claimed_until >= now` |
| `MarkHeads`, `ClaimHeads`, `CompleteHeads`, `ReleaseHeads`, `ClaimRunsOut` | the queries of `pending.py`; time |
| `content[h]` | the tree of `h`, as far as rules can tell: the justifications that it supports |
| `justs`, `stamped[w]` | `PGJustification` nodes; those with the generation of the rebuild of `w` |
| `built`, `ready` | `PGDeriveRule`: `hash`, `state = "ready"` |
| `lease`, `leaseHolds` | `PGDeriveWorker`: `holder`, `until >= now` |
| `pc`, `batch`, `seen`, `found`, `short`, `fresh`, `rest`, `seeds` | where each process is in `run`, `sync_rules`, `rebuild`, `drain`, `process_batch`, and their local variables |
| `Enter`, `Renew`, `Wake`, `ChunkDone` | the four places where `take_lease` is called, two of which ignore its answer |
| `BeginRebuild` ... `EndRebuild`, `RemoveFacts`, `ForgetRule` | `rebuild`, `remove_rule`, a transaction each |
| `Claim`, `Find`, `Compare`, `WriteNew`, `Evidenced`, `DeleteStale`, `Complete` | `process_batch`, a transaction each |
| `RunFails`, `BatchFails`, `Stop`, `Crash` | an exception in `run`, one in the loop, a cancellation, the death of the process |

A fact is there as long as a justification of it is, and both change in one transaction, so facts are not kept apart.
A justification `j` rests on the heads `Evidence[j]`; a rule admits `Body[r]`. This is what the worker's correctness
depends on: what a query gives depends on the content of several heads, and a batch looks at it from some of them.
Tokens are uuids in the code, and numbers given out once here. The lease is a Boolean that may run out where `LapseAt`
says: the code has no fencing, so that its correctness rests on work being shorter than the lease (30 s, renewed after
every batch). That assumption is a constant, `{"idle"}` in the runs; what happens at the one place where the code
itself waits for longer is said [below](#what-the-code-does-otherwise).

### Runs

| Run | Instance | Shows |
|-|-|-|
| `derived_safety` | 2 heads, 2 justifications (one rests on both heads, one on one), 2 versions of the rule, 2 processes, `Batch` 2 | `IInv`, `OneWorkerWorks`, `Accounted`, `RightIsKept` and refinement of `DerivedStore` |
| `derived_limit` | one version of the rule, `MaxPerSeed` 1 | with a seed that overflows: outside rebuilds, nothing right is deleted |
| `derived_live` | one justification, fairness | every mark is done, and what is stored becomes what the data give |

Bounds: `MaxWrites` 2, `MaxFailures` 1; `MaxDeploys` is 1 in `derived_safety`, 0 elsewhere. Two heads are enough for a
justification that is seen from one head of a batch and not from another; two writes for one before and one after any
step of a batch; one failure for a crash or an exception anywhere, and a second process that takes over from it; two
processes for everything that the lease has to prevent. The number of states is finite by these bounds alone, and the
proofs do away with all of them.

### Fairness

`FairSpec`: a server that is down is started again, a worker that can go on does (its tasks are those of an event
loop, and the supervisor runs them again), and time passes (a lease or a claim that nobody renews runs out). Failures
are bounded, as no worker gets anywhere if each batch fails; writes are bounded for `Converges`, whose claim is about
what happens when they stop.

## Writes of heads

### Correspondence

| TLA+ | Code |
|-|-|
| `db.state`, `db.version`, `db.refs`, `db.urls`, `db.marked` | heads and `deleted`; 1 + the number of `PGUpdate`; edges to entities; `PGUrl` nodes; `marked_for_deletion` |
| `db.revived` | auxiliary: undeleted, and not written since |
| `Asks[r]`, `req`, `done` | the calls and their arguments; how they end: the value or the exception the caller has |
| `attempt`, `TryAgain`, `CheckConflict` | `write_with_retries`, `retry_on_check_conflict` |
| `view`, `changed`, `edged`, `sets`, `links`, `makes` | the databases: see below |
| `Lock`, `ReadHead`, `FindInline`, `CheckRefs`, `CheckFree`, `Replace`, `CheckUrls`, `MergeUrls`, `Render`, `Commit` | the queries of `create_head_node` and `update_head_node`, in their order |
| `FindNode`, `FindHolders`, `Mark`, `Flag` | `soft_delete` and `undelete`: FIND, REFERENCES, MARK, DELETE and UNDELETE queries |
| `FindBatch`, `LockHead`, `Rewire` | `relink`: one batch a transaction, each head locked in it, then rewired |
| `Announce` | the write event after the commit, and the return of the call |

*Inline entities*: a document may contain an entity with a URL (`key`), which is used if there is one and made
(`inline`) if not: `FindInline`. This is where two documents written at the same moment meet.

**The databases** are external, and modelled from how the code uses them, what its dialects say, and the notes of its
documentation (`docs/memgraph.md`, `docs/large-data.md`, `docs/typology-implementation.md`,
`docs/derived-implementation.md`):

* `Snapshot = TRUE`, Memgraph: a query reads what was committed when its transaction began (`view`). A transaction
  that writes to a node that another has written to, uncommitted or since it began, has a write conflict, and the
  driver runs it again (`WriteConflict`). Unique violations are found at the commit.
* `Snapshot = FALSE`, Neo4j: every query reads what is committed; a write waits for the transactions that have written
  to the node; a circle is broken by stopping one of them (`Deadlock`), which the driver runs again. A unique
  violation is found at once.
* On both, two transactions that make edges at one node do not disturb each other, while an edge and a change of
  properties do: this is what makes a reference and a delete of the same entity exclude each other on Memgraph.

A write of `Writes(p, S)` is enabled when nobody else's is in the way, `Held`; what is committed meanwhile is told to
the transactions that are open (`Told`). `LockHead` takes the locks of a batch in any order; the code sorts them, so
the model has more behaviours than the code there, and not fewer.

### Runs

| Run | Instance | Shows |
|-|-|-|
| `heads_snapshot` | Memgraph; two processes make any three (or fewer) of eleven calls | `IInv`, `NoDeadRefs`, `OneOwner`, `SharingIsNoConflict`, `EditsAreNotLost`, `AnnouncedVersions`, refinement of `HeadStore` |
| `heads_committed` | Neo4j; any three of thirteen calls, a relink among them | `EditsAreNotLost`, `AnnouncedVersions` |
| `heads_live` | Neo4j, fairness; any two of nine calls | `CallsEnd` |

The calls (`MCHeadWrites`) are chosen so that any two of them meet: two creates and two updates of the same document,
updates from the same version, documents that name the same new URL inline, entities that are given that URL, entities
that refer to each other, delete and undelete of what others refer to, and a relink of it. Three calls by two
processes: two are concurrent in any interleaving of their queries, and a third comes before, between or after them,
which is what an interleaving of two transactions with a committed write in between needs. A process may fail at any
query. `heads_live` has two entities of its own (`e5`, `e6`) that refer to a third: a relink of that locks them one by
one, an update of the one that refers to the other locks them in the other order, each waits for the other until the
database stops one, and both must end. `WriteAttempts` is 3, `RelinkBatch` 2 where a relink is made (so that a batch
locks two heads and several batches may be needed). Deadlock is not checked, because the system stops when all calls
are made; that calls end is `heads_live`. Processes are symmetric in the safety runs; the liveness run uses no
symmetry.

### Fairness

`FairSpec`: a process goes on with its next query (weak fairness), the database finds deadlocks (weak fairness), and a
write that waits for a lock has it at last (strong fairness, per lock-taking place: Neo4j queues for locks, so that
who waits is served although others take the lock before it). A call runs out of attempts by itself. Nothing is
claimed on Memgraph, where the driver runs a transaction again for up to `max_transaction_retry_time`, and in which
the end of a call rests on that clock.

### A document that names a new entity

`SharingIsNoConflict` is about calls, not about a state of the database. Two documents that name the same new entity
at the same moment both find that it is not there, and both make it; one of the two is refused when it commits, and
`retry_on_check_conflict` runs it again, so that it finds what the other has made. The property says that a caller has
a conflict only for a reason: what was there at first (`Preceded`), or a call that came before it (committed, or
ended) and made, gave or deleted the same (`Rivals`); never another call that only names the entity that it names,
too.

## Users

`Users` is `pangloss_users.service` over `cypher.users`, as the routes call it. Each call of the service is one
transaction or more, and other requests are served between any two of them.

| TLA+ | Code |
|-|-|
| `users[u]` | `PGUser`: whether it is made, `is_admin`, `disabled`, the password its hash is of (`outdated`: of old parameters), `token_generation` |
| `tokens`, `expired`, `revoked`, `kept` | the JWTs and personal tokens that were made; time; `PGRevokedSession`; `PGAccessToken` |
| `Login`, `Verify`, `Rehash`, `Issue` | `authenticated_user`, `authenticate`, which stores a new hash if the old is outdated, and the answer |
| `Refresh`, `Request`, `ReadUser`, `ReadRevoked`, `ReadPersonal`, `Admit` | `dependencies`: the user, whether the session is revoked, what the route asks of the user |
| `Read`, `End` | `set_password`, `change_password`, `end_sessions`: the generation is read, and written one higher in a later transaction |
| `Set`, `CreateUser`, `CreatePersonal`, `RevokePersonal`, `Revoke` | the other writes, a transaction each |
| `Token.with`, `bad`, `endedAt`, `lost` | history: the password a session was begun with, whether a token was bad when the request began, when sessions were last ended, whose update overwrote one it had not seen |

`users_sessions`: three users (two admins, one yet to be made), two requests at once, of any of five workloads
(sessions; passwords; two admins; new users; personal tokens), at most five tokens of which one expires. Two requests
are enough for each read and write that another may fall between; three users for two admins who take each other's
rights. `EndedAreDead` and `SessionsOfThePassword` say that what is ended stays ended, and hold but where an update
has written over another (`lost`): two ends at once raise the generation once, so that a token that was made between
them is good again, and a login that hashes a password again may write an old password over a new one.
`BadTokenRefused`: a request with a revoked token does nothing. `LastAdminByTwo`: no admin is left only if two take
each other's rights at once. Nothing is claimed under fairness: a request that ends is one that the caller waits for.

## Zotero

`Zotero` is one library: the watcher of the server (`watch`, `listen`), a command that syncs by hand, people, and
Zotero itself, which is external and modelled from the requests of `client.py`.

| TLA+ | Code |
|-|-|
| `library`, `version`, `stream`, `event` | the items at Zotero with the versions that changed them; the connection to its stream |
| `nodes[k]` | the node with the item's URL: state, `meta.version`, `zotero_version`, `zotero_synced_entity_version`, `removed_from_zotero` |
| `saved`, `lastError` | `ZoteroLibrary` |
| `sync[s]` | where each sync is: what is to be fetched, what was, the item at hand, the node as `find` gave it; `was` is the version stored when it began, which is stored again if there were errors |
| `Versions`, `Items`, `DeletedItems`, `Store` | the requests of `sync_library`, and the version that is stored last |
| `Find`, `FindAgain`, `Create`, `Edit`, `Save`, `Delete` | `apply_item` and `apply_deletion`, a transaction each |
| `WatcherSyncs`, `Told`, `Connect`, `Slept` | the loop of the watcher: `pending`, `wake`, the sleep after a failure |
| `Person...` | edits, citations, deletes, undeletes and links, of the API |
| `WriteFails`, `RequestFails`, `Crash`, `Disconnect` | an exception of one item, `ZoteroError`, the death of the process, a lost connection |

`zotero_sync`: two items of which Zotero has one at first, batches of one (so that the second item changes while the
first is written), and one of three scenarios: a person and a fault, or a fault or a lost connection, and two changes
at Zotero; or a sync by hand and a fault, and one change. `Reconciled` is what the stored version promises. It excepts
(`excused`) what the code cannot or does not keep: two syncs at once, a link during a sync, what was undeleted by
hand, and what had gone when a sync from 0 was made. `EditedIsKept`: a sync deletes nothing that a person edited
before it looked, but for two kinds of nodes whose edits the code does not see
([below](#what-the-code-does-otherwise)). `CatchesUp`: when Zotero changes no more, the database catches up.

Fairness: the tasks of the event loop go on (`Syncing(Watcher)`, `WatcherSyncs`, `Told`, `Slept`), and Zotero can be
reached again (`Connect`); faults are bounded, as nobody catches up with a service that never answers. The command by
hand is under no fairness.

## Migrations

`Migrations` is one migration, a sequence of changes, as `pangloss migrate` applies and undoes it.

| TLA+ | Code |
|-|-|
| `plan` | the kinds of its changes (`batch_kind`): in windows of ids, of what is left, at once, or of the database itself |
| `done[n][i]` | how often change `i` was made on node `n`: what it does to it is abstracted to that |
| `status`, `cursor`, `lock` | `PGMigration` and its cursor, `PGMigrationLock` |
| `Plan`, `Lock`, `Resume`, `Running` | what is to be applied is read; the lock; `stored_progress`; the record |
| `Window`, `Rest`, `Whole`, `Save`, `Group`, `Applied`, `ForgetCursor` | `runner`: a batch with its progress in one transaction, a change at once and its progress in another, or groups of changes |
| `Undo`, `Unrecord`, `Unlock`, `PersonUnlocks` | `unapply`, the record, `finally`, `--unlock` |
| `Fails`, `Failed`, `Stopped` | a change that fails, and its record; a process that is killed, or interrupted |
| `Write`, `Commit` | a request of the server, which looks for the lock (`refuse_while_migrating`) and commits later |

`migrations_runs`: two nodes and a third that the server may write, with an id before or after the cursor; two
migrations, which have a change of each kind; batches of one; two processes and three commands among them, three
faults. Three commands: one that fails, one that goes on, and one that had planned before it. `AppliedIsDone`: what is
recorded as applied was made on every node. `BatchesOnce`: no batch is made twice. `WorksAlone`: commands and writes
that begin later keep apart. There is no liveness: a command is run by a person.

## Typology

`Typology` is a vocabulary: `past[t]` has the supertype of each type in each of its versions, `given[h]` the type of a
head.

| TLA+ | Code |
|-|-|
| `Below`, `RowBelow` | `is_below` in the database, where what is deleted keeps its place; `descendants` of the rows that a reader sees |
| `BeginMove`, `ReadVersion`, `MayMove`, `Move` | `move`: a look without a lock, the version, `check_move` under the lock with the update, tried again when the version has changed |
| `BeginEdit`, `Edit` | `update`, and the API's own update of an entity, which may be of any version |
| `BeginDelete`, `Delete` | the look of the route, and `soft_delete` |
| `BeginMerge`, `RelinkSubtypes`, `Retype` and then `Move`, `Delete` | `merge_counted`: a move of its own, relinks of subtypes and of heads, a move of what is merged to the top, a delete |
| `BeginRestore`, `BringBack`, `Revive`, `Restore` | `history.restore` of a type |
| `Create`, `Undelete`, `Give` | calls of one transaction |

`typology_forest`: three types in three shapes, a head, two processes and three calls among them. Three types are
enough for a loop that no call alone would make, and three calls for a merge or a move with two others in between.
`NoLoop` (no type is below itself), `NothingBelowDeleted` (a merge or a delete leaves nothing behind) and
`EditsKeepPlaces` (an edit undoes no move) hold but for what history variables say: `astray`, a restore or a forced
edit, and `strays`, what a merge has put below a type that was deleted meanwhile.

## Dates and calendars

These are pure functions: operators, compared by someone who counts.

| TLA+ | Code |
|-|-|
| `Days` | `calendar.py`, `easter.py`: days by number and by name, weekdays, Easter, in two calendars |
| `DateBounds` | `bounds.py`, `edtf.py` (150X), `models.work_out`, `rules.py`: four bounds of a date, and how two dates are compared |
| `Recurrences` | `recurrence.py`, `query.py`, `pangloss_calendar`: rules, their keys, what is on a day, the days of a stretch |
| `Almanac` | no code: the reference. A person begins at a day that is known and counts, by the day or by whole years; the moon of Easter is from the tables of the nineteen years and of the epact; what a rule falls on is counted in the month |

`almanac_days`: every year from -4799 to 9999, and every day of 1500, 1501, 1504 and 1600 (a leap year in one
calendar, a common year, a leap year in both, a leap century), in both calendars, with 200 documents and 38
characterisations: exact, about, with digits left out, unknown at one end, periods, and recurrences of each kind of
rule, by intervals, excluded days and feasts. The dates are such as the code accepts: `IsSaid` (`check_date`, the year
of an EDTF date, padding that does not leave the allowed years), `IsRule` (`RecurrenceRule.__post_init__`),
`IsAccepted` (`_span_of_lifetime`). A document on a feast is in the calendar of the feast; the others are not among
what the person is asked of. `CalendarsAreCounted` compares number, name, weekday and Easter with what was counted,
and says that the code accepts the date. `FoundIsWhatIsOn` says that what a query, the page of a day and the days of a
stretch find is what is on: this is what keys have to be right for, since a rule that lacks the key of a day is never
tried on it. The instance has more days than rules have cases, and both properties are proved for all days and dates;
what is left out is a date whose doubt leaves the years that the code allows, which `padded_bounds` would fail on.

## History

`History` is the recorder of a server (a queue, a thread), the store in SQLite, the command `baseline`, and restores.
A write of a head is one step, and its announcement another.

| TLA+ | Code |
|-|-|
| `contents[h]` | what a head is in each version, and of which version that is a restore |
| `says`, `ReadForm`, `Submit` | the write event, with the entities made inline before the document; of a relink, read after it |
| `queue`, `worker`, `Take`, `Select`, `Insert`, `StoreFails` | `Recorder`: the bounded queue, `_next_batch`, `SqliteStore.append`, whose numbers are read before its transaction |
| `store` | the table of records, in the order of their numbers |
| `Restore`, `Look`, `Revive`, `ReadVersion`, `Save` | `restore`: the record, the head, an undelete, the version, an update of it |
| `Baseline`, `BaselineLooks`, `BaselineReads`, `BaselineSelects`, `BaselineInserts` | `baseline`: of each head, its latest record (which may be of the version listed: nothing is to be done), and then the head; records in one batch at the end |
| `Crash` | the death of the server, or a stop whose queue is not written in time |

`history_records`: two heads, of which one may be there at first and may have no record; two callers and three calls
among them (a run of `baseline` is one); a queue of one, so that it is full, and batches of two; one fault. `IInv` has
that every record, in the store or on its way to it, says what the head was in its version, and that a restore brings
back what was; `BaselineMends`, that after a baseline each head has a record of the version it had when it began or a
later one; `EndsRecordedOrMissed`, that nothing stays behind in the queue, and nothing is lost that was not counted as
dropped, failed or dead with the server. A batch of records has numbers of several heads in the code: the model
compares the first head's only (`FitsStore`), which is where two processes that write the same head meet.

Fairness: what has committed is announced (`ReadForm`, `Submit`), and the thread runs (`Take`, `Select`, `Insert`).
New calls, restores and baselines are under none.

## What the code does otherwise

Where a comment or the documentation says more than the code does, the model does what the code does, and the property
says what it excepts. Each was met as a counterexample of TLC to the property without the exception.

| Where | What happens | In the model |
|-|-|-|
| derived worker, `worker.py:354` | After failed batches the worker sleeps for up to 60 s and goes on without asking for its 30 s lease; another has it by then. Both work, and a fact found before a write is written after the other has done that write: wrong, with nothing pending. | `LapseAt` with `"backoff"` |
| derived worker, `worker.py:300` | A rebuild gives no generation to what a seed past `max_per_seed` gave before, and then removes what has none; `docs/derived-implementation.md:785` says that such a head's existing justifications are kept as they were. A batch keeps them. | `RightIsKept`: `UpToDate`; `Sweep` |
| derived worker, `worker.py:233` | A rule that is taken out of the code and put back, with no worker in between, has the same hash and is not built again; writes meanwhile left no mark for it. | `RollsBack` |
| heads, Neo4j | Two updates give their entities the same new URL: both find it free, the MERGE of the second finds the node of the first, and both own it. | `OneOwner` is checked on Memgraph |
| heads, Neo4j | A document that refers to an entity is written while the entity is deleted; neither locks what it has read, and both succeed. | `NoDeadRefs` is checked on Memgraph |
| heads, Neo4j | An update that starts just before its head is created locks nothing, then reads it; two such updates both replace version 1. | `EditsAreNotLost` is checked on calls that do not do so |
| heads, Memgraph, `relink.py:201` | Two relinks at once of one head (two merges, of two terms that it has; `service.py:315` of the typology takes no lock) make edges at it, which do not disturb each other: both count the updates before they see the other's, and announce the same version. | `VersionsAnnounced`: `SoleRelink` |
| heads, `build_update_query.py:119` | An update of an entity that is marked for deletion replaces its properties, and with them `meta.marked_for_deletion`: the mark is dropped, which `docs/models.md:118` says is kept until the entity is deleted. | `HeadStore!Written` |
| Zotero, `sync.py:149` | The flag of an item that is gone is an update of the sync, which makes the node's version its own: when the pass is repeated, what a person had edited is no longer seen as edited, and is deleted. | `EditedIsKept`: `seen.flagged` |
| Zotero, `sync.py:43` | A node that a citation made, and no sync has written yet, has no version of a sync (`zotero_synced_entity_version`), so that `edited_by_person` says no of it, whoever has edited it; when its item is gone, it is deleted, although `sync.py:141` says "no person has edited it". Met in the proof of `EditsAreKept`: it takes three acts of a person (citing, editing, no longer citing), which the run does not have. | `EditedIsKept`: `seen.synced = Nothing` |
| users, `service.py:156`, `service.py:118` | The generation is read in one transaction and written one higher in another: of two ends of sessions at once one increment is lost, and a token made between them is good again, although `end_sessions` says that "every token made until now stops working". A login that stores its password hashed again may put it over a password that was changed meanwhile. | `EndedAreDead`, `SessionsOfThePassword`: `lost` |
| migrations, `runner.py:282` | A change that is made at once commits, and its progress is kept in a later transaction: after a stop between them it is made again. | `BatchesOnce`: `unsaved` |
| migrations, `transactions.py:362` | A write that looked for the lock before it was taken is not waited for (as its docstring says): it commits beside the migration, and to nodes that the cursor may be past. | `WorksAlone`: `overtaken`; `AppliedIsDone`: `late` |
| migrations, `runner.py:207` | Between a command that stopped and the one that goes on the server writes; what it writes where the cursor has passed is never migrated, and the migration is recorded as applied. | `AppliedIsDone`: `late` |
| typology, `restore.py:122`, `routes/models.py:435` | A restore, and an update with `If-Match: *`, write the place a type had, without the lock of the hierarchy: they can make a loop. | `NoLoop`: `astray` |
| day page, `graph.py:480` of the calendar | The query of the page returns no `leap_shift`, so that a rule which has it is put a day early in leap years; `docs/calendar-implementation.md:130` says that such shifts are supported, and `guide/calendar/README.md:72` that the feast falls a day later in a leap year. | `FoundIsWhatIsOn`: `LeapShifted` |
| history, `relink.py:100` | A relink announces the version it has made with what the head is when it is read, after later writes: a restore of that version gives another. | `RecordsAreRight`: `late` |
| history, `baseline.py:107` | A record without content (a delete; a relink of what cannot be read) counts as one of its version: such a head gets no baseline. | `LatestVersion`: `BaselineMends` is about records, not content |
| history, `store.py:145` | The number of a batch's first record is read before its transaction: a server and a command give the same one, and the batch of the later is lost, and counted as lost. | `Insert`, `BaselineInserts` |
| bulk load, `bulk.py:231` | It checks before it takes the lock of migrations, and drops all constraints, that of the lock too (`migration_backend.py:60`): a second command can make a second lock, either removes both, and what puts the constraints back then finds none of them. | not modelled |

## What is proved

Every theorem is checked by TLAPS to the last leaf, from the assumptions on the constants that the modules state (and
that TLC evaluates in every run), for any number of heads, justifications, versions of rules, calls and processes. The
bounds of the runs are parameters there, of any size. The assumptions are that ids of different things are different,
that there are finitely many of what the code walks through (items of a library, heads with a history, nodes of a
migration), that limits and attempts are not zero, and that what there is at first is well formed.

A safety property is hardly ever inductive: what a process has read, and is about to write, is not in it. Each module
has an `IInv` that says this too; a run checks it (so that TLC has refuted the earlier, wrong forms of it), and the
proofs show that `Init` gives it, that each step keeps it, and that it gives the properties.

### `DerivedWorkerProofs`

| Theorem | States |
|-|-|
| `TypeCorrect` | `Spec => []TypeOK` |
| `OneWorker` | `LeaseOutlivesWork`: two workers never work at once |
| `Invariant` | `LeaseOutlivesWork`, no rollback: `Spec => []IInv` |
| `NothingIsForgotten` | so `Spec => []Accounted` |
| `RightStays` | so the action property `RightIsKept` |
| `ImplementsStore` | so `Spec` implements `DerivedStore` |

Assumptions beyond the constants: `LeaseOutlivesWork` (the lease does not run out on a process that works, or sleeps
after a failure) and `~RollsBack`: these are exactly what the code does not always keep
([above](#what-the-code-does-otherwise)).

`Accounted` alone is not inductive: it says nothing of a worker that has found and not yet written. `IInv` adds

* `WorkerHoldsLease` and `Synced`: who works has the lease, and works on batches only when the rule is built;
* `DrainInv`: what a batch has found is right, for each justification it will replace, *or* a head of it was written
  since the claim, so that the mark stays when the batch completes (`WrittenSince`: the token has changed). Then, what
  is still to be written or deleted is what is missing for that;
* `RebuildInv`: the same of a rebuild, of the seeds already gone through: right, or pending, or a seed that overflows.
  At the sweep, all seeds are gone through, and what has not the generation is not right.

The proof that a step keeps it has a lemma per group of actions, a step per action, and below it one per conjunct that
it disturbs. A write is the interesting step: it makes the content of a head other than what was found, and gives it a
new token in the same step.

### `HeadWritesProofs`

| Theorem | States |
|-|-|
| `TypeCorrect` | `Spec => []TypeOK`, on both databases, relinks included |
| `Invariance` | `Atomic`: `Spec => [](IInv /\ Routes)` |
| `ReferencesLive`, `UrlsOwned` | so `[]NoDeadRefs`, `[]OneOwner` |
| `ConflictsAreReal` | `Atomic`, `WriteAttempts > 1` (the code has 3): so `[]SharingIsNoConflict` |
| `ImplementsStore` | so `Spec` implements `HeadStore`: a call acts at one moment, that of its commit, and finds there what it checked queries before |
| `LocksHold` | `Locking`: `Spec => [](TypeOK /\ Routes /\ LInv)` |
| `NoLostEditsByLocks`, `VersionsAnnouncedByLocks` | so, with relinks, `EditsAreNotLost`, `AnnouncedVersions` on Neo4j |
| `ViewsHold` | `Snapshot`: `Spec => [](TypeOK /\ Routes /\ RInv)` |
| `NoLostEdits` | so, with relinks, `EditsAreNotLost` on Memgraph |
| `VersionsAnnounced` | `Snapshot`, `SoleRelink`: so `AnnouncedVersions` on Memgraph |

`Atomic` says `Snapshot`, and that no call is a relink. On Neo4j `NoDeadRefs` and `OneOwner` do not hold
([above](#what-the-code-does-otherwise)); of a relink, `NoDeadRefs` does not hold on either (it moves references to a
node that may be deleted by then). What is said of versions does not depend on that.

The argument: what a process has checked, it has checked in its `view`; what it decides takes place in `db`. The
invariant relates the two.

* `Kept(p)`: a head that nobody has written to since `p` began is as `p` sees it, and what refers to an entity that
  has had no new edge since, `p` sees referring to it.
* `Locked(p)`: where `p` has written, nobody has written since it began, and nobody else is writing. With `Kept`, the
  heads that `p` has written to are still as it sees them.
* `Knows(p)`: what each place of the transaction means: what has been checked in the view, what has been written to,
  which version will be announced.

Together they give, at the commit, that the version read is the version there is, that what is referred to is live (a
reference writes an edge at it, a delete its properties, and those exclude each other), that an entity that is deleted
has no holder, and that URLs are free or its own. `Routes` says which places each operation goes through. Most steps
change only what one process knows, and one lemma (`StepKinds`) says so; the commit is the step that the others feel,
and `Gentle` (a commit changes no head, and makes no reference, but where the others are told of it) is what keeps
`Kept` for them.

On Neo4j nothing is kept for a transaction to see: each query reads what is committed by then, and the argument is
about locks. `Locking` says `~Snapshot`, and that a head which one call creates no other updates: an update begins
with the lock of its head, and there is nothing to lock before the head is made (that case is
[above](#what-the-code-does-otherwise)). `LInv` has

* `Standing`: so what an update is of is there from the beginning or never, and to have passed the lock is to have it;
* `Owns(p)`: nobody else writes to the properties of a head that `p` writes to, or makes what `p` makes, which is not
  there yet;
* `LKnows(p)`: what `p` has read of the heads that it has locked, in terms of what *is*: the head of an update is
  live, and of the version it was made from; each head of a batch that is no longer to be locked is locked, and the
  versions that are announced, which are read once every lock is had, are one more than those that there are;
* `Blank`: what is not there has no version (the first is what a create announces) and refers to nothing.

A lock that is not yet had is what makes this different from `IInv`: a delete reads before it locks, so that all that
is known of its node is that it stays there.

On Memgraph a relink makes edges at the heads of its batch, and edges that two transactions make at one node do not
disturb each other: what a relink has seen of a head, another may have changed, and both make the same version. An
update that has changed the properties does disturb it. `RInv` is of four parts for each process, besides `Locked`:
`Present` (what it has seen is still there), `Unwritten` (what nobody has written to since is as it was, which is what
an update needs, since it writes to properties and every relink of its head is told of), `Unrelinked` (of the one
relink there is: what nobody has changed the properties of is of the version that it has seen) and `RKnows` (what its
place means). That there is one relink (`SoleRelink`) is used at the commit of another call only, which is not a
relink since each call is one process's (`Single`).

`LInv` and `RInv` are in no run: TLC has checked them on the calls of `heads_committed`, on either database, before
they were proved.

`ConflictsAreReal` needs to know where things come from, which no state of the database says. `Once`: each call is
made once, by one process. `Traced(Past, db)`: every URL, every head that was made and every delete there is was so at
first, or is of a call that has committed or ended; the same of each `view`. `Sharing(p)`: what a transaction makes,
it has found to be free when it began, so that what stops it at its commit was put there meanwhile, by a call; and a
process that tries again does so because of one (`Shared`): a rival, or one that named the same entity, which then has
its URL. In the second case the next attempt finds the entity, makes nothing, and cannot be stopped by it again.

### `UsersProofs`

| Theorem | States |
|-|-|
| `Invariance` | `Spec => []IInv` |
| `SessionsEndForGood`, `SessionsEndWithThePassword` | so `[]EndedAreDead`, `[]SessionsOfThePassword` |
| `BadTokensAreRefused` | so `[]BadTokenRefused` |
| `TheLastAdmin` | so the action property `LastAdminByTwo` |

For any users, passwords, tokens and requests at once. What the tokens promise is not inductive: a request that has
read a user goes on to make a token, or to write, with what it has read. `IInv` adds `TokensWell` (ids are given once;
what is revoked is of sessions, what is kept is personal), `NoLater` (no session has a later generation than its user,
unless an update was lost), and, of each request (`WellCall`), what it knows by its place (`Knows`), what it has read
(`Remembers`: no later than what is there, and of the same generation the same password), and why its token is bad
(`BadFound`: as long as it has not been looked for, the reason is still there to be found).

### `ZoteroProofs`

| Theorem | States |
|-|-|
| `Invariance` | `Spec => []IInv` |
| `StoredIsInStep` | so `[]Reconciled` |
| `EditsAreKept` | so the action property `EditedIsKept` |

For any items, batches and faults, and two syncs. `Reconciled` is about the version that is stored, and a sync stores
it last: `IInv` has what a sync is worth before that. `Brings(me, k)`: what is to be in step when the sync stores its
version is in step already, or the sync still has it to fetch, holds it, or has not yet asked for what is gone; and
what it holds is how the item is, or the item has changed by now to a version that this sync does not promise.
`Known(k)`, of an item that is not excused: one sync works, and no link is made while it does. `WellPlaced` says what
each place of a sync means, and `Decided`, where it is about to delete, that the node was not edited when it looked;
`WellKnown` that a node of the version that a sync wrote has not been edited since, unless it was flagged.

### `MigrationsProofs`

| Theorem | States |
|-|-|
| `Invariance` | `Spec => []IInv` |
| `WhatIsAppliedIsDone`, `AloneAtWork` | so `[]AppliedIsDone`, `[]WorksAlone` |
| `NothingTwice` | so the action property `BatchesOnce` |

For any nodes, changes, sizes of a batch, commands and faults. The invariant is about two cursors, that of the record
and that from which a command works (`WellRecorded`, `WellRun`): what is before it has been made (`Covers`), which
gives `AppliedIsDone` when it is past the last change, and what is behind it has not been made (`Beyond`), unless it
is a change whose progress was not kept, or one that sees for itself what is left, which gives `BatchesOnce`. Neither
is enough without `Alone`: who works has the lock, and no request that began meanwhile writes. All but `TypeOK`, and
that nothing is made on nodes that are not there, is up to a lock that a person removes under a running command
(`forced`).

### `TypologyProofs`

| Theorem | States |
|-|-|
| `Invariance` | `Spec => []IInv` |
| `StaysATree`, `NothingLeftBelow` | so `[]NoLoop`, `[]NothingBelowDeleted` |
| `EditsKeep` | so the action property `EditsKeepPlaces` |

For any types, heads, processes and calls. The three need no more than `Placed` (places are of types that were made)
and `WellCall` (what a call is about was made, and an edit writes back the place of its version), because a look and
what is written after it are one transaction under the lock; the work is in the lemmas on trees. `Below` says of two
types that every set of types which holds the supertype of the one, and those of its members, holds the other; a move
of a type to where it is not above makes no loop, nor does a relink of the subtypes of a type to one that is not below
it (`check_merge`). `Below` quantifies over sets where the code recurses, so that this needs no induction over data.

### `HistoryProofs`

| Theorem | States |
|-|-|
| `Invariance` | `Spec => []IInv` |
| `RecordsSayWhatWas`, `RestoresBringBack` | so `[]RecordsAreRight`, `[]RestoredIsWhatWas`, parts of it |
| `ABaselineMends` | so `[]BaselineMends` |

For any heads, callers, sizes of the queue and of its batches, crashes and failures. A record is right wherever it is
(`OnTheirWay`: with the caller, in the queue, in the thread, in a batch of the command), whatever is written
meanwhile, because a version of a head never changes once it is made. A restore keeps what it has read (`Restoring`)
through its undelete and its second look. `WellBase`: every head that the command listed is still to be looked at, is
being looked at, or has been dealt with, by a record in the store or in its batch of the version it had then or of a
later one (`DealtWith`); the store only grows. What the recorder loses does not matter to it, as it looks at the
store.

### `DateProofs`

Of two dates by their bounds (`DateBounds`), for any integers that are in order (`InOrder`): the library compares four
numbers, and what a date may be is a set of days, `DaysOfBounds`, strictly or in doubt.

| Theorem | States |
|-|-|
| `SpanInOrder` | a range that is not refused has its bounds in order, and may be any day between its start and its end |
| `StrictIsFuzzy` | what a date may be strictly, it may be in doubt |
| `SortedByItsDay` | a date is sorted by a day that it may be, whichever is chosen |
| `OverlapIsACommonDay` | two dates overlap just if there is a day that both may be |
| `BeforeIsWhateverTheDays` | one is before another just if it is, whatever day each is |
| `DuringIsAllDays` | one is during another just if all days it may be are days the other may be |
| `WithinIsNearDays` | two are within so many days just if some two days of theirs are |

The argument is of linear orders; the work is in naming the day that is a witness, which is a bound each time. That
bounds are in order is no assumption of what the code does: `WorkedOutInOrder` says that whatever date is said (of any
year, calendar, padding and number of digits left out) has bounds in order, and `StoredInOrder` that so has every
period and recurrence that is accepted, so that `Bounds` never refuses what `work_out` let through. The first of a
month comes after the first of every month before it (`shift_month` counts months through the years), though months
and years differ in length.

And of days (`Days`): `DaysHaveNames` says that every date that the code accepts (`IsDate`), of either calendar, is
read back from its number as it was: `FromJDN(ToJDN(...))` is the date. The code does both by division of integers,
with constants; TLC counts its way through the years, and the proof says why it is so. It counts from 1 March, so that
the leap day is the last of its year (`LeapIsLast`): then the number of a day is a sum of centuries, years, months and
days, which the divisions take off again, one after the other (`CenturyOfDay`, `YearOfDay`, `MonthOfDay`,
`DayInMonth`; `DayOfYear` puts the month and the day together).

And of who counts (`Almanac`): `CalendarsAgree` says that `CalendarsAreCounted` holds always, whatever days are known
at first and whichever years are counted by the day. The one assumption, `AlmanacAssumption`, is that what is known is
so (a New Year of an allowed year, with the number and weekday that the code gives it: TLC evaluates it for the two
that the run begins with), and that no year is counted by the day whose next year the code does not allow. The
invariant `Counted`, a part of `CalendarsAreCounted`, is inductive: the person's date is one the code accepts, and
number and weekday are those the code works out of it. Its proof counts from 1 March too (`DaysCounted`): from one to
the next are 365 days and the leap day of the year (`AYearOn`), so that each of the person's steps is a step of the
code's division (`TomorrowCounted`, `YearsCount`), and weekdays go on modulo 7 (`WeekdaysGoOn`).

The person has Easter from the tables of the calendars' makers, and the code has it from formulas. In the Julian
calendar the code's moon is the table's entry, one of nineteen (`JulianIsSunday`). In the Gregorian the code's `h` is
the moon that the epact gives (`Centuries`, `MoonOfEpact`) but for the two ages of the moon that are corrected, 24 and
25; and there the code's `m` takes off a week where the person takes off a day, which comes to the same Sunday
(`GregorianIsSunday`). One Sunday only is in the seven days after a full moon (`OneSunday`), and since it is from 22
March to 25 April, the days from 80 before it to 250 after are in its year (`EasterIsCounted`).

And of what is on a day: `FoundOnItsDays` says that `FoundIsWhatIsOn` holds always, for whatever documents and
characterisations are accepted, on every day. The invariant is `Counted` again; what is found and what is on are both
worked out of a day, so that the work is in four facts of the code's functions.

| Theorem | States |
|-|-|
| `WorkedOutInOrder`, `StoredInOrder` | what is worked out and stored of a date has its bounds in order |
| `KeysMissNoDay` | one of the keys of a rule is among the keys of every day on which it falls |
| `DaysBetweenMissesNone` | the days worked out for a stretch, year by year, are those of the stretch on which it falls |

The code divides (the week of a day is its number by 7, and the nth Sunday is worked out of the first of the month),
where the person counts Sundays in the month and weeks, months and years from the beginning; `occurs_on` comes to the
same for each kind of rule. A rule of an interval counts from its anchor, the earliest day of its start, which is
where the person begins. Keys: those of a rule are one for each weekday, or one; those of a day are its weekday, its
day of the month and of the year, what number of its weekday it is from either end of the month, its distance from
Easter, and its feasts. The leap day of the old Roman reckoning has two keys, as the day that it moves to is known
only with the year. `DaysBetween` looks once in each year; a rule on Easter stays in the year of its Easter because
its offset is from -80 to 250.

## What is only checked

* **Liveness** (`EveryMarkIsDone`, `Converges`, `CallsEnd`, `CatchesUp`, `EndsRecordedOrMissed`): fairness and ENABLED
  are out of the reach of this prover.

All safety properties of the runs are stated by a theorem, with the assumptions that it names. In `heads_committed`
(on Neo4j, with a relink) these are what `Locking` says: no head that is created is updated there. No run has two
relinks of heads at once; the theorems that do not name `SoleRelink` have any number of them.

RECURSIVE operators, and induction theorems that take an operator as a parameter, are out of the prover's reach. No
definition is recursive, and where a proof needs the least or the greatest of a set of numbers (the next node of a
batch, the latest record of a head), that it exists is had from the well-foundedness of the numbers as a set
(`LeastOf`, `GreatestOf`).

## What is not modelled

* Of the derived worker: several rules (each has its own node and its facts; here, one in several versions), the
  labels and properties of facts, the counter of overflows, and the input of one rule by another, which the code does
  not do either.
* `run_pending_derivations`, the worker of tests and scripts: it does not look at whether it was given the lease, so
  that what is shown of the workers of servers is not of it, when a server works at the same time.
* Of the writes: ids of nested nodes, the check that the user exists, the review properties that an update keeps,
  `keep` and `before` of a relink, `PGDeletion` records (on Neo4j two deletes at once make two), timeouts. The tree
  below a head is part of the head: its nodes have no life of their own. That an undelete brings back what refers to a
  deleted entity is in the model (`revived`), and the documentation allows it.
* Steps that the code makes in more queries than the model does. `DerivedWorker!Find` is the queries of
  `find_for_heads`, one for each part of a rule: on Memgraph they read one snapshot, as in the model; on Neo4j a write
  may come between two of them, as it may between `Find` and what is written. `CheckFree` is the checks of ids and of
  URLs, `MergeUrls` the removal of old URLs and the MERGE of new ones. `BeginMove` and `BeginMerge` of the typology
  read the rows of both types at once, where the code reads them again for the second (`row_of`), before it goes on to
  the transaction that checks under the lock.
* Of a batched change, the transaction which writes again what the backend derives from it (`runner.py:283`: labels
  for the text index), and comes before the progress is saved: it changes no more than it would if made twice.
* That a write marks its heads as pending is in `DerivedWorker!Write`; `HeadWrites` has no marks. Both rest on the
  same code (the mark is a query of the write's transaction), and the two modules are not composed yet. Nor are
  `HeadWrites` and `Migrations`, whose `Write` is the refusal of writes while a migration runs.
* Of users: changes of names and addresses, lists, the time a token was last used, and the throttle of logins, which
  counts failures of a name in the memory of one process.
* Of Zotero: how an item becomes a node, and several libraries (each is synced by itself).
* Of migrations: making and squashing their files, dry runs, backups, several migrations in a row, and what each
  change does to the data.
* Of the typology: what a type is also (`set_concrete`), loading and dumping a vocabulary, several vocabularies.
* Of dates: reading EDTF, writing a date as text, search text, which date belongs to which family, definitions of
  calendars in the database, the pages that lay days out, days that in the other calendar are out of its years, and
  the limit of 1000 candidates of a query (`query.py:101`).
* Of history: reading records of an old form, comparing and showing versions, models that are excluded, several
  servers on one store.
* Review and publishing: a look at who edited last, and a status set in a later transaction; next in the plan.
* Background tasks: that a task which fails is run again is what the fairness of the models assumes of them.
* A bulk load turns the transactions of Memgraph off: a model of it would be one of that database.
* The SDK server builds an archive and swaps a directory. Reads and searches are one query each; models are built once
  at start; the API, the CLI, the SDK and the interface keep no shared state of their own.

Definitions marked `(Mutant: ...)` or `(mutant)` are what the code must not do: each is a plausible bug of the
definition after it, under which a run finds its property violated. No action uses them.

## How to run it

    tlc -workers 2 -config HeadWrites_snapshot.cfg MCHeadWrites
    tlc -workers 2 -config DerivedWorker_safety.cfg MCDerivedWorker
    tlc -workers 2 -config History_records.cfg MCHistory
    tlapm DerivedWorkerProofs.tla
    tlapm HeadWritesProofs.tla
    tlapm UsersProofs.tla
    tlapm ZoteroProofs.tla
    tlapm MigrationsProofs.tla
    tlapm TypologyProofs.tla
    tlapm DateProofs.tla
    tlapm HistoryProofs.tla

Each configuration is named after the module it checks, and is run on that module's `MC` module. `PROJECT.json` lists
the runs with what they show, the theorems, the mutants, the lines of the source that each definition stands for, and
the hazards.
