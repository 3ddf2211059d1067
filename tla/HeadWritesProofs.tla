--------------------------- MODULE HeadWritesProofs ---------------------------
(***************************************************************************)
(* Proofs about writes of heads, for any heads, processes and calls: types, *)
(* lost edits and announced versions on both databases, whatever is        *)
(* relinked; on Memgraph, and while nothing is relinked, that the calls     *)
(* implement HeadStore, with what follows.                                  *)
(***************************************************************************)
EXTENDS HeadWrites, TLAPS

LEMMA EmptyIsDb == EmptyDb \in DbType
  BY DEF EmptyDb, DbType

LEMMA UnsaidType == Unsaid \in [Heads -> Nat]
  BY DEF Unsaid

\* The call a process is at.
LEMMA AskTyped ==
  ASSUME TypeOK, NEW p \in Procs, pc[p] # "idle"
  PROVE  req[p] \in Requests /\ Ask(p) \in AskType
  BY HeadWritesAssumption DEF TypeOK, Ask, HeadWritesAssumption

LEMMA AskFields ==
  ASSUME TypeOK, NEW p \in Procs, pc[p] # "idle"
  PROVE  /\ Ask(p).op \in Ops /\ Ask(p).head \in Heads
         /\ Ask(p).refs \in SUBSET Entities /\ Ask(p).urls \in SUBSET Urls
         /\ Ask(p).keepUrls \in BOOLEAN /\ Ask(p).expected \in Nat
         /\ Ask(p).key \in Urls \cup {Nothing}
         /\ Ask(p).inline \in Entities \cup {Nothing}
         /\ Ask(p).to \in Entities \cup {Nothing}
  BY AskTyped DEF AskType

\* What there is of a transaction.
TxTyped ==
  /\ view \in [Procs -> DbType]
  /\ changed \in [Procs -> SUBSET Heads]
  /\ edged \in [Procs -> SUBSET Heads]
  /\ sets \in [Procs -> SUBSET Heads]
  /\ links \in [Procs -> SUBSET Heads]
  /\ makes \in [Procs -> SUBSET (Heads \cup Urls)]
  /\ target \in [Procs -> Entities \cup {Nothing}]
  /\ batch \in [Procs -> SUBSET Heads]
  /\ left \in [Procs -> SUBSET Heads]
  /\ said \in [Procs -> [Heads -> Nat]]

CallTyped ==
  /\ todo \subseteq Requests
  /\ done \in [Requests -> Outcomes]
  /\ req \in [Procs -> Requests \cup {Nothing}]
  /\ attempt \in [Procs -> Nat]
  /\ pc \in [Procs -> Places]
  /\ \A p \in Procs : pc[p] # "idle" => req[p] \in Requests

LEMMA TypeParts == TypeOK <=> db \in DbType /\ TxTyped /\ CallTyped
  BY DEF TypeOK, TxTyped, CallTyped

LEMMA ClosedTyped ==
  ASSUME TxTyped, NEW p \in Procs, Closed(p)
  PROVE  TxTyped'
  BY EmptyIsDb, UnsaidType DEF TxTyped, Closed

LEMMA EndTyped ==
  ASSUME TypeOK, NEW p \in Procs, pc[p] # "idle", NEW o \in Outcomes, End(p, o)
  PROVE  TypeOK'
<1>1. TxTyped'
  BY TypeParts, ClosedTyped DEF End
<1>2. CallTyped'
  BY TypeParts, AskTyped DEF End, Goto, CallTyped, Places
<1>3. db' \in DbType
  BY DEF TypeOK, End
<1> QED
  BY <1>1, <1>2, <1>3 DEF TypeOK, TxTyped, CallTyped

LEMMA RerunTyped ==
  ASSUME TypeOK, NEW p \in Procs, pc[p] # "idle", Rerun(p)
  PROVE  TypeOK'
<1>1. TxTyped'
  BY TypeParts, ClosedTyped DEF Rerun
<1>2. CallTyped'
  BY TypeParts, AskTyped DEF Rerun, Goto, CallTyped, Places
<1>3. db' \in DbType
  BY DEF TypeOK, Rerun
<1> QED
  BY <1>1, <1>2, <1>3 DEF TypeOK, TxTyped, CallTyped

LEMMA TryAgainTyped ==
  ASSUME TypeOK, NEW p \in Procs, pc[p] # "idle", TryAgain(p)
  PROVE  TypeOK'
<1>1. CASE attempt[p] < WriteAttempts
  <2>1. TxTyped'
    BY <1>1, TypeParts, ClosedTyped DEF TryAgain
  <2>2. CallTyped'
    BY <1>1, TypeParts, AskTyped DEF TryAgain, Goto, CallTyped, Places
  <2>3. db' \in DbType
    BY <1>1 DEF TypeOK, TryAgain
  <2> QED
    BY <2>1, <2>2, <2>3 DEF TypeOK, TxTyped, CallTyped
<1>2. CASE ~(attempt[p] < WriteAttempts)
  BY <1>2, EndTyped DEF TryAgain, Outcomes
<1> QED
  BY <1>1, <1>2

LEMMA CheckConflictTyped ==
  ASSUME TypeOK, NEW p \in Procs, pc[p] # "idle", CheckConflict(p)
  PROVE  TypeOK'
  BY EndTyped, TryAgainTyped DEF CheckConflict, Outcomes

\* A query that only reads, and what it finds.
LEMMA ReadsTyped ==
  ASSUME TypeOK, NEW p \in Procs, pc[p] # "idle", NEW place \in Places, Reads(p, place),
         target' \in [Procs -> Entities \cup {Nothing}], said' \in [Procs -> [Heads -> Nat]]
  PROVE  TypeOK'
  BY AskTyped DEF TypeOK, Reads, Goto

LEMMA SeesTyped ==
  ASSUME TypeOK, NEW p \in Procs
  PROVE  Sees(p) \in DbType
  BY DEF TypeOK, Sees

LEMMA RelinkTo ==
  ASSUME TypeOK, NEW p \in Procs, pc[p] # "idle", Ask(p).op = "relink"
  PROVE  Ask(p).to \in Entities /\ Ask(p).to # Ask(p).head /\ Ask(p).head \in Entities
  BY AskTyped, AskFields, HeadWritesAssumption DEF Ask, HeadWritesAssumption

LEMMA NextTouched ==
  ASSUME TypeOK, NEW p \in Procs, pc[p] # "idle", pc[p] = "rewire" => Ask(p).op = "relink"
  PROVE  /\ SetsNext(p) \in SUBSET Heads
         /\ LinksNext(p) \in SUBSET Heads
         /\ MakesNext(p) \in SUBSET (Heads \cup Urls)
<1> USE AskFields
<1>1. SetsNext(p) \in SUBSET Heads
  BY DEF SetsNext
<1>2. Sees(p).refs \in [Heads -> SUBSET Entities]
  BY SeesTyped DEF DbType
<1>3. target[p] \in Entities \cup {Nothing} /\ batch[p] \in SUBSET Heads
  BY DEF TypeOK
<1>4. LinksNext(p) \in SUBSET Heads
  <2>1. CASE pc[p] = "replace"
    BY <2>1, <1>2 DEF LinksNext, Heads
  <2>2. CASE pc[p] = "render"
    BY <2>2, <1>3 DEF LinksNext, Heads
  <2>3. CASE pc[p] = "rewire"
    BY <2>3, <1>3, RelinkTo DEF LinksNext, Heads
  <2> QED
    BY <2>1, <2>2, <2>3 DEF LinksNext
<1>5. MakesNext(p) \in SUBSET (Heads \cup Urls)
  <2>1. MakesInline(p) => Ask(p).inline \in Heads /\ Ask(p).key \in Urls
    BY AskTyped, HeadWritesAssumption DEF MakesInline, Ask, HeadWritesAssumption, Heads
  <2> QED
    BY <2>1 DEF MakesNext
<1> QED
  BY <1>1, <1>4, <1>5

\* A query that writes, and what it says will be announced.
LEMMA WritesOnTyped ==
  ASSUME TypeOK, NEW p \in Procs, pc[p] # "idle", pc[p] = "rewire" => Ask(p).op = "relink",
         NEW place \in Places, WritesOn(p, place), said' \in [Procs -> [Heads -> Nat]]
  PROVE  TypeOK'
<1>1. /\ sets' \in [Procs -> SUBSET Heads]
      /\ links' \in [Procs -> SUBSET Heads]
      /\ makes' \in [Procs -> SUBSET (Heads \cup Urls)]
  BY NextTouched DEF TypeOK, WritesOn, Writes
<1> QED
  BY <1>1, AskTyped DEF TypeOK, WritesOn, Goto

LEMMA WrittenIs ==
  ASSUME NEW d \in DbType, NEW h \in Heads, NEW r, NEW u
  PROVE  Written(d, h, r, u) =
           [state |-> [d.state EXCEPT ![h] = "live"],
            version |-> [d.version EXCEPT ![h] = d.version[h] + 1],
            refs |-> [d.refs EXCEPT ![h] = r], urls |-> [d.urls EXCEPT ![h] = u],
            marked |-> d.marked \ {h}, revived |-> d.revived \ {h}]
<1>1. Written(d, h, r, u) =
        [d EXCEPT !.state = [d.state EXCEPT ![h] = "live"],
                  !.version = [d.version EXCEPT ![h] = d.version[h] + 1],
                  !.refs = [d.refs EXCEPT ![h] = r], !.urls = [d.urls EXCEPT ![h] = u],
                  !.marked = d.marked \ {h}, !.revived = d.revived \ {h}]
  BY DEF Written
<1> QED
  BY <1>1 DEF DbType

LEMMA WrittenTyped ==
  ASSUME NEW d \in DbType, NEW h \in Heads, NEW r \in SUBSET Entities, NEW u \in SUBSET Urls
  PROVE  Written(d, h, r, u) \in DbType
<1>1. /\ [d.state EXCEPT ![h] = "live"] \in [Heads -> {"absent", "live", "deleted"}]
      /\ [d.version EXCEPT ![h] = d.version[h] + 1] \in [Heads -> Nat]
      /\ [d.refs EXCEPT ![h] = r] \in [Heads -> SUBSET Entities]
      /\ [d.urls EXCEPT ![h] = u] \in [Heads -> SUBSET Urls]
      /\ d.marked \ {h} \in SUBSET Heads /\ d.revived \ {h} \in SUBSET Heads
  BY DEF DbType
<1> QED
  BY <1>1, WrittenIs DEF DbType

\* w is d, with h written.
WroteIn(w, d, h, r, u) ==
  /\ \A g \in Heads : /\ w.state[g] = IF g = h THEN "live" ELSE d.state[g]
                      /\ w.version[g] = d.version[g] + (IF g = h THEN 1 ELSE 0)
                      /\ w.refs[g] = IF g = h THEN r ELSE d.refs[g]
                      /\ w.urls[g] = IF g = h THEN u ELSE d.urls[g]
  /\ w.marked = d.marked \ {h} /\ w.revived = d.revived \ {h}

LEMMA WrittenAt ==
  ASSUME NEW d \in DbType, NEW h \in Heads, NEW r, NEW u
  PROVE  WroteIn(Written(d, h, r, u), d, h, r, u)
<1>1. PICK w : w = Written(d, h, r, u)
  OBVIOUS
<1>2. w = [state |-> [d.state EXCEPT ![h] = "live"],
           version |-> [d.version EXCEPT ![h] = d.version[h] + 1],
           refs |-> [d.refs EXCEPT ![h] = r], urls |-> [d.urls EXCEPT ![h] = u],
           marked |-> d.marked \ {h}, revived |-> d.revived \ {h}]
  BY <1>1, WrittenIs
<1>3. WroteIn(w, d, h, r, u)
  BY <1>2 DEF DbType, WroteIn
<1> QED
  BY <1>1, <1>3

LEMMA InlineTyped ==
  ASSUME TypeOK, NEW p \in Procs, pc[p] # "idle", MakesInline(p)
  PROVE  Ask(p).inline \in Entities /\ Ask(p).key \in Urls
  BY AskTyped, AskFields, HeadWritesAssumption DEF MakesInline, Ask, HeadWritesAssumption

LEMMA ResultTyped ==
  ASSUME TypeOK, NEW p \in Procs, pc[p] # "idle", NEW d \in DbType
  PROVE  Result(d, p) \in DbType
<1> USE AskFields
<1> DEFINE h == Ask(p).head
<1>1. said[p][h] \in Nat /\ target[p] \in Entities \cup {Nothing} /\ batch[p] \in SUBSET Heads
  BY DEF TypeOK
<1>2. CASE Ask(p).op \in {"create", "update"}
  <2>1. WithInline(d, p) \in DbType
    BY InlineTyped, WrittenTyped DEF WithInline, Heads
  <2>2. d.urls[h] \in SUBSET Urls
    BY DEF DbType
  <2>3. (Ask(p).refs \cup {target[p]}) \ {Nothing} \in SUBSET Entities
    BY <1>1
  <2> QED
    BY <1>2, <2>1, <2>2, <2>3, WrittenTyped DEF Result
<1>3. CASE Ask(p).op = "delete"
  <2>1. CASE said[p][h] = 0
    BY <2>1, <1>3 DEF Result, DbType
  <2>2. CASE said[p][h] # 0
    BY <2>2, <1>3 DEF Result, DbType
  <2> QED
    BY <2>1, <2>2
<1>4. CASE Ask(p).op = "undelete"
  BY <1>4 DEF Result, DbType
<1>5. CASE Ask(p).op = "relink"
  <2>1. [g \in Heads |-> d.version[g] + (IF g \in batch[p] THEN 1 ELSE 0)] \in [Heads -> Nat]
    BY DEF DbType
  <2>2. [g \in Heads |-> IF g \in batch[p] /\ Ask(p).head \in d.refs[g]
                         THEN (d.refs[g] \ {Ask(p).head}) \cup {Ask(p).to}
                         ELSE d.refs[g]] \in [Heads -> SUBSET Entities]
    BY <1>5, RelinkTo DEF DbType
  <2>3. Relinked(d, p) =
          [d EXCEPT !.version = [g \in Heads |-> d.version[g] + (IF g \in batch[p] THEN 1 ELSE 0)],
                    !.refs = [g \in Heads |-> IF g \in batch[p] /\ Ask(p).head \in d.refs[g]
                                              THEN (d.refs[g] \ {Ask(p).head}) \cup {Ask(p).to}
                                              ELSE d.refs[g]]]
    BY DEF Relinked
  <2>4. Relinked(d, p) \in DbType
    BY <2>1, <2>2, <2>3, Zenon DEF DbType
  <2> QED
    BY <1>5, <2>4 DEF Result
<1> QED
  BY <1>2, <1>3, <1>4, <1>5 DEF Ops

LEMMA CommittedTyped ==
  ASSUME TypeOK, NEW p \in Procs, pc[p] # "idle", Committed(p)
  PROVE  TypeOK'
<1>1. db' \in DbType
  BY ResultTyped DEF Committed, TypeOK
<1>2. changed' \in [Procs -> SUBSET Heads] /\ edged' \in [Procs -> SUBSET Heads]
  BY DEF Committed, TypeOK, Told
<1>3. \A q \in Procs : pc'[q] # "idle" => req'[q] \in Requests
  BY DEF Committed, TypeOK, Goto
<1>4. pc' \in [Procs -> Places]
  BY DEF Committed, TypeOK, Goto, Places
<1>5. view' \in [Procs -> DbType]
  BY EmptyIsDb DEF Committed, TypeOK
<1> QED
  BY <1>1, <1>2, <1>3, <1>4, <1>5 DEF Committed, TypeOK

\* Only a relink is at a query of relink's.
Routes == \A p \in Procs : pc[p] \in {"find", "heads", "rewire"} => Ask(p).op = "relink"

LEMMA FirstTyped ==
  ASSUME NEW op
  PROVE  FirstQuery(op) \in Places \ {"idle", "heads", "rewire"}
         /\ (FirstQuery(op) = "find" => op = "relink")
  BY DEF FirstQuery, Places

LEMMA QueryTyped ==
  ASSUME TypeOK, Routes, NEW p \in Procs, Query(p)
  PROVE  TypeOK'
<1>1. pc[p] # "idle"
  BY DEF Query, Begin, Lock, ReadHead, FindInline, CheckRefs, CheckFree, Replace, CheckUrls,
         MergeUrls, Render, FindNode, FindHolders, Mark, Flag, FindBatch, Rewire, LockHead
<1> USE <1>1, AskFields
<1>2. /\ "read" \in Places /\ "inline" \in Places /\ "refs" \in Places /\ "free" \in Places
      /\ "replace" \in Places /\ "urls" \in Places /\ "merge" \in Places
      /\ "render" \in Places /\ "mark" \in Places /\ "delete" \in Places
      /\ "undelete" \in Places /\ "commit" \in Places
  BY DEF Places
<1>3. /\ "not_found" \in Outcomes /\ "stale" \in Outcomes /\ "bad_reference" \in Outcomes
      /\ "not_deleted" \in Outcomes /\ "made" \in Outcomes /\ "failed" \in Outcomes
  BY DEF Outcomes
<1>4. /\ target \in [Procs -> Entities \cup {Nothing}] /\ said \in [Procs -> [Heads -> Nat]]
      /\ pc[p] = "rewire" => Ask(p).op = "relink"
  BY DEF TypeOK, Routes
<1>5. Sees(p).version \in [Heads -> Nat]
  BY SeesTyped DEF DbType
<1>6. \A h \in Heads, n \in Nat : [said EXCEPT ![p][h] = n] \in [Procs -> [Heads -> Nat]]
  BY <1>4
<1>7. CASE Begin(p)
  <2>1. pc' \in [Procs -> Places]
    BY <1>7, FirstTyped DEF Begin, Goto, TypeOK
  <2> QED
    BY <1>7, <2>1, AskTyped DEF Begin, Goto, TypeOK
<1>8. CASE Lock(p)
  BY <1>8, <1>2, <1>4, WritesOnTyped DEF Lock
<1>9. CASE ReadHead(p)
  <2>1. CASE Sees(p).state[Ask(p).head] # "live"
    BY <1>9, <2>1, <1>3, EndTyped DEF ReadHead
  <2>2. CASE Sees(p).state[Ask(p).head] = "live"
             /\ Ask(p).expected \notin {0, Sees(p).version[Ask(p).head]}
    BY <1>9, <2>2, <1>3, EndTyped DEF ReadHead
  <2>3. CASE Sees(p).state[Ask(p).head] = "live"
             /\ Ask(p).expected \in {0, Sees(p).version[Ask(p).head]}
    <3>1. said' \in [Procs -> [Heads -> Nat]] /\ target' = target /\ Reads(p, "inline")
      BY <1>9, <2>3, <1>5, <1>6 DEF ReadHead
    <3> QED
      BY <3>1, <1>2, <1>4, ReadsTyped
  <2> QED
    BY <2>1, <2>2, <2>3
<1>10. CASE FindInline(p)
  <2>1. CASE CheckConflict(p)
    BY <2>1, CheckConflictTyped
  <2>2. CASE ~CheckConflict(p)
    <3>1. Reads(p, "refs") /\ said' = said
          /\ \E e \in Entities \cup {Nothing} : target' = [target EXCEPT ![p] = e]
      BY <1>10, <2>2, Zenon DEF FindInline, Heads
    <3> QED
      BY <3>1, <1>2, <1>4, ReadsTyped
  <2> QED
    BY <2>1, <2>2
<1>11. CASE CheckRefs(p)
  <2>1. CASE \A e \in Ask(p).refs : Sees(p).state[e] = "live"
    BY <1>11, <2>1, <1>2, <1>4, ReadsTyped DEF CheckRefs
  <2>2. CASE ~(\A e \in Ask(p).refs : Sees(p).state[e] = "live")
    BY <1>11, <2>2, <1>3, EndTyped, Zenon DEF CheckRefs
  <2> QED
    BY <2>1, <2>2
<1>12. CASE CheckFree(p)
  <2>1. CASE CheckConflict(p)
    BY <2>1, CheckConflictTyped
  <2>2. CASE ~CheckConflict(p)
    <3>1. /\ Reads(p, IF Ask(p).op = "create" THEN "render" ELSE "replace")
          /\ said' = said /\ target' = target
      BY <1>12, <2>2, Zenon DEF CheckFree
    <3> QED
      BY <3>1, <1>2, <1>4, ReadsTyped
  <2> QED
    BY <2>1, <2>2
<1>13. CASE Replace(p)
  BY <1>13, <1>2, <1>4, WritesOnTyped DEF Replace
<1>14. CASE CheckUrls(p)
  <2>1. CASE CheckConflict(p)
    BY <2>1, CheckConflictTyped
  <2>2. CASE ~CheckConflict(p)
    <3>1. Reads(p, "merge") /\ said' = said /\ target' = target
      BY <1>14, <2>2, Zenon DEF CheckUrls
    <3> QED
      BY <3>1, <1>2, <1>4, ReadsTyped
  <2> QED
    BY <2>1, <2>2
<1>15. CASE MergeUrls(p)
  BY <1>15, <1>2, <1>4, WritesOnTyped DEF MergeUrls
<1>16. CASE Render(p)
  <2>1. CASE TryAgain(p)
    BY <2>1, TryAgainTyped
  <2>2. CASE ~TryAgain(p)
    <3>1. /\ WritesOn(p, "commit")
          /\ said' = IF Ask(p).op = "create" THEN [said EXCEPT ![p][Ask(p).head] = 1] ELSE said
      BY <1>16, <2>2, Zenon DEF Render
    <3>2. said' \in [Procs -> [Heads -> Nat]]
      BY <3>1, <1>4, <1>6
    <3> QED
      BY <3>1, <3>2, <1>2, <1>4, WritesOnTyped
  <2> QED
    BY <2>1, <2>2
<1>17. CASE FindNode(p)
  <2>1. CASE End(p, "not_found") \/ End(p, "not_deleted")
    BY <2>1, <1>3, EndTyped
  <2>2. CASE ~(End(p, "not_found") \/ End(p, "not_deleted"))
    <3>1. CASE Ask(p).op = "delete"
      <4>1. Reads(p, IF Ask(p).head \in Entities THEN "refs" ELSE "delete")
            /\ target' = target /\ said' = said
        BY <1>17, <2>2, <3>1, Zenon DEF FindNode
      <4> QED
        BY <4>1, <1>2, <1>4, ReadsTyped
    <3>2. CASE Ask(p).op # "delete"
      <4>1. Sees(p).state[Ask(p).head] \in {"absent", "live", "deleted"}
        BY SeesTyped DEF DbType
      <4>2. Sees(p).state[Ask(p).head] = "deleted"
        BY <1>17, <2>2, <3>2, <4>1 DEF FindNode
      <4>3. Reads(p, "undelete") /\ target' = target /\ said' = said
        BY <1>17, <3>2, <4>2 DEF FindNode
      <4> QED
        BY <4>3, <1>2, <1>4, ReadsTyped
    <3> QED
      BY <3>1, <3>2
  <2> QED
    BY <2>1, <2>2
<1>18. CASE FindHolders(p)
  BY <1>18, <1>2, <1>4, ReadsTyped DEF FindHolders
<1>19. CASE Mark(p)
  BY <1>19, <1>2, <1>4, WritesOnTyped DEF Mark
<1>20. CASE Flag(p)
  <2>1. said' \in [Procs -> [Heads -> Nat]] /\ WritesOn(p, "commit")
    BY <1>20, <1>5, <1>6 DEF Flag
  <2> QED
    BY <2>1, <1>2, <1>4, WritesOnTyped
<1>21. CASE FindBatch(p)
  <2>1. CASE End(p, "made")
    BY <2>1, <1>3, EndTyped
  <2>2. CASE ~End(p, "made")
    <3>1. PICK S \in SUBSET Heads :
            /\ batch' = [batch EXCEPT ![p] = S]
            /\ left' = [left EXCEPT ![p] = S]
            /\ Goto(p, IF Snapshot THEN "rewire" ELSE "heads")
            /\ UNCHANGED <<db, todo, done, req, attempt, view, changed, edged, sets,
                           links, makes, target, said>>
      BY <1>21, <2>2, Zenon DEF FindBatch
    <3>2. pc' \in [Procs -> Places]
      BY <3>1 DEF TypeOK, Goto, Places
    <3> QED
      BY <3>1, <3>2, AskTyped DEF TypeOK, Goto
  <2> QED
    BY <2>1, <2>2
<1>22. CASE Rewire(p)
  <2>1. CASE End(p, "failed")
    BY <2>1, <1>3, EndTyped
  <2>2. CASE ~End(p, "failed")
    <3>1. /\ WritesOn(p, "commit")
          /\ said' = [said EXCEPT ![p] =
               [h \in Heads |-> IF h \in batch[p] THEN Sees(p).version[h] + 1 ELSE 0]]
      BY <1>22, <2>2, Zenon DEF Rewire
    <3>2. said' \in [Procs -> [Heads -> Nat]]
      BY <3>1, <1>4, <1>5
    <3> QED
      BY <3>1, <3>2, <1>2, <1>4, WritesOnTyped
  <2> QED
    BY <2>1, <2>2
<1>23. CASE \E h \in Heads : LockHead(p, h)
  <2>1. PICK h \in Heads : LockHead(p, h)
    BY <1>23
  <2>2. /\ sets' \in [Procs -> SUBSET Heads] /\ links' \in [Procs -> SUBSET Heads]
        /\ makes' \in [Procs -> SUBSET (Heads \cup Urls)]
    BY <2>1, <1>4, NextTouched DEF LockHead, Writes, TypeOK
  <2>3. pc' \in [Procs -> Places] /\ left' \in [Procs -> SUBSET Heads]
    BY <2>1 DEF LockHead, Goto, Places, TypeOK
  <2> QED
    BY <2>1, <2>2, <2>3, AskTyped DEF LockHead, Goto, TypeOK
<1> QED
  BY <1>7, <1>8, <1>9, <1>10, <1>11, <1>12, <1>13, <1>14, <1>15, <1>16, <1>17, <1>18, <1>19,
     <1>20, <1>21, <1>22, <1>23 DEF Query

LEMMA NextTyped ==
  ASSUME TypeOK, Routes, [Next]_vars
  PROVE  TypeOK'
<1>1. CASE UNCHANGED vars
  BY <1>1 DEF vars, txVars, TypeOK
<1>2. CASE Next
  <2>1. PICK p \in Procs : Step(p) \/ Fail(p) \/ \E r \in Requests : Call(p, r)
    BY <1>2 DEF Next
  <2>2. CASE Query(p)
    BY <2>2, QueryTyped
  <2>3. CASE Commit(p)
    BY <2>3, CommittedTyped, TryAgainTyped DEF Commit
  <2>4. CASE Announce(p)
    BY <2>4, EndTyped, RerunTyped DEF Announce, Outcomes
  <2>5. CASE WriteConflict(p)
    BY <2>5, EndTyped, RerunTyped DEF WriteConflict, WritePlaces, Outcomes
  <2>6. CASE Deadlock(p)
    <3>1. pc[p] # "idle" /\ (Rerun(p) \/ End(p, "failed"))
      BY <2>6 DEF Deadlock, WritePlaces
    <3> QED
      BY <3>1, EndTyped, RerunTyped DEF Outcomes
  <2>7. CASE Fail(p)
    BY <2>7, EndTyped DEF Fail, Outcomes
  <2>8. CASE \E r \in Requests : Call(p, r)
    BY <2>8 DEF Call, Goto, Places, TypeOK, txVars
  <2> QED
    BY <2>1, <2>2, <2>3, <2>4, <2>5, <2>6, <2>7, <2>8 DEF Step
<1> QED
  BY <1>1, <1>2

-------------------------------------------------------------------------------
\* The kinds of steps there are, and what each leaves to the other processes.
Ends(p) ==
  /\ Closed(p)
  /\ db' = db
  /\ \/ req' = [req EXCEPT ![p] = Nothing] /\ pc' = [pc EXCEPT ![p] = "idle"]
     \/ req' = req /\ pc' = [pc EXCEPT ![p] = "begin"]

OthersSay(p) == \A q \in Procs \ {p} : target'[q] = target[q] /\ said'[q] = said[q]

Inside == Places \ {"idle", "begin", "announce", "find", "heads", "rewire"}

Looks(p) == pc[p] \in Inside /\ (\E place \in Inside : Reads(p, place)) /\ OthersSay(p)

Puts(p) == pc[p] \in Inside /\ (\E place \in Inside : WritesOn(p, place)) /\ OthersSay(p)

Relinks(p) == pc[p] \in {"find", "heads", "rewire"} /\ (FindBatch(p) \/ Rewire(p) \/ \E h \in Heads : LockHead(p, h))

LEMMA EndsWith ==
  ASSUME NEW p \in Procs,
         (\E o \in Outcomes : End(p, o)) \/ Rerun(p) \/ TryAgain(p) \/ CheckConflict(p)
  PROVE  Ends(p)
<1>1. (\E o : End(p, o)) => Ends(p)
  BY DEF End, Ends, Goto
<1>2. Rerun(p) => Ends(p)
  BY DEF Rerun, Ends, Goto
<1>3. TryAgain(p) => Ends(p)
  <2>1. CASE attempt[p] < WriteAttempts
    BY <2>1 DEF TryAgain, Ends, Goto
  <2>2. CASE ~(attempt[p] < WriteAttempts)
    BY <2>2, <1>1 DEF TryAgain
  <2> QED
    BY <2>1, <2>2
<1> QED
  BY <1>1, <1>2, <1>3 DEF CheckConflict

LEMMA QueryKinds ==
  ASSUME TypeOK, NEW p \in Procs, Query(p)
  PROVE  Begin(p) \/ Ends(p) \/ Looks(p) \/ Puts(p) \/ Relinks(p)
<1> SUFFICES ASSUME ~Ends(p), ~Begin(p), ~Relinks(p)
             PROVE  Looks(p) \/ Puts(p)
  OBVIOUS
<1>1. (\A o \in Outcomes : ~End(p, o)) /\ ~TryAgain(p) /\ ~CheckConflict(p)
  BY EndsWith
<1>2. /\ ~End(p, "not_found") /\ ~End(p, "stale") /\ ~End(p, "bad_reference")
      /\ ~End(p, "not_deleted")
  BY <1>1 DEF Outcomes
<1>3. \A f : [target EXCEPT ![p] = f] = [q \in Procs |-> IF q = p THEN f ELSE target[q]]
  BY DEF TypeOK
<1>4. \A h, n : \A q \in Procs \ {p} : [said EXCEPT ![p][h] = n][q] = said[q]
  BY DEF TypeOK
<1>5. {"lock", "read", "inline", "refs", "free", "replace", "urls", "merge", "render", "mark",
       "delete", "undelete", "commit"} = Inside
  BY DEF Inside, Places
<1>6. CASE Lock(p)
  BY <1>6, <1>5 DEF Lock, WritesOn, Puts, OthersSay
<1>7. CASE ReadHead(p)
  <2>1. /\ pc[p] = "read" /\ Reads(p, "inline") /\ target' = target
        /\ said' = [said EXCEPT ![p][Ask(p).head] = Sees(p).version[Ask(p).head] + 1]
    BY <1>7, <1>2, Zenon DEF ReadHead
  <2> QED
    BY <2>1, <1>4, <1>5 DEF Looks, OthersSay
<1>8. CASE FindInline(p)
  <2>1. /\ pc[p] = "inline" /\ Reads(p, "refs") /\ said' = said
        /\ \E f : target' = [target EXCEPT ![p] = f]
    BY <1>8, <1>1, Zenon DEF FindInline
  <2> QED
    BY <2>1, <1>3, <1>5 DEF Looks, OthersSay
<1>9. CASE CheckRefs(p)
  <2>1. pc[p] = "refs" /\ Reads(p, "free") /\ said' = said /\ target' = target
    BY <1>9, <1>2, Zenon DEF CheckRefs
  <2> QED
    BY <2>1, <1>5 DEF Looks, OthersSay
<1>10. CASE CheckFree(p)
  <2>1. /\ pc[p] = "free" /\ said' = said /\ target' = target
        /\ Reads(p, IF Ask(p).op = "create" THEN "render" ELSE "replace")
    BY <1>10, <1>1, Zenon DEF CheckFree
  <2> QED
    BY <2>1, <1>5 DEF Looks, OthersSay
<1>11. CASE Replace(p)
  BY <1>11, <1>5 DEF Replace, WritesOn, Puts, OthersSay
<1>12. CASE CheckUrls(p)
  <2>1. pc[p] = "urls" /\ Reads(p, "merge") /\ said' = said /\ target' = target
    BY <1>12, <1>1, Zenon DEF CheckUrls
  <2> QED
    BY <2>1, <1>5 DEF Looks, OthersSay
<1>13. CASE MergeUrls(p)
  BY <1>13, <1>5 DEF MergeUrls, WritesOn, Puts, OthersSay
<1>14. CASE Render(p)
  <2>1. /\ pc[p] = "render" /\ WritesOn(p, "commit")
        /\ said' = IF Ask(p).op = "create" THEN [said EXCEPT ![p][Ask(p).head] = 1] ELSE said
    BY <1>14, <1>1, Zenon DEF Render
  <2> QED
    BY <2>1, <1>4, <1>5 DEF Puts, WritesOn, OthersSay
<1>15. CASE FindNode(p)
  <2>1. /\ pc[p] = "read" /\ said' = said /\ target' = target
        /\ \E place \in {"refs", "delete", "undelete"} : Reads(p, place)
    <3>1. pc[p] = "read"
      BY <1>15 DEF FindNode
    <3>2. CASE Ask(p).op = "delete"
      <4>1. /\ Reads(p, IF Ask(p).head \in Entities THEN "refs" ELSE "delete")
            /\ target' = target /\ said' = said
        BY <1>15, <1>2, <3>2, Zenon DEF FindNode
      <4> QED
        BY <3>1, <4>1
    <3>3. CASE Ask(p).op # "delete"
      <4>1. Sees(p).state[Ask(p).head] \in {"absent", "live", "deleted"}
        BY <3>1, SeesTyped, AskFields DEF DbType
      <4>2. Sees(p).state[Ask(p).head] = "deleted"
        BY <1>15, <1>2, <3>3, <4>1 DEF FindNode
      <4>3. Reads(p, "undelete") /\ target' = target /\ said' = said
        BY <1>15, <3>3, <4>2 DEF FindNode
      <4> QED
        BY <3>1, <4>3
    <3> QED
      BY <3>2, <3>3
  <2> QED
    BY <2>1, <1>5 DEF Looks, OthersSay
<1>16. CASE FindHolders(p)
  <2>1. /\ pc[p] = "refs" /\ said' = said /\ target' = target
        /\ \E place \in {"mark", "delete"} : Reads(p, place)
    BY <1>16 DEF FindHolders
  <2> QED
    BY <2>1, <1>5 DEF Looks, OthersSay
<1>17. CASE Mark(p)
  BY <1>17, <1>5 DEF Mark, WritesOn, Puts, OthersSay
<1>18. CASE Flag(p)
  BY <1>18, <1>4, <1>5 DEF Flag, WritesOn, Puts, OthersSay
<1>19. ~FindBatch(p) /\ ~Rewire(p) /\ \A h \in Heads : ~LockHead(p, h)
  BY DEF Relinks, FindBatch, Rewire, LockHead
<1> QED
  BY <1>6, <1>7, <1>8, <1>9, <1>10, <1>11, <1>12, <1>13, <1>14, <1>15, <1>16, <1>17, <1>18,
     <1>19 DEF Query

LEMMA StepKinds ==
  ASSUME TypeOK, NEW p \in Procs, Step(p) \/ Fail(p) \/ \E r \in Requests : Call(p, r)
  PROVE  \/ \E r \in Requests : Call(p, r)
         \/ Begin(p)
         \/ Ends(p)
         \/ Looks(p)
         \/ Puts(p)
         \/ Relinks(p)
         \/ pc[p] = "commit" /\ ~(Snapshot /\ \E n \in makes[p] : Exists(db, n)) /\ Committed(p)
<1>1. CASE Query(p)
  BY <1>1, QueryKinds
<1>2. CASE Commit(p)
  BY <1>2, EndsWith DEF Commit
<1>3. CASE Announce(p)
  BY <1>3, EndsWith DEF Announce, Outcomes
<1>4. CASE WriteConflict(p)
  BY <1>4, EndsWith DEF WriteConflict, Outcomes
<1>5. CASE Deadlock(p)
  <2>1. Rerun(p) \/ End(p, "failed")
    BY <1>5 DEF Deadlock
  <2> QED
    BY <2>1, EndsWith DEF Outcomes
<1>6. CASE Fail(p)
  BY <1>6, EndsWith DEF Fail, Outcomes
<1> QED
  BY <1>1, <1>2, <1>3, <1>4, <1>5, <1>6 DEF Step

\* What another process knows of its own call and transaction stays as it was.
Untouched(q) ==
  /\ pc'[q] = pc[q] /\ req'[q] = req[q]
  /\ view'[q] = view[q] /\ sets'[q] = sets[q] /\ links'[q] = links[q]
  /\ makes'[q] = makes[q] /\ target'[q] = target[q] /\ said'[q] = said[q]

LEMMA Alone ==
  ASSUME TypeOK, NEW p \in Procs, Step(p) \/ Fail(p) \/ \E r \in Requests : Call(p, r),
         ~Relinks(p), NEW q \in Procs \ {p}
  PROVE  /\ Untouched(q)
         /\ \/ db' = db /\ changed'[q] = changed[q] /\ edged'[q] = edged[q]
            \/ pc[p] = "commit" /\ Committed(p)
<1>1. CASE \E r \in Requests : Call(p, r)
  BY <1>1 DEF Call, Goto, txVars, Untouched, TypeOK
<1>2. CASE Begin(p)
  BY <1>2 DEF Begin, Goto, Untouched, TypeOK
<1>3. CASE Ends(p)
  <2>1. /\ view'[q] = view[q] /\ sets'[q] = sets[q] /\ links'[q] = links[q]
        /\ makes'[q] = makes[q] /\ target'[q] = target[q] /\ said'[q] = said[q]
        /\ changed'[q] = changed[q] /\ edged'[q] = edged[q]
    BY <1>3 DEF Ends, Closed, TypeOK
  <2>2. pc'[q] = pc[q] /\ req'[q] = req[q] /\ db' = db
    BY <1>3 DEF Ends, TypeOK
  <2> QED
    BY <2>1, <2>2 DEF Untouched
<1>4. CASE Looks(p)
  BY <1>4 DEF Looks, Reads, Goto, OthersSay, Untouched, TypeOK
<1>5. CASE Puts(p)
  BY <1>5 DEF Puts, WritesOn, Writes, Goto, OthersSay, Untouched, TypeOK
<1>6. CASE pc[p] = "commit" /\ Committed(p)
  BY <1>6 DEF Committed, Goto, Untouched, TypeOK
<1> QED
  BY <1>1, <1>2, <1>3, <1>4, <1>5, <1>6, StepKinds

\* Where a relink's step leaves the others, and leads.
LEMMA RelinkStep ==
  ASSUME TypeOK, NEW p \in Procs, Relinks(p), NEW q \in Procs
  PROVE  /\ q # p => pc'[q] = pc[q] /\ req'[q] = req[q]
         /\ pc'[q] \in {"find", "heads", "rewire"} => req'[q] = req[q]
<1>1. CASE Ends(p)
  BY <1>1 DEF Ends, TypeOK
<1>2. CASE ~Ends(p)
  <2>1. ~End(p, "made") /\ ~End(p, "failed")
    BY <1>2, EndsWith DEF Outcomes
  <2>2. CASE FindBatch(p)
    <3>1. req' = req /\ \E place : Goto(p, place)
      BY <2>1, <2>2, Zenon DEF FindBatch
    <3> QED
      BY <3>1 DEF Goto, TypeOK
  <2>3. CASE Rewire(p)
    <3>1. req' = req /\ \E place : Goto(p, place)
      BY <2>1, <2>3, Zenon DEF Rewire, WritesOn
    <3> QED
      BY <3>1 DEF Goto, TypeOK
  <2>4. CASE \E h \in Heads : LockHead(p, h)
    <3>1. req' = req /\ \E place : Goto(p, place)
      BY <2>4, Zenon DEF LockHead
    <3> QED
      BY <3>1 DEF Goto, TypeOK
  <2> QED
    BY <2>2, <2>3, <2>4 DEF Relinks
<1> QED
  BY <1>1, <1>2

LEMMA NextRoutes ==
  ASSUME TypeOK, Routes, [Next]_vars
  PROVE  Routes'
<1>1. CASE UNCHANGED vars
  BY <1>1 DEF vars, txVars, Routes, Ask
<1>2. CASE Next
  <2>1. PICK p \in Procs : Step(p) \/ Fail(p) \/ \E r \in Requests : Call(p, r)
    BY <1>2 DEF Next
  <2>2. SUFFICES ASSUME NEW q \in Procs, pc'[q] \in {"find", "heads", "rewire"}
                 PROVE  Asks[req'[q]].op = "relink"
    BY DEF Routes, Ask
  <2>3. CASE Relinks(p)
    <3>1. pc[p] \in {"find", "heads", "rewire"}
      BY <2>3 DEF Relinks
    <3> QED
      BY <2>2, <2>3, <3>1, RelinkStep DEF Routes, Ask
  <2>4. CASE ~Relinks(p) /\ q # p
    <3>1. pc'[q] = pc[q] /\ req'[q] = req[q]
      BY <2>1, <2>4, Alone DEF Untouched
    <3> QED
      BY <2>2, <3>1 DEF Routes, Ask
  <2>5. CASE ~Relinks(p) /\ q = p
    <3>1. CASE Begin(p)
      <4>1. pc'[p] = FirstQuery(Ask(p).op) /\ req' = req
        BY <3>1 DEF Begin, Goto, TypeOK
      <4> QED
        BY <2>2, <2>5, <4>1 DEF FirstQuery, Ask
    <3>2. CASE ~Begin(p)
      <4>0. \A place \in Inside : place \notin {"find", "heads", "rewire"}
        BY DEF Inside
      <4>1. pc'[p] \notin {"find", "heads", "rewire"}
        <5>1. CASE \E r \in Requests : Call(p, r)
          BY <5>1 DEF Call, Goto, TypeOK
        <5>2. CASE Ends(p)
          BY <5>2 DEF Ends, TypeOK
        <5>3. CASE Looks(p)
          BY <5>3, <4>0 DEF Looks, Reads, Goto, TypeOK
        <5>4. CASE Puts(p)
          BY <5>4, <4>0 DEF Puts, WritesOn, Goto, TypeOK
        <5>5. CASE Committed(p)
          BY <5>5 DEF Committed, Goto, TypeOK
        <5> QED
          BY <2>1, <2>5, <3>2, <5>1, <5>2, <5>3, <5>4, <5>5, StepKinds
      <4> QED
        BY <2>2, <2>5, <4>1
    <3> QED
      BY <3>1, <3>2
  <2> QED
    BY <2>3, <2>4, <2>5
<1> QED
  BY <1>1, <1>2

LEMMA InitTyped ==
  ASSUME Init
  PROVE  TypeOK /\ Routes
<1>1. db \in DbType
  <2>1. /\ [h \in Heads |-> IF h \in Existing THEN "live" ELSE "absent"]
             \in [Heads -> {"absent", "live", "deleted"}]
        /\ [h \in Heads |-> IF h \in Existing THEN 1 ELSE 0] \in [Heads -> Nat]
        /\ InitialRefs \in [Heads -> SUBSET Entities] /\ InitialUrls \in [Heads -> SUBSET Urls]
    BY HeadWritesAssumption DEF HeadWritesAssumption
  <2>2. db = [state |-> [h \in Heads |-> IF h \in Existing THEN "live" ELSE "absent"],
              version |-> [h \in Heads |-> IF h \in Existing THEN 1 ELSE 0],
              refs |-> InitialRefs, urls |-> InitialUrls, marked |-> {}, revived |-> {}]
    BY DEF Init, EmptyDb
  <2> QED
    BY <2>1, <2>2 DEF DbType
<1> QED
  BY <1>1, EmptyIsDb, UnsaidType DEF Init, TypeOK, Routes, Places, Outcomes

\* The variables have their types, on both databases and whatever is called.
THEOREM TypeCorrect == Spec => []TypeOK
<1>1. Init => TypeOK /\ Routes
  BY InitTyped
<1>2. TypeOK /\ Routes /\ [Next]_vars => TypeOK' /\ Routes'
  BY NextTyped, NextRoutes
<1> QED
  BY <1>1, <1>2, PTL DEF Spec

-------------------------------------------------------------------------------
(* On Memgraph, while nothing is relinked. *)

Atomic == Snapshot /\ \A r \in Requests : Asks[r].op # "relink"

LEMMA NotRelinked ==
  ASSUME Atomic, TypeOK, Routes, NEW p \in Procs
  PROVE  ~Relinks(p) /\ pc[p] \notin {"find", "heads", "rewire"}
<1>1. pc[p] \in {"find", "heads", "rewire"} => req[p] \in Requests /\ Ask(p).op = "relink"
  BY DEF TypeOK, Routes
<1> QED
  BY <1>1 DEF Atomic, Relinks, Ask

\* The places of a transaction.
LEMMA InsideTransaction ==
  ASSUME Atomic, TypeOK, Routes, NEW p \in Procs
  PROVE  InTransaction(p) <=> pc[p] \in Inside
<1>1. pc[p] \in Places /\ pc[p] \notin {"find", "heads", "rewire"}
  BY NotRelinked DEF TypeOK
<1> QED
  BY <1>1 DEF InTransaction, Inside

\* What a process knows is of its own.
LEMMA KnowsOwn ==
  ASSUME NEW q \in Procs, Untouched(q), Knows(q)
  PROVE  Knows(q)'
<1>1. Ask(q)' = Ask(q) /\ InTransaction(q)' = InTransaction(q)
      /\ MakesInline(q)' = MakesInline(q)
  BY DEF Untouched, Ask, InTransaction, MakesInline
<1>2. \A v : Says(q, v)' = Says(q, v)
  BY <1>1 DEF Untouched, Says
<1>3. Creating(q)' = Creating(q)
  BY <1>1, <1>2 DEF Untouched, Creating
<1>4. Updating(q)' = Updating(q)
  BY <1>1, <1>2 DEF Untouched, Updating
<1>5. Referring(q)' = Referring(q)
  BY <1>1 DEF Untouched, Referring
<1>6. Deleting(q)' = Deleting(q)
  BY <1>1, <1>2 DEF Untouched, Deleting
<1>7. Undeleting(q)' = Undeleting(q)
  BY <1>1, <1>2 DEF Untouched, Undeleting
<1> QED
  BY <1>1, <1>3, <1>4, <1>5, <1>6, <1>7 DEF Untouched, Knows

\* The database is as it was: what others have read of it, and written, too.
LEMMA OthersStay ==
  ASSUME NEW p \in Procs, NEW q \in Procs, Kept(q), db' = db, Untouched(q),
         changed'[q] = changed[q], edged'[q] = edged[q]
  PROVE  Kept(q)'
<1>1. InTransaction(q)' = InTransaction(q)
  BY DEF Untouched, InTransaction
<1> QED
  BY <1>1 DEF Untouched, Kept, Good, Same, RefersTo

IRest == \A p \in Procs : Kept(p) /\ Locked(p) /\ Knows(p)

\* A step of p that commits nothing, and does not write where another has.
LEMMA StepKeeps ==
  ASSUME IRest, NEW p \in Procs, db' = db, Kept(p)', Locked(p)', Knows(p)',
         \A q \in Procs \ {p} : Untouched(q) /\ changed'[q] = changed[q] /\ edged'[q] = edged[q],
         \A q \in Procs \ {p} : sets[q] \cap (sets'[p] \cup links'[p]) = {}
  PROVE  IRest'
<1>1. ASSUME NEW q \in Procs \ {p}
      PROVE  Kept(q)' /\ Locked(q)' /\ Knows(q)'
  <2>1. Kept(q)' /\ Knows(q)'
    BY OthersStay, KnowsOwn DEF IRest
  <2>2. InTransaction(q)' = InTransaction(q)
    BY DEF InTransaction, Untouched
  <2>3. \A o \in Procs \ {q} : sets'[q] \cap (sets'[o] \cup links'[o]) = {}
    BY DEF Locked, IRest, Untouched
  <2>4. Locked(q)'
    BY <2>2, <2>3 DEF Locked, IRest, Untouched
  <2> QED
    BY <2>1, <2>4
<1> QED
  BY <1>1 DEF IRest

LEMMA EndsAlone ==
  ASSUME TypeOK, NEW p \in Procs, Ends(p), NEW q \in Procs \ {p}
  PROVE  Untouched(q) /\ changed'[q] = changed[q] /\ edged'[q] = edged[q]
<1>1. /\ view'[q] = view[q] /\ sets'[q] = sets[q] /\ links'[q] = links[q]
      /\ makes'[q] = makes[q] /\ target'[q] = target[q] /\ said'[q] = said[q]
      /\ changed'[q] = changed[q] /\ edged'[q] = edged[q]
  BY DEF Ends, Closed, TypeOK
<1>2. pc'[q] = pc[q] /\ req'[q] = req[q]
  BY DEF Ends, TypeOK
<1> QED
  BY <1>1, <1>2 DEF Untouched

LEMMA EndsKeep ==
  ASSUME TypeOK, IRest, NEW p \in Procs, Ends(p)
  PROVE  IRest'
<1>1. /\ sets'[p] = {} /\ links'[p] = {} /\ said'[p] = Unsaid /\ pc'[p] \in {"idle", "begin"}
      /\ db' = db
  BY DEF Ends, Closed, TypeOK
<1>2. ~InTransaction(p)'
  BY <1>1 DEF InTransaction
<1>3. Kept(p)'
  BY <1>2 DEF Kept
<1>4. Knows(p)'
  BY <1>1, <1>2 DEF Knows
<1>5. Locked(p)'
  BY <1>1 DEF Locked
<1> QED
  BY <1>1, <1>3, <1>4, <1>5, EndsAlone, StepKeeps

LEMMA CallKeeps ==
  ASSUME TypeOK, IRest, NEW p \in Procs, NEW r \in Requests, Call(p, r)
  PROVE  IRest'
<1>1. /\ sets' = sets /\ links' = links /\ said' = said /\ pc'[p] = "begin" /\ db' = db
      /\ pc[p] = "idle" /\ changed' = changed /\ edged' = edged
  BY DEF Call, Goto, TypeOK, txVars
<1>2. ~InTransaction(p)' /\ ~InTransaction(p)
  BY <1>1 DEF InTransaction
<1>3. Kept(p)'
  BY <1>2 DEF Kept
<1>4. Knows(p)'
  BY <1>1, <1>2 DEF Knows, IRest
<1>5. Locked(p)'
  BY <1>1, <1>2 DEF Locked, IRest
<1>6. \A q \in Procs \ {p} : Untouched(q)
  BY DEF Call, Goto, TypeOK, txVars, Untouched
<1>7. sets[p] = {} /\ links[p] = {}
  BY <1>2 DEF Locked, IRest
<1> QED
  BY <1>1, <1>3, <1>4, <1>5, <1>6, <1>7, StepKeeps

LEMMA BeginKeeps ==
  ASSUME Atomic, TypeOK, Routes, Good(db), IRest, NEW p \in Procs, Begin(p)
  PROVE  IRest'
<1>1. /\ sets' = sets /\ links' = links /\ said' = said /\ req' = req /\ db' = db
      /\ changed' = changed /\ edged' = edged /\ target' = target
      /\ pc[p] = "begin" /\ pc'[p] = FirstQuery(Ask(p).op) /\ view'[p] = db
  BY DEF Begin, Goto, TypeOK
<1>2. Ask(p)' = Ask(p) /\ Ask(p).op \in {"create", "update", "delete", "undelete"}
  BY <1>1, AskTyped, AskFields DEF Ask, Atomic, Ops
<1>3. said[p] = Unsaid
  BY <1>1 DEF Knows, IRest
<1>4. Kept(p)'
  BY <1>1 DEF Kept, Good, Same, RefersTo
<1>5. Knows(p)'
  BY <1>1, <1>2, <1>3 DEF FirstQuery, Atomic, Knows, Creating, Updating, Referring, Deleting, Undeleting
<1>6. ~InTransaction(p)
  BY <1>1 DEF InTransaction
<1>7. sets[p] = {} /\ links[p] = {}
  BY <1>6 DEF Locked, IRest
<1>8. Locked(p)'
  BY <1>1, <1>7 DEF Locked
<1>9. \A q \in Procs \ {p} : Untouched(q)
  BY DEF Begin, Goto, TypeOK, Untouched
<1> QED
  BY <1>1, <1>4, <1>5, <1>7, <1>8, <1>9, StepKeeps

\* A query that reads, or writes to what nobody else does.
LEMMA LooksKeep ==
  ASSUME TypeOK, IRest, NEW p \in Procs, Looks(p), Knows(p)'
  PROVE  IRest'
<1>1. /\ sets' = sets /\ links' = links /\ db' = db /\ req' = req /\ view' = view
      /\ changed' = changed /\ edged' = edged
      /\ pc[p] \in Inside /\ pc'[p] \in Inside
  BY DEF Looks, Reads, Goto, TypeOK
<1>2. InTransaction(p)' /\ InTransaction(p)
  BY <1>1 DEF InTransaction, Inside
<1>3. Kept(p)'
  BY <1>1, <1>2 DEF Kept, IRest, Good, Same, RefersTo
<1>4. Locked(p)'
  BY <1>1, <1>2 DEF Locked, IRest
<1>5. \A q \in Procs \ {p} : Untouched(q)
  BY DEF Looks, Reads, Goto, OthersSay, Untouched, TypeOK
<1>6. \A q \in Procs \ {p} : sets[q] \cap (sets[p] \cup links[p]) = {}
  BY DEF Locked, IRest
<1> QED
  BY <1>1, <1>3, <1>4, <1>5, <1>6, StepKeeps

LEMMA PutsKeep ==
  ASSUME Atomic, TypeOK, Routes, IRest, NEW p \in Procs, Puts(p), Knows(p)'
  PROVE  IRest'
<1>1. /\ db' = db /\ req' = req /\ view' = view /\ changed' = changed /\ edged' = edged
      /\ pc[p] \in Inside /\ pc'[p] \in Inside
      /\ Writes(p, SetsNext(p))
  BY DEF Puts, WritesOn, Goto, TypeOK
<1>2. InTransaction(p)' /\ InTransaction(p)
  BY <1>1 DEF InTransaction, Inside
<1>3. Kept(p)'
  BY <1>1, <1>2 DEF Kept, IRest, Good, Same, RefersTo
<1>4. /\ sets'[p] = sets[p] \cup SetsNext(p)
      /\ links'[p] = links[p] \cup LinksNext(p)
  BY <1>1 DEF Writes, TypeOK
<1>5. /\ SetsNext(p) \cap (changed[p] \cup edged[p]) = {}
      /\ LinksNext(p) \cap changed[p] = {}
  BY <1>1 DEF Writes, Outdated, Atomic
<1>6. \A q \in Procs \ {p} : /\ SetsNext(p) \cap (sets[q] \cup links[q]) = {}
                             /\ LinksNext(p) \cap sets[q] = {}
  BY <1>1 DEF Writes, Held
<1>7. \A q \in Procs \ {p} : Untouched(q)
  BY DEF Puts, WritesOn, Writes, Goto, OthersSay, Untouched, TypeOK
<1>8. Locked(p)'
  <2>1. sets'[p] \cap (changed'[p] \cup edged'[p]) = {} /\ links'[p] \cap changed'[p] = {}
    BY <1>1, <1>4, <1>5 DEF Locked, IRest
  <2>2. \A q \in Procs \ {p} : sets'[p] \cap (sets'[q] \cup links'[q]) = {}
    BY <1>4, <1>6, <1>7 DEF Locked, IRest, Untouched
  <2> QED
    BY <2>1, <2>2, <1>2 DEF Locked
<1>9. \A q \in Procs \ {p} : sets[q] \cap (sets'[p] \cup links'[p]) = {}
  BY <1>4, <1>6 DEF Locked, IRest
<1> QED
  BY <1>1, <1>3, <1>7, <1>8, <1>9, StepKeeps

\* What a query leaves to the process that makes it.
LEMMA ReadsOwn ==
  ASSUME TypeOK, NEW p \in Procs, NEW place, Reads(p, place)
  PROVE  /\ pc'[p] = place /\ Ask(p)' = Ask(p)
         /\ view'[p] = view[p] /\ sets'[p] = sets[p] /\ links'[p] = links[p]
         /\ makes'[p] = makes[p]
  BY DEF Reads, Goto, TypeOK, Ask

LEMMA PutsOwn ==
  ASSUME TypeOK, NEW p \in Procs, NEW place, WritesOn(p, place)
  PROVE  /\ pc'[p] = place /\ Ask(p)' = Ask(p)
         /\ view'[p] = view[p] /\ target'[p] = target[p]
         /\ sets'[p] = sets[p] \cup SetsNext(p)
         /\ links'[p] = links[p] \cup LinksNext(p)
         /\ makes'[p] = makes[p] \cup MakesNext(p)
  BY DEF WritesOn, Writes, Goto, TypeOK, Ask

\* The call that is at a place.
LEMMA WhoIsAt ==
  ASSUME Atomic, TypeOK, Routes, IRest, NEW p \in Procs, pc[p] \in Inside
  PROVE  /\ InTransaction(p) /\ Sees(p) = view[p]
         /\ pc[p] \in {"replace", "urls", "merge", "lock"} => Ask(p).op = "update"
         /\ pc[p] \in {"inline", "free", "render"} => Ask(p).op \in {"create", "update"}
         /\ pc[p] \in {"mark", "delete"} => Ask(p).op = "delete"
         /\ pc[p] = "undelete" => Ask(p).op = "undelete"
         /\ pc[p] # "lock"
         /\ Ask(p).op = "create" => Creating(p) /\ Referring(p)
         /\ Ask(p).op = "update" => Updating(p) /\ Referring(p)
         /\ Ask(p).op = "delete" => Deleting(p)
         /\ Ask(p).op = "undelete" => Undeleting(p)
         /\ Ask(p).op \in {"create", "update", "delete", "undelete"}
<1>1. InTransaction(p) /\ Knows(p)
  BY DEF InTransaction, Inside, IRest
<1>2. Ask(p).op \in {"create", "update", "delete", "undelete"}
  BY AskTyped, AskFields DEF Inside, Ask, Atomic, Ops
<1>3. /\ Ask(p).op = "create" => Creating(p) /\ Referring(p)
      /\ Ask(p).op = "update" => Updating(p) /\ Referring(p)
      /\ Ask(p).op = "delete" => Deleting(p)
      /\ Ask(p).op = "undelete" => Undeleting(p)
  BY <1>1 DEF Knows
<1>4. /\ Ask(p).op = "create" => pc[p] \in {"inline", "refs", "free", "render", "commit"}
      /\ Ask(p).op = "update" => pc[p] \in {"read", "inline", "refs", "free", "replace", "urls", "merge", "render", "commit"}
      /\ Ask(p).op = "delete" => pc[p] \in {"read", "refs", "mark", "delete", "commit"}
      /\ Ask(p).op = "undelete" => pc[p] \in {"read", "undelete", "commit"}
  BY <1>3 DEF Creating, Updating, Deleting, Undeleting
<1> QED
  BY <1>1, <1>2, <1>3, <1>4 DEF Sees, Atomic

LEMMA NoOutcome ==
  ASSUME NEW p \in Procs, ~Ends(p)
  PROVE  /\ ~End(p, "not_found") /\ ~End(p, "stale") /\ ~End(p, "bad_reference")
         /\ ~End(p, "not_deleted") /\ ~TryAgain(p) /\ ~CheckConflict(p)
  BY EndsWith DEF Outcomes

\* What a query of a create or an update adds to what its process knows.
LEMMA WriterKnows ==
  ASSUME Atomic, TypeOK, Routes, IRest, NEW p \in Procs, ~Ends(p),
         Ask(p).op \in {"create", "update"}, pc[p] \in Inside,
         \/ ReadHead(p) \/ FindInline(p) \/ CheckRefs(p) \/ CheckFree(p) \/ Replace(p)
         \/ CheckUrls(p) \/ MergeUrls(p) \/ Render(p)
  PROVE  Knows(p)'
<1> DEFINE h == Ask(p).head
<1>0. pc[p] # "idle" /\ h \in Heads /\ said \in [Procs -> [Heads -> Nat]]
      /\ target \in [Procs -> Entities \cup {Nothing}]
  BY AskFields DEF Inside, TypeOK
<1>w. /\ Ask(p).op = "update" => Updating(p)
      /\ Ask(p).op = "create" => Creating(p)
      /\ Referring(p)
  BY WhoIsAt
<1>1. CASE ReadHead(p)
  <2>1. /\ Ask(p).op = "update" /\ pc[p] = "read" /\ Reads(p, "inline")
        /\ Sees(p).state[h] = "live" /\ Ask(p).expected \in {0, Sees(p).version[h]}
        /\ said' = [said EXCEPT ![p][h] = Sees(p).version[h] + 1]
    BY <1>1, NoOutcome, Zenon DEF ReadHead
  <2>2. said[p] = Unsaid /\ Sees(p) = view[p]
    BY <2>1, WhoIsAt DEF Updating
  <2>3. said'[p] = [Unsaid EXCEPT ![h] = view[p].version[h] + 1]
    BY <1>0, <2>1, <2>2
  <2>4. pc'[p] = "inline" /\ Ask(p)' = Ask(p) /\ view'[p] = view[p]
    BY <2>1, ReadsOwn
  <2>5. Updating(p)'
    BY <2>1, <2>2, <2>3, <2>4 DEF Updating, Says
  <2>6. Referring(p)'
    BY <2>4 DEF Referring
  <2> QED
    BY <2>1, <2>4, <2>5, <2>6 DEF Knows
<1>2. CASE FindInline(p)
  <2>1. /\ pc[p] = "inline" /\ Reads(p, "refs") /\ said' = said
        /\ \E e : /\ target' = [target EXCEPT ![p] = e]
                  /\ e = Ask(p).inline \/ Sees(p).state[e] = "live"
    BY <1>2, NoOutcome, Zenon DEF FindInline
  <2>2. /\ pc'[p] = "refs" /\ Ask(p)' = Ask(p) /\ view'[p] = view[p] /\ Sees(p) = view[p]
        /\ sets'[p] = sets[p] /\ links'[p] = links[p] /\ makes'[p] = makes[p]
    BY <2>1, ReadsOwn, WhoIsAt
  <2>3. target'[p] = Ask(p).inline \/ view[p].state[target'[p]] = "live"
    BY <1>0, <2>1, <2>2
  <2>4. Referring(p)'
    BY <2>2, <2>3 DEF Referring
  <2>5. Ask(p).op = "create" => Creating(p)'
    BY <2>1, <2>2, WhoIsAt DEF Creating
  <2>6. Ask(p).op = "update" => Updating(p)'
    BY <2>1, <2>2, <1>w DEF Updating, Says
  <2> QED
    BY <2>2, <2>4, <2>5, <2>6 DEF Knows
<1>3. CASE CheckRefs(p)
  <2>1. /\ pc[p] = "refs" /\ Reads(p, "free") /\ said' = said /\ target' = target
        /\ \A e \in Ask(p).refs : Sees(p).state[e] = "live"
    BY <1>3, NoOutcome, Zenon DEF CheckRefs
  <2>2. /\ pc'[p] = "free" /\ Ask(p)' = Ask(p) /\ view'[p] = view[p] /\ Sees(p) = view[p]
        /\ sets'[p] = sets[p] /\ links'[p] = links[p] /\ makes'[p] = makes[p]
    BY <2>1, ReadsOwn, WhoIsAt
  <2>3. Referring(p)'
    BY <2>1, <2>2, WhoIsAt DEF Referring
  <2>4. Ask(p).op = "create" => Creating(p)'
    BY <2>1, <2>2, WhoIsAt DEF Creating
  <2>5. Ask(p).op = "update" => Updating(p)'
    BY <2>1, <2>2, <1>w DEF Updating, Says
  <2> QED
    BY <2>2, <2>3, <2>4, <2>5 DEF Knows
<1>4. CASE CheckFree(p)
  <2>1. /\ pc[p] = "free" /\ said' = said /\ target' = target
        /\ Reads(p, IF Ask(p).op = "create" THEN "render" ELSE "replace")
    BY <1>4, NoOutcome, Zenon DEF CheckFree
  <2>2. /\ pc'[p] = (IF Ask(p).op = "create" THEN "render" ELSE "replace")
        /\ Ask(p)' = Ask(p) /\ view'[p] = view[p] /\ Sees(p) = view[p]
        /\ sets'[p] = sets[p] /\ links'[p] = links[p] /\ makes'[p] = makes[p]
    BY <2>1, ReadsOwn, WhoIsAt
  <2>3. Referring(p)'
    BY <2>1, <2>2, WhoIsAt DEF Referring
  <2>4. Ask(p).op = "create" => Creating(p)'
    BY <2>1, <2>2, WhoIsAt DEF Creating
  <2>5. Ask(p).op = "update" => Updating(p)'
    BY <2>1, <2>2, <1>w DEF Updating, Says
  <2> QED
    BY <2>2, <2>3, <2>4, <2>5 DEF Knows
<1>5. CASE Replace(p)
  <2>1. /\ pc[p] = "replace" /\ Ask(p).op = "update" /\ said' = said
        /\ WritesOn(p, IF Ask(p).keepUrls THEN "render" ELSE "urls")
    BY <1>5, WhoIsAt DEF Replace
  <2>2. /\ pc'[p] = (IF Ask(p).keepUrls THEN "render" ELSE "urls")
        /\ Ask(p)' = Ask(p) /\ view'[p] = view[p] /\ target'[p] = target[p]
        /\ sets'[p] = sets[p] \cup SetsNext(p)
    BY <2>1, PutsOwn
  <2>3. SetsNext(p) = {h}
    BY <2>1 DEF SetsNext
  <2>4. Updating(p)'
    BY <1>0, <2>1, <2>2, <2>3, <1>w DEF Updating, Says
  <2>5. Referring(p)'
    BY <2>1, <2>2, WhoIsAt DEF Referring
  <2> QED
    BY <2>1, <2>2, <2>4, <2>5 DEF Knows
<1>6. CASE CheckUrls(p)
  <2>1. /\ pc[p] = "urls" /\ Reads(p, "merge") /\ said' = said /\ target' = target
        /\ \A g \in Heads \ {h} : Ask(p).urls \cap Sees(p).urls[g] = {}
    BY <1>6, NoOutcome, Zenon DEF CheckUrls
  <2>2. /\ pc'[p] = "merge" /\ Ask(p)' = Ask(p) /\ view'[p] = view[p] /\ Sees(p) = view[p]
        /\ sets'[p] = sets[p] /\ links'[p] = links[p] /\ makes'[p] = makes[p]
        /\ Ask(p).op = "update"
    BY <2>1, ReadsOwn, WhoIsAt
  <2>3. Updating(p)'
    BY <2>1, <2>2, <1>w DEF Updating, Says
  <2>4. Referring(p)'
    BY <2>1, <2>2, WhoIsAt DEF Referring
  <2> QED
    BY <2>2, <2>3, <2>4 DEF Knows
<1>7. CASE MergeUrls(p)
  <2>1. pc[p] = "merge" /\ Ask(p).op = "update" /\ said' = said /\ WritesOn(p, "render")
    BY <1>7, WhoIsAt DEF MergeUrls
  <2>2. /\ pc'[p] = "render" /\ Ask(p)' = Ask(p) /\ view'[p] = view[p] /\ Sees(p) = view[p]
        /\ sets'[p] = sets[p] \cup SetsNext(p) /\ target'[p] = target[p]
        /\ makes'[p] = makes[p] \cup MakesNext(p)
    BY <2>1, PutsOwn, WhoIsAt
  <2>3. MakesNext(p) = {u \in Ask(p).urls : ~Exists(view[p], u)}
    BY <2>1, <2>2 DEF MakesNext
  <2>4. ~Ask(p).keepUrls => Ask(p).urls \subseteq makes'[p] \cup view[p].urls[h]
    <3>1. SUFFICES ASSUME ~Ask(p).keepUrls, NEW u \in Ask(p).urls, Exists(view[p], u)
                   PROVE  u \in view[p].urls[h]
      BY <2>2, <2>3
    <3>2. \A g \in Heads \ {h} : Ask(p).urls \cap view[p].urls[g] = {}
      BY <2>1, <3>1, WhoIsAt DEF Updating
    <3>3. \E g \in Heads : u \in view[p].urls[g]
      BY <1>0, <3>1, AskFields, HeadWritesAssumption DEF Exists, HeadWritesAssumption
    <3> QED
      BY <3>2, <3>3
  <2>5. Updating(p)'
    BY <2>1, <2>2, <2>4, <1>w DEF Updating, Says
  <2>6. Referring(p)'
    BY <2>1, <2>2, WhoIsAt DEF Referring
  <2> QED
    BY <2>1, <2>2, <2>5, <2>6 DEF Knows
<1>8. CASE Render(p)
  <2>1. /\ pc[p] = "render" /\ WritesOn(p, "commit")
        /\ said' = IF Ask(p).op = "create" THEN [said EXCEPT ![p][h] = 1] ELSE said
    BY <1>8, NoOutcome, Zenon DEF Render
  <2>2. /\ pc'[p] = "commit" /\ Ask(p)' = Ask(p) /\ view'[p] = view[p] /\ target'[p] = target[p]
        /\ sets'[p] = sets[p] \cup SetsNext(p) /\ links'[p] = links[p] \cup LinksNext(p)
        /\ makes'[p] = makes[p] \cup MakesNext(p)
    BY <2>1, PutsOwn
  <2>3. /\ LinksNext(p) = (Ask(p).refs \cup {h, target[p]}) \ {Nothing}
        /\ MakesNext(p) = (IF Ask(p).op = "create" THEN {h} \cup Ask(p).urls ELSE {})
                          \cup (IF MakesInline(p) THEN {Ask(p).inline, Ask(p).key} ELSE {})
    BY <2>1 DEF LinksNext, MakesNext
  <2>4. MakesInline(p)' = MakesInline(p)
    BY <2>2 DEF MakesInline
  <2>5. h # Nothing
    BY <1>0, HeadWritesAssumption DEF HeadWritesAssumption
  <2>6. Referring(p)'
    BY <2>1, <2>2, <2>3, <2>4, WhoIsAt DEF Referring
  <2>7. CASE Ask(p).op = "create"
    <3>1. said'[p] = [Unsaid EXCEPT ![h] = 1]
      BY <1>0, <2>1, <2>7, WhoIsAt DEF Creating
    <3>2. Creating(p)'
      BY <2>2, <2>3, <2>5, <2>7, <3>1 DEF Creating, Says
    <3> QED
      BY <2>2, <2>6, <2>7, <3>2 DEF Knows
  <2>8. CASE Ask(p).op = "update"
    <3>1. Updating(p)'
      BY <2>1, <2>2, <2>8, <1>w DEF Updating, Says
    <3> QED
      BY <2>2, <2>6, <2>8, <3>1 DEF Knows
  <2> QED
    BY <2>7, <2>8
<1> QED
  BY <1>1, <1>2, <1>3, <1>4, <1>5, <1>6, <1>7, <1>8

\* The same of a delete or an undelete.
LEMMA FlaggerKnows ==
  ASSUME Atomic, TypeOK, Routes, IRest, NEW p \in Procs, ~Ends(p),
         Ask(p).op \in {"delete", "undelete"}, pc[p] \in Inside,
         FindNode(p) \/ FindHolders(p) \/ Mark(p) \/ Flag(p)
  PROVE  Knows(p)'
<1> DEFINE h == Ask(p).head
<1>0. pc[p] # "idle" /\ h \in Heads /\ said \in [Procs -> [Heads -> Nat]]
      /\ view[p].version \in [Heads -> Nat] /\ view[p].refs \in [Heads -> SUBSET Entities]
  BY AskFields DEF Inside, TypeOK, DbType
<1>w. /\ Ask(p).op = "delete" => Deleting(p)
      /\ Ask(p).op = "undelete" => Undeleting(p)
      /\ Sees(p) = view[p]
  BY WhoIsAt
<1>1. CASE FindNode(p) /\ Ask(p).op = "delete"
  <2>1. /\ pc[p] = "read" /\ target' = target /\ said' = said /\ view[p].state[h] = "live"
        /\ Reads(p, IF h \in Entities THEN "refs" ELSE "delete")
    BY <1>1, <1>w, NoOutcome, Zenon DEF FindNode
  <2>2. /\ pc'[p] = (IF h \in Entities THEN "refs" ELSE "delete")
        /\ Ask(p)' = Ask(p) /\ view'[p] = view[p]
    BY <2>1, ReadsOwn
  <2>3. h \notin Entities => Holders(view[p], h) = {}
    BY <1>0 DEF Holders
  <2>4. Deleting(p)'
    BY <1>1, <1>w, <2>1, <2>2, <2>3 DEF Deleting, Holders
  <2> QED
    BY <1>1, <2>2, <2>4 DEF Knows
<1>2. CASE FindNode(p) /\ Ask(p).op = "undelete"
  <2>0. view[p].state[h] \in {"absent", "live", "deleted"}
    BY <1>0 DEF TypeOK, DbType
  <2>1. view[p].state[h] = "deleted"
    BY <1>2, <1>w, <2>0, NoOutcome DEF FindNode
  <2>2. pc[p] = "read" /\ said' = said /\ Reads(p, "undelete")
    BY <1>2, <1>w, <2>1 DEF FindNode
  <2>3. pc'[p] = "undelete" /\ Ask(p)' = Ask(p) /\ view'[p] = view[p]
    BY <2>2, ReadsOwn
  <2>4. Undeleting(p)'
    BY <1>2, <1>w, <2>1, <2>2, <2>3 DEF Undeleting
  <2> QED
    BY <1>2, <2>3, <2>4 DEF Knows
<1>3. CASE FindHolders(p)
  <2>1. /\ pc[p] = "refs" /\ said' = said /\ Ask(p).op = "delete"
        /\ Reads(p, IF Holders(view[p], h) = {} THEN "delete" ELSE "mark")
    BY <1>3, <1>w DEF FindHolders
  <2>2. /\ pc'[p] = (IF Holders(view[p], h) = {} THEN "delete" ELSE "mark")
        /\ Ask(p)' = Ask(p) /\ view'[p] = view[p]
    BY <2>1, ReadsOwn
  <2>3. Deleting(p)'
    BY <1>w, <2>1, <2>2 DEF Deleting, Holders
  <2> QED
    BY <2>1, <2>2, <2>3 DEF Knows
<1>4. CASE Mark(p)
  <2>1. pc[p] = "mark" /\ said' = said /\ Ask(p).op = "delete" /\ WritesOn(p, "commit")
    BY <1>4, WhoIsAt DEF Mark
  <2>2. /\ pc'[p] = "commit" /\ Ask(p)' = Ask(p) /\ view'[p] = view[p]
        /\ sets'[p] = sets[p] \cup {h}
    BY <2>1, PutsOwn DEF SetsNext
  <2>3. Deleting(p)'
    BY <1>w, <2>1, <2>2 DEF Deleting, Holders, Says
  <2> QED
    BY <2>1, <2>2, <2>3 DEF Knows
<1>5. CASE Flag(p)
  <2>1. /\ pc[p] \in {"delete", "undelete"} /\ WritesOn(p, "commit")
        /\ said' = [said EXCEPT ![p][h] = view[p].version[h]]
    BY <1>5, <1>w DEF Flag
  <2>2. /\ pc'[p] = "commit" /\ Ask(p)' = Ask(p) /\ view'[p] = view[p]
        /\ sets'[p] = sets[p] \cup {h}
    BY <2>1, PutsOwn DEF SetsNext
  <2>3. said[p] = Unsaid
    BY <1>w, <2>1 DEF Deleting, Undeleting
  <2>4. said'[p] = [Unsaid EXCEPT ![h] = view[p].version[h]]
    BY <1>0, <2>1, <2>3
  <2>5. CASE Ask(p).op = "delete"
    <3>1. pc[p] = "delete"
      BY <2>1, <2>5, WhoIsAt
    <3>2. Deleting(p)'
      BY <1>w, <2>2, <2>4, <2>5, <3>1 DEF Deleting, Holders, Says
    <3> QED
      BY <2>2, <2>5, <3>2 DEF Knows
  <2>6. CASE Ask(p).op = "undelete"
    <3>1. Undeleting(p)'
      BY <1>w, <2>1, <2>2, <2>4, <2>6 DEF Undeleting, Says
    <3> QED
      BY <2>2, <2>6, <3>1 DEF Knows
  <2> QED
    BY <2>5, <2>6
<1> QED
  BY <1>1, <1>2, <1>3, <1>4, <1>5

LEMMA QueryKeeps ==
  ASSUME Atomic, TypeOK, Routes, Good(db), IRest, NEW p \in Procs, Query(p)
  PROVE  IRest'
<1>1. CASE Begin(p)
  BY <1>1, BeginKeeps
<1>2. CASE Ends(p)
  BY <1>2, EndsKeep
<1>3. CASE ~Begin(p) /\ ~Ends(p)
  <2>1. Looks(p) \/ Puts(p)
    BY <1>3, QueryKinds, NotRelinked
  <2>2. pc[p] \in Inside
    BY <2>1 DEF Looks, Puts
  <2>3. ~(FindBatch(p) \/ Rewire(p) \/ \E h \in Heads : LockHead(p, h))
    BY NotRelinked DEF FindBatch, Rewire, LockHead
  <2>4. Knows(p)'
    <3>1. ~Lock(p)
      BY <2>2, WhoIsAt DEF Lock
    <3>2. ReadHead(p) \/ FindInline(p) \/ CheckRefs(p) \/ CheckFree(p) \/ Replace(p)
          \/ CheckUrls(p) \/ MergeUrls(p) \/ Render(p) => Ask(p).op \in {"create", "update"}
      BY <2>2, WhoIsAt DEF ReadHead, FindInline, CheckRefs, CheckFree, Replace, CheckUrls,
                           MergeUrls, Render
    <3>3. FindNode(p) \/ FindHolders(p) \/ Mark(p) \/ Flag(p) => Ask(p).op \in {"delete", "undelete"}
      BY <2>2, WhoIsAt DEF FindNode, FindHolders, Mark, Flag
    <3> QED
      BY <1>3, <2>2, <2>3, <3>1, <3>2, <3>3, WriterKnows, FlaggerKnows DEF Query
  <2> QED
    BY <2>1, <2>4, LooksKeep, PutsKeep
<1> QED
  BY <1>1, <1>2, <1>3

-------------------------------------------------------------------------------
(* A commit. *)

\* The heads it writes, of a create or an update.
WrittenBy(p) == {Ask(p).head} \cup (IF MakesInline(p) THEN {Ask(p).inline} ELSE {})

RefsOf(p) == (Ask(p).refs \cup {target[p]}) \ {Nothing}

LEMMA InlineIsNew ==
  ASSUME TypeOK, NEW p \in Procs, pc[p] # "idle", MakesInline(p)
  PROVE  /\ Ask(p).inline \in Entities /\ Ask(p).key \in Urls
         /\ Ask(p).inline # Ask(p).head /\ Ask(p).key \notin Ask(p).urls
         /\ Ask(p).inline = target[p] /\ Ask(p).inline # Nothing
<1>1. Ask(p).inline = target[p] /\ Ask(p).inline # Nothing /\ req[p] \in Requests
  BY AskTyped DEF MakesInline
<1> QED
  BY <1>1, InlineTyped, HeadWritesAssumption DEF Ask, HeadWritesAssumption

\* w is d, with them written.
WroteAll(w, d, p) ==
  LET h == Ask(p).head
  IN  /\ \A g \in Heads :
           /\ w.state[g] = IF g \in WrittenBy(p) THEN "live" ELSE d.state[g]
           /\ w.version[g] = d.version[g] + (IF g \in WrittenBy(p) THEN 1 ELSE 0)
           /\ w.refs[g] = IF g = h THEN RefsOf(p)
                          ELSE IF g \in WrittenBy(p) THEN {} ELSE d.refs[g]
           /\ w.urls[g] = IF g = h
                          THEN IF Ask(p).op = "update" /\ Ask(p).keepUrls
                               THEN d.urls[h] ELSE Ask(p).urls
                          ELSE IF g \in WrittenBy(p) THEN {Ask(p).key} ELSE d.urls[g]
      /\ w.marked = d.marked \ WrittenBy(p)
      /\ w.revived = d.revived \ WrittenBy(p)

LEMMA WriteResult ==
  ASSUME TypeOK, NEW p \in Procs, pc[p] # "idle", Ask(p).op \in {"create", "update"},
         NEW d \in DbType
  PROVE  WroteAll(Result(d, p), d, p)
<1> DEFINE h == Ask(p).head
           i == Ask(p).inline
<1>0. h \in Heads
  BY AskFields
<1>1. PICK r, u, c, w :
        /\ r = RefsOf(p) /\ c = WithInline(d, p) /\ w = Result(d, p)
        /\ u = IF Ask(p).op = "update" /\ Ask(p).keepUrls THEN d.urls[h] ELSE Ask(p).urls
  OBVIOUS
<1>2. w = Written(c, h, r, u)
  BY <1>1 DEF Result, RefsOf
<1>3. CASE MakesInline(p)
  <2>1. i \in Heads /\ i # h /\ WrittenBy(p) = {h, i} /\ {} \in SUBSET Entities
        /\ {Ask(p).key} \in SUBSET Urls
    BY <1>3, InlineIsNew DEF Heads, WrittenBy
  <2>2. c = Written(d, i, {}, {Ask(p).key})
    BY <1>1, <1>3 DEF WithInline
  <2>3. c \in DbType
    BY <2>1, <2>2, WrittenTyped
  <2>4. WroteIn(c, d, i, {}, {Ask(p).key})
    BY <2>1, <2>2, WrittenAt
  <2>5. WroteIn(w, c, h, r, u)
    BY <1>0, <1>2, <2>3, WrittenAt
  <2>6. /\ w.marked = d.marked \ WrittenBy(p)
        /\ w.revived = d.revived \ WrittenBy(p)
    BY <2>1, <2>4, <2>5 DEF WroteIn
  <2>7. ASSUME NEW g \in Heads
        PROVE  /\ w.state[g] = IF g \in WrittenBy(p) THEN "live" ELSE d.state[g]
               /\ w.version[g] = d.version[g] + (IF g \in WrittenBy(p) THEN 1 ELSE 0)
               /\ w.refs[g] = IF g = h THEN r ELSE IF g \in WrittenBy(p) THEN {} ELSE d.refs[g]
               /\ w.urls[g] = IF g = h THEN u
                              ELSE IF g \in WrittenBy(p) THEN {Ask(p).key} ELSE d.urls[g]
    <3>1. d.version[g] \in Nat
      BY DEF DbType
    <3>2. /\ c.state[g] = IF g = i THEN "live" ELSE d.state[g]
          /\ c.version[g] = d.version[g] + (IF g = i THEN 1 ELSE 0)
          /\ c.refs[g] = IF g = i THEN {} ELSE d.refs[g]
          /\ c.urls[g] = IF g = i THEN {Ask(p).key} ELSE d.urls[g]
      BY <2>4 DEF WroteIn
    <3>3. /\ w.state[g] = IF g = h THEN "live" ELSE c.state[g]
          /\ w.version[g] = c.version[g] + (IF g = h THEN 1 ELSE 0)
          /\ w.refs[g] = IF g = h THEN r ELSE c.refs[g]
          /\ w.urls[g] = IF g = h THEN u ELSE c.urls[g]
      BY <2>5 DEF WroteIn
    <3>4. w.version[g] = d.version[g] + (IF g \in WrittenBy(p) THEN 1 ELSE 0)
      BY <2>1, <3>1, <3>2, <3>3
    <3> QED
      BY <2>1, <3>2, <3>3, <3>4
  <2> QED
    BY <1>1, <2>6, <2>7 DEF WroteAll
<1>4. CASE ~MakesInline(p)
  <2>1. c = d /\ WrittenBy(p) = {h}
    BY <1>1, <1>4 DEF WithInline, WrittenBy
  <2>2. WroteIn(w, d, h, r, u)
    BY <1>0, <1>2, <2>1, WrittenAt
  <2> QED
    BY <1>1, <2>1, <2>2 DEF WroteIn, WroteAll
<1> QED
  BY <1>3, <1>4

\* What has been read, where it was written or linked, is so.
LEMMA StillSo ==
  ASSUME TypeOK, IRest, NEW p \in Procs, InTransaction(p), NEW h \in Heads,
         h \in sets[p] \cup links[p], view[p].state[h] # "absent"
  PROVE  Same(db, view[p], h)
BY DEF IRest, Kept, Locked

\* What is known when a create or an update commits.
LEMMA WriterFacts ==
  ASSUME Atomic, TypeOK, Routes, Good(db), OneOwner, IRest, NEW p \in Procs, pc[p] = "commit",
         \A n \in makes[p] : ~Exists(db, n), Ask(p).op \in {"create", "update"}
  PROVE  /\ \A g \in WrittenBy(p) : /\ g \in Heads /\ db.state[g] # "deleted"
                                    /\ g \in sets[p] \/ db.state[g] = "absent"
         /\ \A e \in RefsOf(p) : /\ e \in Entities /\ e \in links[p]
                                 /\ e \in WrittenBy(p) \/ db.state[e] = "live"
         /\ MakesInline(p) => \A g \in Heads : Ask(p).key \notin db.urls[g]
         /\ Ask(p).op = "create" \/ ~Ask(p).keepUrls =>
              \A g \in Heads \ {Ask(p).head} : Ask(p).urls \cap db.urls[g] = {}
         /\ Ask(p).op = "update" => /\ db.state[Ask(p).head] = "live"
                                    /\ Ask(p).expected \in {0, db.version[Ask(p).head]}
         /\ said[p] = [Unsaid EXCEPT ![Ask(p).head] = db.version[Ask(p).head] + 1]
<1> DEFINE h == Ask(p).head
<1>0. /\ pc[p] # "idle" /\ pc[p] \in Inside /\ InTransaction(p) /\ h \in Heads
      /\ Ask(p).urls \subseteq Urls /\ Ask(p).refs \subseteq Entities
      /\ target[p] \in Entities \cup {Nothing}
      /\ Heads \cap Urls = {} /\ Nothing \notin Heads /\ Nothing \notin Urls
  BY AskFields, HeadWritesAssumption DEF Inside, Places, InTransaction, TypeOK, HeadWritesAssumption
<1>w. /\ Ask(p).op = "update" => Updating(p)
      /\ Ask(p).op = "create" => Creating(p)
      /\ Referring(p)
  BY <1>0, WhoIsAt
<1>1. Ask(p).op = "update" =>
        /\ Same(db, view[p], h) /\ h \in sets[p] /\ db.state[h] = "live"
        /\ Ask(p).expected \in {0, db.version[h]}
  <2>1. Ask(p).op = "update" => view[p].state[h] = "live" /\ h \in sets[p]
                                /\ Ask(p).expected \in {0, view[p].version[h]}
    BY <1>w DEF Updating
  <2> QED
    BY <1>0, <2>1, StillSo DEF Same
<1>2. Ask(p).op = "create" => /\ db.state[h] = "absent" /\ db.version[h] = 0
                              /\ h \in makes[p] /\ Ask(p).urls \subseteq makes[p]
  <2>1. Ask(p).op = "create" => h \in makes[p] /\ Ask(p).urls \subseteq makes[p]
    BY <1>w DEF Creating
  <2> QED
    BY <1>0, <2>1 DEF Exists, Good
<1>3. MakesInline(p) => /\ Ask(p).inline \in Entities /\ Ask(p).inline \in makes[p]
                        /\ Ask(p).key \in makes[p] /\ Ask(p).key \in Urls
                        /\ db.state[Ask(p).inline] = "absent"
                        /\ \A g \in Heads : Ask(p).key \notin db.urls[g]
  <2>1. MakesInline(p) => Ask(p).inline \in makes[p] /\ Ask(p).key \in makes[p]
    BY <1>w DEF Referring
  <2> QED
    BY <1>0, <2>1, InlineIsNew DEF Exists, Heads
<1>4. \A g \in WrittenBy(p) : /\ g \in Heads /\ db.state[g] # "deleted"
                              /\ g \in sets[p] \/ db.state[g] = "absent"
  BY <1>0, <1>1, <1>2, <1>3 DEF WrittenBy, Heads
<1>5. \A e \in RefsOf(p) : /\ e \in Entities /\ e \in links[p]
                           /\ e \in WrittenBy(p) \/ db.state[e] = "live"
  <2>1. SUFFICES ASSUME NEW e \in RefsOf(p), e \notin WrittenBy(p)
                 PROVE  e \in Entities /\ e \in links[p] /\ db.state[e] = "live"
    <3>1. RefsOf(p) \subseteq links[p] /\ RefsOf(p) \subseteq Entities
      BY <1>0, <1>w DEF Referring, RefsOf
    <3> QED
      BY <2>1, <3>1
  <2>2. e \in links[p] /\ e \in Entities
    BY <1>0, <1>w DEF Referring, RefsOf
  <2>3. view[p].state[e] = "live"
    <3>1. CASE e \in Ask(p).refs
      BY <1>0, <1>w, <3>1 DEF Referring
    <3>2. CASE e = target[p] /\ e # Nothing
      BY <1>0, <1>w, <2>1, <3>2 DEF Referring, WrittenBy, MakesInline
    <3> QED
      BY <3>1, <3>2 DEF RefsOf
  <2> QED
    BY <1>0, <2>2, <2>3, StillSo DEF Same, Heads
<1>6. Ask(p).op = "create" \/ ~Ask(p).keepUrls =>
        \A g \in Heads \ {h} : Ask(p).urls \cap db.urls[g] = {}
  <2>1. SUFFICES ASSUME Ask(p).op = "create" \/ ~Ask(p).keepUrls,
                        NEW g \in Heads \ {h}, NEW u \in Ask(p).urls, u \in db.urls[g]
                 PROVE  FALSE
    OBVIOUS
  <2>2. u \notin makes[p]
    BY <1>0, <2>1 DEF Exists
  <2>3. Ask(p).op = "update"
    BY <1>2, <2>2
  <2>4. u \in view[p].urls[h]
    BY <1>w, <2>1, <2>2, <2>3 DEF Updating
  <2>5. u \in db.urls[h]
    BY <1>1, <2>3, <2>4 DEF Same
  <2> QED
    BY <1>0, <2>1, <2>5 DEF OneOwner
<1>7. said[p] = [Unsaid EXCEPT ![h] = db.version[h] + 1]
  <2>1. CASE Ask(p).op = "create"
    <3>1. said[p] = [Unsaid EXCEPT ![h] = 1]
      BY <1>0, <1>w, <2>1 DEF Creating, Says
    <3>2. db.version[h] + 1 = 1
      BY <1>2, <2>1
    <3> QED
      BY <3>1, <3>2
  <2>2. CASE Ask(p).op = "update"
    BY <1>0, <1>1, <1>w, <2>2 DEF Updating, Says, Same
  <2> QED
    BY <2>1, <2>2
<1> QED
  BY <1>1, <1>3, <1>4, <1>5, <1>6, <1>7

\* A commit disturbs no other, but where it is told of: what is not among what p
\* has set is as it was, and nothing refers to what p has not linked, that did not.
Gentle(p) ==
  /\ \A g \in Heads \ sets[p] : db.state[g] # "absent" => Same(db', db, g)
  /\ \A e \in Entities \ links[p], g \in Heads \ db'.revived :
       RefersTo(db', g, e) => RefersTo(db, g, e) /\ g \notin db.revived

LEMMA WriterCommits ==
  ASSUME Atomic, TypeOK, Routes, Good(db), NoDeadRefs, OneOwner, IRest, NEW p \in Procs,
         pc[p] = "commit", \A n \in makes[p] : ~Exists(db, n),
         Ask(p).op \in {"create", "update"}, db' = Result(db, p)
  PROVE  Good(db)' /\ NoDeadRefs' /\ OneOwner' /\ Gentle(p)
<1> DEFINE h == Ask(p).head
           W == WrittenBy(p)
<1>0. pc[p] # "idle" /\ db \in DbType /\ h \in Heads /\ h \in W
  BY AskFields DEF TypeOK, WrittenBy
<1>1. WroteAll(db', db, p)
  BY <1>0, WriteResult
<1>2. /\ \A g \in Heads : /\ db'.state[g] = IF g \in W THEN "live" ELSE db.state[g]
                          /\ db'.version[g] = db.version[g] + (IF g \in W THEN 1 ELSE 0)
                          /\ g \notin W => db'.refs[g] = db.refs[g] /\ db'.urls[g] = db.urls[g]
                          /\ g \in W /\ g # h => db'.refs[g] = {} /\ db'.urls[g] = {Ask(p).key}
      /\ db'.refs[h] = RefsOf(p)
      /\ db'.urls[h] = (IF Ask(p).op = "update" /\ Ask(p).keepUrls THEN db.urls[h] ELSE Ask(p).urls)
      /\ db'.marked = db.marked \ W /\ db'.revived = db.revived \ W
  BY <1>0, <1>1 DEF WroteAll
<1>3. /\ \A g \in Heads : db.version[g] \in Nat
      /\ db.refs \in [Heads -> SUBSET Entities]
  BY <1>0 DEF DbType
<1>4. /\ \A g \in W : /\ g \in Heads /\ db.state[g] # "deleted"
                      /\ g \in sets[p] \/ db.state[g] = "absent"
      /\ \A e \in RefsOf(p) : /\ e \in Entities /\ e \in links[p]
                              /\ e \in W \/ db.state[e] = "live"
      /\ MakesInline(p) => \A g \in Heads : Ask(p).key \notin db.urls[g]
      /\ Ask(p).op = "create" \/ ~Ask(p).keepUrls =>
           \A g \in Heads \ {h} : Ask(p).urls \cap db.urls[g] = {}
  BY WriterFacts
<1>5. Good(db)'
  <2>1. ASSUME NEW g \in Heads
        PROVE  /\ db'.state[g] = "absent" =>
                    /\ db'.version[g] = 0 /\ db'.refs[g] = {} /\ db'.urls[g] = {}
                    /\ g \notin db'.marked /\ g \notin db'.revived
               /\ db'.state[g] # "absent" => db'.version[g] > 0
    <3>1. CASE g \in W
      BY <1>2, <1>3, <3>1
    <3>2. CASE g \notin W
      BY <1>2, <1>3, <3>2 DEF Good
    <3> QED
      BY <3>1, <3>2
  <2> QED
    BY <2>1 DEF Good
<1>6. NoDeadRefs'
  <2>1. SUFFICES ASSUME NEW g \in Heads, db'.state[g] = "live", g \notin db'.revived,
                        NEW e \in db'.refs[g]
                 PROVE  db'.state[e] = "live"
    BY DEF NoDeadRefs
  <2>2. CASE g = h
    BY <1>2, <1>4, <2>1, <2>2 DEF Heads
  <2>3. CASE g # h
    <3>1. g \notin W /\ e \in db.refs[g]
      BY <1>2, <2>1, <2>3
    <3>2. db.state[e] = "live" /\ e \in Heads
      BY <1>2, <1>3, <2>1, <3>1 DEF NoDeadRefs, Heads
    <3> QED
      BY <1>2, <3>2
  <2> QED
    BY <2>2, <2>3
<1>7. OneOwner'
  <2>1. SUFFICES ASSUME NEW f \in Heads, NEW g \in Heads, f # g, NEW u \in db'.urls[f],
                        u \in db'.urls[g]
                 PROVE  FALSE
    BY DEF OneOwner
  <2>2. \A k \in W : k # h => MakesInline(p) /\ k = Ask(p).inline
    BY DEF WrittenBy
  <2>3. MakesInline(p) => Ask(p).key \notin Ask(p).urls
    BY <1>0, InlineIsNew
  <2>4. \A k \in Heads : \A x \in db'.urls[k] :
          \/ k \in W /\ k # h /\ x = Ask(p).key
          \/ x \in db.urls[k]
          \/ k = h /\ x \in Ask(p).urls /\ (Ask(p).op = "create" \/ ~Ask(p).keepUrls)
    BY <1>2
  <2>5. CASE f \in W /\ f # h /\ u = Ask(p).key
    BY <1>4, <2>1, <2>2, <2>3, <2>4, <2>5
  <2>6. CASE g \in W /\ g # h /\ u = Ask(p).key
    BY <1>4, <2>1, <2>2, <2>3, <2>4, <2>6
  <2>7. CASE u \in db.urls[f] /\ u \in db.urls[g]
    BY <2>1, <2>7 DEF OneOwner
  <2> QED
    BY <1>4, <2>1, <2>4, <2>5, <2>6, <2>7
<1>8. \A g \in Heads \ sets[p] : db.state[g] # "absent" => Same(db', db, g)
  <2>1. SUFFICES ASSUME NEW g \in Heads \ sets[p], db.state[g] # "absent"
                 PROVE  Same(db', db, g)
    OBVIOUS
  <2>2. g \notin W
    BY <1>4, <2>1
  <2> QED
    BY <1>2, <1>3, <2>2 DEF Same
<1>9. \A e \in Entities \ links[p], g \in Heads \ db'.revived :
        RefersTo(db', g, e) => RefersTo(db, g, e) /\ g \notin db.revived
  <2>1. SUFFICES ASSUME NEW e \in Entities \ links[p], NEW g \in Heads \ db'.revived,
                        db'.state[g] = "live", e \in db'.refs[g]
                 PROVE  RefersTo(db, g, e) /\ g \notin db.revived
    BY DEF RefersTo
  <2>2. g \notin W
    BY <1>2, <1>4, <2>1
  <2> QED
    BY <1>2, <2>1, <2>2 DEF RefersTo
<1> QED
  BY <1>5, <1>6, <1>7, <1>8, <1>9 DEF Gentle

\* What is known when a delete or an undelete commits.
LEMMA FlaggerFacts ==
  ASSUME Atomic, TypeOK, Routes, IRest, NEW p \in Procs, pc[p] = "commit",
         Ask(p).op \in {"delete", "undelete"}
  PROVE  LET h == Ask(p).head
         IN  /\ h \in Heads /\ h \in sets[p]
             /\ Ask(p).op = "delete" => db.state[h] = "live"
             /\ Ask(p).op = "undelete" => /\ db.state[h] = "deleted"
                                          /\ said[p] = [Unsaid EXCEPT ![h] = db.version[h]]
             /\ Ask(p).op = "delete" /\ said[p] # Unsaid =>
                  /\ said[p] = [Unsaid EXCEPT ![h] = db.version[h]]
                  /\ \A g \in Heads \ {h} : RefersTo(db, g, h) => g \in db.revived
<1> DEFINE h == Ask(p).head
<1>0. /\ pc[p] # "idle" /\ pc[p] \in Inside /\ InTransaction(p) /\ h \in Heads
      /\ db.refs \in [Heads -> SUBSET Entities]
  BY AskFields DEF Inside, Places, InTransaction, TypeOK, DbType
<1>w. /\ Ask(p).op = "delete" => Deleting(p)
      /\ Ask(p).op = "undelete" => Undeleting(p)
  BY <1>0, WhoIsAt
<1>1. h \in sets[p] /\ view[p].state[h] = (IF Ask(p).op = "delete" THEN "live" ELSE "deleted")
  BY <1>w DEF Deleting, Undeleting
<1>2. Same(db, view[p], h)
  BY <1>0, <1>1, StillSo
<1>3. Ask(p).op = "undelete" => said[p] = [Unsaid EXCEPT ![h] = db.version[h]]
  BY <1>2, <1>w DEF Undeleting, Says, Same
<1>4. ASSUME Ask(p).op = "delete", said[p] # Unsaid
      PROVE  /\ said[p] = [Unsaid EXCEPT ![h] = db.version[h]]
             /\ \A g \in Heads \ {h} : RefersTo(db, g, h) => g \in db.revived
  <2>1. /\ said[p] = [Unsaid EXCEPT ![h] = view[p].version[h]]
        /\ Holders(view[p], h) = {}
    BY <1>4, <1>w DEF Deleting, Says
  <2>2. \A g \in Heads \ {h} : ~RefersTo(view[p], g, h)
    BY <2>1 DEF Holders, RefersTo
  <2>3. h \notin edged[p]
    BY <1>1 DEF IRest, Locked
  <2>4. \A g \in Heads \ {h} : RefersTo(db, g, h) => g \in db.revived
    BY <1>0, <2>2, <2>3 DEF IRest, Kept, RefersTo
  <2>5. said[p] = [Unsaid EXCEPT ![h] = db.version[h]]
    BY <1>2, <2>1 DEF Same
  <2> QED
    BY <2>4, <2>5
<1> QED
  BY <1>0, <1>1, <1>2, <1>3, <1>4 DEF Same

LEMMA FlaggerCommits ==
  ASSUME Atomic, TypeOK, Routes, Good(db), NoDeadRefs, OneOwner, IRest, NEW p \in Procs,
         pc[p] = "commit", Ask(p).op \in {"delete", "undelete"}, db' = Result(db, p)
  PROVE  Good(db)' /\ NoDeadRefs' /\ OneOwner' /\ Gentle(p)
<1> DEFINE h == Ask(p).head
<1>0. /\ h \in Heads /\ h \in sets[p]
      /\ Ask(p).op = "delete" => db.state[h] = "live"
      /\ Ask(p).op = "undelete" => /\ db.state[h] = "deleted"
                                   /\ said[p] = [Unsaid EXCEPT ![h] = db.version[h]]
      /\ Ask(p).op = "delete" /\ said[p] # Unsaid =>
           /\ said[p] = [Unsaid EXCEPT ![h] = db.version[h]]
           /\ \A g \in Heads \ {h} : RefersTo(db, g, h) => g \in db.revived
  BY FlaggerFacts
<1>1. /\ db \in DbType /\ said[p] \in [Heads -> Nat]
      /\ db.refs \in [Heads -> SUBSET Entities] /\ db.state \in [Heads -> {"absent", "live", "deleted"}]
  BY DEF TypeOK, DbType
<1>2. CASE Ask(p).op = "delete" /\ said[p][h] = 0
  <2>1. /\ db'.state = db.state /\ db'.version = db.version /\ db'.refs = db.refs
        /\ db'.urls = db.urls /\ db'.marked = db.marked \cup {h} /\ db'.revived = db.revived
    BY <1>1, <1>2 DEF Result, DbType
  <2>2. Good(db)'
    BY <1>0, <1>2, <2>1 DEF Good
  <2>3. NoDeadRefs' /\ OneOwner'
    BY <2>1 DEF NoDeadRefs, OneOwner
  <2>4. Gentle(p)
    BY <2>1 DEF Gentle, Same, RefersTo
  <2> QED
    BY <2>2, <2>3, <2>4
<1>3. CASE Ask(p).op = "delete" /\ said[p][h] # 0
  <2>1. /\ db'.state = [db.state EXCEPT ![h] = "deleted"] /\ db'.version = db.version
        /\ db'.refs = db.refs /\ db'.urls = db.urls
        /\ db'.marked = db.marked \ {h} /\ db'.revived = db.revived \ {h}
    BY <1>1, <1>3 DEF Result, DbType
  <2>2. \A g \in Heads \ {h} : RefersTo(db, g, h) => g \in db.revived
    BY <1>0, <1>3 DEF Unsaid
  <2>3. Good(db)'
    BY <1>0, <1>1, <1>3, <2>1 DEF Good
  <2>4. NoDeadRefs'
    <3>1. SUFFICES ASSUME NEW g \in Heads, db'.state[g] = "live", g \notin db'.revived,
                          NEW e \in db'.refs[g]
                   PROVE  db'.state[e] = "live"
      BY DEF NoDeadRefs
    <3>2. g # h /\ db.state[g] = "live" /\ g \notin db.revived /\ e \in db.refs[g]
      BY <1>0, <1>1, <2>1, <3>1
    <3>3. e # h
      BY <2>2, <3>2 DEF RefersTo
    <3> QED
      BY <1>1, <2>1, <3>2, <3>3 DEF NoDeadRefs, Heads
  <2>5. OneOwner'
    BY <2>1 DEF OneOwner
  <2>6. Gentle(p)
    BY <1>0, <1>1, <2>1 DEF Gentle, Same, RefersTo
  <2> QED
    BY <2>3, <2>4, <2>5, <2>6
<1>4. CASE Ask(p).op = "undelete"
  <2>1. /\ db'.state = [db.state EXCEPT ![h] = "live"] /\ db'.version = db.version
        /\ db'.refs = db.refs /\ db'.urls = db.urls
        /\ db'.marked = db.marked /\ db'.revived = db.revived \cup {h}
    BY <1>1, <1>4 DEF Result, DbType
  <2>2. Good(db)'
    BY <1>0, <1>1, <1>4, <2>1 DEF Good
  <2>3. NoDeadRefs'
    <3>1. SUFFICES ASSUME NEW g \in Heads, db'.state[g] = "live", g \notin db'.revived,
                          NEW e \in db'.refs[g]
                   PROVE  db'.state[e] = "live"
      BY DEF NoDeadRefs
    <3>2. db.state[g] = "live" /\ g \notin db.revived /\ e \in db.refs[g]
      BY <1>0, <1>1, <2>1, <3>1
    <3> QED
      BY <1>1, <2>1, <3>2 DEF NoDeadRefs, Heads
  <2>4. OneOwner'
    BY <2>1 DEF OneOwner
  <2>5. Gentle(p)
    BY <1>0, <1>1, <2>1 DEF Gentle, Same, RefersTo
  <2> QED
    BY <2>2, <2>3, <2>4, <2>5
<1> QED
  BY <1>2, <1>3, <1>4

LEMMA CommitKeeps ==
  ASSUME Atomic, TypeOK, Routes, Good(db), NoDeadRefs, OneOwner, IRest, NEW p \in Procs,
         pc[p] = "commit", \A n \in makes[p] : ~Exists(db, n), Committed(p)
  PROVE  Good(db)' /\ NoDeadRefs' /\ OneOwner' /\ IRest'
<1>1. db' = Result(db, p)
  BY DEF Committed
<1>2. Good(db)' /\ NoDeadRefs' /\ OneOwner' /\ Gentle(p)
  <2>1. pc[p] \in Inside
    BY DEF Inside, Places
  <2> QED
    BY <1>1, <2>1, WhoIsAt, WriterCommits, FlaggerCommits
<1>3. /\ pc'[p] = "announce" /\ sets'[p] = {} /\ links'[p] = {}
  BY DEF Committed, Goto, TypeOK
<1>4. Kept(p)' /\ Knows(p)' /\ Locked(p)'
  <2>1. ~InTransaction(p)'
    BY <1>3 DEF InTransaction
  <2>2. Locked(p)'
    BY <1>3 DEF Locked
  <2> QED
    BY <1>3, <2>1, <2>2 DEF Kept, Knows
<1>5. ASSUME NEW q \in Procs \ {p}
      PROVE  Kept(q)' /\ Locked(q)' /\ Knows(q)'
  <2>1. Untouched(q)
    BY DEF Committed, Goto, Untouched, TypeOK
  <2>2. /\ changed'[q] = changed[q] \cup (IF InTransaction(q) THEN sets[p] ELSE {})
        /\ edged'[q] = edged[q] \cup (IF InTransaction(q) THEN links[p] ELSE {})
    BY DEF Committed, Told
  <2>3. InTransaction(q)' = InTransaction(q)
    BY <2>1 DEF Untouched, InTransaction
  <2>4. Kept(q)'
    <3>1. SUFFICES ASSUME InTransaction(q)
                   PROVE  /\ Good(view[q])'
                          /\ \A h \in Heads \ changed'[q] :
                               view'[q].state[h] # "absent" => Same(db', view'[q], h)
                          /\ \A e \in Entities \ edged'[q], h \in Heads \ db'.revived :
                               RefersTo(db', h, e) => RefersTo(view'[q], h, e)
      BY <2>3 DEF Kept
    <3>2. view'[q] = view[q]
      BY <2>1 DEF Untouched
    <3>3. Good(view[q])'
      BY <3>1, <3>2 DEF IRest, Kept, Good
    <3>4. ASSUME NEW h \in Heads \ changed'[q], view[q].state[h] # "absent"
          PROVE  Same(db', view[q], h)
      <4>1. Same(db, view[q], h) /\ h \notin sets[p]
        BY <2>2, <3>1, <3>4 DEF IRest, Kept
      <4>2. Same(db', db, h)
        BY <1>2, <3>4, <4>1 DEF Gentle, Same
      <4> QED
        BY <4>1, <4>2 DEF Same
    <3>5. ASSUME NEW e \in Entities \ edged'[q], NEW h \in Heads \ db'.revived, RefersTo(db', h, e)
          PROVE  RefersTo(view[q], h, e)
      <4>1. e \notin links[p] /\ e \notin edged[q]
        BY <2>2, <3>1, <3>5
      <4>2. RefersTo(db, h, e) /\ h \notin db.revived
        BY <1>2, <3>5, <4>1 DEF Gentle
      <4> QED
        BY <3>1, <4>1, <4>2 DEF IRest, Kept
    <3> QED
      BY <3>2, <3>3, <3>4, <3>5
  <2>5. Locked(q)'
    <3>1. /\ sets[q] \cap (changed'[q] \cup edged'[q]) = {}
          /\ links[q] \cap changed'[q] = {}
      BY <2>2 DEF IRest, Locked
    <3>2. \A o \in Procs \ {q} : sets[q] \cap (sets'[o] \cup links'[o]) = {}
      <4>1. ASSUME NEW o \in Procs \ {q}, o # p
            PROVE  sets'[o] = sets[o] /\ links'[o] = links[o]
        BY <4>1 DEF Committed, TypeOK
      <4> QED
        BY <1>3, <4>1 DEF IRest, Locked
    <3> QED
      BY <2>1, <2>3, <3>1, <3>2 DEF IRest, Locked, Untouched
  <2>6. Knows(q)'
    BY <2>1, KnowsOwn DEF IRest
  <2> QED
    BY <2>4, <2>5, <2>6
<1> QED
  BY <1>2, <1>4, <1>5 DEF IRest

\* What a delete or an undelete makes of the database.
LEMMA FlagResult ==
  ASSUME TypeOK, NEW p \in Procs, pc[p] # "idle", Ask(p).op \in {"delete", "undelete"}
  PROVE  LET h == Ask(p).head
             w == Result(db, p)
         IN  /\ w.version = db.version /\ w.refs = db.refs /\ w.urls = db.urls
             /\ \/ /\ Ask(p).op = "delete" /\ said[p][h] = 0
                   /\ w.state = db.state /\ w.marked = db.marked \cup {h} /\ w.revived = db.revived
                \/ /\ Ask(p).op = "delete" /\ said[p][h] # 0
                   /\ w.state = [db.state EXCEPT ![h] = "deleted"]
                   /\ w.marked = db.marked \ {h} /\ w.revived = db.revived \ {h}
                \/ /\ Ask(p).op = "undelete"
                   /\ w.state = [db.state EXCEPT ![h] = "live"]
                   /\ w.marked = db.marked /\ w.revived = db.revived \cup {h}
<1>1. db \in DbType /\ said[p] \in [Heads -> Nat] /\ Ask(p).head \in Heads
  BY AskFields DEF TypeOK
<1>2. CASE Ask(p).op = "delete" /\ said[p][Ask(p).head] = 0
  BY <1>1, <1>2 DEF Result, DbType
<1>3. CASE Ask(p).op = "delete" /\ said[p][Ask(p).head] # 0
  BY <1>1, <1>3 DEF Result, DbType
<1>4. CASE Ask(p).op = "undelete"
  BY <1>1, <1>4 DEF Result, DbType
<1> QED
  BY <1>2, <1>3, <1>4

-------------------------------------------------------------------------------
(* Who comes before whom. *)

LEMMA MoreCalls ==
  ASSUME NEW B, NEW C, B \subseteq C
  PROVE  /\ \A r : Excused(B, r) => Excused(C, r)
         /\ \A h, u : Gave(B, h, u) => Gave(C, h, u)
         /\ \A d : Traced(B, d) => Traced(C, d)
         /\ \A r, d : Shared(B, r, d) => Shared(C, r, d)
<1>1. \A r : Excused(B, r) => Excused(C, r)
  BY DEF Excused
<1>2. \A h, u : Gave(B, h, u) => Gave(C, h, u)
  BY DEF Gave
<1>3. \A h : (Made(B, h) => Made(C, h)) /\ (Deleted(B) => Deleted(C))
  BY DEF Made, Deleted
<1>4. \A d : Traced(B, d) => Traced(C, d)
  BY <1>2, <1>3 DEF Traced
<1>5. \A r, d : Shared(B, r, d) => Shared(C, r, d)
  BY <1>1 DEF Shared
<1> QED
  BY <1>1, <1>2, <1>4, <1>5

\* What is asked for, of any call.
LEMMA AskOf ==
  ASSUME NEW r \in Requests
  PROVE  /\ Asks[r].op \in Ops /\ Asks[r].head \in Heads /\ Asks[r].urls \in SUBSET Urls
         /\ Asks[r].key \in Urls \cup {Nothing} /\ Asks[r].inline \in Entities \cup {Nothing}
         /\ Asks[r].key # Nothing <=> Asks[r].inline # Nothing
         /\ Asks[r].inline \notin Existing /\ Asks[r].key \notin Asks[r].urls
         /\ \A q \in Requests : Asks[r].inline # Nothing =>
              /\ Asks[q].head # Asks[r].inline
              /\ Asks[q].inline = Asks[r].inline => q = r
<1>1. Asks[r] \in AskType
  BY HeadWritesAssumption DEF HeadWritesAssumption
<1> QED
  BY <1>1, HeadWritesAssumption DEF HeadWritesAssumption, AskType

LEMMA Apart ==
  /\ Heads \cap Urls = {} /\ Nothing \notin Heads /\ Nothing \notin Urls /\ Nothing \notin Requests
  /\ Docs \cap Entities = {} /\ Entities \subseteq Heads
BY HeadWritesAssumption DEF HeadWritesAssumption, Heads

LEMMA GivenByOther ==
  ASSUME NEW B \in SUBSET Requests, NEW r \in Requests \ B, NEW h, NEW u \in Asks[r].urls,
         Gave(B, h, u)
  PROVE  Excused(B, r)
<1>1. PICK q \in B : u \in Asks[q].urls \cup {Asks[q].key}
  BY DEF Gave
<1> QED
  BY <1>1 DEF Excused, Rivals

LEMMA UrlIsAnothers ==
  ASSUME NEW B \in SUBSET Requests, NEW r \in Requests \ B, NEW d, Traced(B, d),
         NEW h \in Heads \ {Asks[r].head}, NEW u \in Asks[r].urls, u \in d.urls[h]
  PROVE  Excused(B, r)
<1>1. u \in InitialUrls[h] \/ Gave(B, h, u)
  BY DEF Traced
<1> QED
  BY <1>1, GivenByOther DEF Excused, Preceded

LEMMA HeadIsAnothers ==
  ASSUME NEW B \in SUBSET Requests, NEW r \in Requests \ B, NEW d, Traced(B, d),
         Asks[r].op = "create", d.state[Asks[r].head] # "absent"
  PROVE  Excused(B, r)
<1> DEFINE h == Asks[r].head
<1>1. h \in Heads /\ h # Nothing
  BY AskOf, Apart
<1>2. h \in Existing \/ Made(B, h)
  BY <1>1 DEF Traced
<1>3. CASE h \in Existing
  BY <1>3 DEF Excused, Preceded
<1>4. CASE Made(B, h)
  <2>1. PICK q \in B : h = Asks[q].inline \/ (h = Asks[q].head /\ Asks[q].op = "create")
    BY <1>4 DEF Made
  <2>2. h # Asks[q].inline
    BY <1>1, AskOf
  <2> QED
    BY <2>1, <2>2 DEF Excused, Rivals
<1> QED
  BY <1>2, <1>3, <1>4

\* The id that a call makes up is nobody's before it.
LEMMA InlineIsNobodys ==
  ASSUME NEW B \in SUBSET Requests, NEW r \in Requests \ B, NEW d, Traced(B, d),
         Asks[r].inline # Nothing
  PROVE  d.state[Asks[r].inline] = "absent"
<1> DEFINE i == Asks[r].inline
<1>1. i \in Heads /\ i \notin Existing
  BY AskOf, Apart
<1>2. ~Made(B, i)
  BY AskOf DEF Made
<1> QED
  BY <1>1, <1>2 DEF Traced

\* The entity that a call names is found, and is no such.
LEMMA NamedInVain ==
  ASSUME NEW B \in SUBSET Requests, NEW r \in Requests \ B, NEW d \in DbType, Good(d),
         Traced(B, d), NEW e \in Heads, Asks[r].key \in d.urls[e],
         ~(d.state[e] = "live" /\ e \in Entities)
  PROVE  Excused(B, r)
<1>1. d.state[e] \in {"live", "deleted"} /\ Asks[r].key \in Urls /\ Asks[r].key # Nothing
  BY Apart DEF Good, DbType
<1>2. CASE d.state[e] = "deleted"
  <2>1. PICK q \in B : Asks[q].op = "delete"
    BY <1>2 DEF Traced, Deleted
  <2> QED
    BY <1>1, <2>1 DEF Excused, Rivals
<1>3. CASE e \notin Entities
  <2>1. e \in Docs /\ e # Nothing
    BY <1>3, Apart DEF Heads
  <2>2. Asks[r].key \in InitialUrls[e] \/ Gave(B, e, Asks[r].key)
    BY DEF Traced
  <2>3. CASE Asks[r].key \in InitialUrls[e]
    BY <2>1, <2>3 DEF Excused, Preceded
  <2>4. CASE Gave(B, e, Asks[r].key)
    <3>1. PICK q \in B : \/ e = Asks[q].head /\ Asks[r].key \in Asks[q].urls
                         \/ e = Asks[q].inline /\ Asks[r].key = Asks[q].key
      BY <2>4 DEF Gave
    <3>2. e # Asks[q].inline
      BY <1>3, <2>1, AskOf
    <3> QED
      BY <3>1, <3>2 DEF Excused, Rivals
  <2> QED
    BY <2>2, <2>3, <2>4
<1> QED
  BY <1>1, <1>2, <1>3

\* The call of a process that has not committed is none of those before it.
LEMMA NotPast ==
  ASSUME TypeOK, Once, NEW p \in Procs, pc[p] \notin {"idle", "announce"}
  PROVE  /\ Past \in SUBSET Requests /\ req[p] \in Requests \ Past /\ Ask(p) = Asks[req[p]]
         /\ \A q \in Procs \ {p} : req[q] # req[p]
<1>1. req[p] \in Requests /\ req[p] # Nothing
  BY AskTyped, Apart
<1>2. \A q \in Procs \ {p} : req[q] # req[p]
  BY <1>1 DEF Once
<1> QED
  BY <1>1, <1>2 DEF Past, Once, Ask

\* Who has what: of all calls, and of what each has found.
InOrder ==
  /\ Once /\ Traced(Past, db)
  /\ \A p \in Procs : Sharing(p)
  /\ WriteAttempts > 1 => SharingIsNoConflict

\* What there is of a name, when it is a URL, and when it is an id.
LEMMA UrlExists ==
  ASSUME NEW d, NEW u \in Urls
  PROVE  Exists(d, u) <=> \E h \in Heads : u \in d.urls[h]
  BY Apart DEF Exists

\* What p makes stays free when p looks or writes, and what it finds free is.
LEMMA MakesKept ==
  ASSUME Atomic, TypeOK, Routes, IRest, InOrder, NEW p \in Procs, pc[p] \in Inside, ~Ends(p),
         Query(p), ~Begin(p)
  PROVE  Makes(p)'
<1> DEFINE r == req[p]
           h == Asks[r].head
<1>0. /\ Past \in SUBSET Requests /\ r \in Requests \ Past /\ Ask(p) = Asks[r]
      /\ pc[p] # "idle" /\ target \in [Procs -> Entities \cup {Nothing}]
      /\ Traced(Past, view[p]) /\ Sees(p) = view[p]
  <2>1. InTransaction(p) /\ Sees(p) = view[p] /\ pc[p] \notin {"idle", "announce"}
    BY WhoIsAt DEF Inside
  <2> QED
    BY <2>1, NotPast DEF InOrder, Sharing, TypeOK
<1>1. Makes(p)
  BY WhoIsAt DEF InOrder, Sharing
<1>2. /\ h \in Heads /\ Asks[r].urls \in SUBSET Urls
      /\ Asks[r].key \in Urls \cup {Nothing} /\ Asks[r].inline \in Entities \cup {Nothing}
      /\ Asks[r].key # Nothing <=> Asks[r].inline # Nothing
  BY <1>0, AskOf
\* A query that finds nothing of it.
<1>3. ASSUME NEW place, Reads(p, place), target' = target,
             pc[p] \notin {"render", "commit"}, place \notin {"render", "commit"},
             pc[p] \in {"read", "inline"} => place \in {"read", "inline"}
      PROVE  Makes(p)'
  <2>1. /\ pc'[p] = place /\ Ask(p)' = Ask(p) /\ view'[p] = view[p] /\ makes'[p] = makes[p]
        /\ MakesInline(p)' = MakesInline(p) /\ IsWrite(p)' = IsWrite(p)
    BY <1>3, ReadsOwn DEF MakesInline, IsWrite
  <2>2. \A n : Free(p, n)' = Free(p, n)
    BY <2>1 DEF Free, Exists
  <2> QED
    BY <1>1, <1>3, <2>1, <2>2 DEF Makes
<1>4. CASE ReadHead(p)
  <2>1. pc[p] = "read" /\ Reads(p, "inline") /\ target' = target
    BY <1>4, NoOutcome, Zenon DEF ReadHead
  <2> QED
    BY <1>3, <2>1
<1>5. CASE FindInline(p)
  <2>1. /\ pc[p] = "inline" /\ Reads(p, "refs")
        /\ \/ /\ \A e \in Heads : Asks[r].key \notin view[p].urls[e]
              /\ target' = [target EXCEPT ![p] = Asks[r].inline]
           \/ \E e \in Heads : view[p].state[e] = "live" /\ target' = [target EXCEPT ![p] = e]
    <3>1. CASE {e \in Heads : Ask(p).key \in Sees(p).urls[e]} = {} /\ Reads(p, "refs")
               /\ target' = [target EXCEPT ![p] = Ask(p).inline]
      BY <1>0, <1>5, <3>1 DEF FindInline
    <3>2. CASE ~({e \in Heads : Ask(p).key \in Sees(p).urls[e]} = {} /\ Reads(p, "refs")
                 /\ target' = [target EXCEPT ![p] = Ask(p).inline])
      <4>1. PICK e \in {e \in Heads : Ask(p).key \in Sees(p).urls[e]} :
              /\ Sees(p).state[e] = "live" /\ e \in Entities
              /\ Reads(p, "refs") /\ target' = [target EXCEPT ![p] = e]
        BY <1>5, <3>2, NoOutcome, Zenon DEF FindInline
      <4> QED
        BY <1>0, <1>5, <4>1 DEF FindInline
    <3> QED
      BY <3>1, <3>2
  <2>2. /\ pc'[p] = "refs" /\ Ask(p)' = Ask(p) /\ view'[p] = view[p] /\ makes'[p] = makes[p]
        /\ IsWrite(p)' = IsWrite(p)
    BY <2>1, ReadsOwn DEF IsWrite
  <2>3. \A n : Free(p, n)' = Free(p, n)
    BY <2>2 DEF Free, Exists
  <2>4. makes[p] = {}
    BY <1>1, <2>1 DEF Makes
  <2>5. MakesInline(p)' => Free(p, Asks[r].key)
    <3>1. SUFFICES ASSUME MakesInline(p)' PROVE Free(p, Asks[r].key)
      OBVIOUS
    <3>2. target'[p] # Nothing /\ target'[p] = Asks[r].inline
      BY <1>0, <2>2, <3>1 DEF MakesInline
    <3>3. view[p].state[Asks[r].inline] = "absent"
      BY <1>0, <3>2, InlineIsNobodys
    <3>4. \A e \in Heads : Asks[r].key \notin view[p].urls[e]
      BY <1>0, <2>1, <3>2, <3>3
    <3> QED
      BY <1>2, <3>2, <3>4, UrlExists DEF Free
  <2> QED
    BY <1>0, <2>2, <2>3, <2>4, <2>5 DEF Makes
<1>6. CASE CheckRefs(p)
  <2>1. pc[p] = "refs" /\ Reads(p, "free") /\ target' = target
    BY <1>6, NoOutcome, Zenon DEF CheckRefs
  <2> QED
    BY <1>3, <2>1
<1>7. CASE CheckFree(p)
  <2>1. /\ pc[p] = "free" /\ target' = target
        /\ Reads(p, IF Ask(p).op = "create" THEN "render" ELSE "replace")
        /\ ~\E n \in (IF Ask(p).op = "create" THEN {Ask(p).head} ELSE {}) \cup UrlsToWrite(p) :
              Exists(Sees(p), n)
    BY <1>7, NoOutcome, Zenon DEF CheckFree
  <2>2. /\ pc'[p] \in {"render", "replace"} /\ Ask(p)' = Ask(p) /\ view'[p] = view[p]
        /\ makes'[p] = makes[p]
        /\ MakesInline(p)' = MakesInline(p) /\ IsWrite(p)' = IsWrite(p)
    BY <2>1, ReadsOwn DEF MakesInline, IsWrite
  <2>3. \A n : Free(p, n)' = Free(p, n)
    BY <2>2 DEF Free, Exists
  <2>4. makes[p] = {}
    BY <1>1, <2>1 DEF Makes
  <2>5. Ask(p).op = "create" => \A n \in {Ask(p).head} \cup Ask(p).urls : Free(p, n)
    BY <1>0, <2>1 DEF UrlsToWrite, Free
  <2> QED
    BY <1>1, <2>1, <2>2, <2>3, <2>4, <2>5 DEF Makes
<1>8. CASE CheckUrls(p)
  <2>1. pc[p] = "urls" /\ Reads(p, "merge") /\ target' = target
    BY <1>8, NoOutcome, Zenon DEF CheckUrls
  <2> QED
    BY <1>3, <2>1
<1>9. CASE FindNode(p) \/ FindHolders(p)
  <2>1. Ask(p).op \in {"delete", "undelete"}
    BY <1>9 DEF FindNode, FindHolders
  <2>2. makes[p] = {}
    BY <1>1, <2>1 DEF Makes, IsWrite
  <2>3. Looks(p) \/ Puts(p)
    BY QueryKinds, NotRelinked
  <2>4. makes'[p] = {} /\ Ask(p)' = Ask(p)
    <3>1. MakesNext(p) = {}
      BY <1>9 DEF FindNode, FindHolders, MakesNext
    <3> QED
      BY <2>2, <2>3, <3>1, ReadsOwn, PutsOwn DEF Looks, Puts
  <2> QED
    BY <2>1, <2>4 DEF Makes, IsWrite
\* A query that writes.
<1>10. ASSUME NEW place, WritesOn(p, place), pc[p] \notin {"read", "inline"},
              \A n \in MakesNext(p) :
                /\ IsWrite(p) /\ Free(p, n) /\ place \in {"render", "commit"}
                /\ \/ Ask(p).op = "create" /\ n = Ask(p).head
                   \/ n \in Ask(p).urls
                   \/ MakesInline(p) /\ n \in {Ask(p).inline, Ask(p).key},
              pc[p] \in {"render", "commit"} => place \in {"render", "commit"},
              Ask(p).op = "create" /\ place \in {"render", "commit"} =>
                pc[p] \in {"render", "commit"}
       PROVE  Makes(p)'
  <2>1. /\ pc'[p] = place /\ Ask(p)' = Ask(p) /\ view'[p] = view[p]
        /\ makes'[p] = makes[p] \cup MakesNext(p)
        /\ MakesInline(p)' = MakesInline(p) /\ IsWrite(p)' = IsWrite(p)
    BY <1>10, PutsOwn DEF MakesInline, IsWrite
  <2>2. \A n : Free(p, n)' = Free(p, n)
    BY <2>1 DEF Free, Exists
  <2>3. ASSUME NEW n \in makes'[p]
        PROVE  /\ IsWrite(p) /\ Free(p, n) /\ place \in {"render", "commit"}
               /\ \/ Ask(p).op = "create" /\ n = Ask(p).head
                  \/ n \in Ask(p).urls
                  \/ MakesInline(p) /\ n \in {Ask(p).inline, Ask(p).key}
    BY <1>1, <1>10, <2>1 DEF Makes
  <2> QED
    BY <1>1, <1>10, <2>1, <2>2, <2>3 DEF Makes
<1>11. CASE Replace(p)
  <2>1. /\ pc[p] = "replace" /\ MakesNext(p) = {} /\ Ask(p).op = "update"
        /\ \E place : WritesOn(p, place)
    BY <1>11, WhoIsAt DEF Replace, MakesNext
  <2> QED
    BY <1>10, <2>1
<1>12. CASE MergeUrls(p)
  <2>1. /\ pc[p] = "merge" /\ WritesOn(p, "render") /\ Ask(p).op = "update"
        /\ MakesNext(p) = {u \in Ask(p).urls : ~Exists(Sees(p), u)}
    BY <1>12, WhoIsAt DEF MergeUrls, MakesNext
  <2> QED
    BY <1>0, <1>10, <2>1 DEF IsWrite, Free
<1>13. CASE Render(p)
  <2>1. /\ pc[p] = "render" /\ WritesOn(p, "commit") /\ IsWrite(p)
        /\ MakesNext(p) = (IF Ask(p).op = "create" THEN {Ask(p).head} \cup Ask(p).urls ELSE {})
                          \cup (IF MakesInline(p) THEN {Ask(p).inline, Ask(p).key} ELSE {})
    BY <1>13, NoOutcome, WhoIsAt, Zenon DEF Render, MakesNext, IsWrite
  <2>2. Ask(p).op = "create" => \A n \in {Ask(p).head} \cup Ask(p).urls : Free(p, n)
    BY <1>1, <2>1 DEF Makes
  <2>3. MakesInline(p) => Free(p, Ask(p).key)
    BY <1>1, <2>1 DEF Makes
  <2>4. MakesInline(p) => Free(p, Ask(p).inline)
    <3>1. SUFFICES ASSUME MakesInline(p) PROVE Free(p, Ask(p).inline)
      OBVIOUS
    <3>2. Asks[r].inline # Nothing /\ Asks[r].inline \in Heads
      BY <1>0, <1>2, <3>1, Apart DEF MakesInline
    <3> QED
      BY <1>0, <3>2, InlineIsNobodys DEF Free, Exists
  <2> QED
    BY <1>10, <2>1, <2>2, <2>3, <2>4
<1>14. CASE Mark(p) \/ Flag(p)
  <2>1. /\ pc[p] \in {"mark", "delete", "undelete"} /\ MakesNext(p) = {} /\ WritesOn(p, "commit")
        /\ Ask(p).op # "create"
    BY <1>14, WhoIsAt DEF Mark, Flag, MakesNext
  <2> QED
    BY <1>10, <2>1
<1> QED
  BY <1>4, <1>5, <1>6, <1>7, <1>8, <1>9, <1>11, <1>12, <1>13, <1>14, NotRelinked, WhoIsAt
     DEF Query, Lock, FindBatch, Rewire, LockHead

\* How a transaction ends: as the call does (with a conflict, when it has a reason),
\* or to be run again.
Over(p) ==
  \/ \E o \in Outcomes \ {"none"} :
       End(p, o) /\ (o = "conflict" /\ WriteAttempts > 1 => Excused(Past, req[p]))
  \/ /\ Closed(p) /\ Goto(p, "begin") /\ pc[p] # "announce"
     /\ UNCHANGED <<db, todo, done, req>>
     /\ \/ attempt' = attempt
        \/ attempt' = [attempt EXCEPT ![p] = @ + 1] /\ Shared(Past, req[p], db)

LEMMA ConflictIsExcused ==
  ASSUME Atomic, TypeOK, Routes, IRest, InOrder, NEW p \in Procs,
         \/ FindInline(p) /\ CheckConflict(p) /\ ~\E place \in Inside : Reads(p, place)
         \/ CheckFree(p) /\ ~\E place \in Inside : Reads(p, place)
         \/ CheckUrls(p) /\ ~\E place \in Inside : Reads(p, place)
  PROVE  End(p, "conflict") /\ Excused(Past, req[p])
<1> DEFINE r == req[p]
           h == Asks[r].head
           d == view[p]
<1>0. /\ Past \in SUBSET Requests /\ r \in Requests \ Past /\ Ask(p) = Asks[r]
      /\ pc[p] \in {"inline", "free", "urls"}
      /\ Traced(Past, d) /\ Sees(p) = d /\ Makes(p) /\ Good(d) /\ d \in DbType
      /\ IsWrite(p) /\ (pc[p] = "urls" => Ask(p).op = "update")
  <2>1. pc[p] \in {"inline", "free", "urls"} /\ pc[p] \in Inside
    BY DEF FindInline, CheckFree, CheckUrls, Inside, Places
  <2>2. InTransaction(p) /\ Sees(p) = d /\ IsWrite(p) /\ (pc[p] = "urls" => Ask(p).op = "update")
    BY <2>1, WhoIsAt DEF IsWrite
  <2> QED
    BY <2>1, <2>2, NotPast DEF InOrder, Sharing, TypeOK, IRest, Kept
<1>1. /\ h \in Heads /\ Asks[r].urls \in SUBSET Urls
      /\ Asks[r].key \in Urls \cup {Nothing} /\ Asks[r].inline \in Entities \cup {Nothing}
      /\ Asks[r].key # Nothing <=> Asks[r].inline # Nothing
  BY <1>0, AskOf
<1>2. ~\E place \in {"refs", "render", "replace", "merge"} : Reads(p, place)
  BY DEF Inside, Places
<1>3. CheckConflict(p) => End(p, "conflict")
  BY DEF CheckConflict, Atomic
<1>4. CASE FindInline(p)
  <2>1. PICK e \in {g \in Heads : Ask(p).key \in Sees(p).urls[g]} :
          ~(Sees(p).state[e] = "live" /\ e \in Entities) /\ CheckConflict(p)
    BY <1>2, <1>4, Zenon DEF FindInline
  <2> QED
    BY <1>0, <1>3, <2>1, NamedInVain
<1>5. CASE CheckFree(p)
  <2>1. /\ pc[p] = "free" /\ CheckConflict(p)
        /\ \E n \in (IF Ask(p).op = "create" THEN {Ask(p).head} ELSE {}) \cup UrlsToWrite(p) :
             Exists(Sees(p), n)
    BY <1>2, <1>5, Zenon DEF CheckFree
  <2>2. ~(MakesInline(p) /\ Exists(d, Asks[r].key))
    BY <1>0, <2>1 DEF Makes, Free
  <2>3. Ask(p).op = "create" /\ \E n \in {h} \cup Asks[r].urls : Exists(d, n)
    BY <1>0, <2>1, <2>2 DEF UrlsToWrite
  <2>4. CASE d.state[h] # "absent"
    BY <1>0, <1>3, <2>1, <2>3, <2>4, HeadIsAnothers
  <2>5. CASE d.state[h] = "absent"
    <3>1. PICK n \in Asks[r].urls : Exists(d, n)
      BY <1>1, <2>3, <2>5 DEF Exists
    <3>2. PICK g \in Heads : n \in d.urls[g]
      BY <1>1, <3>1, UrlExists
    <3>3. g # h
      BY <1>0, <1>1, <2>5, <3>2 DEF Good
    <3> QED
      BY <1>0, <1>3, <2>1, <3>1, <3>2, <3>3, UrlIsAnothers
  <2> QED
    BY <2>4, <2>5
<1>6. CASE CheckUrls(p)
  <2>1. CheckConflict(p) /\ \E g \in Heads \ {Ask(p).head} : Ask(p).urls \cap Sees(p).urls[g] # {}
    BY <1>2, <1>6, Zenon DEF CheckUrls
  <2>2. PICK g \in Heads \ {h} : \E u \in Asks[r].urls : u \in d.urls[g]
    BY <1>0, <2>1
  <2> QED
    BY <1>0, <1>3, <2>1, <2>2, UrlIsAnothers
<1> QED
  BY <1>4, <1>5, <1>6

\* What another has made since p began.
LEMMA MadeMeanwhile ==
  ASSUME Atomic, TypeOK, Routes, IRest, InOrder, NEW p \in Procs, pc[p] = "commit",
         NEW n \in makes[p], Exists(db, n)
  PROVE  /\ Shared(Past, req[p], db)
         /\ attempt[p] > 1 => Excused(Past, req[p])
<1> DEFINE r == req[p]
           h == Asks[r].head
           d == view[p]
<1>0. /\ Past \in SUBSET Requests /\ r \in Requests \ Past /\ Ask(p) = Asks[r]
      /\ Traced(Past, d) /\ Traced(Past, db) /\ Makes(p)
      /\ \A g \in Heads : \A u \in db.urls[g] \ d.urls[g] : Gave(Past, g, u)
      /\ attempt[p] > 1 => Shared(Past, r, d)
  <2>1. InTransaction(p)
    BY DEF InTransaction
  <2> QED
    BY <2>1, NotPast DEF InOrder, Sharing
<1>1. /\ h \in Heads /\ Asks[r].urls \in SUBSET Urls
      /\ Asks[r].key \in Urls \cup {Nothing} /\ Asks[r].inline \in Entities \cup {Nothing}
      /\ Asks[r].key # Nothing <=> Asks[r].inline # Nothing
  BY <1>0, AskOf
<1>2. /\ IsWrite(p) /\ ~Exists(d, n)
      /\ \/ Ask(p).op = "create" /\ n = h
         \/ n \in Asks[r].urls
         \/ MakesInline(p) /\ n \in {Asks[r].inline, Asks[r].key}
  BY <1>0 DEF Makes, Free
<1>3. Excused(Past, r) => Shared(Past, r, db)
  BY DEF Shared
<1>4. n \in Urls => \E g \in Heads : n \in db.urls[g] /\ Gave(Past, g, n)
  BY <1>0, <1>2, UrlExists
<1>5. CASE Ask(p).op = "create" /\ n = h
  <2>1. db.state[h] # "absent"
    BY <1>1, <1>5 DEF Exists
  <2> QED
    BY <1>0, <1>3, <1>5, <2>1, HeadIsAnothers
<1>6. CASE n \in Asks[r].urls
  <2>1. PICK g \in Heads : Gave(Past, g, n)
    BY <1>1, <1>4, <1>6
  <2> QED
    BY <1>0, <1>3, <1>6, <2>1, GivenByOther
<1>7. CASE MakesInline(p) /\ n = Asks[r].inline
  <2>1. Asks[r].inline # Nothing /\ Asks[r].inline \in Heads
    BY <1>0, <1>1, <1>7, Apart DEF MakesInline
  <2>2. db.state[Asks[r].inline] = "absent"
    BY <1>0, <2>1, InlineIsNobodys
  <2> QED
    BY <1>7, <2>1, <2>2 DEF Exists
<1>8. CASE MakesInline(p) /\ n = Asks[r].key
  <2>1. n # Nothing /\ n \in Urls
    BY <1>0, <1>1, <1>8 DEF MakesInline
  <2>2. PICK g \in Heads : n \in db.urls[g] /\ Gave(Past, g, n)
    BY <1>4, <2>1
  <2>3. PICK q \in Past : \/ g = Asks[q].head /\ n \in Asks[q].urls
                          \/ g = Asks[q].inline /\ n = Asks[q].key
    BY <2>2 DEF Gave
  <2>4. Shared(Past, r, db)
    BY <1>0, <1>8, <2>1, <2>2, <2>3 DEF Shared, Excused, Rivals
  <2>5. ASSUME attempt[p] > 1
        PROVE  Excused(Past, r)
    <3>1. \A e \in Heads : n \notin d.urls[e]
      BY <1>2, <2>1, UrlExists
    <3>2. \A o \in Past \ {r} : Asks[o].key = n => Asks[o].inline \in Heads
      BY <1>0, <2>1, AskOf, Apart
    <3> QED
      BY <1>0, <1>8, <2>5, <3>1, <3>2 DEF Shared
  <2> QED
    BY <2>4, <2>5
<1> QED
  BY <1>2, <1>5, <1>6, <1>7, <1>8

LEMMA EndsOver ==
  ASSUME Atomic, TypeOK, Routes, IRest, InOrder, NEW p \in Procs, Step(p) \/ Fail(p), Ends(p)
  PROVE  Over(p)
<1>0. pc'[p] \in {"idle", "begin"} /\ pc[p] \in Places
  BY DEF Ends, TypeOK
<1>1. \A place \in Inside : ~Reads(p, place) /\ ~WritesOn(p, place)
  BY <1>0 DEF Reads, WritesOn, Goto, TypeOK, Inside
<1>2. \A place \in {"read", "inline", "refs", "free", "replace", "urls", "merge", "render", "mark",
                    "delete", "undelete", "commit"} : ~Reads(p, place) /\ ~WritesOn(p, place)
  BY <1>1 DEF Inside, Places
<1>3. (\E o \in Outcomes \ {"none", "conflict"} : End(p, o)) => Over(p)
  BY DEF Over
<1>4. (End(p, "conflict") /\ Excused(Past, req[p])) => Over(p)
  BY DEF Over, Outcomes
<1>5. CASE ReadHead(p)
  <2>1. End(p, "not_found") \/ End(p, "stale")
    BY <1>2, <1>5, Zenon DEF ReadHead
  <2> QED
    BY <1>3, <2>1 DEF Outcomes
<1>6. CASE FindInline(p)
  <2>1. CheckConflict(p)
    BY <1>2, <1>6, Zenon DEF FindInline
  <2> QED
    BY <1>1, <1>4, <1>6, <2>1, ConflictIsExcused
<1>7. CASE CheckFree(p) \/ CheckUrls(p)
  BY <1>1, <1>4, <1>7, ConflictIsExcused
<1>8. CASE CheckRefs(p)
  <2>1. End(p, "bad_reference")
    BY <1>2, <1>8, Zenon DEF CheckRefs
  <2> QED
    BY <1>3, <2>1 DEF Outcomes
<1>9. CASE Render(p)
  BY <1>2, <1>9 DEF Render, Atomic
<1>10. CASE FindNode(p)
  <2>1. End(p, "not_found") \/ End(p, "not_deleted")
    <3>1. pc[p] = "read" /\ pc[p] # "idle"
      BY <1>10 DEF FindNode
    <3>2. Sees(p).state[Ask(p).head] \in {"absent", "live", "deleted"}
      BY <3>1, SeesTyped, AskFields DEF DbType
    <3>3. CASE Ask(p).op = "delete"
      BY <1>2, <1>10, <3>3 DEF FindNode
    <3>4. CASE Ask(p).op # "delete"
      BY <1>2, <1>10, <3>2, <3>4 DEF FindNode
    <3> QED
      BY <3>3, <3>4
  <2> QED
    BY <1>3, <2>1 DEF Outcomes
<1>11. ~Begin(p)
  <2>1. SUFFICES ASSUME Begin(p) PROVE FALSE
    OBVIOUS
  <2>2. pc'[p] \in {"inline", "read", "lock", "find"}
    BY <2>1 DEF Begin, Goto, FirstQuery, TypeOK
  <2> QED
    BY <1>0, <2>2
<1>12. ~Lock(p) /\ ~Replace(p) /\ ~MergeUrls(p) /\ ~FindHolders(p) /\ ~Mark(p) /\ ~Flag(p)
  BY <1>2 DEF Lock, Replace, MergeUrls, FindHolders, Mark, Flag
<1>13. ~FindBatch(p) /\ ~Rewire(p) /\ \A h \in Heads : ~LockHead(p, h)
  BY NotRelinked DEF FindBatch, Rewire, LockHead
<1>14. CASE Query(p)
  BY <1>5, <1>6, <1>7, <1>8, <1>9, <1>10, <1>11, <1>12, <1>13, <1>14 DEF Query
<1>15. CASE Commit(p)
  <2>1. pc[p] = "commit" /\ TryAgain(p) /\ \E n \in makes[p] : Exists(db, n)
    <3>1. ~Committed(p)
      BY <1>0 DEF Committed, Goto, TypeOK
    <3> QED
      BY <1>15, <3>1, Zenon DEF Commit
  <2>2. /\ Shared(Past, req[p], db)
        /\ attempt[p] > 1 => Excused(Past, req[p])
    BY <2>1, MadeMeanwhile
  <2>3. CASE attempt[p] < WriteAttempts
    BY <2>1, <2>2, <2>3 DEF TryAgain, Over
  <2>4. CASE ~(attempt[p] < WriteAttempts)
    <3>1. End(p, "conflict")
      BY <2>1, <2>4 DEF TryAgain
    <3>2. attempt[p] \in Nat /\ WriteAttempts \in Nat
      BY HeadWritesAssumption DEF TypeOK, HeadWritesAssumption
    <3>3. WriteAttempts > 1 => Excused(Past, req[p])
      BY <2>2, <2>4, <3>2
    <3> QED
      BY <3>1, <3>3 DEF Over, Outcomes
  <2> QED
    BY <2>3, <2>4
<1>16. CASE Announce(p)
  <2>1. Ask(p).op # "relink"
    BY <1>16, AskTyped DEF Announce, Atomic, Ask
  <2>2. End(p, "in_use") \/ End(p, "made")
    BY <1>16, <2>1 DEF Announce
  <2> QED
    BY <1>3, <2>2 DEF Outcomes
<1>17. CASE WriteConflict(p)
  <2>1. pc[p] # "announce" /\ (Rerun(p) \/ End(p, "failed"))
    BY <1>17 DEF WriteConflict, WritePlaces
  <2> QED
    BY <1>3, <2>1 DEF Rerun, Over, Outcomes
<1>18. CASE Deadlock(p)
  BY <1>18 DEF Deadlock, Atomic
<1>19. CASE Fail(p)
  BY <1>3, <1>19 DEF Fail, Outcomes
<1> QED
  BY <1>14, <1>15, <1>16, <1>17, <1>18, <1>19 DEF Step

\* The step of another leaves a process what it has found, and whom it is after.
LEMMA OthersShare ==
  ASSUME NEW q \in Procs, Untouched(q), Sharing(q), attempt'[q] = attempt[q], Past \subseteq Past',
         \A h \in Heads : \A u \in db'.urls[h] \ db.urls[h] : Gave(Past', h, u),
         Shared(Past, req[q], db) => Shared(Past', req[q], db')
  PROVE  Sharing(q)'
<1>1. /\ InTransaction(q)' = InTransaction(q) /\ view'[q] = view[q] /\ makes'[q] = makes[q]
      /\ req'[q] = req[q]
  BY DEF Untouched, InTransaction
<1>2. Makes(q)' = Makes(q)
  <2>1. /\ Ask(q)' = Ask(q) /\ MakesInline(q)' = MakesInline(q) /\ IsWrite(q)' = IsWrite(q)
        /\ pc'[q] = pc[q]
    BY DEF Untouched, Ask, MakesInline, IsWrite
  <2>2. \A n : Free(q, n)' = Free(q, n)
    BY <1>1 DEF Free, Exists
  <2> QED
    BY <1>1, <2>1, <2>2 DEF Makes
<1>3. ASSUME InTransaction(q)
      PROVE  /\ Traced(Past', view'[q])
             /\ \A h \in Heads : \A u \in db'.urls[h] \ view'[q].urls[h] : Gave(Past', h, u)
  <2>1. Traced(Past, view[q])
        /\ \A h \in Heads : \A u \in db.urls[h] \ view[q].urls[h] : Gave(Past, h, u)
    BY <1>3 DEF Sharing
  <2>2. \A h \in Heads : \A u \in db.urls[h] \ view[q].urls[h] : Gave(Past', h, u)
    BY <2>1, MoreCalls
  <2> QED
    BY <1>1, <2>1, <2>2, MoreCalls
<1>4. attempt'[q] > 1 => /\ Shared(Past', req'[q], db')
                         /\ InTransaction(q) => Shared(Past', req'[q], view'[q])
  BY <1>1, MoreCalls DEF Sharing
<1> QED
  BY <1>1, <1>2, <1>3, <1>4 DEF Sharing

\* The calls before a step of p, and after it.
LEMMA PastGrows ==
  ASSUME NEW p \in Procs,
         \A q \in Procs \ {p} : pc'[q] = pc[q] /\ req'[q] = req[q],
         \A r \in Requests : done[r] # "none" => done'[r] # "none",
         pc[p] = "announce" /\ req[p] \in Requests => done'[req[p]] # "none"
  PROVE  Past \subseteq Past'
<1>1. SUFFICES ASSUME NEW r \in Requests, r \in Past, done'[r] = "none"
               PROVE  \E q \in Procs : req'[q] = r /\ pc'[q] = "announce"
  BY DEF Past
<1>2. PICK q \in Procs : req[q] = r /\ pc[q] = "announce"
  BY <1>1 DEF Past
<1>3. q # p
  BY <1>1, <1>2
<1> QED
  BY <1>2, <1>3

\* A step that changes neither the database nor what has ended.
LEMMA QuietOrder ==
  ASSUME TypeOK, InOrder, NEW p \in Procs, db' = db, done' = done, Once', Sharing(p)',
         pc[p] # "announce",
         \A q \in Procs \ {p} : Untouched(q) /\ attempt'[q] = attempt[q]
  PROVE  InOrder'
<1>1. Past \subseteq Past'
  BY PastGrows DEF Untouched
<1>2. Traced(Past, db)' /\ (WriteAttempts > 1 => SharingIsNoConflict)'
  BY <1>1, MoreCalls DEF InOrder, SharingIsNoConflict
<1>3. \A q \in Procs \ {p} : Sharing(q)'
  BY <1>1, OthersShare, MoreCalls DEF InOrder
<1> QED
  BY <1>2, <1>3 DEF InOrder

LEMMA CallOrder ==
  ASSUME TypeOK, InOrder, NEW p \in Procs, NEW r \in Requests, Call(p, r)
  PROVE  InOrder'
<1>1. /\ pc[p] = "idle" /\ r \in todo /\ todo' = todo \ {r} /\ done' = done /\ db' = db
      /\ req' = [req EXCEPT ![p] = r] /\ pc' = [pc EXCEPT ![p] = "begin"]
      /\ attempt' = [attempt EXCEPT ![p] = 1] /\ makes' = makes
      /\ req \in [Procs -> Requests \cup {Nothing}] /\ pc \in [Procs -> Places]
      /\ attempt \in [Procs -> Nat] /\ todo \subseteq Requests
  BY DEF Call, Goto, txVars, TypeOK
<1>2. \A q \in Procs \ {p} : Untouched(q) /\ attempt'[q] = attempt[q]
  BY <1>1 DEF Call, Untouched, txVars
<1>3. Once'
  <2>1. r # Nothing /\ \A q \in Procs : req[q] # r
    BY <1>1, Apart DEF InOrder, Once
  <2>2. ASSUME NEW q \in Procs
        PROVE  /\ pc'[q] = "idle" => req'[q] = Nothing
               /\ req'[q] # Nothing => req'[q] \notin todo' /\ done'[req'[q]] = "none"
               /\ \A o \in Procs \ {q} : req'[q] = req'[o] => req'[q] = Nothing
    <3>1. CASE q = p
      BY <1>1, <2>1, <3>1 DEF InOrder, Once
    <3>2. CASE q # p
      BY <1>1, <2>1, <3>2 DEF InOrder, Once
    <3> QED
      BY <3>1, <3>2
  <2>3. \A o \in todo' : done'[o] = "none"
    BY <1>1 DEF InOrder, Once
  <2> QED
    BY <2>2, <2>3 DEF Once
<1>4. Sharing(p)'
  <2>1. pc'[p] = "begin" /\ attempt'[p] = 1 /\ makes'[p] = {}
    BY <1>1 DEF InOrder, Sharing, InTransaction
  <2> QED
    BY <2>1 DEF Sharing, InTransaction
<1> QED
  BY <1>1, <1>2, <1>3, <1>4, QuietOrder

LEMMA OnceStays ==
  ASSUME Once, TypeOK, NEW p \in Procs, NEW place \in Places \ {"idle"},
         todo' = todo, done' = done, req' = req, pc' = [pc EXCEPT ![p] = place], pc[p] # "idle"
  PROVE  Once'
<1>1. \A q \in Procs : pc'[q] = "idle" => pc[q] = "idle"
  BY DEF TypeOK
<1> QED
  BY <1>1 DEF Once

LEMMA BeginOrder ==
  ASSUME Atomic, TypeOK, InOrder, NEW p \in Procs, Begin(p)
  PROVE  InOrder'
<1>1. /\ pc[p] = "begin" /\ pc'[p] = FirstQuery(Ask(p).op) /\ view'[p] = db
      /\ todo' = todo /\ done' = done /\ req' = req /\ db' = db /\ makes' = makes
      /\ attempt' = attempt /\ target' = target
  BY DEF Begin, Goto, TypeOK
<1>2. Ask(p).op \in {"create", "update", "delete", "undelete"} /\ Ask(p)' = Ask(p)
  BY <1>1, AskTyped, AskFields DEF Ask, Atomic, Ops
<1>3. pc'[p] \in {"inline", "read"}
  BY <1>1, <1>2 DEF FirstQuery, Atomic
<1>4. Once'
  BY <1>1, <1>3, OnceStays DEF Begin, Goto, InOrder, Places
<1>5. \A q \in Procs \ {p} : Untouched(q) /\ attempt'[q] = attempt[q]
  BY DEF Begin, Goto, TypeOK, Untouched
<1>6. makes'[p] = {}
  BY <1>1 DEF InOrder, Sharing, InTransaction
<1>7. Past \subseteq Past'
  BY <1>1, <1>5, PastGrows DEF Untouched
<1>8. Sharing(p)'
  <2>1. Makes(p)'
    BY <1>3, <1>6 DEF Makes
  <2>2. Traced(Past', view'[p])
    BY <1>1, <1>7, MoreCalls DEF InOrder
  <2>3. attempt'[p] > 1 => Shared(Past', req'[p], db') /\ Shared(Past', req'[p], view'[p])
    BY <1>1, <1>7, MoreCalls DEF InOrder, Sharing
  <2>4. \A h \in Heads : db'.urls[h] \ view'[p].urls[h] = {}
    BY <1>1
  <2> QED
    BY <1>6, <2>1, <2>2, <2>3, <2>4 DEF Sharing
<1> QED
  BY <1>1, <1>4, <1>5, <1>8, QuietOrder

LEMMA QueryOrder ==
  ASSUME TypeOK, InOrder, NEW p \in Procs, Looks(p) \/ Puts(p), Makes(p)'
  PROVE  InOrder'
<1>1. PICK place \in Inside : Reads(p, place) \/ WritesOn(p, place)
  BY DEF Looks, Puts
<1>2. /\ pc[p] \in Inside /\ pc' = [pc EXCEPT ![p] = place] /\ pc'[p] = place
      /\ todo' = todo /\ done' = done /\ req' = req /\ db' = db /\ view' = view
      /\ attempt' = attempt
  BY <1>1 DEF Looks, Puts, Reads, WritesOn, Goto, TypeOK
<1>3. pc[p] \notin {"idle", "begin", "announce"} /\ place \in Places \ {"idle", "begin", "announce"}
  BY <1>2 DEF Inside
<1>4. Once'
  BY <1>2, <1>3, OnceStays DEF InOrder
<1>5. \A q \in Procs \ {p} : Untouched(q) /\ attempt'[q] = attempt[q]
  BY <1>2 DEF Looks, Puts, Reads, WritesOn, Writes, Goto, OthersSay, Untouched, TypeOK
<1>6. Past \subseteq Past'
  BY <1>2, <1>3, <1>5, PastGrows DEF Untouched
<1>7. Sharing(p)'
  <2>1. InTransaction(p) /\ InTransaction(p)'
    BY <1>2, <1>3 DEF InTransaction
  <2>2. Traced(Past', view'[p])
    BY <1>2, <1>6, <2>1, MoreCalls DEF InOrder, Sharing
  <2>3. attempt'[p] > 1 => Shared(Past', req'[p], db') /\ Shared(Past', req'[p], view'[p])
    BY <1>2, <1>6, <2>1, MoreCalls DEF InOrder, Sharing
  <2>4. \A h \in Heads : \A u \in db'.urls[h] \ view'[p].urls[h] : Gave(Past', h, u)
    BY <1>2, <1>6, <2>1, MoreCalls DEF InOrder, Sharing
  <2> QED
    BY <2>1, <2>2, <2>3, <2>4 DEF Sharing
<1> QED
  BY <1>2, <1>3, <1>4, <1>5, <1>7, QuietOrder

LEMMA OverOrder ==
  ASSUME TypeOK, InOrder, NEW p \in Procs, pc[p] # "idle", Over(p)
  PROVE  InOrder'
<1>0. /\ req[p] \in Requests /\ req[p] # Nothing
      /\ req \in [Procs -> Requests \cup {Nothing}] /\ pc \in [Procs -> Places]
      /\ attempt \in [Procs -> Nat] /\ done \in [Requests -> Outcomes] /\ todo \subseteq Requests
      /\ makes \in [Procs -> SUBSET (Heads \cup Urls)]
  BY AskTyped, Apart DEF TypeOK
<1>1. /\ Closed(p) /\ db' = db /\ todo' = todo /\ makes'[p] = {}
      /\ \A q \in Procs \ {p} : attempt'[q] = attempt[q]
  BY <1>0 DEF Over, End, Closed
<1>2. Ends(p)
  BY EndsWith DEF Over, End, Goto, Ends
<1>3. \A q \in Procs \ {p} : Untouched(q)
  BY <1>2, EndsAlone
<1>4. CASE \E o \in Outcomes \ {"none"} :
             End(p, o) /\ (o = "conflict" /\ WriteAttempts > 1 => Excused(Past, req[p]))
  <2>1. PICK o \in Outcomes \ {"none"} :
          End(p, o) /\ (o = "conflict" /\ WriteAttempts > 1 => Excused(Past, req[p]))
    BY <1>4
  <2>2. /\ done' = [done EXCEPT ![req[p]] = o] /\ req' = [req EXCEPT ![p] = Nothing]
        /\ attempt' = [attempt EXCEPT ![p] = 0] /\ pc' = [pc EXCEPT ![p] = "idle"]
    BY <2>1 DEF End, Goto
  <2>3. Past \subseteq Past'
    BY <1>0, <1>3, <2>2, PastGrows DEF Untouched
  <2>4. Once'
    <3>1. ASSUME NEW q \in Procs
          PROVE  /\ pc'[q] = "idle" => req'[q] = Nothing
                 /\ req'[q] # Nothing => req'[q] \notin todo' /\ done'[req'[q]] = "none"
                 /\ \A i \in Procs \ {q} : req'[q] = req'[i] => req'[q] = Nothing
      <4>1. CASE q = p
        BY <1>0, <2>2, <4>1
      <4>2. CASE q # p
        <5>1. req'[q] = req[q] /\ pc'[q] = pc[q] /\ (req[q] # Nothing => req[q] # req[p])
          BY <1>0, <2>2, <4>2 DEF InOrder, Once
        <5> QED
          BY <1>0, <1>1, <2>2, <4>2, <5>1 DEF InOrder, Once
      <4> QED
        BY <4>1, <4>2
    <3>2. \A i \in todo' : done'[i] = "none"
      BY <1>0, <1>1, <2>2 DEF InOrder, Once
    <3> QED
      BY <3>1, <3>2 DEF Once
  <2>5. Sharing(p)'
    BY <1>0, <1>1, <2>2 DEF Sharing, InTransaction
  <2>6. \A q \in Procs \ {p} : Sharing(q)'
    BY <1>1, <1>3, <2>3, OthersShare, MoreCalls DEF InOrder
  <2>7. (WriteAttempts > 1 => SharingIsNoConflict)'
    BY <1>0, <2>1, <2>2, <2>3, MoreCalls DEF InOrder, SharingIsNoConflict
  <2>8. Traced(Past, db)'
    BY <1>1, <2>3, MoreCalls DEF InOrder
  <2> QED
    BY <2>4, <2>5, <2>6, <2>7, <2>8 DEF InOrder
<1>5. CASE /\ Goto(p, "begin") /\ pc[p] # "announce" /\ done' = done /\ req' = req
           /\ \/ attempt' = attempt
              \/ attempt' = [attempt EXCEPT ![p] = @ + 1] /\ Shared(Past, req[p], db)
  <2>1. pc' = [pc EXCEPT ![p] = "begin"] /\ pc'[p] = "begin"
    BY <1>0, <1>5 DEF Goto
  <2>2. Once'
    BY <1>1, <1>5, <2>1, OnceStays DEF InOrder, Places
  <2>3. Past \subseteq Past'
    BY <1>3, <1>5, PastGrows DEF Untouched
  <2>4. Sharing(p)'
    <3>1. attempt'[p] > 1 => Shared(Past, req[p], db)
      BY <1>5 DEF InOrder, Sharing
    <3>2. attempt'[p] > 1 => Shared(Past', req'[p], db')
      BY <1>1, <1>5, <2>3, <3>1, MoreCalls
    <3> QED
      BY <1>1, <2>1, <3>2 DEF Sharing, InTransaction
  <2> QED
    BY <1>1, <1>3, <1>5, <2>2, <2>4, QuietOrder
<1> QED
  BY <1>4, <1>5 DEF Over

\* What a commit changes is of its call, and no entity that another has made.
LEMMA CommitTraces ==
  ASSUME Atomic, TypeOK, Routes, Good(db), OneOwner, IRest, InOrder, NEW p \in Procs,
         pc[p] = "commit", \A n \in makes[p] : ~Exists(db, n), Committed(p),
         NEW B \in SUBSET Requests, Past \subseteq B, req[p] \in B
  PROVE  /\ \A h \in Heads : \A u \in db'.urls[h] \ db.urls[h] : Gave(B, h, u)
         /\ Traced(B, db')
         /\ \A g \in Heads : g # Ask(p).head /\ g # Ask(p).inline => db'.urls[g] = db.urls[g]
<1> DEFINE r == req[p]
           h == Asks[r].head
<1>0. /\ Past \in SUBSET Requests /\ r \in Requests \ Past /\ Ask(p) = Asks[r] /\ h \in Heads
      /\ pc[p] # "idle" /\ pc[p] \in Inside /\ db \in DbType /\ db' = Result(db, p)
      /\ db.state \in [Heads -> {"absent", "live", "deleted"}] /\ Traced(B, db)
  BY NotPast, AskOf, MoreCalls DEF Inside, Places, TypeOK, DbType, Committed, InOrder
<1>1. CASE Ask(p).op \in {"create", "update"}
  <2>1. WroteAll(db', db, p)
    BY <1>0, <1>1, WriteResult
  <2>2. Ask(p).op = "update" => db.state[h] = "live"
    <3>1. Ask(p).op = "update" => db.state[Ask(p).head] = "live"
      BY <1>1, WriterFacts, Zenon
    <3> QED
      BY <1>0, <3>1
  <2>3. MakesInline(p) => Ask(p).inline # Nothing /\ Ask(p).inline \in Heads
    BY <1>0, InlineIsNew, Apart
  <2>4. ASSUME NEW g \in Heads, NEW u \in db'.urls[g] \ db.urls[g]
        PROVE  Gave(B, g, u)
    BY <1>0, <2>1, <2>4 DEF WroteAll, WrittenBy, Gave
  <2>5. ASSUME NEW g \in Heads, db'.state[g] # "absent"
        PROVE  g \in Existing \/ Made(B, g)
    <3>1. CASE db.state[g] # "absent"
      BY <1>0, <3>1 DEF Traced
    <3>2. CASE db.state[g] = "absent"
      <4>1. g \in WrittenBy(p) /\ (g = h => Ask(p).op = "create")
        BY <1>1, <2>1, <2>2, <2>5, <3>2 DEF WroteAll
      <4> QED
        BY <1>0, <4>1 DEF WrittenBy, Made
    <3> QED
      BY <3>1, <3>2
  <2>6. ASSUME NEW g \in Heads, db'.state[g] = "deleted"
        PROVE  Deleted(B)
    <3>1. db.state[g] = "deleted"
      BY <2>1, <2>6 DEF WroteAll
    <3> QED
      BY <1>0, <3>1 DEF Traced
  <2>7. \A g \in Heads : \A u \in db'.urls[g] : u \in InitialUrls[g] \/ Gave(B, g, u)
    BY <1>0, <2>4 DEF Traced
  <2>8. ASSUME NEW g \in Heads, g # Ask(p).head, g # Ask(p).inline
        PROVE  db'.urls[g] = db.urls[g]
    BY <2>1, <2>8 DEF WroteAll, WrittenBy
  <2> QED
    BY <2>4, <2>5, <2>6, <2>7, <2>8 DEF Traced
<1>2. CASE Ask(p).op \in {"delete", "undelete"}
  <2>1. /\ db'.urls = db.urls
        /\ \/ db'.state = db.state
           \/ Ask(p).op = "delete" /\ db'.state = [db.state EXCEPT ![h] = "deleted"]
           \/ Ask(p).op = "undelete" /\ db'.state = [db.state EXCEPT ![h] = "live"]
    BY <1>0, <1>2, FlagResult
  <2>2. db.state[h] # "absent"
    BY <1>0, <1>2, FlaggerFacts
  <2>3. Ask(p).op = "delete" => Deleted(B)
    BY <1>0 DEF Deleted
  <2>4. ASSUME NEW g \in Heads
        PROVE  /\ db'.state[g] # "absent" => db.state[g] # "absent"
               /\ db'.state[g] = "deleted" => db.state[g] = "deleted" \/ Deleted(B)
    BY <1>0, <2>1, <2>2, <2>3
  <2> QED
    BY <1>0, <2>1, <2>4 DEF Traced
<1> QED
  BY <1>0, <1>1, <1>2, WhoIsAt

LEMMA CommitOrder ==
  ASSUME Atomic, TypeOK, Routes, Good(db), OneOwner, IRest, InOrder, NEW p \in Procs,
         pc[p] = "commit", \A n \in makes[p] : ~Exists(db, n), Committed(p)
  PROVE  InOrder'
<1> DEFINE r == req[p]
           B == Past'
<1>0. /\ r \in Requests \ Past /\ Ask(p) = Asks[r] /\ B \in SUBSET Requests
      /\ Past \in SUBSET Requests
  <2>1. B \in SUBSET Requests
    BY DEF Past
  <2> QED
    BY <2>1, NotPast DEF InOrder
<1>1. /\ pc' = [pc EXCEPT ![p] = "announce"] /\ pc'[p] = "announce" /\ req' = req /\ done' = done
      /\ todo' = todo /\ attempt' = attempt /\ makes'[p] = {}
  BY DEF Committed, Goto, TypeOK
<1>2. \A q \in Procs \ {p} : Untouched(q)
  BY DEF Committed, Goto, Untouched, TypeOK
<1>3. Past \subseteq B /\ r \in B
  <2>1. Past \subseteq Past'
    BY <1>1, <1>2, PastGrows DEF Untouched
  <2>2. r \in Past'
    BY <1>0, <1>1 DEF Past
  <2> QED
    BY <2>1, <2>2
<1>4. Once'
  BY <1>1, OnceStays DEF InOrder, Places
<1>5. /\ \A h \in Heads : \A u \in db'.urls[h] \ db.urls[h] : Gave(B, h, u)
      /\ Traced(B, db')
      /\ \A g \in Heads : g # Ask(p).head /\ g # Ask(p).inline => db'.urls[g] = db.urls[g]
  BY <1>0, <1>3, CommitTraces
<1>6. ASSUME NEW o, Shared(Past, o, db)
      PROVE  Shared(B, o, db')
  <2>1. CASE Excused(Past, o)
    BY <1>3, <2>1, MoreCalls DEF Shared
  <2>2. CASE ~Excused(Past, o)
    <3>1. PICK q \in Past \ {o} : /\ Asks[q].key = Asks[o].key /\ Asks[q].key # Nothing
                                  /\ Asks[q].key \in db.urls[Asks[q].inline]
      BY <1>6, <2>2 DEF Shared
    <3>2. /\ Asks[q].inline \in Heads /\ Asks[q].inline # Ask(p).head
          /\ Asks[q].inline # Ask(p).inline
      BY <1>0, <3>1, AskOf, Apart
    <3>3. db'.urls[Asks[q].inline] = db.urls[Asks[q].inline]
      BY <1>5, <3>2
    <3> QED
      BY <1>3, <3>1, <3>3 DEF Shared
  <2> QED
    BY <2>1, <2>2
<1>7. \A q \in Procs \ {p} : Sharing(q)'
  BY <1>1, <1>2, <1>3, <1>5, <1>6, OthersShare DEF InOrder
<1>8. Sharing(p)'
  BY <1>1, <1>6 DEF InOrder, Sharing, InTransaction
<1>9. (WriteAttempts > 1 => SharingIsNoConflict)'
  BY <1>1, <1>3, MoreCalls DEF InOrder, SharingIsNoConflict
<1> QED
  BY <1>4, <1>5, <1>7, <1>8, <1>9 DEF InOrder

LEMMA StepOrder ==
  ASSUME Atomic, TypeOK, Routes, Good(db), OneOwner, IRest, InOrder, NEW p \in Procs,
         Step(p) \/ Fail(p) \/ \E r \in Requests : Call(p, r)
  PROVE  InOrder'
<1>1. CASE \E r \in Requests : Call(p, r)
  BY <1>1, CallOrder
<1>2. CASE Begin(p)
  BY <1>2, BeginOrder
<1>3. CASE Ends(p) /\ (Step(p) \/ Fail(p))
  <2>1. pc[p] # "idle"
    BY <1>3 DEF Step, Fail, Query, Begin, Lock, ReadHead, FindInline, CheckRefs, CheckFree, Replace,
                CheckUrls, MergeUrls, Render, FindNode, FindHolders, Mark, Flag, FindBatch, LockHead,
                Rewire, Commit, Announce, WriteConflict, WritePlaces, Deadlock, Atomic
  <2> QED
    BY <1>3, <2>1, EndsOver, OverOrder
<1>4. CASE (Looks(p) \/ Puts(p)) /\ (Step(p) \/ Fail(p))
  <2>1. pc[p] \in Inside /\ pc'[p] \in Inside
    BY <1>4 DEF Looks, Puts, Reads, WritesOn, Goto, TypeOK
  <2>2. ~Ends(p)
    BY <2>1 DEF Ends, TypeOK, Inside
  <2>3. ~Begin(p)
    BY <2>1 DEF Begin, Inside
  <2>4. Query(p)
    <3>1. ~Fail(p) /\ ~WriteConflict(p) /\ ~Deadlock(p)
      BY <2>2, EndsWith DEF Fail, WriteConflict, Deadlock, Outcomes
    <3>2. ~Announce(p)
      BY <2>1 DEF Announce, Inside
    <3>3. ~Commit(p)
      <4>1. ~Committed(p) /\ ~TryAgain(p)
        BY <2>1, <2>2, EndsWith DEF Committed, Goto, TypeOK, Inside
      <4> QED
        BY <4>1 DEF Commit
    <3> QED
      BY <1>4, <3>1, <3>2, <3>3 DEF Step
  <2> QED
    BY <1>4, <2>1, <2>2, <2>3, <2>4, MakesKept, QueryOrder
<1>5. CASE pc[p] = "commit" /\ ~(Snapshot /\ \E n \in makes[p] : Exists(db, n)) /\ Committed(p)
  BY <1>5, CommitOrder DEF Atomic
<1> QED
  BY <1>1, <1>2, <1>3, <1>4, <1>5, StepKinds, NotRelinked

-------------------------------------------------------------------------------
(* The invariant, and what follows. *)

LEMMA InvParts ==
  IInv <=> TypeOK /\ Good(db) /\ NoDeadRefs /\ OneOwner /\ IRest /\ InOrder
  BY DEF IInv, IRest, InOrder

LEMMA InitInv ==
  ASSUME Init
  PROVE  IInv
<1>1. TypeOK
  BY InitTyped
<1>2. /\ db.state = [h \in Heads |-> IF h \in Existing THEN "live" ELSE "absent"]
      /\ db.version = [h \in Heads |-> IF h \in Existing THEN 1 ELSE 0]
      /\ db.refs = InitialRefs /\ db.urls = InitialUrls /\ db.marked = {} /\ db.revived = {}
  BY DEF Init, EmptyDb
<1>3. /\ InitialRefs \in [Heads -> SUBSET (Entities \cap Existing)]
      /\ \A h \in Heads \ Existing : InitialRefs[h] = {} /\ InitialUrls[h] = {}
      /\ \A g, h \in Heads : g # h => InitialUrls[g] \cap InitialUrls[h] = {}
  BY HeadWritesAssumption DEF HeadWritesAssumption
<1>4. Good(db)
  BY <1>2, <1>3 DEF Good
<1>5. NoDeadRefs
  BY <1>2, <1>3 DEF NoDeadRefs, Heads
<1>6. OneOwner
  BY <1>2, <1>3 DEF OneOwner
<1>7. IRest
  BY DEF Init, IRest, Kept, Locked, Knows, InTransaction
<1>8. InOrder
  <2>1. Past = {}
    BY DEF Init, Past
  <2>2. Traced(Past, db)
    BY <1>2 DEF Traced
  <2>3. Once
    BY DEF Init, Once
  <2>4. \A p \in Procs : Sharing(p)
    BY DEF Init, Sharing, InTransaction
  <2>5. SharingIsNoConflict
    BY DEF Init, SharingIsNoConflict
  <2> QED
    BY <2>2, <2>3, <2>4, <2>5 DEF InOrder
<1> QED
  BY <1>1, <1>4, <1>5, <1>6, <1>7, <1>8, InvParts

LEMMA StepInv ==
  ASSUME Atomic, TypeOK, Routes, Good(db), NoDeadRefs, OneOwner, IRest, NEW p \in Procs,
         Step(p) \/ Fail(p) \/ \E r \in Requests : Call(p, r)
  PROVE  Good(db)' /\ NoDeadRefs' /\ OneOwner' /\ IRest'
<1>0. db' = db => Good(db)' /\ NoDeadRefs' /\ OneOwner'
  BY DEF Good, NoDeadRefs, OneOwner
<1>1. CASE \E r \in Requests : Call(p, r)
  BY <1>0, <1>1, CallKeeps DEF Call
<1>2. CASE Ends(p)
  BY <1>0, <1>2, EndsKeep DEF Ends
<1>3. CASE Query(p) /\ ~Ends(p)
  <2>1. Begin(p) \/ Looks(p) \/ Puts(p)
    BY <1>3, QueryKinds, NotRelinked
  <2>2. db' = db
    BY <2>1 DEF Begin, Looks, Puts, Reads, WritesOn
  <2> QED
    BY <1>0, <1>3, <2>2, QueryKeeps
<1>4. CASE pc[p] = "commit" /\ ~(Snapshot /\ \E n \in makes[p] : Exists(db, n)) /\ Committed(p)
  BY <1>4, CommitKeeps DEF Atomic
<1>5. CASE Commit(p)
  BY <1>2, <1>4, <1>5, EndsWith DEF Commit
<1>6. CASE Announce(p)
  BY <1>2, <1>6, EndsWith DEF Announce, Outcomes
<1>7. CASE WriteConflict(p)
  BY <1>2, <1>7, EndsWith DEF WriteConflict, Outcomes
<1>8. CASE Deadlock(p)
  BY <1>8 DEF Deadlock, Atomic
<1>9. CASE Fail(p)
  BY <1>2, <1>9, EndsWith DEF Fail, Outcomes
<1> QED
  BY <1>1, <1>2, <1>3, <1>5, <1>6, <1>7, <1>8, <1>9 DEF Step

LEMMA NextInv ==
  ASSUME Atomic, IInv, Routes, [Next]_vars
  PROVE  IInv'
<1>1. TypeOK'
  BY NextTyped, InvParts
<1>2. Good(db)' /\ NoDeadRefs' /\ OneOwner' /\ IRest' /\ InOrder'
  <2>1. CASE UNCHANGED vars
    <3>1. \A p \in Procs : /\ Untouched(p) /\ attempt'[p] = attempt[p]
                           /\ Kept(p)' = Kept(p) /\ Locked(p)' = Locked(p)
      BY <2>1 DEF vars, txVars, Untouched, Kept, Locked, InTransaction, Good, Same, RefersTo
    <3>2. IRest'
      BY <3>1, InvParts, KnowsOwn DEF IRest
    <3>3. Past' = Past /\ Once' = Once
      BY <2>1 DEF vars, Past, Once
    <3>4. db' = db /\ done' = done
      BY <2>1 DEF vars
    <3>5. InOrder'
      BY <3>1, <3>3, <3>4, InvParts, OthersShare DEF InOrder, SharingIsNoConflict
    <3> QED
      BY <2>1, <3>2, <3>5, InvParts DEF vars, Good, NoDeadRefs, OneOwner
  <2>2. CASE Next
    BY <2>2, InvParts, StepInv, StepOrder DEF Next
  <2> QED
    BY <2>1, <2>2
<1> QED
  BY <1>1, <1>2 DEF IInv, IRest, InOrder

\* The inductive invariant, on Memgraph while nothing is relinked.
THEOREM Invariance == ASSUME Atomic PROVE Spec => [](IInv /\ Routes)
<1>1. Init => IInv /\ Routes
  BY InitInv, InitTyped
<1>2. IInv /\ Routes /\ [Next]_vars => IInv' /\ Routes'
  BY NextInv, NextRoutes, InvParts
<1> QED
  BY <1>1, <1>2, PTL DEF Spec

\* There, nothing that is not deleted refers to what is, unless it was undeleted
\* since it was written: an entity is not deleted while a write that refers to it
\* is under way, nor referred to by one that its deletion has overtaken.
THEOREM ReferencesLive == ASSUME Atomic PROVE Spec => []NoDeadRefs
<1>1. IInv => NoDeadRefs
  BY DEF IInv
<1> QED
  BY <1>1, Invariance, PTL

\* There, no URL belongs to two entities, whoever writes it at once.
THEOREM UrlsOwned == ASSUME Atomic PROVE Spec => []OneOwner
<1>1. IInv => OneOwner
  BY DEF IInv
<1> QED
  BY <1>1, Invariance, PTL

\* There, where a call is tried again at least once, a write is refused as a
\* conflict only with what was there at first or with a call that came before it
\* and would have made, given or deleted the same, however many documents name
\* one new entity at the same moment.
THEOREM ConflictsAreReal ==
  ASSUME Atomic, WriteAttempts > 1
  PROVE  Spec => []SharingIsNoConflict
<1>1. IInv => SharingIsNoConflict
  BY DEF IInv
<1> QED
  BY <1>1, Invariance, PTL

\* A commit, as HeadStore has it.
LEMMA CommitIsAtOnce ==
  ASSUME Atomic, TypeOK, Routes, Good(db), NoDeadRefs, OneOwner, IRest, NEW p \in Procs,
         pc[p] = "commit", \A n \in makes[p] : ~Exists(db, n), Committed(p), db' \in DbType
  PROVE  Store!Next
<1> DEFINE h == Ask(p).head
           W == WrittenBy(p)
<1>0. /\ db' = Result(db, p) /\ pc[p] # "idle" /\ pc[p] \in Inside /\ h \in Heads
      /\ db \in DbType
  BY AskFields DEF Committed, Inside, Places, TypeOK
<1>1. CASE Ask(p).op \in {"create", "update"}
  <2>1. WroteAll(db', db, p)
    BY <1>0, <1>1, WriteResult
  <2>2. /\ \A g \in W : g \in Heads /\ db.state[g] # "deleted"
        /\ \A e \in RefsOf(p) : e \in W \/ db.state[e] = "live"
    BY <1>1, WriterFacts
  <2>3. OneOwner'
    BY <1>0, <1>1, WriterCommits
  <2>4. /\ \A g \in Heads : db.version[g] \in Nat
        /\ db'.state \in [Heads -> {"absent", "live", "deleted"}]
        /\ db'.version \in [Heads -> Nat]
        /\ db'.refs \in [Heads -> SUBSET Entities] /\ db'.urls \in [Heads -> SUBSET Urls]
    BY <1>0 DEF DbType
  <2>5. Store!Written = W /\ W # {}
    <3>1. \A g \in Heads : db'.version[g] # db.version[g] <=> g \in W
      BY <2>1, <2>4 DEF WroteAll
    <3> QED
      BY <2>2, <3>1 DEF Store!Written, WrittenBy
  <2>6. db'.state = [g \in Heads |-> IF g \in W THEN "live" ELSE db.state[g]]
    BY <2>1, <2>4 DEF WroteAll
  <2>7. db'.version = [g \in Heads |-> db.version[g] + (IF g \in W THEN 1 ELSE 0)]
    BY <2>1, <2>4 DEF WroteAll
  <2>8. \A g \in Heads \ W : db'.refs[g] = db.refs[g] /\ db'.urls[g] = db.urls[g]
    BY <2>1 DEF WroteAll, WrittenBy
  <2>9. \A g \in W : \A e \in db'.refs[g] : db'.state[e] = "live"
    <3>1. SUFFICES ASSUME NEW g \in W, NEW e \in db'.refs[g]
                   PROVE  db'.state[e] = "live"
      OBVIOUS
    <3>2. g = h /\ e \in RefsOf(p)
      BY <2>1, <2>2, <3>1 DEF WroteAll
    <3>3. e \in Heads
      BY <2>2, <2>4, <3>1 DEF Heads
    <3> QED
      BY <2>1, <2>2, <3>2, <3>3 DEF WroteAll
  <2>10. db'.marked = db.marked \ W /\ db'.revived = db.revived \ W
    BY <2>1 DEF WroteAll
  <2>11. Store!Disjoint(db'.urls)
    BY <2>3 DEF Store!Disjoint, OneOwner
  <2>12. Store!Write(W)
    BY <2>2, <2>4, <2>6, <2>7, <2>8, <2>9, <2>10, <2>11 DEF Store!Write
  <2> QED
    BY <2>5, <2>12 DEF Store!Next
<1>2. CASE Ask(p).op \in {"delete", "undelete"}
  <2>1. /\ Ask(p).op = "delete" => db.state[h] = "live"
        /\ Ask(p).op = "undelete" => db.state[h] = "deleted"
        /\ Ask(p).op = "delete" /\ said[p] # Unsaid =>
             \A g \in Heads \ {h} : RefersTo(db, g, h) => g \in db.revived
    BY <1>2, FlaggerFacts
  <2>2. /\ db'.version = db.version /\ db'.refs = db.refs /\ db'.urls = db.urls
        /\ \/ /\ Ask(p).op = "delete" /\ said[p][h] = 0
              /\ db'.state = db.state /\ db'.marked = db.marked \cup {h} /\ db'.revived = db.revived
           \/ /\ Ask(p).op = "delete" /\ said[p][h] # 0
              /\ db'.state = [db.state EXCEPT ![h] = "deleted"]
              /\ db'.marked = db.marked \ {h} /\ db'.revived = db.revived \ {h}
           \/ /\ Ask(p).op = "undelete"
              /\ db'.state = [db.state EXCEPT ![h] = "live"]
              /\ db'.marked = db.marked /\ db'.revived = db.revived \cup {h}
    BY <1>0, <1>2, FlagResult
  <2>3. CASE Ask(p).op = "delete" /\ said[p][h] = 0
    <3>1. Store!Mark(h)
      BY <2>1, <2>2, <2>3 DEF Store!Mark
    <3> QED
      BY <1>0, <3>1 DEF Store!Next
  <2>4. CASE Ask(p).op = "delete" /\ said[p][h] # 0
    <3>1. Store!Holders(h) \subseteq db.revived
      BY <1>0, <2>1, <2>4 DEF Store!Holders, RefersTo, Unsaid
    <3>2. Store!Delete(h)
      BY <2>1, <2>2, <2>4, <3>1 DEF Store!Delete
    <3> QED
      BY <1>0, <3>2 DEF Store!Next
  <2>5. CASE Ask(p).op = "undelete"
    <3>1. Store!Undelete(h)
      BY <2>1, <2>2, <2>5 DEF Store!Undelete
    <3> QED
      BY <1>0, <3>1 DEF Store!Next
  <2> QED
    BY <1>2, <2>3, <2>4, <2>5
<1> QED
  BY <1>0, <1>1, <1>2, WhoIsAt

\* There, the calls do to the database what HeadStore's steps do, each at the
\* one moment of its commit, and nothing else changes it.
THEOREM ImplementsStore == ASSUME Atomic PROVE Spec => StorePromise
<1>1. Init => Store!Init
  <2>1. SUFFICES ASSUME Init PROVE Store!Init
    OBVIOUS
  <2>2. /\ db.marked = {} /\ db.revived = {} /\ db \in DbType /\ OneOwner
    BY <2>1, InitInv, InvParts DEF Init, EmptyDb, TypeOK
  <2>3. Store!Disjoint(db.urls)
    BY <2>2 DEF OneOwner, Store!Disjoint
  <2> QED
    BY <2>2, <2>3 DEF Store!Init, DbType
<1>2. IInv /\ Routes /\ [Next]_vars => [Store!Next]_(Store!vars)
  <2>1. SUFFICES ASSUME IInv, Routes, [Next]_vars, db' # db
                 PROVE  Store!Next
    BY DEF Store!vars
  <2>2. TypeOK /\ TypeOK'
    BY <2>1, NextTyped, InvParts
  <2>3. PICK p \in Procs : Step(p) \/ Fail(p) \/ \E r \in Requests : Call(p, r)
    BY <2>1 DEF vars, Next
  <2>4. ~Begin(p) /\ ~Ends(p) /\ ~Looks(p) /\ ~Puts(p) /\ \A r \in Requests : ~Call(p, r)
    BY <2>1 DEF Begin, Ends, Looks, Puts, Reads, WritesOn, Call
  <2>5. pc[p] = "commit" /\ Committed(p) /\ \A n \in makes[p] : ~Exists(db, n)
    BY <2>1, <2>2, <2>3, <2>4, StepKinds, NotRelinked DEF Atomic
  <2>6. db' \in DbType
    BY <2>2 DEF TypeOK
  <2> QED
    BY <2>1, <2>5, <2>6, InvParts, CommitIsAtOnce
<1> QED
  BY <1>1, <1>2, Invariance, PTL DEF Spec, StorePromise, Store!Spec

-------------------------------------------------------------------------------
(* On Neo4j, relinks and all: who writes to a node has locked it. *)

\* An update begins with the lock of its head, and there is nothing to lock until
\* the head is made: no head that is created here is updated, too.
Locking ==
  /\ ~Snapshot
  /\ \A q, r \in Requests :
       Asks[q].op = "create" /\ Asks[r].op = "update" /\ Asks[q].head = Asks[r].head =>
         Asks[q].head \in Existing

Standing ==
  \A r \in Requests : Asks[r].op = "update" =>
    (db.state[Asks[r].head] # "absent" <=> Asks[r].head \in Existing)

Blank == \A h \in Heads : db.state[h] = "absent" => db.version[h] = 0 /\ db.refs[h] = {}

\* Nobody else writes where p does, or makes what it does.
Owns(p) ==
  /\ \A q \in Procs \ {p} : sets[p] \cap sets[q] = {} /\ makes[p] \cap makes[q] = {}
  /\ \A h \in makes[p] \cap Heads : db.state[h] = "absent"

MakesIt(p) == MakesInline(p) => Ask(p).inline \in makes[p]

LCreating(p) ==
  /\ pc[p] \in {"inline", "refs", "free", "render", "commit"}
  /\ pc[p] # "commit" => said[p] = Unsaid
  /\ pc[p] = "commit" => Says(p, 1) /\ Ask(p).head \in makes[p] /\ MakesIt(p)

LUpdating(p) ==
  LET h == Ask(p).head IN
  /\ pc[p] \in {"lock", "read", "inline", "refs", "free", "replace", "urls", "merge",
                "render", "commit"}
  /\ pc[p] \in {"lock", "read"} => said[p] = Unsaid
  /\ pc[p] = "read" => h \in sets[p] \/ h \notin Existing
  /\ pc[p] \notin {"lock", "read"} =>
       /\ h \in sets[p] /\ db.state[h] = "live"
       /\ Ask(p).expected \in {0, db.version[h]} /\ Says(p, db.version[h] + 1)
  /\ pc[p] = "commit" => MakesIt(p)

LFlagging(p) ==
  LET h == Ask(p).head IN
  /\ pc[p] \in {"read", "refs", "mark", "delete", "undelete", "commit"}
  /\ pc[p] # "commit" => said[p] = Unsaid
  /\ pc[p] # "read" => db.state[h] # "absent"
  /\ pc[p] = "commit" => h \in sets[p] /\ (said[p] = Unsaid \/ Says(p, db.version[h]))

Wired(p) == [h \in Heads |-> IF h \in batch[p] THEN db.version[h] + 1 ELSE 0]

LRelinking(p) ==
  /\ pc[p] \in {"find", "heads", "rewire", "commit"}
  /\ pc[p] # "commit" => said[p] = Unsaid
  /\ pc[p] # "find" => \A h \in batch[p] : db.state[h] # "absent"
  /\ pc[p] = "heads" => batch[p] \ left[p] \subseteq sets[p]
  /\ pc[p] \in {"rewire", "commit"} => batch[p] \subseteq sets[p]
  /\ pc[p] = "commit" => said[p] = Wired(p)

\* What p knows, as its own locks keep it so.
LKnows(p) ==
  /\ pc[p] \in {"idle", "begin"} => said[p] = Unsaid
  /\ InTransaction(p) =>
       CASE Ask(p).op = "create"               -> LCreating(p)
         [] Ask(p).op = "update"               -> LUpdating(p)
         [] Ask(p).op \in {"delete", "undelete"} -> LFlagging(p)
         [] Ask(p).op = "relink"               -> LRelinking(p)

LInv == Standing /\ Blank /\ \A p \in Procs : Owns(p) /\ LKnows(p)

\* What a step that ends a transaction leaves to the process.
LEMMA EndsOwn ==
  ASSUME TypeOK, NEW p \in Procs, Ends(p)
  PROVE  /\ db' = db /\ sets'[p] = {} /\ makes'[p] = {} /\ said'[p] = Unsaid
         /\ pc'[p] \in {"idle", "begin"}
  BY DEF Ends, Closed, TypeOK

\* What p knows of the heads it has locked stays so, while they stay as they are and
\* what is there stays there.
LEMMA LKnowsOwn ==
  ASSUME TypeOK, NEW p \in Procs, Untouched(p), batch'[p] = batch[p], left'[p] = left[p], LKnows(p),
         \A h \in Heads : db.state[h] # "absent" =>
           /\ db'.state[h] # "absent"
           /\ h \in sets[p] => db'.state[h] = db.state[h] /\ db'.version[h] = db.version[h]
  PROVE  LKnows(p)'
<1>1. /\ Ask(p)' = Ask(p) /\ InTransaction(p)' = InTransaction(p) /\ MakesIt(p)' = MakesIt(p)
      /\ \A v : Says(p, v)' = Says(p, v)
  BY DEF Untouched, Ask, InTransaction, MakesInline, MakesIt, Says
<1>2. CASE ~InTransaction(p)
  BY <1>1, <1>2 DEF LKnows, Untouched
<1>3. CASE InTransaction(p)
  <2>0. pc[p] # "idle" /\ pc[p] # "begin" /\ Ask(p).head \in Heads /\ batch[p] \subseteq Heads
    BY <1>3, AskFields DEF InTransaction, TypeOK
  <2>1. CASE Ask(p).op = "create"
    <3>1. LCreating(p)
      BY <1>3, <2>1 DEF LKnows
    <3>2. LCreating(p)'
      BY <1>1, <3>1 DEF LCreating, Untouched
    <3> QED
      BY <1>1, <2>0, <2>1, <3>2 DEF LKnows, Untouched
  <2>2. CASE Ask(p).op = "update"
    <3>1. LUpdating(p)
      BY <1>3, <2>2 DEF LKnows
    <3>2. LUpdating(p)'
      BY <1>1, <2>0, <3>1 DEF LUpdating, Untouched
    <3> QED
      BY <1>1, <2>0, <2>2, <3>2 DEF LKnows, Untouched
  <2>3. CASE Ask(p).op \in {"delete", "undelete"}
    <3>1. LFlagging(p)
      BY <1>3, <2>3 DEF LKnows
    <3>2. LFlagging(p)'
      BY <1>1, <2>0, <3>1 DEF LFlagging, Untouched
    <3> QED
      BY <1>1, <2>0, <2>3, <3>2 DEF LKnows, Untouched
  <2>4. CASE Ask(p).op = "relink"
    <3>1. LRelinking(p)
      BY <1>3, <2>4 DEF LKnows
    <3>2. pc[p] = "commit" => Wired(p)' = Wired(p)
      <4>1. pc[p] = "commit" => \A h \in batch[p] : db'.version[h] = db.version[h]
        BY <2>0, <3>1 DEF LRelinking
      <4> QED
        BY <4>1 DEF Wired
    <3>3. LRelinking(p)'
      BY <1>1, <2>0, <3>1, <3>2 DEF LRelinking, Untouched
    <3> QED
      BY <1>1, <2>0, <2>4, <3>3 DEF LKnows, Untouched
  <2> QED
    BY <2>0, <2>1, <2>2, <2>3, <2>4, AskFields DEF Ops
<1> QED
  BY <1>2, <1>3

\* A step of p that commits nothing, and writes and makes nothing that another does.
LEMMA LStepKeeps ==
  ASSUME TypeOK, LInv, NEW p \in Procs, db' = db, LKnows(p)',
         \A q \in Procs \ {p} : Untouched(q) /\ batch'[q] = batch[q] /\ left'[q] = left[q],
         \A q \in Procs \ {p} : sets'[p] \cap sets[q] = {} /\ makes'[p] \cap makes[q] = {},
         \A h \in makes'[p] \cap Heads : db.state[h] = "absent"
  PROVE  LInv'
<1>1. \A q \in Procs \ {p} : LKnows(q)'
  <2> TAKE q \in Procs \ {p}
  <2>1. LKnows(q)
    BY DEF LInv
  <2> QED
    BY <2>1, LKnowsOwn
<1>2. Owns(p)'
  BY DEF Owns, Untouched
<1>3. ASSUME NEW q \in Procs \ {p}
      PROVE  Owns(q)'
  <2>1. Owns(q)
    BY DEF LInv
  <2>2. sets'[q] = sets[q] /\ makes'[q] = makes[q]
    BY DEF Untouched
  <2>3. \A o \in Procs \ {q} : sets[q] \cap sets'[o] = {} /\ makes[q] \cap makes'[o] = {}
    <3> TAKE o \in Procs \ {q}
    <3>1. CASE o = p
      BY <3>1
    <3>2. CASE o # p
      BY <2>1, <3>2 DEF Owns, Untouched
    <3> QED
      BY <3>1, <3>2
  <2> QED
    BY <2>1, <2>2, <2>3 DEF Owns
<1>4. Standing' /\ Blank'
  BY DEF LInv, Standing, Blank
<1> QED
  BY <1>1, <1>2, <1>3, <1>4 DEF LInv

LEMMA OthersKeepBatch ==
  ASSUME TypeOK, NEW p \in Procs, Ends(p) \/ Looks(p) \/ Puts(p) \/ Begin(p) \/ Committed(p)
                                  \/ (\E r \in Requests : Call(p, r)),
         NEW q \in Procs \ {p}
  PROVE  batch'[q] = batch[q] /\ left'[q] = left[q]
  BY DEF Ends, Closed, Looks, Reads, Puts, WritesOn, Begin, Committed, Call, txVars, TypeOK

LEMMA LEndsKeep ==
  ASSUME TypeOK, LInv, NEW p \in Procs, Ends(p)
  PROVE  LInv'
<1>1. ~InTransaction(p)'
  BY EndsOwn DEF InTransaction
<1>2. LKnows(p)'
  BY <1>1, EndsOwn DEF LKnows
<1>3. \A q \in Procs \ {p} : Untouched(q) /\ batch'[q] = batch[q] /\ left'[q] = left[q]
  BY EndsAlone, OthersKeepBatch
<1> QED
  BY <1>2, <1>3, EndsOwn, LStepKeeps

LEMMA LCallKeeps ==
  ASSUME TypeOK, LInv, NEW p \in Procs, NEW r \in Requests, Call(p, r)
  PROVE  LInv'
<1>1. /\ sets' = sets /\ makes' = makes /\ said' = said /\ pc'[p] = "begin" /\ db' = db
      /\ pc[p] = "idle"
  BY DEF Call, Goto, TypeOK, txVars
<1>2. LKnows(p)'
  BY <1>1 DEF LInv, LKnows, InTransaction
<1>3. \A q \in Procs \ {p} : Untouched(q) /\ batch'[q] = batch[q] /\ left'[q] = left[q]
  BY DEF Call, Goto, TypeOK, txVars, Untouched
<1> QED
  BY <1>1, <1>2, <1>3, LStepKeeps DEF LInv, Owns

LEMMA LBeginKeeps ==
  ASSUME Locking, TypeOK, LInv, NEW p \in Procs, Begin(p)
  PROVE  LInv'
<1>1. /\ sets' = sets /\ makes' = makes /\ said' = said /\ req' = req /\ db' = db
      /\ pc[p] = "begin" /\ pc'[p] = FirstQuery(Ask(p).op)
  BY DEF Begin, Goto, TypeOK
<1>2. Ask(p)' = Ask(p) /\ Ask(p).op \in Ops
  BY <1>1, AskFields DEF Ask
<1>3. said'[p] = Unsaid
  BY <1>1 DEF LInv, LKnows
<1>4. pc'[p] \notin {"idle", "begin"}
  BY <1>1 DEF FirstQuery
<1>5. LKnows(p)'
  BY <1>1, <1>2, <1>3, <1>4
     DEF FirstQuery, Locking, LKnows, LCreating, LUpdating, LFlagging, LRelinking, Ops
<1>6. \A q \in Procs \ {p} : Untouched(q) /\ batch'[q] = batch[q] /\ left'[q] = left[q]
  BY DEF Begin, Goto, TypeOK, Untouched
<1> QED
  BY <1>1, <1>5, <1>6, LStepKeeps DEF LInv, Owns

LEMMA LLooksKeep ==
  ASSUME TypeOK, LInv, NEW p \in Procs, Looks(p), LKnows(p)'
  PROVE  LInv'
<1>1. sets' = sets /\ makes' = makes /\ db' = db
  BY DEF Looks, Reads
<1>2. \A q \in Procs \ {p} : Untouched(q) /\ batch'[q] = batch[q] /\ left'[q] = left[q]
  BY DEF Looks, Reads, Goto, OthersSay, Untouched, TypeOK
<1> QED
  BY <1>1, <1>2, LStepKeeps DEF LInv, Owns

\* A query that writes: who writes or makes the same has to be waited for.
LEMMA LPutsKeep ==
  ASSUME Locking, TypeOK, LInv, NEW p \in Procs, Puts(p), LKnows(p)',
         \A h \in MakesNext(p) \cap Heads : db.state[h] = "absent"
  PROVE  LInv'
<1>1. db' = db /\ Writes(p, SetsNext(p))
  BY DEF Puts, WritesOn
<1>2. sets'[p] = sets[p] \cup SetsNext(p) /\ makes'[p] = makes[p] \cup MakesNext(p)
  BY <1>1 DEF Writes, TypeOK
<1>3. \A q \in Procs \ {p} : /\ SetsNext(p) \cap sets[q] = {}
                             /\ MakesNext(p) \cap makes[q] = {}
  BY <1>1 DEF Writes, Held, Locking
<1>4. Owns(p)
  BY DEF LInv
<1>5. \A q \in Procs \ {p} : Untouched(q) /\ batch'[q] = batch[q] /\ left'[q] = left[q]
  BY DEF Puts, WritesOn, Writes, Goto, OthersSay, Untouched, TypeOK
<1>6. \A q \in Procs \ {p} : sets'[p] \cap sets[q] = {} /\ makes'[p] \cap makes[q] = {}
  BY <1>2, <1>3, <1>4 DEF Owns
<1>7. \A h \in makes'[p] \cap Heads : db.state[h] = "absent"
  BY <1>2, <1>4 DEF Owns
<1> QED
  BY <1>1, <1>5, <1>6, <1>7, LStepKeeps

\* The call that is at a place.
LEMMA LWhoIsAt ==
  ASSUME Locking, TypeOK, LInv, NEW p \in Procs, InTransaction(p)
  PROVE  /\ pc[p] # "idle" /\ pc[p] # "begin" /\ Ask(p).op \in Ops /\ Ask(p).head \in Heads
         /\ Sees(p) = db
         /\ Ask(p).op = "create" => LCreating(p)
         /\ Ask(p).op = "update" => LUpdating(p)
         /\ Ask(p).op \in {"delete", "undelete"} => LFlagging(p)
         /\ Ask(p).op = "relink" => LRelinking(p)
<1>1. LKnows(p)
  BY DEF LInv
<1>2. pc[p] # "idle" /\ pc[p] # "begin"
  BY DEF InTransaction
<1> QED
  BY <1>1, <1>2, AskFields DEF LKnows, Sees, Locking

\* What a query of a create or an update that only reads adds to what is known.
LEMMA LWriterReads ==
  ASSUME Locking, TypeOK, LInv, NEW p \in Procs, ~Ends(p), InTransaction(p),
         ReadHead(p) \/ FindInline(p) \/ CheckRefs(p) \/ CheckFree(p) \/ CheckUrls(p)
  PROVE  LKnows(p)'
<1> DEFINE h == Ask(p).head
<1>0. /\ pc[p] # "idle" /\ h \in Heads /\ said \in [Procs -> [Heads -> Nat]] /\ Sees(p) = db
      /\ pc[p] \notin {"lock", "commit"}
      /\ db.state \in [Heads -> {"absent", "live", "deleted"}] /\ db.version \in [Heads -> Nat]
  BY LWhoIsAt DEF TypeOK, DbType, ReadHead, FindInline, CheckRefs, CheckFree, CheckUrls
<1>1. CASE ReadHead(p)
  <2>1. /\ Ask(p).op = "update" /\ pc[p] = "read" /\ Reads(p, "inline")
        /\ Sees(p).state[h] = "live" /\ Ask(p).expected \in {0, Sees(p).version[h]}
        /\ said' = [said EXCEPT ![p][h] = Sees(p).version[h] + 1]
    BY <1>1, NoOutcome, Zenon DEF ReadHead
  <2>2. said[p] = Unsaid /\ (h \in sets[p] \/ h \notin Existing)
    BY <2>1, LWhoIsAt DEF LUpdating
  <2>3. said'[p] = [Unsaid EXCEPT ![h] = db.version[h] + 1]
    BY <1>0, <2>1, <2>2
  <2>4. /\ pc'[p] = "inline" /\ Ask(p)' = Ask(p) /\ sets'[p] = sets[p] /\ db' = db
    BY <2>1, ReadsOwn DEF Reads
  <2>5. h \in Existing
    <3>1. req[p] \in Requests /\ Asks[req[p]].op = "update" /\ h = Asks[req[p]].head
      BY <1>0, <2>1, AskTyped DEF Ask
    <3>2. db.state[h] = "live" /\ Standing
      BY <1>0, <2>1 DEF LInv
    <3> QED
      BY <3>1, <3>2 DEF Standing
  <2>6. LUpdating(p)'
    BY <1>0, <2>1, <2>2, <2>3, <2>4, <2>5 DEF LUpdating, Says
  <2> QED
    BY <2>1, <2>4, <2>6 DEF LKnows
<1>2. CASE ~ReadHead(p)
  <2>1. /\ said' = said /\ Ask(p).op \in {"create", "update"}
        /\ \/ pc[p] = "inline" /\ Reads(p, "refs")
           \/ pc[p] = "refs" /\ Reads(p, "free")
           \/ pc[p] = "free" /\ Reads(p, IF Ask(p).op = "create" THEN "render" ELSE "replace")
           \/ pc[p] = "urls" /\ Reads(p, "merge")
    <3>1. CASE FindInline(p)
      <4>1. pc[p] = "inline" /\ Reads(p, "refs") /\ said' = said
        BY <3>1, NoOutcome, Zenon DEF FindInline
      <4> QED
        BY <4>1, LWhoIsAt DEF LFlagging, LRelinking, Ops
    <3>2. CASE CheckRefs(p)
      BY <3>2, NoOutcome, Zenon DEF CheckRefs
    <3>3. CASE CheckFree(p)
      <4>1. /\ pc[p] = "free" /\ said' = said
            /\ Reads(p, IF Ask(p).op = "create" THEN "render" ELSE "replace")
        BY <3>3, NoOutcome, Zenon DEF CheckFree
      <4> QED
        BY <4>1, LWhoIsAt DEF LFlagging, LRelinking, Ops
    <3>4. CASE CheckUrls(p)
      <4>1. pc[p] = "urls" /\ Reads(p, "merge") /\ said' = said
        BY <3>4, NoOutcome, Zenon DEF CheckUrls
      <4> QED
        BY <4>1, LWhoIsAt DEF LFlagging, LRelinking, Ops
    <3> QED
      BY <1>2, <3>1, <3>2, <3>3, <3>4
  <2>2. PICK place : Reads(p, place) /\ place \in {"refs", "free", "render", "replace", "merge"}
                     /\ (Ask(p).op = "create" => place \in {"refs", "free", "render"})
    BY <2>1, LWhoIsAt DEF LCreating
  <2>3. /\ pc'[p] = place /\ Ask(p)' = Ask(p) /\ sets'[p] = sets[p] /\ makes'[p] = makes[p]
        /\ db' = db
    BY <2>2, ReadsOwn DEF Reads
  <2>4. CASE Ask(p).op = "create"
    <3>1. LCreating(p)'
      BY <1>0, <2>1, <2>2, <2>3, <2>4, LWhoIsAt DEF LCreating
    <3> QED
      BY <2>2, <2>3, <2>4, <3>1 DEF LKnows
  <2>5. CASE Ask(p).op = "update"
    <3>1. LUpdating(p) /\ pc[p] \notin {"lock", "read"}
      BY <2>1, <2>5, LWhoIsAt
    <3>2. LUpdating(p)'
      BY <2>1, <2>2, <2>3, <3>1 DEF LUpdating, Says
    <3> QED
      BY <2>2, <2>3, <2>5, <3>2 DEF LKnows
  <2> QED
    BY <2>1, <2>4, <2>5
<1> QED
  BY <1>1, <1>2

\* What one of them that writes adds, and that nothing it makes is there.
LEMMA LWriterPuts ==
  ASSUME Locking, TypeOK, LInv, NEW p \in Procs, ~Ends(p), InTransaction(p),
         Lock(p) \/ Replace(p) \/ MergeUrls(p) \/ Render(p)
  PROVE  LKnows(p)' /\ \A h \in MakesNext(p) \cap Heads : db.state[h] = "absent"
<1> DEFINE h == Ask(p).head
<1>0. /\ pc[p] # "idle" /\ h \in Heads /\ said \in [Procs -> [Heads -> Nat]] /\ Sees(p) = db
      /\ pc[p] \in {"lock", "replace", "merge", "render"}
      /\ Ask(p).urls \cap Heads = {}
  BY LWhoIsAt, AskFields, Apart DEF TypeOK, Lock, Replace, MergeUrls, Render
<1>1. /\ Ask(p).op \in {"create", "update"}
      /\ pc[p] \in {"lock", "replace", "merge"} => Ask(p).op = "update"
  BY <1>0, LWhoIsAt DEF LCreating, LFlagging, LRelinking, Ops
<1>2. CASE Lock(p)
  <2>1. pc[p] = "lock" /\ WritesOn(p, "read") /\ said' = said /\ Ask(p).op = "update"
    BY <1>1, <1>2 DEF Lock
  <2>2. /\ pc'[p] = "read" /\ Ask(p)' = Ask(p) /\ sets'[p] = sets[p] \cup SetsNext(p) /\ db' = db
    BY <2>1, PutsOwn DEF WritesOn
  <2>3. SetsNext(p) = {h} \cap {g \in Heads : Exists(db, g)} /\ MakesNext(p) = {}
    BY <2>1 DEF SetsNext, MakesNext
  <2>4. h \in Existing => Exists(db, h)
    <3>1. req[p] \in Requests /\ Asks[req[p]].op = "update" /\ h = Asks[req[p]].head
      BY <1>0, <2>1, AskTyped DEF Ask
    <3> QED
      BY <1>0, <3>1 DEF LInv, Standing, Exists
  <2>5. LUpdating(p)'
    BY <1>0, <2>1, <2>2, <2>3, <2>4, LWhoIsAt DEF LUpdating
  <2> QED
    BY <2>1, <2>2, <2>3, <2>5 DEF LKnows
<1>3. CASE Replace(p) \/ MergeUrls(p)
  <2>1. /\ pc[p] \in {"replace", "merge"} /\ said' = said /\ Ask(p).op = "update"
        /\ \E place \in {"render", "urls"} : WritesOn(p, place)
    BY <1>1, <1>3 DEF Replace, MergeUrls
  <2>2. PICK place \in {"render", "urls"} : WritesOn(p, place)
    BY <2>1
  <2>3. /\ pc'[p] = place /\ Ask(p)' = Ask(p) /\ sets[p] \subseteq sets'[p] /\ db' = db
    BY <2>2, PutsOwn DEF WritesOn
  <2>4. LUpdating(p) /\ pc[p] \notin {"lock", "read"}
    BY <2>1, LWhoIsAt
  <2>5. LUpdating(p)'
    BY <2>1, <2>2, <2>3, <2>4 DEF LUpdating, Says
  <2>6. MakesNext(p) \cap Heads = {}
    BY <1>0, <2>1 DEF MakesNext
  <2> QED
    BY <2>1, <2>2, <2>3, <2>5, <2>6 DEF LKnows
<1>4. CASE Render(p)
  <2>1. /\ pc[p] = "render" /\ WritesOn(p, "commit") /\ ~(\E n \in MakesNext(p) : Exists(db, n))
        /\ said' = IF Ask(p).op = "create" THEN [said EXCEPT ![p][h] = 1] ELSE said
    BY <1>4, NoOutcome, Zenon DEF Render, Locking
  <2>2. /\ pc'[p] = "commit" /\ Ask(p)' = Ask(p) /\ target'[p] = target[p] /\ db' = db
        /\ sets[p] \subseteq sets'[p] /\ makes'[p] = makes[p] \cup MakesNext(p)
    BY <2>1, PutsOwn DEF WritesOn
  <2>3. MakesNext(p) = (IF Ask(p).op = "create" THEN {h} \cup Ask(p).urls ELSE {})
                       \cup (IF MakesInline(p) THEN {Ask(p).inline, Ask(p).key} ELSE {})
    BY <2>1 DEF MakesNext
  <2>4. MakesIt(p)'
    BY <2>2, <2>3 DEF MakesIt, MakesInline
  <2>5. \A g \in MakesNext(p) \cap Heads : db.state[g] = "absent"
    BY <2>1 DEF Exists
  <2>6. CASE Ask(p).op = "create"
    <3>1. said[p] = Unsaid
      BY <2>1, <2>6, LWhoIsAt DEF LCreating
    <3>2. said'[p] = [Unsaid EXCEPT ![h] = 1]
      BY <1>0, <2>1, <2>6, <3>1
    <3>3. LCreating(p)'
      BY <2>2, <2>3, <2>4, <2>6, <3>2 DEF LCreating, Says
    <3> QED
      BY <2>2, <2>5, <2>6, <3>3 DEF LKnows
  <2>7. CASE Ask(p).op = "update"
    <3>1. LUpdating(p) /\ pc[p] \notin {"lock", "read"}
      BY <2>1, <2>7, LWhoIsAt
    <3>2. LUpdating(p)'
      BY <2>1, <2>2, <2>4, <2>7, <3>1 DEF LUpdating, Says
    <3> QED
      BY <2>2, <2>5, <2>7, <3>2 DEF LKnows
  <2> QED
    BY <1>1, <2>6, <2>7
<1> QED
  BY <1>2, <1>3, <1>4

\* The same of a delete or an undelete: what it has found is not there for ever, but its
\* node is.
LEMMA LFlaggerReads ==
  ASSUME Locking, TypeOK, LInv, NEW p \in Procs, ~Ends(p), InTransaction(p),
         FindNode(p) \/ FindHolders(p)
  PROVE  LKnows(p)'
<1> DEFINE h == Ask(p).head
<1>0. /\ pc[p] # "idle" /\ h \in Heads /\ Sees(p) = db
      /\ db.state \in [Heads -> {"absent", "live", "deleted"}]
  BY LWhoIsAt DEF TypeOK, DbType
<1>1. /\ Ask(p).op \in {"delete", "undelete"} /\ said' = said /\ db.state[h] # "absent"
      /\ pc[p] \in {"read", "refs"}
      /\ \E place \in {"refs", "delete", "undelete", "mark"} : Reads(p, place)
  <2>1. CASE FindNode(p) /\ Ask(p).op = "delete"
    <3>1. db.state[h] = "live" /\ said' = said /\ pc[p] = "read"
      BY <1>0, <2>1, NoOutcome, Zenon DEF FindNode
    <3>2. Reads(p, IF h \in Entities THEN "refs" ELSE "delete")
      BY <2>1, NoOutcome, Zenon DEF FindNode
    <3> QED
      BY <2>1, <3>1, <3>2
  <2>2. CASE FindNode(p) /\ Ask(p).op # "delete"
    <3>1. db.state[h] = "deleted"
      BY <1>0, <2>2, NoOutcome DEF FindNode
    <3>2. Ask(p).op = "undelete" /\ Reads(p, "undelete") /\ said' = said /\ pc[p] = "read"
      BY <1>0, <2>2, <3>1 DEF FindNode
    <3> QED
      BY <3>1, <3>2
  <2>3. CASE FindHolders(p)
    <3>1. Ask(p).op = "delete" /\ pc[p] = "refs" /\ said' = said
      BY <2>3 DEF FindHolders
    <3>2. \E place \in {"delete", "mark"} : Reads(p, place)
      BY <2>3 DEF FindHolders
    <3>3. db.state[h] # "absent"
      BY <3>1, LWhoIsAt DEF LFlagging
    <3> QED
      BY <3>1, <3>2, <3>3
  <2> QED
    BY <2>1, <2>2, <2>3
<1>2. PICK place \in {"refs", "delete", "undelete", "mark"} : Reads(p, place)
  BY <1>1
<1>3. pc'[p] = place /\ Ask(p)' = Ask(p) /\ db' = db
  BY <1>2, ReadsOwn DEF Reads
<1>4. said[p] = Unsaid
  BY <1>1, LWhoIsAt DEF LFlagging
<1>5. LFlagging(p)'
  BY <1>1, <1>2, <1>3, <1>4 DEF LFlagging
<1> QED
  BY <1>1, <1>2, <1>3, <1>5 DEF LKnows

LEMMA LFlaggerPuts ==
  ASSUME Locking, TypeOK, LInv, NEW p \in Procs, InTransaction(p), Mark(p) \/ Flag(p)
  PROVE  LKnows(p)' /\ MakesNext(p) = {}
<1> DEFINE h == Ask(p).head
<1>0. /\ h \in Heads /\ said \in [Procs -> [Heads -> Nat]] /\ Sees(p) = db
      /\ pc[p] \in {"mark", "delete", "undelete"}
  BY LWhoIsAt DEF TypeOK, Mark, Flag
<1>1. /\ Ask(p).op \in {"delete", "undelete"} /\ said[p] = Unsaid /\ db.state[h] # "absent"
  BY <1>0, LWhoIsAt DEF LCreating, LUpdating, LFlagging, LRelinking, Ops
<1>2. WritesOn(p, "commit") /\ (said' = said \/ said' = [said EXCEPT ![p][h] = db.version[h]])
  BY <1>0 DEF Mark, Flag
<1>3. /\ pc'[p] = "commit" /\ Ask(p)' = Ask(p) /\ sets'[p] = sets[p] \cup SetsNext(p) /\ db' = db
  BY <1>2, PutsOwn DEF WritesOn
<1>4. SetsNext(p) = {h} /\ MakesNext(p) = {}
  BY <1>0 DEF SetsNext, MakesNext
<1>5. said'[p] = Unsaid \/ said'[p] = [Unsaid EXCEPT ![h] = db.version[h]]
  BY <1>0, <1>1, <1>2
<1>6. LFlagging(p)'
  BY <1>1, <1>3, <1>4, <1>5 DEF LFlagging, Says
<1> QED
  BY <1>1, <1>3, <1>4, <1>6 DEF LKnows

\* A relink locks each head of its batch, and then the versions are what they are when it
\* has read them, whatever was written while it waited.
LEMMA LRelinkerKeeps ==
  ASSUME Locking, TypeOK, Routes, LInv, NEW p \in Procs, ~Ends(p), Relinks(p)
  PROVE  LInv'
<1>0. /\ InTransaction(p) /\ Ask(p).op = "relink" /\ Sees(p) = db
      /\ pc[p] # "idle" /\ Ask(p).head \in Entities
      /\ batch \in [Procs -> SUBSET Heads] /\ left \in [Procs -> SUBSET Heads]
      /\ sets \in [Procs -> SUBSET Heads] /\ makes \in [Procs -> SUBSET (Heads \cup Urls)]
      /\ said \in [Procs -> [Heads -> Nat]]
  <2>1. InTransaction(p) /\ Ask(p).op = "relink" /\ pc[p] # "idle"
    BY DEF Relinks, InTransaction, Routes
  <2> QED
    BY <2>1, LWhoIsAt, RelinkTo DEF TypeOK
<1>1. LRelinking(p) /\ said[p] = Unsaid /\ Owns(p)
  <2>1. LRelinking(p) /\ Owns(p)
    BY <1>0, LWhoIsAt DEF LInv
  <2> QED
    BY <2>1 DEF LRelinking, Relinks
<1>2. CASE FindBatch(p)
  <2>0. ~End(p, "made")
    BY EndsWith DEF Outcomes
  <2>1. /\ pc[p] = "find"
        /\ \E S \in SUBSET {h \in Heads : Ask(p).head \in db.refs[h]} :
             /\ batch' = [batch EXCEPT ![p] = S]
             /\ left' = [left EXCEPT ![p] = S]
             /\ Goto(p, "heads")
             /\ UNCHANGED <<db, todo, done, req, attempt, view, changed, edged, sets,
                            links, makes, target, said>>
    BY <1>0, <1>2, <2>0 DEF FindBatch, Locking
  <2>2. PICK S \in SUBSET {h \in Heads : Ask(p).head \in db.refs[h]} :
          /\ batch' = [batch EXCEPT ![p] = S]
          /\ left' = [left EXCEPT ![p] = S]
          /\ Goto(p, "heads")
          /\ UNCHANGED <<db, todo, done, req, attempt, view, changed, edged, sets,
                         links, makes, target, said>>
    BY <2>1
  <2>3. /\ batch'[p] = S /\ left'[p] = S /\ pc'[p] = "heads" /\ Ask(p)' = Ask(p)
    BY <1>0, <2>2 DEF Goto, TypeOK, Ask
  <2>4. \A h \in S : db.state[h] # "absent"
    BY DEF LInv, Blank
  <2>5. LRelinking(p)'
    BY <1>1, <2>2, <2>3, <2>4 DEF LRelinking
  <2>6. LKnows(p)'
    BY <1>0, <2>3, <2>5 DEF LKnows
  <2>7. \A q \in Procs \ {p} : Untouched(q) /\ batch'[q] = batch[q] /\ left'[q] = left[q]
    BY <1>0, <2>2 DEF Goto, Untouched, TypeOK
  <2> QED
    BY <1>1, <2>2, <2>6, <2>7, LStepKeeps DEF Owns
<1>3. CASE \E h \in Heads : LockHead(p, h)
  <2>1. PICK h \in Heads : LockHead(p, h)
    BY <1>3
  <2>2. /\ pc[p] = "heads" /\ h \in left[p] /\ Writes(p, {h})
        /\ db' = db /\ said' = said /\ req' = req /\ batch' = batch
        /\ left' = [left EXCEPT ![p] = @ \ {h}] /\ target' = target /\ view' = view
        /\ Goto(p, IF left[p] = {h} THEN "rewire" ELSE "heads")
    BY <2>1 DEF LockHead
  <2>3. MakesNext(p) = {}
    BY <2>2 DEF MakesNext
  <2>4. /\ sets'[p] = sets[p] \cup {h} /\ makes'[p] = makes[p] /\ left'[p] = left[p] \ {h}
        /\ Ask(p)' = Ask(p) /\ pc'[p] = IF left[p] = {h} THEN "rewire" ELSE "heads"
    BY <1>0, <2>2, <2>3 DEF Writes, Goto, TypeOK, Ask
  <2>5. batch[p] \ left[p] \subseteq sets[p]
    BY <1>1, <2>2 DEF LRelinking
  <2>6. LRelinking(p)'
    BY <1>1, <2>2, <2>4, <2>5 DEF LRelinking
  <2>7. LKnows(p)'
    BY <1>0, <2>4, <2>6 DEF LKnows
  <2>8. \A q \in Procs \ {p} : Untouched(q) /\ batch'[q] = batch[q] /\ left'[q] = left[q]
    BY <1>0, <2>2 DEF Goto, Writes, Untouched, TypeOK
  <2>9. \A q \in Procs \ {p} : h \notin sets[q]
    BY <2>2 DEF Writes, Held
  <2> QED
    BY <1>1, <2>2, <2>4, <2>7, <2>8, <2>9, LStepKeeps DEF Owns
<1>4. CASE Rewire(p)
  <2>0. ~End(p, "failed")
    BY EndsWith DEF Outcomes
  <2>1. /\ pc[p] = "rewire" /\ WritesOn(p, "commit")
        /\ said' = [said EXCEPT ![p] = Wired(p)]
    BY <1>0, <1>4, <2>0 DEF Rewire, Wired
  <2>2. MakesNext(p) = {} /\ SetsNext(p) = {}
    BY <2>1 DEF MakesNext, SetsNext
  <2>3. /\ sets'[p] = sets[p] /\ makes'[p] = makes[p] /\ pc'[p] = "commit" /\ Ask(p)' = Ask(p)
        /\ batch' = batch /\ db' = db
    BY <1>0, <2>1, <2>2, PutsOwn DEF WritesOn
  <2>4. said'[p] = Wired(p)'
    BY <1>0, <2>1, <2>3 DEF Wired
  <2>5. LRelinking(p)'
    BY <1>1, <2>1, <2>3, <2>4 DEF LRelinking
  <2>6. LKnows(p)'
    BY <1>0, <2>3, <2>5 DEF LKnows
  <2>7. \A q \in Procs \ {p} : Untouched(q) /\ batch'[q] = batch[q] /\ left'[q] = left[q]
    BY <1>0, <2>1 DEF Goto, WritesOn, Writes, Untouched, TypeOK
  <2> QED
    BY <1>1, <2>3, <2>6, <2>7, LStepKeeps DEF Owns
<1> QED
  BY <1>2, <1>3, <1>4 DEF Relinks

LEMMA RelinkResult ==
  ASSUME TypeOK, NEW p \in Procs, pc[p] # "idle", Ask(p).op = "relink"
  PROVE  LET w == Result(db, p) IN
         /\ w.state = db.state
         /\ \A h \in Heads : /\ w.version[h] = db.version[h] + (IF h \in batch[p] THEN 1 ELSE 0)
                             /\ h \notin batch[p] => w.refs[h] = db.refs[h]
<1>1. db \in DbType
  BY DEF TypeOK
<1>2. Result(db, p) = Relinked(db, p)
  BY DEF Result
<1>3. PICK version, refs :
        /\ version = [h \in Heads |-> db.version[h] + (IF h \in batch[p] THEN 1 ELSE 0)]
        /\ refs = [h \in Heads |-> IF h \in batch[p] /\ Ask(p).head \in db.refs[h]
                                   THEN (db.refs[h] \ {Ask(p).head}) \cup {Ask(p).to}
                                   ELSE db.refs[h]]
  OBVIOUS
<1>4. Relinked(db, p) = [db EXCEPT !.version = version, !.refs = refs]
  BY <1>3 DEF Relinked
<1>5. /\ Relinked(db, p).state = db.state /\ Relinked(db, p).version = version
      /\ Relinked(db, p).refs = refs
  BY <1>1, <1>4 DEF DbType
<1> QED
  BY <1>2, <1>3, <1>5

\* A commit changes the versions of what has been locked and of what it makes, and no other.
LEMMA LCommitChanges ==
  ASSUME Locking, TypeOK, LInv, NEW p \in Procs, pc[p] = "commit", db' = Result(db, p),
         NEW g \in Heads
  PROVE  /\ db.state[g] # "absent" /\ g \notin sets[p] =>
              db'.state[g] = db.state[g] /\ db'.version[g] = db.version[g]
         /\ db.state[g] # "absent" => db'.state[g] # "absent"
         /\ db.state[g] = "absent" /\ db'.state[g] # "absent" =>
              /\ g \in makes[p] /\ Ask(p).op \in {"create", "update"}
              /\ \/ g = Ask(p).head /\ Ask(p).op = "create"
                 \/ MakesInline(p) /\ g = Ask(p).inline
         /\ db'.state[g] = "absent" => db'.version[g] = 0 /\ db'.refs[g] = {}
<1> DEFINE h == Ask(p).head
<1>0. /\ InTransaction(p) /\ pc[p] # "idle" /\ h \in Heads /\ Ask(p).op \in Ops
      /\ db \in DbType /\ Owns(p)
      /\ db.state[g] = "absent" => db.version[g] = 0 /\ db.refs[g] = {}
  <2>1. InTransaction(p)
    BY DEF InTransaction
  <2> QED
    BY <2>1, LWhoIsAt DEF TypeOK, LInv, Blank
<1>1. CASE Ask(p).op \in {"create", "update"}
  <2>1. WroteAll(db', db, p)
    BY <1>0, <1>1, WriteResult
  <2>2. /\ MakesIt(p)
        /\ Ask(p).op = "create" => h \in makes[p]
        /\ Ask(p).op = "update" => h \in sets[p] /\ db.state[h] = "live"
    BY <1>0, <1>1, LWhoIsAt DEF LCreating, LUpdating
  <2>3. /\ db'.state[g] = IF g \in WrittenBy(p) THEN "live" ELSE db.state[g]
        /\ g \notin WrittenBy(p) => db'.refs[g] = db.refs[g]
        /\ g \notin WrittenBy(p) => db'.version[g] = db.version[g]
    <3>1. db.version[g] \in Nat
      BY <1>0 DEF DbType
    <3> QED
      BY <2>1, <3>1 DEF WroteAll, WrittenBy
  <2>4. g \in WrittenBy(p) => g = h \/ (MakesInline(p) /\ g = Ask(p).inline /\ g \in makes[p])
    BY <2>2 DEF WrittenBy, MakesIt
  <2>5. g \in makes[p] => db.state[g] = "absent"
    BY <1>0 DEF Owns
  <2> QED
    BY <1>0, <1>1, <2>2, <2>3, <2>4, <2>5
<1>2. CASE Ask(p).op \in {"delete", "undelete"}
  <2>1. /\ db'.version = db.version /\ db'.refs = db.refs
        /\ \/ db'.state = db.state
           \/ db'.state = [db.state EXCEPT ![h] = "deleted"]
           \/ db'.state = [db.state EXCEPT ![h] = "live"]
    BY <1>0, <1>2, FlagResult
  <2>2. h \in sets[p] /\ db.state[h] # "absent"
    BY <1>0, <1>2, LWhoIsAt DEF LFlagging
  <2>3. db'.state[g] = db.state[g] \/ (g = h /\ db'.state[g] # "absent")
    <3>1. db.state \in [Heads -> {"absent", "live", "deleted"}]
      BY <1>0 DEF DbType
    <3> QED
      BY <1>0, <2>1, <3>1
  <2>4. db'.version[g] = db.version[g] /\ db'.refs[g] = db.refs[g]
    BY <2>1
  <2> QED
    BY <1>0, <2>2, <2>3, <2>4
<1>3. CASE Ask(p).op = "relink"
  <2>1. /\ db'.state = db.state
        /\ db'.version[g] = db.version[g] + (IF g \in batch[p] THEN 1 ELSE 0)
        /\ g \notin batch[p] => db'.refs[g] = db.refs[g]
    BY <1>0, <1>3, RelinkResult
  <2>2. batch[p] \subseteq sets[p] /\ \A b \in batch[p] : db.state[b] # "absent"
    BY <1>0, <1>3, LWhoIsAt DEF LRelinking
  <2>3. db.version[g] \in Nat
    BY <1>0 DEF DbType
  <2> QED
    BY <1>0, <2>1, <2>2, <2>3
<1> QED
  BY <1>0, <1>1, <1>2, <1>3 DEF Ops

LEMMA LCommitKeeps ==
  ASSUME Locking, TypeOK, LInv, NEW p \in Procs, pc[p] = "commit", Committed(p)
  PROVE  LInv'
<1>1. /\ db' = Result(db, p) /\ sets'[p] = {} /\ makes'[p] = {} /\ pc'[p] = "announce"
      /\ req' = req
  BY DEF Committed, Goto, TypeOK
<1>2. \A q \in Procs \ {p} : Untouched(q) /\ batch'[q] = batch[q] /\ left'[q] = left[q]
  BY DEF Committed, Goto, Untouched, TypeOK
<1>3. \A g \in Heads :
        /\ db.state[g] # "absent" /\ g \notin sets[p] =>
             db'.state[g] = db.state[g] /\ db'.version[g] = db.version[g]
        /\ db.state[g] # "absent" => db'.state[g] # "absent"
        /\ db.state[g] = "absent" /\ db'.state[g] # "absent" =>
             /\ g \in makes[p] /\ Ask(p).op \in {"create", "update"}
             /\ \/ g = Ask(p).head /\ Ask(p).op = "create"
                \/ MakesInline(p) /\ g = Ask(p).inline
        /\ db'.state[g] = "absent" => db'.version[g] = 0 /\ db'.refs[g] = {}
  BY <1>1, LCommitChanges
<1>4. \A q \in Procs \ {p} : sets[p] \cap sets[q] = {} /\ makes[p] \cap makes[q] = {}
  BY DEF LInv, Owns
<1>5. ASSUME NEW q \in Procs \ {p}
      PROVE  LKnows(q)' /\ Owns(q)'
  <2>1. LKnows(q) /\ Owns(q) /\ Untouched(q)
    BY <1>2 DEF LInv
  <2>2. LKnows(q)'
    BY <1>2, <1>3, <1>4, <2>1, LKnowsOwn
  <2>3. \A h \in makes[q] \cap Heads : db'.state[h] = "absent"
    BY <1>3, <1>4, <2>1 DEF Owns
  <2>4. \A o \in Procs \ {q} : sets[q] \cap sets'[o] = {} /\ makes[q] \cap makes'[o] = {}
    <3> TAKE o \in Procs \ {q}
    <3>1. CASE o = p
      BY <1>1, <3>1
    <3>2. CASE o # p
      BY <1>2, <2>1, <3>2 DEF Owns, Untouched
    <3> QED
      BY <3>1, <3>2
  <2>5. Owns(q)'
    BY <2>1, <2>3, <2>4 DEF Owns, Untouched
  <2> QED
    BY <2>2, <2>5
<1>6. Owns(p)'
  BY <1>1 DEF Owns
<1>7. LKnows(p)'
  BY <1>1 DEF LKnows, InTransaction
<1>8. Standing'
  <2>1. SUFFICES ASSUME NEW r \in Requests, Asks[r].op = "update"
                 PROVE  db'.state[Asks[r].head] # "absent" <=> Asks[r].head \in Existing
    BY DEF Standing
  <2>2. /\ Asks[r].head \in Heads
        /\ db.state[Asks[r].head] # "absent" <=> Asks[r].head \in Existing
    BY <2>1, AskOf DEF LInv, Standing
  <2>3. CASE db.state[Asks[r].head] # "absent" \/ db'.state[Asks[r].head] = "absent"
    BY <1>3, <2>2, <2>3
  <2>4. CASE db.state[Asks[r].head] = "absent" /\ db'.state[Asks[r].head] # "absent"
    <3>1. req[p] \in Requests /\ Ask(p) = Asks[req[p]] /\ pc[p] # "idle"
      BY AskTyped DEF Ask
    <3>2. MakesInline(p) => Asks[r].head # Ask(p).inline
      BY <3>1, AskOf DEF MakesInline
    <3>3. Asks[r].head = Asks[req[p]].head /\ Asks[req[p]].op = "create"
      BY <1>3, <2>2, <2>4, <3>1, <3>2
    <3>4. Asks[r].head \in Existing
      BY <2>1, <3>1, <3>3 DEF Locking
    <3> QED
      BY <2>2, <2>4, <3>4
  <2> QED
    BY <2>3, <2>4
<1>9. Blank'
  BY <1>3 DEF Blank
<1> QED
  BY <1>5, <1>6, <1>7, <1>8, <1>9 DEF LInv

-------------------------------------------------------------------------------

LEMMA LStepInv ==
  ASSUME Locking, TypeOK, Routes, LInv, NEW p \in Procs,
         Step(p) \/ Fail(p) \/ \E r \in Requests : Call(p, r)
  PROVE  LInv'
<1>1. CASE \E r \in Requests : Call(p, r)
  BY <1>1, LCallKeeps
<1>2. CASE Begin(p)
  BY <1>2, LBeginKeeps
<1>3. CASE Ends(p)
  BY <1>3, LEndsKeep
<1>4. CASE Relinks(p) /\ ~Ends(p)
  BY <1>4, LRelinkerKeeps
<1>5. CASE pc[p] = "commit" /\ Committed(p)
  BY <1>5, LCommitKeeps
<1>6. CASE (Looks(p) \/ Puts(p)) /\ ~Ends(p)
  <2>1. pc[p] \in Inside /\ pc'[p] \in Inside /\ InTransaction(p)
    BY <1>6 DEF Looks, Puts, Reads, WritesOn, Goto, TypeOK, InTransaction, Inside
  <2>2. ~Fail(p) /\ ~WriteConflict(p) /\ ~Deadlock(p)
    BY <1>6, EndsWith DEF Fail, WriteConflict, Deadlock, Outcomes
  <2>3. ~Announce(p) /\ ~Begin(p) /\ \A r \in Requests : ~Call(p, r)
    BY <2>1 DEF Announce, Inside, Begin, Call
  <2>4. ~Commit(p)
    <3>1. ~Committed(p) /\ ~TryAgain(p)
      BY <1>6, <2>1, EndsWith DEF Committed, Goto, TypeOK, Inside
    <3> QED
      BY <3>1 DEF Commit
  <2>5. ~FindBatch(p) /\ ~Rewire(p) /\ \A h \in Heads : ~LockHead(p, h)
    BY <2>1 DEF FindBatch, Rewire, LockHead, Inside
  <2>6. CASE ReadHead(p) \/ FindInline(p) \/ CheckRefs(p) \/ CheckFree(p) \/ CheckUrls(p)
    <3>1. LKnows(p)'
      BY <1>6, <2>1, <2>6, LWriterReads
    <3>2. Puts(p) => MakesNext(p) = {}
      BY <2>6 DEF ReadHead, FindInline, CheckRefs, CheckFree, CheckUrls, MakesNext
    <3> QED
      BY <1>6, <3>1, <3>2, LLooksKeep, LPutsKeep
  <2>7. CASE Lock(p) \/ Replace(p) \/ MergeUrls(p) \/ Render(p)
    BY <1>6, <2>1, <2>7, LWriterPuts, LLooksKeep, LPutsKeep
  <2>8. CASE FindNode(p) \/ FindHolders(p)
    <3>1. LKnows(p)'
      BY <1>6, <2>1, <2>8, LFlaggerReads
    <3>2. Puts(p) => MakesNext(p) = {}
      BY <2>8 DEF FindNode, FindHolders, MakesNext
    <3> QED
      BY <1>6, <3>1, <3>2, LLooksKeep, LPutsKeep
  <2>9. CASE Mark(p) \/ Flag(p)
    BY <1>6, <2>1, <2>9, LFlaggerPuts, LLooksKeep, LPutsKeep
  <2> QED
    BY <2>2, <2>3, <2>4, <2>5, <2>6, <2>7, <2>8, <2>9 DEF Step, Query
<1> QED
  BY <1>1, <1>2, <1>3, <1>4, <1>5, <1>6, StepKinds

LEMMA LInitInv ==
  ASSUME Init
  PROVE  LInv
<1>1. /\ db.state = [h \in Heads |-> IF h \in Existing THEN "live" ELSE "absent"]
      /\ db.version = [h \in Heads |-> IF h \in Existing THEN 1 ELSE 0]
      /\ db.refs = InitialRefs
  BY DEF Init, EmptyDb
<1>2. \A h \in Heads \ Existing : InitialRefs[h] = {}
  BY HeadWritesAssumption DEF HeadWritesAssumption
<1>3. Standing
  BY <1>1, AskOf DEF Standing
<1>4. Blank
  BY <1>1, <1>2 DEF Blank
<1>5. \A p \in Procs : Owns(p) /\ LKnows(p)
  BY DEF Init, Owns, LKnows, InTransaction
<1> QED
  BY <1>3, <1>4, <1>5 DEF LInv

\* The inductive invariant on Neo4j, relinks and all: what a process has read of the heads it
\* has locked is so, and nobody else writes or makes what it does.
THEOREM LocksHold == ASSUME Locking PROVE Spec => [](TypeOK /\ Routes /\ LInv)
<1>1. Init => TypeOK /\ Routes /\ LInv
  BY InitTyped, LInitInv
<1>2. TypeOK /\ Routes /\ LInv /\ [Next]_vars => (TypeOK /\ Routes /\ LInv)'
  <2>1. SUFFICES ASSUME TypeOK, Routes, LInv, [Next]_vars
                 PROVE  LInv'
    BY NextTyped, NextRoutes
  <2>2. CASE UNCHANGED vars
    <3>1. db' = db /\ \A p \in Procs : Untouched(p) /\ batch'[p] = batch[p] /\ left'[p] = left[p]
      BY <2>2 DEF vars, txVars, Untouched
    <3>2. \A p \in Procs : LKnows(p)'
      BY <2>1, <3>1, LKnowsOwn DEF LInv
    <3>3. \A p \in Procs : Owns(p)'
      BY <2>1, <3>1 DEF LInv, Owns, Untouched
    <3> QED
      BY <2>1, <3>1, <3>2, <3>3 DEF LInv, Standing, Blank
  <2>3. CASE Next
    BY <2>1, <2>3, LStepInv DEF Next
  <2> QED
    BY <2>1, <2>2, <2>3
<1> QED
  BY <1>1, <1>2, PTL DEF Spec

\* Who commits does so by himself (on both).
LEMMA CommitStep ==
  ASSUME TypeOK, Routes, [Next]_vars, NEW p \in Procs, Commits(p)
  PROVE  /\ pc[p] = "commit" /\ InTransaction(p) /\ db' = Result(db, p)
         /\ Snapshot => \A n \in makes[p] : ~Exists(db, n)
<1>1. pc[p] = "commit" /\ pc'[p] = "announce" /\ InTransaction(p)
  BY DEF Commits, InTransaction
<1>2. Next
  BY <1>1 DEF vars
<1>3. PICK q \in Procs : Step(q) \/ Fail(q) \/ \E r \in Requests : Call(q, r)
  BY <1>2 DEF Next
<1>4. q = p
  BY <1>1, <1>3, Alone, RelinkStep DEF Untouched
<1>5. ~Begin(p) /\ (\A r \in Requests : ~Call(p, r)) /\ ~Relinks(p)
  BY <1>1 DEF Begin, Call, Relinks
<1>6. ~Ends(p)
  BY <1>1 DEF Ends, TypeOK
<1>7. ~Looks(p) /\ ~Puts(p)
  BY <1>1 DEF Looks, Puts, Reads, WritesOn, Goto, Inside, TypeOK
<1> QED
  BY <1>1, <1>3, <1>4, <1>5, <1>6, <1>7, StepKinds DEF Committed

\* On Neo4j an update that says which version it was made from replaces that one: of two
\* edits of the same version, one is refused.
THEOREM NoLostEditsByLocks == ASSUME Locking PROVE Spec => EditsAreNotLost
<1>1. ASSUME TypeOK, Routes, LInv, [Next]_vars, NEW p \in Procs, Commits(p),
             Ask(p).op = "update", Ask(p).expected # 0
      PROVE  db.state[Ask(p).head] = "live" /\ db.version[Ask(p).head] = Ask(p).expected
  <2>1. pc[p] = "commit" /\ InTransaction(p)
    BY <1>1, CommitStep
  <2>2. LUpdating(p)
    BY <1>1, <2>1, LWhoIsAt
  <2> QED
    BY <1>1, <2>1, <2>2 DEF LUpdating
<1>2. TypeOK /\ Routes /\ LInv /\ [Next]_vars =>
        [\A p \in Procs : Commits(p) /\ Ask(p).op = "update" /\ Ask(p).expected # 0 =>
           db.state[Ask(p).head] = "live" /\ db.version[Ask(p).head] = Ask(p).expected]_vars
  BY <1>1
<1> QED
  BY <1>2, LocksHold, PTL DEF Spec, EditsAreNotLost

\* There, the version that a write announces is the one that it has made, and so are those
\* that a relink announces, of each head of its batch.
THEOREM VersionsAnnouncedByLocks == ASSUME Locking PROVE Spec => AnnouncedVersions
<1>1. ASSUME TypeOK, Routes, LInv, [Next]_vars, NEW p \in Procs, Commits(p), NEW h \in Heads,
             said[p][h] # 0
      PROVE  said[p][h] = db'.version[h]
  <2>1. /\ pc[p] = "commit" /\ InTransaction(p) /\ db' = Result(db, p) /\ pc[p] # "idle"
        /\ Ask(p).op \in Ops /\ Ask(p).head \in Heads
    BY <1>1, CommitStep, LWhoIsAt
  <2>2. db \in DbType /\ db.version \in [Heads -> Nat]
    BY <1>1 DEF TypeOK, DbType
  <2>3. CASE Ask(p).op \in {"create", "update"}
    <3>1. said[p] = [Unsaid EXCEPT ![Ask(p).head] = db.version[Ask(p).head] + 1]
      <4>1. CASE Ask(p).op = "update"
        BY <1>1, <2>1, <4>1, LWhoIsAt DEF LUpdating, Says
      <4>2. CASE Ask(p).op = "create"
        <5>1. Says(p, 1) /\ Ask(p).head \in makes[p]
          BY <1>1, <2>1, <4>2, LWhoIsAt DEF LCreating
        <5>2. db.version[Ask(p).head] = 0
          BY <1>1, <2>1, <5>1 DEF LInv, Owns, Blank
        <5> QED
          BY <5>1, <5>2 DEF Says
      <4> QED
        BY <2>3, <4>1, <4>2
    <3>2. h = Ask(p).head /\ said[p][h] = db.version[h] + 1
      BY <1>1, <2>1, <2>2, <3>1 DEF Unsaid
    <3>3. WroteAll(db', db, p)
      BY <1>1, <2>1, <2>2, <2>3, WriteResult
    <3> QED
      BY <3>2, <3>3 DEF WroteAll, WrittenBy
  <2>4. CASE Ask(p).op \in {"delete", "undelete"}
    <3>1. said[p] # Unsaid
      BY <1>1 DEF Unsaid
    <3>2. said[p] = [Unsaid EXCEPT ![Ask(p).head] = db.version[Ask(p).head]]
      BY <1>1, <2>1, <2>4, <3>1, LWhoIsAt DEF LFlagging, Says
    <3>3. h = Ask(p).head /\ said[p][h] = db.version[h]
      BY <1>1, <2>1, <2>2, <3>2 DEF Unsaid
    <3>4. db'.version = db.version
      BY <1>1, <2>1, <2>4, FlagResult
    <3> QED
      BY <3>3, <3>4
  <2>5. CASE Ask(p).op = "relink"
    <3>1. said[p] = Wired(p)
      BY <1>1, <2>1, <2>5, LWhoIsAt DEF LRelinking
    <3>2. h \in batch[p] /\ said[p][h] = db.version[h] + 1
      BY <1>1, <3>1 DEF Wired
    <3>3. db'.version[h] = db.version[h] + 1
      BY <1>1, <2>1, <2>5, <3>2, RelinkResult
    <3> QED
      BY <3>2, <3>3
  <2> QED
    BY <2>1, <2>3, <2>4, <2>5 DEF Ops
<1>2. TypeOK /\ Routes /\ LInv /\ [Next]_vars =>
        [\A p \in Procs : Commits(p) =>
           \A h \in Heads : said[p][h] # 0 => said[p][h] = db'.version[h]]_vars
  BY <1>1
<1> QED
  BY <1>2, LocksHold, PTL DEF Spec, AnnouncedVersions

-------------------------------------------------------------------------------
(* On Memgraph, whatever is relinked. *)

\* Two relinks do not disturb each other (they make edges), so that of two at once
\* neither knows which version it makes.
SoleRelink ==
  \A q, r \in Requests : Asks[q].op = "relink" /\ Asks[r].op = "relink" => q = r

\* What p has seen, of what nobody has written to since; a relink, of what nobody has
\* changed, if there is no other.
Present(p) ==
  \A h \in Heads : view[p].state[h] # "absent" => db.state[h] # "absent"

Unwritten(p) ==
  \A h \in Heads \ (changed[p] \cup edged[p]) : view[p].state[h] # "absent" =>
    db.state[h] = view[p].state[h] /\ db.version[h] = view[p].version[h]

Unrelinked(p) ==
  SoleRelink /\ Ask(p).op = "relink" =>
    \A h \in Heads \ changed[p] : view[p].state[h] # "absent" => db.version[h] = view[p].version[h]

RSees(p) ==
  InTransaction(p) =>
    /\ \A h \in Heads : view[p].state[h] = "absent" => view[p].refs[h] = {}
    /\ Present(p) /\ Unwritten(p) /\ Unrelinked(p)

RCreating(p) ==
  /\ pc[p] \in {"inline", "refs", "free", "render", "commit"}
  /\ pc[p] # "commit" => said[p] = Unsaid
  /\ pc[p] = "commit" => Says(p, 1) /\ Ask(p).head \in makes[p] /\ MakesIt(p)

RUpdating(p) ==
  LET h == Ask(p).head IN
  /\ pc[p] \in {"read", "inline", "refs", "free", "replace", "urls", "merge", "render", "commit"}
  /\ pc[p] = "read" => said[p] = Unsaid
  /\ pc[p] # "read" => /\ view[p].state[h] = "live"
                       /\ Ask(p).expected \in {0, view[p].version[h]}
                       /\ Says(p, view[p].version[h] + 1)
  /\ pc[p] \in {"urls", "merge", "render", "commit"} => h \in sets[p]
  /\ pc[p] = "commit" => MakesIt(p)

RFlagging(p) ==
  LET h == Ask(p).head IN
  /\ pc[p] \in {"read", "refs", "mark", "delete", "undelete", "commit"}
  /\ pc[p] # "commit" => said[p] = Unsaid
  /\ pc[p] # "read" => view[p].state[h] # "absent"
  /\ pc[p] = "commit" => h \in sets[p] /\ (said[p] = Unsaid \/ Says(p, view[p].version[h]))

Rewired(p) == [h \in Heads |-> IF h \in batch[p] THEN view[p].version[h] + 1 ELSE 0]

RRelinking(p) ==
  /\ pc[p] \in {"find", "rewire", "commit"}
  /\ pc[p] # "commit" => said[p] = Unsaid
  /\ pc[p] # "find" => \A h \in batch[p] : view[p].state[h] # "absent"
  /\ pc[p] = "commit" => batch[p] \subseteq links[p] /\ said[p] = Rewired(p)

RKnows(p) ==
  /\ pc[p] \in {"idle", "begin"} => said[p] = Unsaid
  /\ InTransaction(p) =>
       CASE Ask(p).op = "create"               -> RCreating(p)
         [] Ask(p).op = "update"               -> RUpdating(p)
         [] Ask(p).op \in {"delete", "undelete"} -> RFlagging(p)
         [] Ask(p).op = "relink"               -> RRelinking(p)

\* Each call is made once, by one process.
Single ==
  /\ \A p \in Procs : req[p] \notin todo
  /\ \A p \in Procs : \A q \in Procs \ {p} : req[p] = req[q] => req[p] = Nothing

RInv == Single /\ Blank /\ \A p \in Procs : RSees(p) /\ Locked(p) /\ RKnows(p)

LEMMA TodoStays ==
  ASSUME TypeOK, NEW p \in Procs, Step(p) \/ Fail(p)
  PROVE  todo' = todo
<1>1. ((\E o : End(p, o)) \/ Rerun(p)) => todo' = todo
  BY DEF End, Rerun
<1>2. TryAgain(p) => todo' = todo
  BY <1>1 DEF TryAgain
<1>3. CheckConflict(p) => todo' = todo
  BY <1>1, <1>2 DEF CheckConflict
<1>4. ((\E place : Reads(p, place)) \/ (\E place : WritesOn(p, place))) => todo' = todo
  BY DEF Reads, WritesOn
<1>5. ReadHead(p) \/ FindInline(p) \/ CheckRefs(p) => todo' = todo
  BY <1>1, <1>3, <1>4, Zenon DEF ReadHead, FindInline, CheckRefs
<1>6. CheckFree(p) \/ CheckUrls(p) \/ Render(p) => todo' = todo
  BY <1>2, <1>3, <1>4, Zenon DEF CheckFree, CheckUrls, Render
<1>7. Lock(p) \/ Replace(p) \/ MergeUrls(p) \/ Mark(p) \/ Flag(p) => todo' = todo
  BY <1>4, Zenon DEF Lock, Replace, MergeUrls, Mark, Flag
<1>8. FindNode(p) => todo' = todo
  <2>0. /\ End(p, "not_found") \/ End(p, "not_deleted") => todo' = todo
        /\ Reads(p, "undelete") => todo' = todo
    BY <1>1, <1>4
  <2>1. FindNode(p) /\ Ask(p).op = "delete" => todo' = todo
    BY <1>1, <1>4, Zenon DEF FindNode
  <2>2. FindNode(p) /\ Ask(p).op # "delete" => todo' = todo
    <3>1. SUFFICES ASSUME FindNode(p), Ask(p).op # "delete"
                   PROVE  todo' = todo
      OBVIOUS
    <3>2. Sees(p).state[Ask(p).head] \in {"absent", "live", "deleted"}
      BY <3>1, SeesTyped, AskFields DEF FindNode, DbType
    <3> QED
      BY <2>0, <3>1, <3>2 DEF FindNode
  <2> QED
    BY <2>1, <2>2
<1>9. FindHolders(p) => todo' = todo
  BY <1>4, Zenon DEF FindHolders
<1>10. Begin(p) \/ (\E h \in Heads : LockHead(p, h)) => todo' = todo
  BY DEF Begin, LockHead
<1>11. Rewire(p) => todo' = todo
  BY <1>1, <1>4, Zenon DEF Rewire
<1>14. FindBatch(p) => todo' = todo
  BY <1>1 DEF FindBatch
<1>12. Commit(p) => todo' = todo
  BY <1>2 DEF Commit, Committed
<1>13. Announce(p) \/ WriteConflict(p) \/ Deadlock(p) \/ Fail(p) => todo' = todo
  BY <1>1, Zenon DEF Announce, WriteConflict, Deadlock, Fail
<1> QED
  BY <1>5, <1>6, <1>7, <1>8, <1>9, <1>10, <1>11, <1>12, <1>13,
     <1>14 DEF Step, Query

\* Each call stays one process's.
LEMMA SingleStays ==
  ASSUME TypeOK, Single, NEW p \in Procs, Step(p) \/ Fail(p) \/ \E r \in Requests : Call(p, r)
  PROVE  Single'
<1>0. req \in [Procs -> Requests \cup {Nothing}] /\ todo \subseteq Requests /\ Nothing \notin todo
  BY Apart DEF TypeOK
<1>1. CASE \E r \in Requests : Call(p, r)
  <2>1. PICK r \in Requests : r \in todo /\ todo' = todo \ {r} /\ req' = [req EXCEPT ![p] = r]
    BY <1>1 DEF Call
  <2>2. \A q \in Procs : req[q] # r
    BY <2>1 DEF Single
  <2> QED
    BY <1>0, <2>1, <2>2 DEF Single
<1>2. CASE Step(p) \/ Fail(p)
  <2>1. todo' = todo
    BY <1>2, TodoStays
  <2>2. req' = req \/ req' = [req EXCEPT ![p] = Nothing] \/ \E r \in Requests : Call(p, r)
    <3>1. Ends(p) => req' = req \/ req' = [req EXCEPT ![p] = Nothing]
      BY DEF Ends
    <3>2. Begin(p) \/ Looks(p) \/ Puts(p) \/ Committed(p) => req' = req
      BY DEF Begin, Looks, Puts, Reads, WritesOn, Committed
    <3>3. Relinks(p) /\ ~Ends(p) => req' = req
      <4>1. ~Ends(p) => ~End(p, "made") /\ ~End(p, "failed")
        BY EndsWith DEF Outcomes
      <4>2. FindBatch(p) /\ ~Ends(p) => req' = req
        BY <4>1, Zenon DEF FindBatch
      <4>3. Rewire(p) /\ ~Ends(p) => req' = req
        BY <4>1, Zenon DEF Rewire, WritesOn
      <4>4. (\E h \in Heads : LockHead(p, h)) => req' = req
        BY DEF LockHead
      <4> QED
        BY <4>2, <4>3, <4>4 DEF Relinks
    <3> QED
      BY <1>2, <3>1, <3>2, <3>3, StepKinds
  <2> QED
    BY <1>0, <1>1, <2>1, <2>2 DEF Single
<1> QED
  BY <1>1, <1>2

\* What p knows is of its own.
LEMMA RKnowsOwn ==
  ASSUME NEW q \in Procs, Untouched(q), batch'[q] = batch[q], RKnows(q)
  PROVE  RKnows(q)'
<1>1. /\ Ask(q)' = Ask(q) /\ InTransaction(q)' = InTransaction(q) /\ MakesIt(q)' = MakesIt(q)
      /\ \A v : Says(q, v)' = Says(q, v)
  BY DEF Untouched, Ask, InTransaction, MakesInline, MakesIt, Says
<1>2. RCreating(q)' = RCreating(q)
  BY <1>1 DEF Untouched, RCreating
<1>3. RUpdating(q)' = RUpdating(q)
  BY <1>1 DEF Untouched, RUpdating
<1>4. RFlagging(q)' = RFlagging(q)
  BY <1>1 DEF Untouched, RFlagging
<1>5. RRelinking(q)' = RRelinking(q)
  BY DEF Untouched, RRelinking, Rewired
<1> QED
  BY <1>1, <1>2, <1>3, <1>4, <1>5 DEF Untouched, RKnows

\* The database, and what others have written, is as it was.
LEMMA RSeesStays ==
  ASSUME NEW q \in Procs, RSees(q), db' = db, changed'[q] = changed[q], edged'[q] = edged[q],
         view'[q] = view[q], req'[q] = req[q], InTransaction(q)' => InTransaction(q)
  PROVE  RSees(q)'
  BY DEF RSees, Present, Unwritten, Unrelinked, Ask

\* A step of p that commits nothing, and does not write where another has.
LEMMA RStepKeeps ==
  ASSUME TypeOK, RInv, NEW p \in Procs, db' = db, RSees(p)', Locked(p)', RKnows(p)',
         \A q \in Procs \ {p} : /\ Untouched(q) /\ batch'[q] = batch[q]
                                /\ changed'[q] = changed[q] /\ edged'[q] = edged[q],
         \A q \in Procs \ {p} : sets[q] \cap (sets'[p] \cup links'[p]) = {}
  PROVE  Blank' /\ \A q \in Procs : RSees(q)' /\ Locked(q)' /\ RKnows(q)'
<1>1. ASSUME NEW q \in Procs \ {p}
      PROVE  RSees(q)' /\ Locked(q)' /\ RKnows(q)'
  <2>0. RSees(q) /\ Locked(q) /\ RKnows(q) /\ Untouched(q)
    BY DEF RInv
  <2>1. InTransaction(q)' = InTransaction(q)
    BY <2>0 DEF InTransaction, Untouched
  <2>2. RSees(q)'
    BY <2>0, <2>1, RSeesStays DEF Untouched
  <2>3. RKnows(q)'
    BY <2>0, RKnowsOwn
  <2>4. \A o \in Procs \ {q} : sets'[q] \cap (sets'[o] \cup links'[o]) = {}
    <3> TAKE o \in Procs \ {q}
    <3>1. CASE o = p
      BY <2>0, <3>1 DEF Untouched
    <3>2. CASE o # p
      BY <2>0, <3>2 DEF Locked, Untouched
    <3> QED
      BY <3>1, <3>2
  <2>5. Locked(q)'
    BY <2>0, <2>1, <2>4 DEF Locked, Untouched
  <2> QED
    BY <2>2, <2>3, <2>5
<1>2. Blank'
  BY DEF RInv, Blank
<1> QED
  BY <1>1, <1>2

RRest == Blank /\ \A p \in Procs : RSees(p) /\ Locked(p) /\ RKnows(p)

LEMMA REndsKeep ==
  ASSUME TypeOK, RInv, NEW p \in Procs, Ends(p)
  PROVE  RRest'
<1>1. /\ sets'[p] = {} /\ links'[p] = {} /\ said'[p] = Unsaid /\ db' = db
      /\ pc'[p] \in {"idle", "begin"}
  BY DEF Ends, Closed, TypeOK
<1>2. ~InTransaction(p)'
  BY <1>1 DEF InTransaction
<1>3. RSees(p)' /\ RKnows(p)' /\ Locked(p)'
  BY <1>1, <1>2 DEF RSees, RKnows, Locked
<1>4. \A q \in Procs \ {p} : /\ Untouched(q) /\ batch'[q] = batch[q]
                             /\ changed'[q] = changed[q] /\ edged'[q] = edged[q]
  BY EndsAlone, OthersKeepBatch
<1> QED
  BY <1>1, <1>3, <1>4, RStepKeeps DEF RRest

LEMMA RCallKeeps ==
  ASSUME TypeOK, RInv, NEW p \in Procs, NEW r \in Requests, Call(p, r)
  PROVE  RRest'
<1>1. /\ sets' = sets /\ links' = links /\ said' = said /\ pc'[p] = "begin" /\ db' = db
      /\ pc[p] = "idle" /\ changed' = changed /\ edged' = edged
  BY DEF Call, Goto, TypeOK, txVars
<1>2. ~InTransaction(p)' /\ ~InTransaction(p)
  BY <1>1 DEF InTransaction
<1>3. Locked(p) /\ RKnows(p)
  BY DEF RInv
<1>4. RSees(p)' /\ RKnows(p)' /\ Locked(p)'
  BY <1>1, <1>2, <1>3 DEF RSees, RKnows, Locked
<1>5. \A q \in Procs \ {p} : Untouched(q) /\ batch'[q] = batch[q]
  BY DEF Call, Goto, TypeOK, txVars, Untouched
<1>6. sets[p] = {} /\ links[p] = {}
  BY <1>2, <1>3 DEF Locked
<1> QED
  BY <1>1, <1>4, <1>5, <1>6, RStepKeeps DEF RRest

LEMMA RBeginKeeps ==
  ASSUME Snapshot, TypeOK, RInv, NEW p \in Procs, Begin(p)
  PROVE  RRest'
<1>1. /\ sets' = sets /\ links' = links /\ said' = said /\ req' = req /\ db' = db
      /\ changed' = changed /\ edged' = edged
      /\ pc[p] = "begin" /\ pc'[p] = FirstQuery(Ask(p).op) /\ view'[p] = db
  BY DEF Begin, Goto, TypeOK
<1>2. Ask(p)' = Ask(p) /\ Ask(p).op \in Ops
  BY <1>1, AskFields DEF Ask
<1>3. said'[p] = Unsaid /\ Locked(p) /\ Blank
  BY <1>1 DEF RInv, RKnows
<1>4. RSees(p)'
  BY <1>1, <1>3 DEF RSees, Present, Unwritten, Unrelinked, Blank
<1>5. RKnows(p)'
  BY <1>1, <1>2, <1>3
     DEF FirstQuery, RKnows, RCreating, RUpdating, RFlagging, RRelinking, Ops
<1>6. ~InTransaction(p)
  BY <1>1 DEF InTransaction
<1>7. sets[p] = {} /\ links[p] = {}
  BY <1>3, <1>6 DEF Locked
<1>8. Locked(p)'
  BY <1>1, <1>7 DEF Locked
<1>9. \A q \in Procs \ {p} : Untouched(q) /\ batch'[q] = batch[q]
  BY DEF Begin, Goto, TypeOK, Untouched
<1> QED
  BY <1>1, <1>4, <1>5, <1>7, <1>8, <1>9, RStepKeeps DEF RRest

LEMMA RLooksKeep ==
  ASSUME TypeOK, RInv, NEW p \in Procs, Looks(p), RKnows(p)'
  PROVE  RRest'
<1>1. /\ sets' = sets /\ links' = links /\ db' = db /\ req' = req /\ view' = view
      /\ changed' = changed /\ edged' = edged
      /\ pc[p] \in Inside /\ pc'[p] \in Inside
  BY DEF Looks, Reads, Goto, TypeOK
<1>2. InTransaction(p)' /\ InTransaction(p)
  BY <1>1 DEF InTransaction, Inside
<1>3. RSees(p) /\ Locked(p)
  BY DEF RInv
<1>4. RSees(p)'
  BY <1>1, <1>2, <1>3, RSeesStays
<1>5. Locked(p)'
  BY <1>1, <1>2, <1>3 DEF Locked
<1>6. \A q \in Procs \ {p} : Untouched(q) /\ batch'[q] = batch[q]
  BY DEF Looks, Reads, Goto, OthersSay, Untouched, TypeOK
<1>7. \A q \in Procs \ {p} : sets[q] \cap (sets[p] \cup links[p]) = {}
  BY DEF Locked, RInv
<1> QED
  BY <1>1, <1>4, <1>5, <1>6, <1>7, RStepKeeps DEF RRest

\* A query that writes: what others have written since is not written to.
LEMMA RWritesKeep ==
  ASSUME Snapshot, TypeOK, RInv, NEW p \in Procs, NEW place, WritesOn(p, place), InTransaction(p),
         place \notin {"idle", "begin", "announce"}, RKnows(p)', OthersSay(p)
  PROVE  RRest'
<1>1. /\ db' = db /\ req' = req /\ view' = view /\ changed' = changed /\ edged' = edged
      /\ batch' = batch /\ pc'[p] = place /\ Writes(p, SetsNext(p))
  BY DEF WritesOn, Goto, TypeOK
<1>2. InTransaction(p)'
  BY <1>1 DEF InTransaction
<1>3. RSees(p) /\ Locked(p)
  BY DEF RInv
<1>4. RSees(p)'
  BY <1>1, <1>3, RSeesStays
<1>5. /\ sets'[p] = sets[p] \cup SetsNext(p)
      /\ links'[p] = links[p] \cup LinksNext(p)
  BY <1>1 DEF Writes, TypeOK
<1>6. /\ SetsNext(p) \cap (changed[p] \cup edged[p]) = {}
      /\ LinksNext(p) \cap changed[p] = {}
  BY <1>1 DEF Writes, Outdated
<1>7. \A q \in Procs \ {p} : /\ SetsNext(p) \cap (sets[q] \cup links[q]) = {}
                             /\ LinksNext(p) \cap sets[q] = {}
  BY <1>1 DEF Writes, Held
<1>8. \A q \in Procs \ {p} : Untouched(q)
  BY DEF WritesOn, Writes, Goto, OthersSay, Untouched, TypeOK
<1>9. Locked(p)'
  <2>1. sets'[p] \cap (changed'[p] \cup edged'[p]) = {} /\ links'[p] \cap changed'[p] = {}
    BY <1>1, <1>3, <1>5, <1>6 DEF Locked
  <2>2. \A q \in Procs \ {p} : sets'[p] \cap (sets'[q] \cup links'[q]) = {}
    BY <1>3, <1>5, <1>7, <1>8 DEF Locked, Untouched
  <2> QED
    BY <2>1, <2>2, <1>2 DEF Locked
<1>10. \A q \in Procs \ {p} : sets[q] \cap (sets'[p] \cup links'[p]) = {}
  <2> TAKE q \in Procs \ {p}
  <2>1. Locked(q)
    BY DEF RInv
  <2> QED
    BY <1>5, <1>7, <2>1 DEF Locked
<1> QED
  BY <1>1, <1>4, <1>8, <1>9, <1>10, RStepKeeps DEF RRest

\* The call that is at a place.
LEMMA RWhoIsAt ==
  ASSUME Snapshot, TypeOK, RInv, NEW p \in Procs, InTransaction(p)
  PROVE  /\ pc[p] # "idle" /\ pc[p] # "begin" /\ Ask(p).op \in Ops /\ Ask(p).head \in Heads
         /\ Sees(p) = view[p] /\ Locked(p)
         /\ Present(p) /\ Unwritten(p) /\ Unrelinked(p)
         /\ \A h \in Heads : view[p].state[h] = "absent" => view[p].refs[h] = {}
         /\ Ask(p).op = "create" => RCreating(p)
         /\ Ask(p).op = "update" => RUpdating(p)
         /\ Ask(p).op \in {"delete", "undelete"} => RFlagging(p)
         /\ Ask(p).op = "relink" => RRelinking(p)
<1>1. RKnows(p) /\ RSees(p) /\ Locked(p)
  BY DEF RInv
<1>2. pc[p] # "idle" /\ pc[p] # "begin"
  BY DEF InTransaction
<1> QED
  BY <1>1, <1>2, AskFields DEF RKnows, RSees, Sees

LEMMA RPutsKeep ==
  ASSUME Snapshot, TypeOK, RInv, NEW p \in Procs, Puts(p), RKnows(p)'
  PROVE  RRest'
<1>1. PICK place \in Inside : WritesOn(p, place)
  BY DEF Puts
<1>2. InTransaction(p) /\ OthersSay(p) /\ place \notin {"idle", "begin", "announce"}
  BY DEF Puts, Inside, InTransaction
<1> QED
  BY <1>1, <1>2, RWritesKeep

\* What a query of a create or an update that only reads adds to what is known.
LEMMA RWriterReads ==
  ASSUME Snapshot, TypeOK, RInv, NEW p \in Procs, ~Ends(p), InTransaction(p),
         ReadHead(p) \/ FindInline(p) \/ CheckRefs(p) \/ CheckFree(p) \/ CheckUrls(p)
  PROVE  RKnows(p)'
<1> DEFINE h == Ask(p).head
<1>0. /\ pc[p] # "idle" /\ h \in Heads /\ said \in [Procs -> [Heads -> Nat]] /\ Sees(p) = view[p]
      /\ pc[p] \in {"read", "inline", "refs", "free", "urls"}
  BY RWhoIsAt DEF TypeOK, ReadHead, FindInline, CheckRefs, CheckFree, CheckUrls
<1>1. CASE ReadHead(p)
  <2>1. /\ Ask(p).op = "update" /\ pc[p] = "read" /\ Reads(p, "inline")
        /\ Sees(p).state[h] = "live" /\ Ask(p).expected \in {0, Sees(p).version[h]}
        /\ said' = [said EXCEPT ![p][h] = Sees(p).version[h] + 1]
    BY <1>1, NoOutcome, Zenon DEF ReadHead
  <2>2. said[p] = Unsaid
    BY <2>1, RWhoIsAt DEF RUpdating
  <2>3. said'[p] = [Unsaid EXCEPT ![h] = view[p].version[h] + 1]
    BY <1>0, <2>1, <2>2
  <2>4. pc'[p] = "inline" /\ Ask(p)' = Ask(p) /\ view'[p] = view[p]
    BY <2>1, ReadsOwn
  <2>5. RUpdating(p)'
    BY <1>0, <2>1, <2>3, <2>4 DEF RUpdating, Says
  <2> QED
    BY <2>1, <2>4, <2>5 DEF RKnows
<1>2. CASE ~ReadHead(p)
  <2>1. /\ said' = said /\ Ask(p).op \in {"create", "update"}
        /\ \/ pc[p] = "inline" /\ Reads(p, "refs")
           \/ pc[p] = "refs" /\ Reads(p, "free")
           \/ pc[p] = "free" /\ Reads(p, IF Ask(p).op = "create" THEN "render" ELSE "replace")
           \/ pc[p] = "urls" /\ Reads(p, "merge")
    <3>1. CASE FindInline(p)
      <4>1. pc[p] = "inline" /\ Reads(p, "refs") /\ said' = said
        BY <3>1, NoOutcome, Zenon DEF FindInline
      <4> QED
        BY <4>1, RWhoIsAt DEF RFlagging, RRelinking, Ops
    <3>2. CASE CheckRefs(p)
      BY <3>2, NoOutcome, Zenon DEF CheckRefs
    <3>3. CASE CheckFree(p)
      <4>1. /\ pc[p] = "free" /\ said' = said
            /\ Reads(p, IF Ask(p).op = "create" THEN "render" ELSE "replace")
        BY <3>3, NoOutcome, Zenon DEF CheckFree
      <4> QED
        BY <4>1, RWhoIsAt DEF RFlagging, RRelinking, Ops
    <3>4. CASE CheckUrls(p)
      <4>1. pc[p] = "urls" /\ Reads(p, "merge") /\ said' = said
        BY <3>4, NoOutcome, Zenon DEF CheckUrls
      <4> QED
        BY <4>1, RWhoIsAt DEF RFlagging, RRelinking, Ops
    <3> QED
      BY <1>2, <3>1, <3>2, <3>3, <3>4
  <2>2. PICK place : /\ Reads(p, place)
                     /\ place \in {"refs", "free", "render", "replace", "merge"}
                     /\ Ask(p).op = "create" => place \in {"refs", "free", "render"}
                     /\ place = "merge" => pc[p] = "urls"
                     /\ Ask(p).op = "update" => place # "render"
    BY <2>1, RWhoIsAt DEF RCreating
  <2>3. /\ pc'[p] = place /\ Ask(p)' = Ask(p) /\ sets'[p] = sets[p] /\ view'[p] = view[p]
    BY <2>2, ReadsOwn
  <2>4. CASE Ask(p).op = "create"
    <3>1. RCreating(p)'
      BY <1>0, <2>1, <2>2, <2>3, <2>4, RWhoIsAt DEF RCreating
    <3> QED
      BY <2>2, <2>3, <2>4, <3>1 DEF RKnows
  <2>5. CASE Ask(p).op = "update"
    <3>1. RUpdating(p) /\ pc[p] # "read"
      BY <2>1, <2>5, RWhoIsAt
    <3>2. RUpdating(p)'
      BY <2>1, <2>2, <2>3, <2>5, <3>1 DEF RUpdating, Says
    <3> QED
      BY <2>2, <2>3, <2>5, <3>2 DEF RKnows
  <2> QED
    BY <2>1, <2>4, <2>5
<1> QED
  BY <1>1, <1>2

\* What one of them that writes adds.
LEMMA RWriterPuts ==
  ASSUME Snapshot, TypeOK, RInv, NEW p \in Procs, ~Ends(p), InTransaction(p),
         Lock(p) \/ Replace(p) \/ MergeUrls(p) \/ Render(p)
  PROVE  RKnows(p)'
<1> DEFINE h == Ask(p).head
<1>0. /\ pc[p] # "idle" /\ h \in Heads /\ said \in [Procs -> [Heads -> Nat]]
      /\ pc[p] \in {"replace", "merge", "render"} /\ Ask(p).op \in {"create", "update"}
      /\ pc[p] # "render" => Ask(p).op = "update"
  BY RWhoIsAt DEF TypeOK, Lock, Replace, MergeUrls, Render, RCreating, RUpdating, RFlagging,
                  RRelinking, Ops
<1>1. CASE Replace(p) \/ MergeUrls(p)
  <2>1. /\ pc[p] \in {"replace", "merge"} /\ said' = said /\ Ask(p).op = "update"
        /\ \E place \in {"render", "urls"} : WritesOn(p, place)
    BY <1>0, <1>1 DEF Replace, MergeUrls
  <2>2. PICK place \in {"render", "urls"} : WritesOn(p, place)
    BY <2>1
  <2>3. /\ pc'[p] = place /\ Ask(p)' = Ask(p) /\ sets'[p] = sets[p] \cup SetsNext(p)
        /\ view'[p] = view[p]
    BY <2>2, PutsOwn
  <2>4. RUpdating(p) /\ pc[p] # "read"
    BY <1>0, <2>1, RWhoIsAt
  <2>5. pc[p] = "replace" => SetsNext(p) = {h}
    BY DEF SetsNext
  <2>6. h \in sets'[p]
    BY <2>1, <2>3, <2>4, <2>5 DEF RUpdating
  <2>7. RUpdating(p)'
    BY <2>1, <2>2, <2>3, <2>4, <2>6 DEF RUpdating, Says
  <2> QED
    BY <2>1, <2>2, <2>3, <2>7 DEF RKnows
<1>2. CASE Render(p)
  <2>1. /\ pc[p] = "render" /\ WritesOn(p, "commit")
        /\ said' = IF Ask(p).op = "create" THEN [said EXCEPT ![p][h] = 1] ELSE said
    BY <1>2, NoOutcome, Zenon DEF Render
  <2>2. /\ pc'[p] = "commit" /\ Ask(p)' = Ask(p) /\ target'[p] = target[p] /\ view'[p] = view[p]
        /\ sets[p] \subseteq sets'[p] /\ makes'[p] = makes[p] \cup MakesNext(p)
    BY <2>1, PutsOwn
  <2>3. MakesNext(p) = (IF Ask(p).op = "create" THEN {h} \cup Ask(p).urls ELSE {})
                       \cup (IF MakesInline(p) THEN {Ask(p).inline, Ask(p).key} ELSE {})
    BY <2>1 DEF MakesNext
  <2>4. MakesIt(p)'
    BY <2>2, <2>3 DEF MakesIt, MakesInline
  <2>5. CASE Ask(p).op = "create"
    <3>1. said[p] = Unsaid
      BY <2>1, <2>5, RWhoIsAt DEF RCreating
    <3>2. said'[p] = [Unsaid EXCEPT ![h] = 1]
      BY <1>0, <2>1, <2>5, <3>1
    <3>3. RCreating(p)'
      BY <2>2, <2>3, <2>4, <2>5, <3>2 DEF RCreating, Says
    <3> QED
      BY <2>2, <2>5, <3>3 DEF RKnows
  <2>6. CASE Ask(p).op = "update"
    <3>1. RUpdating(p) /\ pc[p] # "read"
      BY <2>1, <2>6, RWhoIsAt
    <3>2. RUpdating(p)'
      BY <2>1, <2>2, <2>4, <2>6, <3>1 DEF RUpdating, Says
    <3> QED
      BY <2>2, <2>6, <3>2 DEF RKnows
  <2> QED
    BY <1>0, <2>5, <2>6
<1> QED
  BY <1>0, <1>1, <1>2 DEF Lock

\* The same of a delete or an undelete.
LEMMA RFlaggerReads ==
  ASSUME Snapshot, TypeOK, RInv, NEW p \in Procs, ~Ends(p), InTransaction(p),
         FindNode(p) \/ FindHolders(p)
  PROVE  RKnows(p)'
<1> DEFINE h == Ask(p).head
<1>0. /\ pc[p] # "idle" /\ h \in Heads /\ Sees(p) = view[p]
      /\ view[p].state \in [Heads -> {"absent", "live", "deleted"}]
  BY RWhoIsAt DEF TypeOK, DbType
<1>1. /\ Ask(p).op \in {"delete", "undelete"} /\ said' = said /\ view[p].state[h] # "absent"
      /\ pc[p] \in {"read", "refs"}
      /\ \E place \in {"refs", "delete", "undelete", "mark"} : Reads(p, place)
  <2>1. CASE FindNode(p) /\ Ask(p).op = "delete"
    <3>1. view[p].state[h] = "live" /\ said' = said /\ pc[p] = "read"
      BY <1>0, <2>1, NoOutcome, Zenon DEF FindNode
    <3>2. Reads(p, IF h \in Entities THEN "refs" ELSE "delete")
      BY <2>1, NoOutcome, Zenon DEF FindNode
    <3> QED
      BY <2>1, <3>1, <3>2
  <2>2. CASE FindNode(p) /\ Ask(p).op # "delete"
    <3>1. view[p].state[h] = "deleted"
      BY <1>0, <2>2, NoOutcome DEF FindNode
    <3>2. Ask(p).op = "undelete" /\ Reads(p, "undelete") /\ said' = said /\ pc[p] = "read"
      BY <1>0, <2>2, <3>1 DEF FindNode
    <3> QED
      BY <3>1, <3>2
  <2>3. CASE FindHolders(p)
    <3>1. Ask(p).op = "delete" /\ pc[p] = "refs" /\ said' = said
      BY <2>3 DEF FindHolders
    <3>2. \E place \in {"delete", "mark"} : Reads(p, place)
      BY <2>3 DEF FindHolders
    <3>3. view[p].state[h] # "absent"
      BY <3>1, RWhoIsAt DEF RFlagging
    <3> QED
      BY <3>1, <3>2, <3>3
  <2> QED
    BY <2>1, <2>2, <2>3
<1>2. PICK place \in {"refs", "delete", "undelete", "mark"} : Reads(p, place)
  BY <1>1
<1>3. pc'[p] = place /\ Ask(p)' = Ask(p) /\ view'[p] = view[p]
  BY <1>2, ReadsOwn
<1>4. said[p] = Unsaid
  BY <1>1, RWhoIsAt DEF RFlagging
<1>5. RFlagging(p)'
  BY <1>1, <1>2, <1>3, <1>4 DEF RFlagging
<1> QED
  BY <1>1, <1>2, <1>3, <1>5 DEF RKnows

LEMMA RFlaggerPuts ==
  ASSUME Snapshot, TypeOK, RInv, NEW p \in Procs, InTransaction(p), Mark(p) \/ Flag(p)
  PROVE  RKnows(p)'
<1> DEFINE h == Ask(p).head
<1>0. /\ h \in Heads /\ said \in [Procs -> [Heads -> Nat]] /\ Sees(p) = view[p]
      /\ pc[p] \in {"mark", "delete", "undelete"}
  BY RWhoIsAt DEF TypeOK, Mark, Flag
<1>1. /\ Ask(p).op \in {"delete", "undelete"} /\ said[p] = Unsaid /\ view[p].state[h] # "absent"
  BY <1>0, RWhoIsAt DEF RCreating, RUpdating, RFlagging, RRelinking, Ops
<1>2. WritesOn(p, "commit") /\ (said' = said \/ said' = [said EXCEPT ![p][h] = view[p].version[h]])
  BY <1>0 DEF Mark, Flag
<1>3. /\ pc'[p] = "commit" /\ Ask(p)' = Ask(p) /\ sets'[p] = sets[p] \cup SetsNext(p)
      /\ view'[p] = view[p]
  BY <1>2, PutsOwn
<1>4. SetsNext(p) = {h}
  BY <1>0 DEF SetsNext
<1>5. said'[p] = Unsaid \/ said'[p] = [Unsaid EXCEPT ![h] = view[p].version[h]]
  BY <1>0, <1>1, <1>2
<1>6. RFlagging(p)'
  BY <1>1, <1>3, <1>4, <1>5 DEF RFlagging, Says
<1> QED
  BY <1>1, <1>3, <1>6 DEF RKnows

\* A relink writes to the edges of each head of its batch, which nobody can have changed.
LEMMA RRelinkerKeeps ==
  ASSUME Snapshot, TypeOK, Routes, RInv, NEW p \in Procs, ~Ends(p), Relinks(p)
  PROVE  RRest'
<1>0. /\ InTransaction(p) /\ Ask(p).op = "relink" /\ Sees(p) = view[p]
      /\ pc[p] # "idle" /\ Ask(p).head \in Entities
      /\ batch \in [Procs -> SUBSET Heads] /\ left \in [Procs -> SUBSET Heads]
      /\ sets \in [Procs -> SUBSET Heads] /\ links \in [Procs -> SUBSET Heads]
      /\ said \in [Procs -> [Heads -> Nat]]
  <2>1. InTransaction(p) /\ Ask(p).op = "relink" /\ pc[p] # "idle"
    BY DEF Relinks, InTransaction, Routes
  <2> QED
    BY <2>1, RWhoIsAt, RelinkTo DEF TypeOK
<1>1. RRelinking(p) /\ said[p] = Unsaid /\ RSees(p) /\ Locked(p)
  <2>1. RRelinking(p) /\ RSees(p) /\ Locked(p)
    BY <1>0, RWhoIsAt DEF RInv
  <2> QED
    BY <2>1 DEF RRelinking, Relinks
<1>2. CASE FindBatch(p)
  <2>0. ~End(p, "made")
    BY EndsWith DEF Outcomes
  <2>1. /\ pc[p] = "find"
        /\ \E S \in SUBSET {h \in Heads : Ask(p).head \in view[p].refs[h]} :
             /\ batch' = [batch EXCEPT ![p] = S]
             /\ Goto(p, "rewire")
             /\ UNCHANGED <<db, req, view, changed, edged, sets, links, makes, target, said>>
    BY <1>0, <1>2, <2>0 DEF FindBatch
  <2>2. PICK S \in SUBSET {h \in Heads : Ask(p).head \in view[p].refs[h]} :
          /\ batch' = [batch EXCEPT ![p] = S]
          /\ Goto(p, "rewire")
          /\ UNCHANGED <<db, req, view, changed, edged, sets, links, makes, target, said>>
    BY <2>1
  <2>3. /\ batch'[p] = S /\ pc'[p] = "rewire" /\ Ask(p)' = Ask(p)
    BY <1>0, <2>2 DEF Goto, TypeOK, Ask
  <2>4. \A h \in S : view[p].state[h] # "absent"
    BY <1>0, RWhoIsAt
  <2>5. RRelinking(p)'
    BY <1>1, <2>2, <2>3, <2>4 DEF RRelinking
  <2>6. RKnows(p)'
    BY <1>0, <2>3, <2>5 DEF RKnows
  <2>7. \A q \in Procs \ {p} : Untouched(q) /\ batch'[q] = batch[q]
    BY <1>0, <2>2 DEF Goto, Untouched, TypeOK
  <2>8. RSees(p)'
    BY <1>0, <1>1, <2>2, RSeesStays
  <2>9. Locked(p)'
    BY <1>0, <1>1, <2>2, <2>3 DEF Locked, InTransaction
  <2>10. \A q \in Procs \ {p} : sets[q] \cap (sets[p] \cup links[p]) = {}
    BY DEF RInv, Locked
  <2> QED
    BY <2>2, <2>6, <2>7, <2>8, <2>9, <2>10, RStepKeeps DEF RRest
<1>3. CASE Rewire(p)
  <2>0. ~End(p, "failed")
    BY EndsWith DEF Outcomes
  <2>1. /\ pc[p] = "rewire" /\ WritesOn(p, "commit")
        /\ said' = [said EXCEPT ![p] = Rewired(p)]
    BY <1>0, <1>3, <2>0 DEF Rewire, Rewired
  <2>2. batch[p] \subseteq LinksNext(p)
    BY <2>1 DEF LinksNext
  <2>3. /\ links'[p] = links[p] \cup LinksNext(p) /\ pc'[p] = "commit" /\ Ask(p)' = Ask(p)
        /\ batch' = batch /\ view' = view
    BY <1>0, <2>1, PutsOwn DEF WritesOn
  <2>4. said'[p] = Rewired(p)'
    BY <1>0, <2>1, <2>3 DEF Rewired
  <2>5. RRelinking(p)'
    BY <1>1, <2>1, <2>2, <2>3, <2>4 DEF RRelinking
  <2>6. RKnows(p)'
    BY <1>0, <2>3, <2>5 DEF RKnows
  <2>7. OthersSay(p)
    BY <1>0, <2>1 DEF WritesOn, OthersSay
  <2> QED
    BY <1>0, <2>1, <2>6, <2>7, RWritesKeep
<1>4. ASSUME NEW h \in Heads, LockHead(p, h)
      PROVE  FALSE
  BY <1>1, <1>4 DEF LockHead, RRelinking
<1> QED
  BY <1>2, <1>3, <1>4 DEF Relinks

\* A commit changes what has been written to and what is made, and no other; the edges that a
\* relink makes change the versions of the heads they are of.
LEMMA RCommitChanges ==
  ASSUME Snapshot, TypeOK, RInv, NEW p \in Procs, pc[p] = "commit", db' = Result(db, p),
         \A n \in makes[p] : ~Exists(db, n), NEW g \in Heads
  PROVE  /\ db.state[g] # "absent" /\ g \notin sets[p] \cup links[p] =>
              db'.state[g] = db.state[g] /\ db'.version[g] = db.version[g]
         /\ db.state[g] # "absent" /\ g \notin sets[p] /\ Ask(p).op # "relink" =>
              db'.version[g] = db.version[g]
         /\ db.state[g] # "absent" => db'.state[g] # "absent"
         /\ db'.state[g] = "absent" => db'.version[g] = 0 /\ db'.refs[g] = {}
<1> DEFINE h == Ask(p).head
<1>0. /\ InTransaction(p) /\ pc[p] # "idle" /\ h \in Heads /\ Ask(p).op \in Ops
      /\ db \in DbType /\ Present(p)
      /\ db.state[g] = "absent" => db.version[g] = 0 /\ db.refs[g] = {}
  <2>1. InTransaction(p)
    BY DEF InTransaction
  <2> QED
    BY <2>1, RWhoIsAt DEF TypeOK, RInv, Blank
<1>1. CASE Ask(p).op \in {"create", "update"}
  <2>1. WroteAll(db', db, p)
    BY <1>0, <1>1, WriteResult
  <2>2. /\ MakesIt(p)
        /\ Ask(p).op = "create" => h \in makes[p]
        /\ Ask(p).op = "update" => h \in sets[p]
    BY <1>0, <1>1, RWhoIsAt DEF RCreating, RUpdating
  <2>3. /\ db'.state[g] = IF g \in WrittenBy(p) THEN "live" ELSE db.state[g]
        /\ g \notin WrittenBy(p) => db'.refs[g] = db.refs[g]
        /\ g \notin WrittenBy(p) => db'.version[g] = db.version[g]
    <3>1. db.version[g] \in Nat
      BY <1>0 DEF DbType
    <3> QED
      BY <2>1, <3>1 DEF WroteAll, WrittenBy
  <2>4. g \in WrittenBy(p) => g = h \/ g \in makes[p]
    BY <2>2 DEF WrittenBy, MakesIt
  <2>5. g \in makes[p] => db.state[g] = "absent"
    BY DEF Exists
  <2> QED
    BY <1>0, <1>1, <2>2, <2>3, <2>4, <2>5
<1>2. CASE Ask(p).op \in {"delete", "undelete"}
  <2>1. /\ db'.version = db.version /\ db'.refs = db.refs
        /\ \/ db'.state = db.state
           \/ db'.state = [db.state EXCEPT ![h] = "deleted"]
           \/ db'.state = [db.state EXCEPT ![h] = "live"]
    BY <1>0, <1>2, FlagResult
  <2>2. h \in sets[p]
    BY <1>0, <1>2, RWhoIsAt DEF RFlagging
  <2>3. db'.state[g] = db.state[g] \/ (g = h /\ db'.state[g] # "absent")
    <3>1. db.state \in [Heads -> {"absent", "live", "deleted"}]
      BY <1>0 DEF DbType
    <3> QED
      BY <1>0, <2>1, <3>1
  <2>4. db'.version[g] = db.version[g] /\ db'.refs[g] = db.refs[g]
    BY <2>1
  <2> QED
    BY <1>0, <2>2, <2>3, <2>4
<1>3. CASE Ask(p).op = "relink"
  <2>1. /\ db'.state = db.state
        /\ db'.version[g] = db.version[g] + (IF g \in batch[p] THEN 1 ELSE 0)
        /\ g \notin batch[p] => db'.refs[g] = db.refs[g]
    BY <1>0, <1>3, RelinkResult
  <2>2. batch[p] \subseteq links[p] /\ \A b \in batch[p] : view[p].state[b] # "absent"
    BY <1>0, <1>3, RWhoIsAt DEF RRelinking
  <2>3. g \in batch[p] => db.state[g] # "absent"
    BY <1>0, <2>2 DEF Present
  <2>4. db.version[g] \in Nat
    BY <1>0 DEF DbType
  <2> QED
    BY <1>0, <1>3, <2>1, <2>2, <2>3, <2>4
<1> QED
  BY <1>0, <1>1, <1>2, <1>3 DEF Ops

LEMMA RCommitKeeps ==
  ASSUME Snapshot, TypeOK, RInv, NEW p \in Procs, pc[p] = "commit", Committed(p),
         \A n \in makes[p] : ~Exists(db, n)
  PROVE  RRest'
<1>1. /\ db' = Result(db, p) /\ sets'[p] = {} /\ links'[p] = {} /\ pc'[p] = "announce"
      /\ req' = req
  BY DEF Committed, Goto, TypeOK
<1>2. \A q \in Procs \ {p} : Untouched(q) /\ batch'[q] = batch[q]
  BY DEF Committed, Goto, Untouched, TypeOK
<1>3. \A g \in Heads :
        /\ db.state[g] # "absent" /\ g \notin sets[p] \cup links[p] =>
             db'.state[g] = db.state[g] /\ db'.version[g] = db.version[g]
        /\ db.state[g] # "absent" /\ g \notin sets[p] /\ Ask(p).op # "relink" =>
             db'.version[g] = db.version[g]
        /\ db.state[g] # "absent" => db'.state[g] # "absent"
        /\ db'.state[g] = "absent" => db'.version[g] = 0 /\ db'.refs[g] = {}
  BY <1>1, RCommitChanges
<1>4. ASSUME NEW q \in Procs \ {p}
      PROVE  RSees(q)' /\ Locked(q)' /\ RKnows(q)'
  <2>1. RKnows(q) /\ RSees(q) /\ Locked(q) /\ Locked(p) /\ Untouched(q)
    BY <1>2 DEF RInv
  <2>2. RKnows(q)'
    BY <1>2, <2>1, RKnowsOwn
  <2>3. /\ InTransaction(q)' = InTransaction(q) /\ Ask(q)' = Ask(q) /\ view'[q] = view[q]
        /\ sets'[q] = sets[q] /\ links'[q] = links[q]
    BY <2>1 DEF Untouched, InTransaction, Ask
  <2>4. InTransaction(q) =>
          changed'[q] = changed[q] \cup sets[p] /\ edged'[q] = edged[q] \cup links[p]
    BY DEF Committed, Told
  <2>5. ASSUME InTransaction(q)
        PROVE  RSees(q)'
    <3>1. Present(q) /\ Unwritten(q) /\ Unrelinked(q)
      BY <2>1, <2>5 DEF RSees
    <3>2. Present(q)'
      BY <1>3, <2>3, <3>1 DEF Present
    <3>3. Unwritten(q)'
      BY <1>3, <2>3, <2>4, <2>5, <3>1 DEF Present, Unwritten
    <3>4. SoleRelink /\ Ask(q).op = "relink" => Ask(p).op # "relink"
      <4>1. pc[p] # "idle" /\ pc[q] # "idle"
        BY <2>5 DEF InTransaction
      <4>2. /\ req[p] \in Requests /\ req[q] \in Requests /\ Nothing \notin Requests
            /\ req[p] # req[q]
        BY <4>1, AskTyped, Apart DEF RInv, Single
      <4> QED
        BY <4>2 DEF SoleRelink, Ask
    <3>5. Unrelinked(q)'
      <4>1. SUFFICES ASSUME SoleRelink, Ask(q).op = "relink", NEW h \in Heads,
                            h \notin changed'[q], view[q].state[h] # "absent"
                     PROVE  db'.version[h] = view[q].version[h]
        BY <2>3 DEF Unrelinked
      <4>2. db.version[h] = view[q].version[h] /\ db.state[h] # "absent" /\ h \notin sets[p]
        BY <2>4, <2>5, <3>1, <4>1 DEF Unrelinked, Present
      <4> QED
        BY <1>3, <3>4, <4>1, <4>2
    <3> QED
      BY <2>1, <2>3, <2>5, <3>2, <3>3, <3>5 DEF RSees
  <2>6. RSees(q)'
    BY <2>3, <2>5 DEF RSees
  <2>7. Locked(q)'
    <3>1. CASE InTransaction(q)
      <4>1. sets[q] \cap (sets[p] \cup links[p]) = {} /\ links[q] \cap sets[p] = {}
        BY <2>1 DEF Locked
      <4>2. /\ sets[q] \cap (changed'[q] \cup edged'[q]) = {} /\ links[q] \cap changed'[q] = {}
        BY <2>1, <2>4, <3>1, <4>1 DEF Locked
      <4>3. \A o \in Procs \ {q} : sets[q] \cap (sets'[o] \cup links'[o]) = {}
        <5> TAKE o \in Procs \ {q}
        <5>1. CASE o = p
          BY <1>1, <5>1
        <5>2. CASE o # p
          BY <1>2, <2>1, <5>2 DEF Locked, Untouched
        <5> QED
          BY <5>1, <5>2
      <4> QED
        BY <2>3, <3>1, <4>2, <4>3 DEF Locked
    <3>2. CASE ~InTransaction(q)
      BY <2>1, <2>3, <3>2 DEF Locked
    <3> QED
      BY <3>1, <3>2
  <2> QED
    BY <2>2, <2>6, <2>7
<1>5. ~InTransaction(p)' /\ pc'[p] \notin {"idle", "begin"}
  BY <1>1 DEF InTransaction
<1>6. RSees(p)' /\ Locked(p)' /\ RKnows(p)'
  BY <1>1, <1>5 DEF RSees, Locked, RKnows
<1>7. Blank'
  BY <1>3 DEF Blank
<1> QED
  BY <1>4, <1>6, <1>7 DEF RRest

LEMMA RStepInv ==
  ASSUME Snapshot, TypeOK, Routes, RInv, NEW p \in Procs,
         Step(p) \/ Fail(p) \/ \E r \in Requests : Call(p, r)
  PROVE  RInv'
<1>0. Single'
  BY SingleStays DEF RInv
<1>1. CASE \E r \in Requests : Call(p, r)
  BY <1>0, <1>1, RCallKeeps DEF RInv, RRest
<1>2. CASE Begin(p)
  BY <1>0, <1>2, RBeginKeeps DEF RInv, RRest
<1>3. CASE Ends(p)
  BY <1>0, <1>3, REndsKeep DEF RInv, RRest
<1>4. CASE Relinks(p) /\ ~Ends(p)
  BY <1>0, <1>4, RRelinkerKeeps DEF RInv, RRest
<1>5. CASE pc[p] = "commit" /\ (\A n \in makes[p] : ~Exists(db, n)) /\ Committed(p)
  BY <1>0, <1>5, RCommitKeeps DEF RInv, RRest
<1>6. CASE (Looks(p) \/ Puts(p)) /\ ~Ends(p)
  <2>1. pc[p] \in Inside /\ pc'[p] \in Inside /\ InTransaction(p)
    BY <1>6 DEF Looks, Puts, Reads, WritesOn, Goto, TypeOK, InTransaction, Inside
  <2>2. ~Fail(p) /\ ~WriteConflict(p) /\ ~Deadlock(p)
    BY <1>6, EndsWith DEF Fail, WriteConflict, Deadlock, Outcomes
  <2>3. ~Announce(p) /\ ~Begin(p) /\ \A r \in Requests : ~Call(p, r)
    BY <2>1 DEF Announce, Inside, Begin, Call
  <2>4. ~Commit(p)
    <3>1. ~Committed(p) /\ ~TryAgain(p)
      BY <1>6, <2>1, EndsWith DEF Committed, Goto, TypeOK, Inside
    <3> QED
      BY <3>1 DEF Commit
  <2>5. ~FindBatch(p) /\ ~Rewire(p) /\ \A h \in Heads : ~LockHead(p, h)
    BY <2>1 DEF FindBatch, Rewire, LockHead, Inside
  <2>6. ReadHead(p) \/ FindInline(p) \/ CheckRefs(p) \/ CheckFree(p) \/ CheckUrls(p) => RKnows(p)'
    BY <1>6, <2>1, RWriterReads
  <2>7. Lock(p) \/ Replace(p) \/ MergeUrls(p) \/ Render(p) => RKnows(p)'
    BY <1>6, <2>1, RWriterPuts
  <2>8. FindNode(p) \/ FindHolders(p) => RKnows(p)'
    BY <1>6, <2>1, RFlaggerReads
  <2>9. Mark(p) \/ Flag(p) => RKnows(p)'
    BY <1>6, <2>1, RFlaggerPuts
  <2>10. RKnows(p)'
    BY <2>2, <2>3, <2>4, <2>5, <2>6, <2>7, <2>8, <2>9 DEF Step, Query
  <2> QED
    BY <1>0, <1>6, <2>10, RLooksKeep, RPutsKeep DEF RInv, RRest
<1> QED
  BY <1>1, <1>2, <1>3, <1>4, <1>5, <1>6, StepKinds

LEMMA RInitInv ==
  ASSUME Init
  PROVE  RInv
<1>1. /\ db.state = [h \in Heads |-> IF h \in Existing THEN "live" ELSE "absent"]
      /\ db.version = [h \in Heads |-> IF h \in Existing THEN 1 ELSE 0]
      /\ db.refs = InitialRefs
  BY DEF Init, EmptyDb
<1>2. \A h \in Heads \ Existing : InitialRefs[h] = {}
  BY HeadWritesAssumption DEF HeadWritesAssumption
<1>3. Blank
  BY <1>1, <1>2 DEF Blank
<1>4. \A p \in Procs : RSees(p) /\ Locked(p) /\ RKnows(p)
  BY DEF Init, RSees, Locked, RKnows, InTransaction
<1>5. Single
  BY Apart DEF Init, Single
<1> QED
  BY <1>3, <1>4, <1>5 DEF RInv

\* The inductive invariant on Memgraph, whatever is relinked: what a transaction has read of
\* the heads that it has written to, and nobody else has, is so.
THEOREM ViewsHold == ASSUME Snapshot PROVE Spec => [](TypeOK /\ Routes /\ RInv)
<1>1. Init => TypeOK /\ Routes /\ RInv
  BY InitTyped, RInitInv
<1>2. TypeOK /\ Routes /\ RInv /\ [Next]_vars => (TypeOK /\ Routes /\ RInv)'
  <2>1. SUFFICES ASSUME TypeOK, Routes, RInv, [Next]_vars
                 PROVE  RInv'
    BY NextTyped, NextRoutes
  <2>2. CASE UNCHANGED vars
    <3>1. /\ db' = db /\ req' = req /\ todo' = todo
          /\ \A p \in Procs : /\ Untouched(p) /\ batch'[p] = batch[p]
                              /\ changed'[p] = changed[p] /\ edged'[p] = edged[p]
      BY <2>2 DEF vars, txVars, Untouched
    <3>2. \A p \in Procs : RKnows(p)'
      BY <2>1, <3>1, RKnowsOwn DEF RInv
    <3>3. \A p \in Procs : InTransaction(p)' = InTransaction(p)
      BY <3>1 DEF Untouched, InTransaction
    <3>4. \A p \in Procs : RSees(p)'
      BY <2>1, <3>1, <3>3, RSeesStays DEF RInv, Untouched
    <3>5. \A p \in Procs : Locked(p)'
      BY <2>1, <3>1, <3>3 DEF RInv, Locked, Untouched
    <3>6. Single' /\ Blank'
      BY <2>1, <3>1 DEF RInv, Single, Blank
    <3> QED
      BY <3>2, <3>4, <3>5, <3>6 DEF RInv
  <2>3. CASE Next
    BY <2>1, <2>3, RStepInv DEF Next
  <2> QED
    BY <2>1, <2>2, <2>3
<1> QED
  BY <1>1, <1>2, PTL DEF Spec

\* On Memgraph an update that says which version it was made from replaces that version
\* and no other, whatever is relinked at the same moment.
THEOREM NoLostEdits == ASSUME Snapshot PROVE Spec => EditsAreNotLost
<1>1. ASSUME TypeOK, Routes, RInv, [Next]_vars, NEW p \in Procs, Commits(p),
             Ask(p).op = "update", Ask(p).expected # 0
      PROVE  db.state[Ask(p).head] = "live" /\ db.version[Ask(p).head] = Ask(p).expected
  <2>1. pc[p] = "commit" /\ InTransaction(p)
    BY <1>1, CommitStep
  <2>2. RUpdating(p) /\ Locked(p) /\ Unwritten(p) /\ Ask(p).head \in Heads
    BY <1>1, <2>1, RWhoIsAt
  <2>3. Ask(p).head \in sets[p] /\ Ask(p).head \notin changed[p] \cup edged[p]
    BY <2>1, <2>2 DEF RUpdating, Locked
  <2> QED
    BY <1>1, <2>1, <2>2, <2>3 DEF RUpdating, Unwritten
<1>2. TypeOK /\ Routes /\ RInv /\ [Next]_vars =>
        [\A p \in Procs : Commits(p) /\ Ask(p).op = "update" /\ Ask(p).expected # 0 =>
           db.state[Ask(p).head] = "live" /\ db.version[Ask(p).head] = Ask(p).expected]_vars
  BY <1>1
<1> QED
  BY <1>2, ViewsHold, PTL DEF Spec, EditsAreNotLost

\* There, if there is one relink at most, the version that a write announces is the one that
\* it has made, and so are those that the relink announces.
THEOREM VersionsAnnounced == ASSUME Snapshot, SoleRelink PROVE Spec => AnnouncedVersions
<1>1. ASSUME TypeOK, Routes, RInv, [Next]_vars, NEW p \in Procs, Commits(p), NEW h \in Heads,
             said[p][h] # 0
      PROVE  said[p][h] = db'.version[h]
  <2>1. /\ pc[p] = "commit" /\ InTransaction(p) /\ db' = Result(db, p) /\ pc[p] # "idle"
        /\ Ask(p).op \in Ops /\ Ask(p).head \in Heads
        /\ Locked(p) /\ Unwritten(p) /\ Unrelinked(p)
        /\ \A n \in makes[p] : ~Exists(db, n)
    BY <1>1, CommitStep, RWhoIsAt
  <2>2. db \in DbType /\ db.version \in [Heads -> Nat] /\ view[p].version \in [Heads -> Nat]
    BY <1>1 DEF TypeOK, DbType
  <2>3. CASE Ask(p).op \in {"create", "update"}
    <3>1. said[p] = [Unsaid EXCEPT ![Ask(p).head] = db.version[Ask(p).head] + 1]
      <4>1. CASE Ask(p).op = "update"
        <5>1. RUpdating(p)
          BY <1>1, <2>1, <4>1, RWhoIsAt
        <5>2. db.version[Ask(p).head] = view[p].version[Ask(p).head]
          BY <2>1, <5>1 DEF RUpdating, Locked, Unwritten
        <5> QED
          BY <2>1, <5>1, <5>2 DEF RUpdating, Says
      <4>2. CASE Ask(p).op = "create"
        <5>1. Says(p, 1) /\ Ask(p).head \in makes[p]
          BY <1>1, <2>1, <4>2, RWhoIsAt DEF RCreating
        <5>2. db.version[Ask(p).head] = 0
          BY <1>1, <2>1, <5>1 DEF RInv, Exists, Blank
        <5> QED
          BY <5>1, <5>2 DEF Says
      <4> QED
        BY <2>3, <4>1, <4>2
    <3>2. h = Ask(p).head /\ said[p][h] = db.version[h] + 1
      BY <1>1, <2>1, <2>2, <3>1 DEF Unsaid
    <3>3. WroteAll(db', db, p)
      BY <1>1, <2>1, <2>2, <2>3, WriteResult
    <3> QED
      BY <3>2, <3>3 DEF WroteAll, WrittenBy
  <2>4. CASE Ask(p).op \in {"delete", "undelete"}
    <3>1. RFlagging(p) /\ said[p] # Unsaid
      BY <1>1, <2>1, <2>4, RWhoIsAt DEF Unsaid
    <3>2. /\ said[p] = [Unsaid EXCEPT ![Ask(p).head] = view[p].version[Ask(p).head]]
          /\ Ask(p).head \in sets[p] /\ view[p].state[Ask(p).head] # "absent"
      BY <2>1, <3>1 DEF RFlagging, Says
    <3>3. h = Ask(p).head /\ said[p][h] = view[p].version[h]
      BY <1>1, <2>1, <2>2, <3>2 DEF Unsaid
    <3>4. db.version[h] = view[p].version[h]
      BY <2>1, <3>2, <3>3 DEF Locked, Unwritten
    <3>5. db'.version = db.version
      BY <1>1, <2>1, <2>4, FlagResult
    <3> QED
      BY <3>3, <3>4, <3>5
  <2>5. CASE Ask(p).op = "relink"
    <3>1. RRelinking(p)
      BY <1>1, <2>1, <2>5, RWhoIsAt
    <3>2. said[p] = Rewired(p) /\ batch[p] \subseteq links[p] /\ links[p] \cap changed[p] = {}
      BY <2>1, <3>1 DEF RRelinking, Locked
    <3>3. h \in batch[p] /\ said[p][h] = view[p].version[h] + 1
      BY <1>1, <3>2 DEF Rewired
    <3>4. db.version[h] = view[p].version[h]
      BY <2>1, <2>5, <3>1, <3>2, <3>3 DEF Unrelinked, RRelinking
    <3>5. db'.version[h] = db.version[h] + 1
      BY <1>1, <2>1, <2>5, <3>3, RelinkResult
    <3> QED
      BY <3>3, <3>4, <3>5
  <2> QED
    BY <2>1, <2>3, <2>4, <2>5 DEF Ops
<1>2. TypeOK /\ Routes /\ RInv /\ [Next]_vars =>
        [\A p \in Procs : Commits(p) =>
           \A h \in Heads : said[p][h] # 0 => said[p][h] = db'.version[h]]_vars
  BY <1>1
<1> QED
  BY <1>2, ViewsHold, PTL DEF Spec, AnnouncedVersions
===============================================================================
