---------------------------- MODULE ZoteroProofs ----------------------------
(***************************************************************************)
(* What a Zotero library that is synced promises (Zotero), for any items,   *)
(* batches and attempts, however often people act and requests fail.        *)
(***************************************************************************)
EXTENDS Zotero, TLAPS

-----------------------------------------------------------------------------
(* Where a sync goes *)

\* What holds of a sync wherever it is.
Placed(me) ==
  /\ me.latest <= version /\ me.was <= version
  /\ \A x \in Holds(me) : x.is # "none"
  /\ \A k \in me.todo : library[k].is # "none"
  /\ me.removing => me.since # 0 /\ me.todo = {}

LEMMA NoSyncIs ==
  /\ NoSync \in Sync /\ NoSync.pc = "idle" /\ NoSync.since = 0 /\ NoSync.was = 0
  /\ NoSync.latest = 0 /\ NoSync.todo = {} /\ NoSync.got = {} /\ NoSync.item = Nothing /\ ~NoSync.removing
  /\ NoNode \in Node
<1>1. NoNode \in Node  BY DEF NoNode, Node
<1>2. QED  BY <1>1 DEF NoSync, Sync, Places

LEMMA DoneIs ==
  ASSUME NEW me \in Sync
  PROVE  /\ Done(me) \in Sync /\ Done(me).pc = "items" /\ Done(me).item = Nothing
         /\ Done(me).was = me.was /\ Done(me).since = me.since /\ Done(me).latest = me.latest
         /\ Done(me).todo = me.todo /\ Done(me).got = me.got
         /\ Done(me).removing = me.removing /\ Done(me).errors = me.errors
<1>1. NoNode \in Node  BY NoSyncIs
<1>2. PICK d : d = Done(me)  OBVIOUS
<1>3. d \in Sync  BY <1>1, <1>2 DEF Done, Sync, Places
<1>4. /\ d.pc = "items" /\ d.item = Nothing
      /\ d.was = me.was /\ d.since = me.since /\ d.latest = me.latest /\ d.todo = me.todo /\ d.got = me.got
      /\ d.removing = me.removing /\ d.errors = me.errors
  BY <1>2 DEF Done, Sync
<1>5. QED  BY <1>2, <1>3, <1>4

LEMMA ErrorIs ==
  ASSUME NEW me \in Sync
  PROVE  /\ Error(me) \in Sync /\ Error(me).pc = "items" /\ Error(me).item = Nothing
         /\ Error(me).was = me.was /\ Error(me).since = me.since /\ Error(me).latest = me.latest
         /\ Error(me).todo = me.todo /\ Error(me).got = me.got
         /\ Error(me).removing = me.removing /\ Error(me).errors
<1>1. PICK d : d = Done(me)  OBVIOUS
<1>2. /\ d \in Sync /\ d.pc = "items" /\ d.item = Nothing
      /\ d.was = me.was /\ d.since = me.since /\ d.latest = me.latest /\ d.todo = me.todo /\ d.got = me.got
      /\ d.removing = me.removing
  BY <1>1, DoneIs
<1>3. Error(me) = [d EXCEPT !.errors = TRUE]  BY <1>1 DEF Error
<1>4. PICK e : e = Error(me)  OBVIOUS
<1>5. e \in Sync  BY <1>2, <1>3, <1>4 DEF Sync
<1>6. /\ e.pc = "items" /\ e.item = Nothing
      /\ e.was = me.was /\ e.since = me.since /\ e.latest = me.latest /\ e.todo = me.todo /\ e.got = me.got
      /\ e.removing = me.removing /\ e.errors
  BY <1>2, <1>3, <1>4 DEF Sync
<1>7. QED  BY <1>4, <1>5, <1>6

LEMMA Held ==
  ASSUME NEW me \in Sync
  PROVE  /\ Holds(Done(me)) = me.got /\ Holds(Error(me)) = me.got /\ me.got \subseteq Holds(me)
         /\ me.item # Nothing => me.item \in Holds(me)
  BY DoneIs, ErrorIs DEF Holds

\* An item that is dealt with, or could not be, leaves the sync where it takes the next.
LEMMA LetGoPlaced ==
  ASSUME NEW me \in Sync, Placed(me), UNCHANGED <<library, version>>
  PROVE  WellPlaced(Done(me))' /\ WellPlaced(Error(me))'
<1>1. ASSUME NEW d \in Sync, Holds(d) = me.got, d.pc = "items", d.item = Nothing,
             d.was = me.was, d.since = me.since, d.latest = me.latest, d.todo = me.todo,
             d.removing = me.removing
      PROVE  WellPlaced(d)'
  BY <1>1, Held DEF WellPlaced, Placed
<1>2. PICK d : d = Done(me)  OBVIOUS
<1>3. PICK e : e = Error(me)  OBVIOUS
<1>4. WellPlaced(d)'  BY <1>1, <1>2, DoneIs, Held
<1>5. WellPlaced(e)'  BY <1>1, <1>3, ErrorIs, Held
<1>6. (Done(me))' = d /\ (Error(me))' = e  BY <1>2, <1>3 DEF Done, Error
<1>7. QED  BY <1>2, <1>3, <1>4, <1>5

LEMMA DoneBrings ==
  ASSUME NEW me \in Sync, NEW k \in Keys, Brings(me, k), me.pc # "versions",
         UNCHANGED <<library, saved>>,
         library[k].at <= me.latest /\ (InStep(k) \/ me.item = library[k]) => InStep(k)'
  PROVE  Brings(Done(me), k)'
<1>1. PICK d : d = Done(me)  OBVIOUS
<1>2. /\ Holds(d) = me.got /\ me.got \subseteq Holds(me) /\ d.pc = "items"
      /\ d.was = me.was /\ d.since = me.since /\ d.latest = me.latest /\ d.todo = me.todo /\ d.got = me.got
      /\ d.removing = me.removing /\ d.errors = me.errors
  BY <1>1, DoneIs, Held
<1>3. Holds(d)' = Holds(d)  BY DEF Holds
<1>4. Brings(d, k)'  BY <1>2, <1>3 DEF Brings
<1>5. QED  BY <1>1, <1>4

LEMMA AllTyped ==
  ASSUME TypeOK
  PROVE  /\ \A k \in Keys :
              /\ library[k] \in Item /\ library[k].at \in Nat
              /\ library[k].is \in {"none", "live", "trash", "gone"}
              /\ nodes[k] \in Node /\ nodes[k].version \in Nat /\ nodes[k].held \in Nat
         /\ version \in Nat /\ saved \in Nat
         /\ \A s \in Syncers :
              /\ Me(s) \in Sync /\ Me(s).pc \in Places
              /\ Me(s).latest \in Nat /\ Me(s).was \in Nat /\ Me(s).since \in Nat
              /\ Me(s).todo \subseteq Keys /\ Me(s).got \subseteq Item
              /\ Me(s).item \in Item \cup {Nothing} /\ Me(s).seen \in Node
              /\ Me(s).removing \in BOOLEAN /\ Me(s).errors \in BOOLEAN
<1>1. \A k \in Keys : library[k] \in Item /\ nodes[k] \in Node  BY DEF TypeOK
<1>2. \A s \in Syncers : Me(s) \in Sync  BY DEF TypeOK, Me
<1>3. version \in Nat /\ saved \in Nat  BY DEF TypeOK
<1>4. QED  BY <1>1, <1>2, <1>3 DEF Item, Node, Sync

LEMMA MyPlace ==
  ASSUME IInv, NEW s \in Syncers
  PROVE  /\ Me(s) \in Sync /\ WellPlaced(Me(s)) /\ Placed(Me(s))
         /\ Me(s).pc \notin {"idle", "sleep", "versions", "items", "store"} => Me(s).item \in Item
<1>1. Me(s) \in Sync /\ WellPlaced(Me(s)) /\ Me(s).item \in Item \cup {Nothing}
  BY AllTyped DEF IInv
<1>2. QED  BY <1>1 DEF WellPlaced, Placed

-----------------------------------------------------------------------------
(* What becomes of a node *)

\* What a node may become: no deletion that is decided on is of a node that was edited.
Follows(n, old) ==
  \/ old.state = "absent"
  \/ /\ n.state # "absent" /\ old.version <= n.version
     /\ n.version = old.version /\ n.edited => old.edited
Synced(n) ==
  n.synced # Nothing =>
    /\ n.synced <= n.version
    /\ n.synced = n.version /\ n.edited => n.flagged

LEMMA NodesFollow ==
  ASSUME IInv, TypeOK', NEW kk \in Keys, NEW n \in Node, nodes' = [nodes EXCEPT ![kk] = n],
         Follows(n, nodes[kk]), Synced(n), UNCHANGED <<library, version>>
  PROVE  /\ \A k \in Keys : WellKnown(k)'
         /\ \A k \in Keys \ {kk} : nodes'[k] = nodes[k] /\ (InStep(k) => InStep(k)')
         /\ nodes'[kk] = n
         /\ \A me \in Sync : WellPlaced(me) => WellPlaced(me)'
<1>0. nodes \in [Keys -> Node]  BY DEF IInv, TypeOK
<1>1. nodes'[kk] = n /\ \A k \in Keys \ {kk} : nodes'[k] = nodes[k]  BY <1>0
<1>2. \A k \in Keys \ {kk} : InStep(k) => InStep(k)'  BY <1>1 DEF InStep
<1>3. ASSUME NEW k \in Keys PROVE WellKnown(k)'
  <2>1. WellKnown(k)  BY DEF IInv
  <2>2. CASE k = kk  BY <2>1, <2>2, <1>1 DEF WellKnown, Synced
  <2>3. CASE k # kk  BY <2>1, <2>3, <1>1 DEF WellKnown
  <2>4. QED  BY <2>2, <2>3
<1>4. ASSUME NEW me \in Sync, WellPlaced(me) PROVE WellPlaced(me)'
  <2>1. Holds(me)' = Holds(me)  BY DEF Holds
  <2>2. ASSUME me.pc = "delete" PROVE me.item.is = "gone" /\ Decided(me, nodes'[me.item.key])
    <3>1. me.item \in Item /\ me.item.is = "gone" /\ Decided(me, nodes[me.item.key])
      BY <1>4, <2>2 DEF WellPlaced, Sync
    <3>2. CASE me.item.key # kk
      <4>1. me.item.key \in Keys  BY <3>1 DEF Item
      <4>2. nodes'[me.item.key] = nodes[me.item.key]  BY <4>1, <3>2, <1>1
      <4>3. QED  BY <3>1, <4>2
    <3>3. CASE me.item.key = kk
      <4>1. Decided(me, nodes[kk])  BY <3>1, <3>3
      <4>2. PICK old : old = nodes[kk]  OBVIOUS
      <4>3. old \in Node /\ me.seen \in Node  BY <4>2, <1>0 DEF Sync
      <4>4. Decided(me, n)  BY <4>1, <4>2, <4>3 DEF Decided, Follows, Node
      <4>5. QED  BY <4>4, <3>1, <3>3, <1>1
    <3>4. QED  BY <3>2, <3>3
  <2>3. (Decided(me, nodes[me.item.key]))' = Decided(me, nodes'[me.item.key])  BY DEF Decided
  <2>4. QED  BY <1>4, <2>1, <2>2, <2>3 DEF WellPlaced
<1>5. QED  BY <1>1, <1>2, <1>3, <1>4

\* A step of one sync: the invariant is one of what it has become, for no other brings what
\* is not excused.
LEMMA SyncMoves ==
  ASSUME IInv, TypeOK', NEW s \in Syncers, Works(s), NEW next \in Sync, Become(s, next),
         UNCHANGED <<library, version, saved, link, excused>>,
         WellPlaced(next)',
         \A k \in Keys : WellKnown(k)',
         \A r \in Syncers \ {s} : WellPlaced(Me(r)) => WellPlaced(Me(r))',
         \A k \in Keys \ excused : Known(k) /\ Brings(Me(s), k) =>
           /\ library[k].at <= saved => InStep(k)'
           /\ next.pc \notin {"idle", "sleep"} => Brings(next, k)'
  PROVE  IInv'
<1>1. Me(s)' = next /\ \A r \in Syncers \ {s} : Me(r)' = Me(r)
  BY DEF IInv, TypeOK, Become, Me
<1>2. \A r \in Syncers : WellPlaced(Me(r))'
  <2>1. WellPlaced(Me(s))'  BY <1>1 DEF WellPlaced, Holds, Decided
  <2>2. \A r \in Syncers \ {s} : WellPlaced(Me(r))'  BY DEF IInv
  <2>3. QED  BY <2>1, <2>2
<1>3. ASSUME NEW k \in Keys \ excused PROVE Known(k)'
  <2>1. Known(k)  BY DEF IInv
  <2>2. Brings(Me(s), k) /\ \A r \in Syncers \ {s} : ~Works(r)  BY <2>1 DEF Known
  <2>3. \A r \in Syncers \ {s} : ~Works(r)'  BY <2>2, <1>1 DEF Works
  <2>4. library'[k].at <= saved' => InStep(k)'  BY <2>1, <2>2
  <2>5. Works(s)' => Brings(Me(s), k)'
    <3>1. Works(s)' => next.pc \notin {"idle", "sleep"}  BY <1>1 DEF Works
    <3>2. Works(s)' => Brings(next, k)'  BY <3>1, <2>1, <2>2
    <3>3. Brings(next, k)' => Brings(Me(s), k)'  BY <1>1 DEF Brings, Holds
    <3>4. QED  BY <3>2, <3>3
  <2>6. ~(link # Nothing /\ link.key = k)  BY <2>1 DEF Known
  <2>7. QED  BY <2>3, <2>4, <2>5, <2>6 DEF Known
<1>4. QED  BY <1>2, <1>3 DEF IInv

\* Nothing but the sync moves, that the invariant is about.
LEMMA PlaceMoves ==
  ASSUME IInv, TypeOK', NEW s \in Syncers, Works(s), NEW next \in Sync, Become(s, next),
         UNCHANGED <<library, version, nodes, saved, link, excused>>,
         WellPlaced(next),
         \A k \in Keys \ excused : Known(k) /\ Brings(Me(s), k) => Brings(next, k)
  PROVE  IInv'
<1>1. sync \in [Syncers -> Sync] /\ sync' = [sync EXCEPT ![s] = next]
  BY DEF IInv, TypeOK, Become
<1>2. \A k \in Keys : InStep(k)' <=> InStep(k)  BY DEF InStep
<1>3. \A k \in Keys : WellKnown(k)'  BY DEF IInv, WellKnown
<1>4. \A me \in Sync : WellPlaced(me) => WellPlaced(me)'  BY DEF WellPlaced, Holds, Decided
<1>5. \A me \in Sync, k \in Keys : Brings(me, k) => Brings(me, k)'
  BY <1>2 DEF Brings, Holds
<1>6. \A r \in Syncers \ {s} : WellPlaced(Me(r)) => WellPlaced(Me(r))'
  <2>1. SUFFICES ASSUME NEW r \in Syncers \ {s}, WellPlaced(Me(r)) PROVE WellPlaced(Me(r))'
    OBVIOUS
  <2>2. PICK me : me = sync[r]  OBVIOUS
  <2>3. me \in Sync /\ sync'[r] = me  BY <1>1, <2>2
  <2>4. WellPlaced(me)  BY <2>1, <2>2 DEF Me
  <2>5. WellPlaced(me)'  BY <2>3, <2>4, <1>4
  <2>6. QED  BY <2>3, <2>5 DEF Me, WellPlaced, Holds, Decided
<1>7. \A k \in Keys \ excused : Known(k) /\ Brings(Me(s), k) =>
           /\ library[k].at <= saved => InStep(k)'
           /\ next.pc \notin {"idle", "sleep"} => Brings(next, k)'
  BY <1>2, <1>5 DEF Known
<1>8. UNCHANGED <<library, version, saved, link, excused>>  OBVIOUS
<1>9. WellPlaced(next)'  BY <1>4
<1>10. QED  BY <1>3, <1>6, <1>7, <1>8, <1>9, SyncMoves

LEMMA OnlyMoves ==
  ASSUME IInv, NEW s \in Syncers, Works(s), NEW next \in Sync, Only(s, next),
         WellPlaced(next),
         \A k \in Keys \ excused : Known(k) /\ Brings(Me(s), k) => Brings(next, k)
  PROVE  IInv'
<1>1. /\ UNCHANGED <<library, version, nodes, saved, lastError, pending, wake, stream, event, link,
                     asked, acts, scenario, faults, excused>>
      /\ Become(s, next)
  BY DEF Only, zotero, watching, people
<1>2. sync \in [Syncers -> Sync] /\ sync' = [sync EXCEPT ![s] = next]
  BY <1>1 DEF IInv, TypeOK, Become
<1>3. TypeOK'  BY <1>1, <1>2 DEF IInv, TypeOK
<1>4. UNCHANGED <<library, version, nodes, saved, link, excused>>  BY <1>1
<1>5. QED  BY <1>1, <1>3, <1>4, PlaceMoves

\* A sync ends, or waits.
LEMMA Stops ==
  ASSUME IInv, TypeOK', NEW s \in Syncers, NEW next \in Sync, Become(s, next),
         UNCHANGED <<library, version, nodes, link, excused>>,
         saved' <= version, \A k \in Keys \ excused : saved' = saved,
         next.pc \in {"idle", "sleep"}, WellPlaced(next)
  PROVE  IInv'
<1>1. sync \in [Syncers -> Sync] /\ sync' = [sync EXCEPT ![s] = next]
  BY DEF IInv, TypeOK, Become
<1>2. Me(s)' = next /\ \A r \in Syncers \ {s} : Me(r)' = Me(r)  BY <1>1 DEF Me
<1>3. \A k \in Keys : InStep(k)' <=> InStep(k)  BY DEF InStep
<1>4. \A k \in Keys : WellKnown(k)'  BY DEF IInv, WellKnown
<1>5. \A r \in Syncers : WellPlaced(Me(r))'
  <2>1. WellPlaced(Me(s))'  BY <1>2 DEF WellPlaced, Holds, Decided
  <2>2. ASSUME NEW r \in Syncers \ {s} PROVE WellPlaced(Me(r))'
    <3>1. WellPlaced(Me(r)) /\ Me(r)' = Me(r)  BY <1>2 DEF IInv
    <3>2. QED  BY <3>1 DEF WellPlaced, Holds, Decided
  <2>3. QED  BY <2>1, <2>2
<1>6. ASSUME NEW k \in Keys \ excused PROVE Known(k)'
  <2>1. Known(k)  BY DEF IInv
  <2>2. ~Works(s)' /\ \A r \in Syncers \ {s} : Works(r)' <=> Works(r)  BY <1>2 DEF Works
  <2>3. library'[k].at <= saved' => InStep(k)'  BY <1>3, <2>1 DEF Known
  <2>4. ASSUME NEW r \in Syncers, Works(r)'
        PROVE  Brings(Me(r), k)' /\ \A q \in Syncers \ {r} : ~Works(q)'
    <3>1. r # s /\ Works(r)  BY <2>2, <2>4
    <3>2. Brings(Me(r), k) /\ \A q \in Syncers \ {r} : ~Works(q)  BY <2>1, <3>1 DEF Known
    <3>3. Brings(Me(r), k)'
      <4>1. Me(r)' = Me(r)  BY <1>2, <3>1
      <4>2. QED  BY <1>3, <3>2, <4>1 DEF Brings, Holds
    <3>4. QED  BY <2>2, <3>2, <3>3
  <2>5. link' # Nothing /\ link'.key = k =>
          /\ \A r \in Syncers : ~Works(r)'
          /\ library'[k] = link' \/ library'[k].at > saved'
    BY <2>1, <2>2 DEF Known
  <2>6. QED  BY <2>3, <2>4, <2>5 DEF Known
<1>7. QED  BY <1>4, <1>5, <1>6 DEF IInv

\* The item at hand is written: its node is then what the item is, if that is not stale.
LEMMA WriteMoves ==
  ASSUME IInv, NEW s \in Syncers, Works(s), NEW me \in Sync, me = Me(s), me.pc # "versions",
         me.item \in Item, NEW kk \in Keys, kk = me.item.key,
         NEW n \in Node, Writes(s, kk, n), Follows(n, nodes[kk]), Synced(n),
         library[kk] = me.item => InStep(kk)'
  PROVE  IInv'
<1>1. me \in Sync /\ WellPlaced(me) /\ Placed(me) /\ me.item \in Item /\ me.pc # "versions"
  BY MyPlace
<1>2. PICK next : next = Done(me)  OBVIOUS
<1>3. next \in Sync  BY <1>1, <1>2, DoneIs
<1>4. /\ UNCHANGED <<library, version, saved, lastError, pending, wake, stream, event, link,
                     asked, acts, scenario, faults, excused>>
      /\ Become(s, next) /\ nodes' = [nodes EXCEPT ![kk] = n]
  BY <1>2 DEF Writes, zotero, watching, people
<1>5. TypeOK'
  <2>1. sync' \in [Syncers -> Sync]  BY <1>3, <1>4 DEF IInv, TypeOK, Become
  <2>2. nodes' \in [Keys -> Node]  BY <1>4 DEF IInv, TypeOK
  <2>3. QED  BY <1>4, <2>1, <2>2 DEF IInv, TypeOK
<1>6. /\ \A k \in Keys : WellKnown(k)'
      /\ \A k \in Keys \ {kk} : nodes'[k] = nodes[k] /\ (InStep(k) => InStep(k)')
      /\ \A m \in Sync : WellPlaced(m) => WellPlaced(m)'
  <2>1. UNCHANGED <<library, version>>  BY <1>4
  <2>2. QED  BY <1>4, <1>5, <2>1, NodesFollow
<1>7. WellPlaced(next)'
  <2>1. UNCHANGED <<library, version>>  BY <1>4
  <2>2. WellPlaced(Done(me))'  BY <1>1, <2>1, LetGoPlaced
  <2>3. (Done(me))' = next  BY <1>2 DEF Done
  <2>4. QED  BY <1>2, <2>2
<1>8. \A r \in Syncers \ {s} : WellPlaced(Me(r)) => WellPlaced(Me(r))'
  <2>1. SUFFICES ASSUME NEW r \in Syncers \ {s}, WellPlaced(Me(r)) PROVE WellPlaced(Me(r))'
    OBVIOUS
  <2>2. PICK m : m = sync[r]  OBVIOUS
  <2>3. m \in Sync /\ sync'[r] = m  BY <1>4, <2>2 DEF Become, IInv, TypeOK
  <2>4. WellPlaced(m)  BY <2>1, <2>2 DEF Me
  <2>5. WellPlaced(m)'  BY <2>3, <2>4, <1>6
  <2>6. QED  BY <2>3, <2>5 DEF Me, WellPlaced, Holds, Decided
<1>9. ASSUME NEW k \in Keys \ excused, Known(k), Brings(me, k)
       PROVE  /\ library[k].at <= saved => InStep(k)'
              /\ Brings(next, k)'
  <2>0. library[k].at \in Nat /\ saved \in Nat /\ me.latest \in Nat
    BY <1>1, AllTyped DEF IInv, Sync
  <2>1. k = kk => library[k] = me.item \/ (library[k].at > saved /\ library[k].at > me.latest)
    <3>1. me.item \in Holds(me)  BY <1>1, Held, NothingAssumption
    <3>2. QED  BY <3>1, <1>9 DEF Brings
  <2>2. me.item = library[k] => k = kk
    <3>1. library[k].key = k  BY DEF IInv, WellKnown
    <3>2. QED  BY <3>1
  <2>3. library[k].at <= saved => InStep(k)'
    BY <1>6, <1>9, <2>0, <2>1 DEF Known
  <2>4. library[k].at <= me.latest /\ (InStep(k) \/ me.item = library[k]) => InStep(k)'
    BY <1>6, <2>0, <2>1, <2>2
  <2>5. UNCHANGED <<library, saved>>  BY <1>4
  <2>6. Brings(Done(me), k)'  BY <1>1, <1>9, <2>4, <2>5, DoneBrings
  <2>7. (Done(me))' = next  BY <1>2 DEF Done
  <2>8. QED  BY <1>2, <2>3, <2>6
<1>10. UNCHANGED <<library, version, saved, link, excused>>  BY <1>4
<1>11. \A k \in Keys \ excused : Known(k) /\ Brings(Me(s), k) =>
           /\ library[k].at <= saved => InStep(k)'
           /\ next.pc \notin {"idle", "sleep"} => Brings(next, k)'
  BY <1>9
<1>12. QED  BY <1>3, <1>4, <1>5, <1>6, <1>7, <1>8, <1>10, <1>11, SyncMoves

-----------------------------------------------------------------------------
(* The steps of a sync *)

LEMMA LetGo ==
  ASSUME NEW me \in Sync, Placed(me)
  PROVE  WellPlaced(Done(me)) /\ WellPlaced(Error(me))
<1>1. ASSUME NEW d \in Sync, Holds(d) = me.got, d.pc = "items", d.item = Nothing,
             d.was = me.was, d.since = me.since, d.latest = me.latest, d.todo = me.todo,
             d.removing = me.removing
      PROVE  WellPlaced(d)
  BY <1>1, Held DEF WellPlaced, Placed
<1>2. WellPlaced(Done(me))  BY <1>1, DoneIs, Held
<1>3. WellPlaced(Error(me))  BY <1>1, ErrorIs, Held
<1>4. QED  BY <1>2, <1>3

LEMMA LetsGo ==
  ASSUME NEW me \in Sync, NEW k \in Keys, Brings(me, k), me.pc # "versions"
  PROVE  /\ Brings(Error(me), k)
         /\ (library[k].at <= me.latest /\ me.item = library[k] => InStep(k)) => Brings(Done(me), k)
<1>1. PICK d : d = Done(me)  OBVIOUS
<1>2. /\ Holds(d) = me.got /\ me.got \subseteq Holds(me) /\ d.pc = "items"
      /\ d.was = me.was /\ d.since = me.since /\ d.latest = me.latest /\ d.todo = me.todo /\ d.got = me.got
      /\ d.removing = me.removing /\ d.errors = me.errors
  BY <1>1, DoneIs, Held
<1>3. PICK e : e = Error(me)  OBVIOUS
<1>4. /\ Holds(e) = me.got /\ e.errors
      /\ e.was = me.was /\ e.since = me.since /\ e.latest = me.latest /\ e.todo = me.todo
  BY <1>3, ErrorIs, Held
<1>5. Brings(e, k)  BY <1>2, <1>4 DEF Brings
<1>6. (library[k].at <= me.latest /\ me.item = library[k] => InStep(k)) => Brings(d, k)
  BY <1>2 DEF Brings
<1>7. QED  BY <1>1, <1>3, <1>5, <1>6

\* What a sync makes of the node it has found: it is in step, or is to be written or deleted.
LEMMA DecideIs ==
  ASSUME IInv, NEW me \in Sync, Placed(me), me.item \in Item, me.pc # "versions",
         nodes[me.item.key].state = "live"
  PROVE  /\ Decide(me, nodes[me.item.key]) \in Sync
         /\ WellPlaced(Decide(me, nodes[me.item.key]))
         /\ \A k \in Keys : Brings(me, k) => Brings(Decide(me, nodes[me.item.key]), k)
<1>1. PICK kk : kk = me.item.key  OBVIOUS
<1>2. kk \in Keys  BY <1>1 DEF Item
<1>3. PICK n : n = nodes[kk]  OBVIOUS
<1>4. n \in Node /\ n.state = "live"  BY <1>1, <1>2, <1>3 DEF IInv, TypeOK
<1>5. PICK d : d = Decide(me, n)  OBVIOUS
<1>6. \/ d = Done(me) /\ (library[kk] = me.item => InStep(kk))
      \/ d = [me EXCEPT !.pc = "edit", !.seen = n]
      \/ d = [me EXCEPT !.pc = "delete", !.seen = n] /\ me.item.is = "gone" /\ ~Kept(n)
  <2>1. CASE me.item.is = "gone"
    <3>1. CASE ~Kept(n)
      BY <1>5, <2>1, <3>1 DEF Decide
    <3>2. CASE Kept(n) /\ n.flagged /\ ~me.restored
      <4>1. d = Done(me)  BY <1>5, <2>1, <3>2 DEF Decide
      <4>2. library[kk] = me.item => InStep(kk)  BY <1>3, <2>1, <3>2 DEF InStep
      <4>3. QED  BY <4>1, <4>2
    <3>3. CASE Kept(n) /\ ~(n.flagged /\ ~me.restored)
      BY <1>5, <2>1, <3>3 DEF Decide
    <3>4. QED  BY <3>1, <3>2, <3>3
  <2>2. CASE me.item.is # "gone" /\ Unchanged(me, n)
    <3>1. d = Done(me)  BY <1>5, <2>2 DEF Decide
    <3>2. n.held = me.item.at /\ n.flagged = (me.item.is = "trash")  BY <2>2 DEF Unchanged
    <3>3. library[kk] = me.item => InStep(kk)  BY <1>3, <1>4, <2>2, <3>2 DEF InStep
    <3>4. QED  BY <3>1, <3>3
  <2>3. CASE me.item.is # "gone" /\ ~Unchanged(me, n)
    BY <1>5, <2>3 DEF Decide
  <2>4. QED  BY <2>1, <2>2, <2>3
<1>7. CASE d = Done(me) /\ (library[kk] = me.item => InStep(kk))
  <2>1. d \in Sync /\ WellPlaced(d)  BY <1>7, DoneIs, LetGo
  <2>2. ASSUME NEW k \in Keys, Brings(me, k) PROVE Brings(d, k)
    <3>1. me.item = library[k] => k = kk  BY <1>1 DEF IInv, WellKnown
    <3>2. QED  BY <1>7, <2>2, <3>1, LetsGo
  <2>3. QED  BY <1>1, <1>3, <1>5, <2>1, <2>2
<1>8. ASSUME \/ d = [me EXCEPT !.pc = "edit", !.seen = n]
             \/ d = [me EXCEPT !.pc = "delete", !.seen = n]
      PROVE  /\ d \in Sync /\ d.pc \in {"edit", "delete"} /\ d.seen = n /\ d.item = me.item
             /\ d.was = me.was /\ d.since = me.since /\ d.latest = me.latest /\ d.todo = me.todo /\ d.got = me.got
             /\ d.removing = me.removing /\ d.errors = me.errors /\ Holds(d) = Holds(me)
  BY <1>4, <1>8 DEF Sync, Places, Holds
<1>9. ASSUME \/ d = [me EXCEPT !.pc = "edit", !.seen = n]
             \/ d = [me EXCEPT !.pc = "delete", !.seen = n]
      PROVE  \A k \in Keys : Brings(me, k) => Brings(d, k)
  BY <1>8, <1>9 DEF Brings
<1>10. CASE d = [me EXCEPT !.pc = "edit", !.seen = n]
  <2>1. d.pc = "edit"  BY <1>10 DEF Sync
  <2>2. WellPlaced(d)  BY <1>8, <1>10, <2>1, NothingAssumption DEF Placed, WellPlaced
  <2>3. QED  BY <1>1, <1>3, <1>5, <1>8, <1>9, <1>10, <2>2
<1>11. CASE d = [me EXCEPT !.pc = "delete", !.seen = n] /\ me.item.is = "gone" /\ ~Kept(n)
  <2>1. d.pc = "delete"  BY <1>11 DEF Sync
  <2>2. Synced(n)  BY <1>2, <1>3 DEF IInv, WellKnown, Synced
  <2>3. Decided(d, n)
    BY <1>4, <1>8, <1>11, <2>2 DEF Decided, Kept, EditedByPerson, Synced, Node
  <2>4. Decided(d, nodes[d.item.key])  BY <2>3, <1>8, <1>11, <1>1, <1>3
  <2>5. WellPlaced(d)  BY <1>8, <1>11, <2>1, <2>4, NothingAssumption DEF Placed, WellPlaced
  <2>6. QED  BY <1>1, <1>3, <1>5, <1>8, <1>9, <1>11, <2>5
<1>12. QED  BY <1>6, <1>7, <1>10, <1>11

LEMMA NotFoundIs ==
  ASSUME IInv, NEW me \in Sync, Placed(me), me.item \in Item, me.pc # "versions",
         nodes[me.item.key].state # "live"
  PROVE  /\ NotFound(me) \in Sync /\ WellPlaced(NotFound(me))
         /\ \A k \in Keys : Brings(me, k) => Brings(NotFound(me), k)
<1>1. CASE me.item.is = "gone"
  <2>1. NotFound(me) = Done(me)  BY <1>1 DEF NotFound
  <2>2. Done(me) \in Sync /\ WellPlaced(Done(me))  BY DoneIs, LetGo
  <2>3. ASSUME NEW k \in Keys, Brings(me, k) PROVE Brings(Done(me), k)
    <3>1. me.item = library[k] => InStep(k)
      <4>1. library[k].key = k  BY DEF IInv, WellKnown
      <4>2. QED  BY <4>1, <1>1 DEF InStep
    <3>2. QED  BY <2>3, <3>1, LetsGo
  <2>4. QED  BY <2>1, <2>2, <2>3
<1>2. CASE me.item.is # "gone"
  <2>1. PICK d : d = NotFound(me)  OBVIOUS
  <2>2. d = [me EXCEPT !.pc = "create"]  BY <1>2, <2>1 DEF NotFound
  <2>3. /\ d \in Sync /\ d.pc = "create" /\ d.item = me.item
        /\ d.was = me.was /\ d.since = me.since /\ d.latest = me.latest /\ d.todo = me.todo /\ d.got = me.got
        /\ d.removing = me.removing /\ d.errors = me.errors /\ Holds(d) = Holds(me)
    BY <2>2 DEF Sync, Places, Holds
  <2>4. WellPlaced(d)  BY <1>2, <2>3, NothingAssumption DEF Placed, WellPlaced
  <2>5. \A k \in Keys : Brings(me, k) => Brings(d, k)  BY <2>3 DEF Brings
  <2>6. QED  BY <2>1, <2>3, <2>4, <2>5
<1>3. QED  BY <1>1, <1>2

LEMMA VersionsKeeps ==
  ASSUME IInv, NEW s \in Syncers, Versions(s)
  PROVE  IInv'
<1>0. PICK me : me = Me(s)  OBVIOUS
<1>1. me \in Sync /\ WellPlaced(me) /\ me.pc = "versions" /\ Works(s)
  BY <1>0, MyPlace DEF Versions, Works
<1>2. me.got = {} /\ me.todo = {} /\ ~me.removing /\ me.item = Nothing  BY <1>1 DEF WellPlaced
<1>3. PICK todo : todo = {k \in Changed(me.since) : library[k].is \in {"live", "trash"}}  OBVIOUS
<1>4. todo \subseteq Keys  BY <1>3 DEF Changed
<1>5. PICK next : next = [me EXCEPT !.pc = "items", !.latest = version, !.todo = todo]  OBVIOUS
<1>6. Only(s, next)  BY <1>0, <1>3, <1>5 DEF Versions
<1>7. version \in Nat  BY DEF IInv, TypeOK
<1>8. /\ next \in Sync /\ next.pc = "items" /\ next.was = me.was
      /\ next.since = me.since /\ next.latest = version
      /\ next.todo = todo /\ next.got = {} /\ next.item = Nothing /\ ~next.removing
  BY <1>1, <1>2, <1>4, <1>5, <1>7 DEF Sync, Places
<1>9. Holds(next) = {}  BY <1>8 DEF Holds
<1>10. WellPlaced(next)
  <2>1. \A k \in todo : library[k].is # "none"  BY <1>3
  <2>2. me.was <= version  BY <1>1 DEF WellPlaced
  <2>3. QED  BY <1>7, <1>8, <1>9, <2>1, <2>2 DEF WellPlaced
<1>11. ASSUME NEW k \in Keys \ excused, Known(k), Brings(me, k) PROVE Brings(next, k)
  <2>1. me.was = saved /\ me.since \in {0, saved}  BY <1>11 DEF Brings
  <2>2. /\ library[k].at \in Nat /\ saved \in Nat /\ library[k].at <= version
        /\ library[k].is \in {"none", "live", "trash", "gone"}
        /\ library[k].at = 0 => library[k].is = "none"
    BY AllTyped DEF IInv, WellKnown
  <2>3. k \in todo => library[k].is # "gone"  BY <1>3
  <2>4. InStep(k) \/ k \in todo \/ library[k].is = "gone"
    <3>1. CASE library[k].at > me.since
      <4>1. library[k].is = "none" => InStep(k)  BY DEF InStep
      <4>2. library[k].is \in {"live", "trash"} => k \in todo  BY <1>3, <3>1 DEF Changed
      <4>3. QED  BY <2>2, <4>1, <4>2
    <3>2. CASE library[k].at <= me.since /\ me.since = saved  BY <1>11, <3>2 DEF Known
    <3>3. CASE library[k].at <= me.since /\ me.since = 0
      <4>1. library[k].is = "none"  BY <2>2, <3>3
      <4>2. QED  BY <4>1 DEF InStep
    <3>4. QED  BY <2>1, <2>2, <3>1, <3>2, <3>3
  <2>5. QED  BY <1>8, <1>9, <2>1, <2>3, <2>4 DEF Brings
<1>12. QED  BY <1>0, <1>1, <1>6, <1>8, <1>10, <1>11, OnlyMoves

LEMMA ItemsKeeps ==
  ASSUME IInv, NEW s \in Syncers, Items(s)
  PROVE  IInv'
<1>0. PICK me : me = Me(s)  OBVIOUS
<1>1. me \in Sync /\ WellPlaced(me) /\ me.pc = "items" /\ me.got = {} /\ Works(s)
  BY <1>0, MyPlace DEF Items, Works
<1>2. PICK batch \in SUBSET Me(s).todo :
        /\ \/ Cardinality(batch) = BatchSize
           \/ batch = Me(s).todo /\ Cardinality(batch) < BatchSize
        /\ Only(s, [Me(s) EXCEPT
             !.todo = @ \ batch,
             !.got = {library[k] : k \in {k \in batch : library[k].is # "gone"}}])
  BY Zenon DEF Items
<1>3. PICK got : got = {library[k] : k \in {k \in batch : library[k].is # "gone"}}  OBVIOUS
<1>4. me.todo \subseteq Keys /\ me.item = Nothing  BY <1>1 DEF Sync, WellPlaced
<1>5. batch \subseteq me.todo /\ got \subseteq Item  BY <1>0, <1>2, <1>3, <1>4, AllTyped DEF IInv
<1>6. PICK next : next = [me EXCEPT !.todo = @ \ batch, !.got = got]  OBVIOUS
<1>7. Only(s, next)  BY <1>0, <1>2, <1>3, <1>6
<1>8. /\ next \in Sync /\ next.pc = "items" /\ next.was = me.was
      /\ next.since = me.since /\ next.latest = me.latest
      /\ next.todo = me.todo \ batch /\ next.got = got /\ next.item = Nothing
      /\ next.removing = me.removing /\ next.errors = me.errors
  BY <1>1, <1>4, <1>5, <1>6 DEF Sync, Places
<1>9. Holds(next) = got  BY <1>8 DEF Holds
<1>10. ASSUME NEW x \in got
       PROVE  x.is # "none" /\ x.is # "gone" /\ \A k \in Keys : x.key = k => x = library[k]
  <2>1. PICK k \in batch : x = library[k] /\ library[k].is # "gone"  BY <1>3
  <2>2. library[k].is # "none"  BY <1>1, <1>5 DEF WellPlaced
  <2>3. library[k].key = k  BY <1>4, <1>5 DEF IInv, WellKnown
  <2>4. QED  BY <2>1, <2>2, <2>3
<1>11. WellPlaced(next)
  BY <1>1, <1>4, <1>8, <1>9, <1>10 DEF WellPlaced
<1>12. ASSUME NEW k \in Keys \ excused, Known(k), Brings(me, k) PROVE Brings(next, k)
  <2>1. ASSUME k \in batch, library[k].at <= me.latest PROVE library[k] \in got
    <3>1. library[k].is # "gone"  BY <2>1, <1>5, <1>12 DEF Brings
    <3>2. QED  BY <2>1, <3>1, <1>3
  <2>2. library[k] # Nothing  BY AllTyped, NothingAssumption DEF IInv
  <2>3. QED  BY <1>1, <1>4, <1>8, <1>9, <1>10, <1>12, <2>1, <2>2 DEF Brings
<1>13. QED  BY <1>0, <1>1, <1>7, <1>8, <1>11, <1>12, OnlyMoves

LEMMA DeletedItemsKeeps ==
  ASSUME IInv, NEW s \in Syncers, DeletedItems(s)
  PROVE  IInv'
<1>0. PICK me : me = Me(s)  OBVIOUS
<1>1. /\ me \in Sync /\ WellPlaced(me) /\ me.pc = "items" /\ me.got = {} /\ me.todo = {}
      /\ Works(s) /\ me.item = Nothing /\ Holds(me) = {}
  BY <1>0, MyPlace DEF DeletedItems, Works, WellPlaced, Holds
<1>2. CASE me.removing \/ me.since = 0
  <2>1. PICK next : next = [me EXCEPT !.pc = "store"]  OBVIOUS
  <2>2. Only(s, next)  BY <1>0, <1>2, <2>1 DEF DeletedItems
  <2>3. /\ next \in Sync /\ next.pc = "store" /\ next.was = me.was
        /\ next.since = me.since /\ next.latest = me.latest
        /\ next.todo = {} /\ next.got = {} /\ next.item = Nothing
        /\ next.removing = me.removing /\ next.errors = me.errors
    BY <1>1, <2>1 DEF Sync, Places
  <2>4. Holds(next) = {}  BY <2>3 DEF Holds
  <2>5. WellPlaced(next)  BY <1>1, <1>2, <2>3, <2>4 DEF WellPlaced
  <2>6. \A k \in Keys \ excused : Known(k) /\ Brings(me, k) => Brings(next, k)
    BY <1>1, <2>3, <2>4 DEF Brings
  <2>7. QED  BY <1>0, <1>1, <2>2, <2>3, <2>5, <2>6, OnlyMoves
<1>3. CASE ~(me.removing \/ me.since = 0)
  <2>1. PICK got : got = {library[k] : k \in {k \in Changed(me.since) : library[k].is = "gone"}}
    OBVIOUS
  <2>2. got \subseteq Item  BY <2>1, AllTyped DEF IInv, Changed
  <2>3. PICK next : next = [me EXCEPT !.removing = TRUE, !.got = got]  OBVIOUS
  <2>4. Only(s, next)  BY <1>0, <1>3, <2>1, <2>3 DEF DeletedItems
  <2>5. /\ next \in Sync /\ next.pc = "items" /\ next.was = me.was
        /\ next.since = me.since /\ next.latest = me.latest
        /\ next.todo = {} /\ next.got = got /\ next.item = Nothing
        /\ next.removing /\ next.errors = me.errors
    BY <1>1, <2>2, <2>3 DEF Sync, Places
  <2>6. Holds(next) = got  BY <2>5 DEF Holds
  <2>7. ASSUME NEW x \in got
        PROVE  x.is = "gone" /\ x.at > me.since /\ \A k \in Keys : x.key = k => x = library[k]
    <3>1. PICK k \in Changed(me.since) : x = library[k] /\ library[k].is = "gone"  BY <2>1
    <3>2. k \in Keys /\ library[k].at > me.since  BY DEF Changed
    <3>3. library[k].key = k  BY <3>2 DEF IInv, WellKnown
    <3>4. QED  BY <3>1, <3>2, <3>3
  <2>8. WellPlaced(next)  BY <1>1, <1>3, <2>5, <2>6, <2>7 DEF WellPlaced
  <2>9. ASSUME NEW k \in Keys \ excused, Known(k), Brings(me, k) PROVE Brings(next, k)
    <3>1. me.since = saved  BY <1>3, <2>9 DEF Brings
    <3>2. library[k].at \in Nat /\ saved \in Nat /\ library[k] # Nothing
      BY AllTyped, NothingAssumption DEF IInv
    <3>3. library[k].is = "gone" => InStep(k) \/ library[k] \in got
      <4>1. CASE library[k].at > saved  BY <2>1, <3>1, <4>1 DEF Changed
      <4>2. CASE library[k].at <= saved  BY <2>9, <4>2 DEF Known
      <4>3. QED  BY <3>2, <4>1, <4>2
    <3>4. QED  BY <1>1, <2>5, <2>6, <2>7, <2>9, <3>1, <3>2, <3>3 DEF Brings
  <2>10. QED  BY <1>0, <1>1, <2>4, <2>5, <2>8, <2>9, OnlyMoves
<1>4. QED  BY <1>2, <1>3

LEMMA FindKeeps ==
  ASSUME IInv, NEW s \in Syncers, Find(s)
  PROVE  IInv'
<1>0. PICK was : was = Me(s)  OBVIOUS
<1>1. /\ was \in Sync /\ WellPlaced(was) /\ was.pc = "items" /\ was.item = Nothing /\ Works(s)
  BY <1>0, MyPlace DEF Find, Works, WellPlaced
<1>2. PICK item \in Me(s).got :
        LET n == nodes[item.key]
            me == [Me(s) EXCEPT !.got = @ \ {item}, !.item = item, !.tries = 1]
        IN \/ n.state = "live" /\ Only(s, Decide(me, n))
           \/ n.state = "absent" /\ Only(s, NotFound(me))
           \/ /\ n.state = "deleted"
              /\ nodes' = [nodes EXCEPT ![item.key].state = "live"]
              /\ Become(s, [me EXCEPT !.pc = "again", !.restored = TRUE])
              /\ UNCHANGED <<zotero, saved, lastError, watching, people, faults, excused>>
  BY Zenon DEF Find
<1>3. item \in was.got /\ item \in Item  BY <1>0, <1>1, <1>2 DEF Sync
<1>4. PICK kk : kk = item.key  OBVIOUS
<1>5. kk \in Keys  BY <1>3, <1>4 DEF Item
<1>6. PICK me : me = [was EXCEPT !.got = @ \ {item}, !.item = item, !.tries = 1]  OBVIOUS
<1>7. /\ me \in Sync /\ me.pc = "items" /\ me.was = was.was /\ me.since = was.since /\ me.latest = was.latest
      /\ me.todo = was.todo /\ me.got = was.got \ {item} /\ me.item = item
      /\ me.removing = was.removing /\ me.errors = was.errors
  BY <1>1, <1>3, <1>6 DEF Sync
<1>8. Holds(me) = Holds(was)  BY <1>1, <1>3, <1>7, NothingAssumption DEF Holds
<1>9. Placed(me)  BY <1>1, <1>7, <1>8 DEF WellPlaced, Placed
<1>10. \A k \in Keys : Brings(was, k) => Brings(me, k)
  <2>1. \A k \in Keys : library[k] # Nothing  BY AllTyped, NothingAssumption DEF IInv
  <2>2. QED  BY <1>1, <1>7, <1>8, <2>1 DEF Brings
<1>11. nodes[kk] \in Node /\ nodes[kk].state \in {"absent", "live", "deleted"}
  BY <1>5 DEF IInv, TypeOK, Node
<1>12. CASE nodes[kk].state = "live"
  <2>1. PICK next : next = Decide(me, nodes[kk])  OBVIOUS
  <2>2. Only(s, next)  BY <1>0, <1>2, <1>4, <1>6, <1>12, <2>1
  <2>3. next \in Sync /\ WellPlaced(next) /\ \A k \in Keys : Brings(me, k) => Brings(next, k)
    BY <1>3, <1>4, <1>7, <1>9, <1>12, <2>1, DecideIs
  <2>4. \A k \in Keys \ excused : Known(k) /\ Brings(Me(s), k) => Brings(next, k)
    BY <1>0, <1>10, <2>3
  <2>5. QED  BY <1>1, <2>2, <2>3, <2>4, OnlyMoves
<1>13. CASE nodes[kk].state = "absent"
  <2>1. PICK next : next = NotFound(me)  OBVIOUS
  <2>2. Only(s, next)  BY <1>0, <1>2, <1>4, <1>6, <1>13, <2>1
  <2>3. next \in Sync /\ WellPlaced(next) /\ \A k \in Keys : Brings(me, k) => Brings(next, k)
    BY <1>3, <1>4, <1>7, <1>9, <1>13, <2>1, NotFoundIs
  <2>4. \A k \in Keys \ excused : Known(k) /\ Brings(Me(s), k) => Brings(next, k)
    BY <1>0, <1>10, <2>3
  <2>5. QED  BY <1>1, <2>2, <2>3, <2>4, OnlyMoves
<1>14. CASE nodes[kk].state = "deleted"
  <2>1. PICK next : next = [me EXCEPT !.pc = "again", !.restored = TRUE]  OBVIOUS
  <2>2. PICK n : n = [nodes[kk] EXCEPT !.state = "live"]  OBVIOUS
  <2>3. /\ nodes' = [nodes EXCEPT ![kk] = n] /\ Become(s, next)
        /\ UNCHANGED <<library, version, saved, lastError, pending, wake, stream, event, link,
                       asked, acts, scenario, faults, excused>>
    BY <1>0, <1>2, <1>4, <1>6, <1>14, <2>1, <2>2 DEF zotero, watching, people
  <2>4. /\ n \in Node /\ n.state = "live" /\ n.version = nodes[kk].version
        /\ n.synced = nodes[kk].synced /\ n.edited = nodes[kk].edited
        /\ n.flagged = nodes[kk].flagged /\ n.held = nodes[kk].held
    BY <1>11, <2>2 DEF Node
  <2>5. /\ next \in Sync /\ next.pc = "again" /\ next.was = me.was
        /\ next.since = me.since /\ next.latest = me.latest
        /\ next.todo = me.todo /\ next.got = me.got /\ next.item = item
        /\ next.removing = me.removing /\ next.errors = me.errors
    BY <1>7, <2>1 DEF Sync, Places
  <2>6. Holds(next) = Holds(me)  BY <1>7, <2>5 DEF Holds
  <2>7. TypeOK'
    <3>1. sync' \in [Syncers -> Sync]  BY <2>3, <2>5 DEF IInv, TypeOK, Become
    <3>2. nodes' \in [Keys -> Node]  BY <1>5, <2>3, <2>4 DEF IInv, TypeOK
    <3>3. QED  BY <2>3, <3>1, <3>2 DEF IInv, TypeOK
  <2>8. Follows(n, nodes[kk])  BY <1>11, <2>4 DEF Follows, Node
  <2>9. Synced(n)  BY <1>5, <2>4 DEF IInv, WellKnown, Synced
  <2>10. /\ \A k \in Keys : WellKnown(k)'
         /\ \A k \in Keys \ {kk} : nodes'[k] = nodes[k] /\ (InStep(k) => InStep(k)')
         /\ nodes'[kk] = n
         /\ \A m \in Sync : WellPlaced(m) => WellPlaced(m)'
    <3>1. UNCHANGED <<library, version>>  BY <2>3
    <3>2. QED  BY <1>5, <2>3, <2>4, <2>7, <2>8, <2>9, <3>1, NodesFollow
  <2>11. \A r \in Syncers \ {s} : WellPlaced(Me(r)) => WellPlaced(Me(r))'
    <3>1. SUFFICES ASSUME NEW r \in Syncers \ {s}, WellPlaced(Me(r)) PROVE WellPlaced(Me(r))'
      OBVIOUS
    <3>2. PICK m : m = sync[r]  OBVIOUS
    <3>3. m \in Sync /\ sync'[r] = m  BY <2>3, <3>2 DEF Become, IInv, TypeOK
    <3>4. WellPlaced(m)  BY <3>1, <3>2 DEF Me
    <3>5. WellPlaced(m)'  BY <3>3, <3>4, <2>10
    <3>6. QED  BY <3>3, <3>5 DEF Me, WellPlaced, Holds, Decided
  <2>12. WellPlaced(next)'
    <3>1. WellPlaced(next)
      BY <1>3, <1>9, <2>5, <2>6, <1>7, NothingAssumption DEF Placed, WellPlaced
    <3>2. QED  BY <2>5, <2>10, <3>1
  <2>13. ASSUME NEW k \in Keys \ excused, Known(k), Brings(was, k)
         PROVE  (library[k].at <= saved => InStep(k)') /\ Brings(next, k)'
    <3>1. Brings(me, k)  BY <1>10, <2>13
    <3>2. library[k].key = k /\ library[k].at \in Nat /\ saved \in Nat
      BY AllTyped DEF IInv, WellKnown
    <3>3. item \in Holds(me)  BY <1>3, <1>7, Held, NothingAssumption
    <3>4. CASE k # kk
      <4>1. InStep(k) => InStep(k)'  BY <2>10, <3>4
      <4>2. Holds(next)' = Holds(me)  BY <2>6 DEF Holds
      <4>3. Brings(next, k)'  BY <1>7, <2>3, <2>5, <3>1, <4>1, <4>2 DEF Brings
      <4>4. QED  BY <2>13, <4>1, <4>3 DEF Known
    <3>5. CASE k = kk
      <4>1. \/ library[k] = item
            \/ library[k].at > saved /\ library[k].at > me.latest
        BY <1>4, <3>1, <3>3, <3>5 DEF Brings
      <4>2. item.is = "gone" => item.at > saved  BY <1>4, <3>1, <3>3, <3>5 DEF Brings
      <4>3. Holds(next)' = Holds(me)  BY <2>6 DEF Holds
      <4>4. Brings(next, k)'
        <5>1. me.latest \in Nat  BY <1>7 DEF Sync
        <5>2. ~(library[k].at <= me.latest) \/ library[k] = item  BY <3>2, <4>1, <5>1
        <5>3. \A x \in Holds(next)' : x.key = k =>
                /\ library[k] = x \/ (library[k].at > saved /\ library[k].at > me.latest)
                /\ x.is = "gone" => x.at > saved
          BY <3>1, <4>3 DEF Brings
        <5>4. /\ me.was = saved /\ me.since \in {0, saved}
              /\ k \in me.todo /\ library[k].at <= me.latest => library[k].is # "gone"
          BY <3>1 DEF Brings
        <5>5. library' = library /\ saved' = saved  BY <2>3
        <5>6. QED  BY <1>7, <2>5, <5>2, <5>3, <5>4, <5>5 DEF Brings
      <4>5. library[k].at <= saved => library[k].is # "gone"  BY <3>2, <4>1, <4>2
      <4>6. library[k].at <= saved => InStep(k)'
        <5>1. ASSUME library[k].at <= saved PROVE InStep(k)'
          <6>1. InStep(k) /\ library[k].is # "gone"  BY <2>13, <4>5, <5>1 DEF Known
          <6>2. nodes'[k] = n /\ library' = library  BY <2>3, <2>10, <3>5
          <6>3. QED  BY <2>4, <3>5, <6>1, <6>2 DEF InStep
        <5>2. QED  BY <5>1
      <4>7. QED  BY <4>4, <4>6
    <3>6. QED  BY <3>4, <3>5
  <2>14. UNCHANGED <<library, version, saved, link, excused>>  BY <2>3
  <2>15. \A k \in Keys \ excused : Known(k) /\ Brings(Me(s), k) =>
           /\ library[k].at <= saved => InStep(k)'
           /\ next.pc \notin {"idle", "sleep"} => Brings(next, k)'
    BY <1>0, <2>13
  <2>16. QED  BY <1>1, <2>3, <2>5, <2>7, <2>10, <2>11, <2>12, <2>14, <2>15, SyncMoves
<1>15. QED  BY <1>11, <1>12, <1>13, <1>14

LEMMA FindAgainKeeps ==
  ASSUME IInv, NEW s \in Syncers, FindAgain(s)
  PROVE  IInv'
<1>0. PICK me : me = Me(s)  OBVIOUS
<1>1. /\ me \in Sync /\ Placed(me) /\ me.pc = "again" /\ me.item \in Item /\ Works(s)
  BY <1>0, MyPlace DEF FindAgain, Works
<1>2. PICK next : next = IF nodes[me.item.key].state = "live" THEN Decide(me, nodes[me.item.key])
                         ELSE NotFound(me)
  OBVIOUS
<1>3. Only(s, next)  BY <1>0, <1>2 DEF FindAgain
<1>4. next \in Sync /\ WellPlaced(next) /\ \A k \in Keys : Brings(me, k) => Brings(next, k)
  <2>1. CASE nodes[me.item.key].state = "live"  BY <1>1, <1>2, <2>1, DecideIs
  <2>2. CASE nodes[me.item.key].state # "live"  BY <1>1, <1>2, <2>2, NotFoundIs
  <2>3. QED  BY <2>1, <2>2
<1>5. QED  BY <1>0, <1>1, <1>3, <1>4, OnlyMoves

\* What cannot be written is an error, and the sync goes on.
LEMMA ErrorKeeps ==
  ASSUME IInv, NEW s \in Syncers, Works(s), Me(s).pc # "versions", Only(s, Error(Me(s)))
  PROVE  IInv'
<1>0. PICK me : me = Me(s)  OBVIOUS
<1>1. me \in Sync /\ Placed(me)  BY <1>0, MyPlace
<1>2. Error(me) \in Sync /\ WellPlaced(Error(me))  BY <1>1, ErrorIs, LetGo
<1>3. \A k \in Keys : Brings(me, k) => Brings(Error(me), k)  BY <1>0, <1>1, LetsGo
<1>4. QED  BY <1>0, <1>2, <1>3, OnlyMoves

LEMMA CreateKeeps ==
  ASSUME IInv, NEW s \in Syncers, Create(s)
  PROVE  IInv'
<1>0. PICK me : me = Me(s)  OBVIOUS
<1>1. /\ me \in Sync /\ WellPlaced(me) /\ me.pc = "create" /\ me.item \in Item /\ Works(s)
  BY <1>0, MyPlace DEF Create, Works
<1>2. PICK kk : kk = me.item.key  OBVIOUS
<1>3. kk \in Keys  BY <1>1, <1>2 DEF Item
<1>4. CASE nodes[kk].state # "absent"
  <2>1. Only(s, Error(Me(s)))  BY <1>0, <1>2, <1>4 DEF Create
  <2>2. QED  BY <1>0, <1>1, <2>1, ErrorKeeps
<1>5. CASE nodes[kk].state = "absent"
  <2>1. PICK n : n = [NoNode EXCEPT !.state = "live", !.version = 1, !.held = me.item.at,
                                    !.synced = 1, !.flagged = (me.item.is = "trash")]
    OBVIOUS
  <2>2. Writes(s, kk, n)  BY <1>0, <1>2, <1>5, <2>1 DEF Create
  <2>3. me.item.at \in Nat /\ me.item.is \in {"live", "trash"}
    <3>1. me.item.is # "gone"  BY <1>1 DEF WellPlaced
    <3>2. me.item \in Holds(me)  BY <1>1, Held, NothingAssumption
    <3>3. me.item.is # "none"  BY <1>1, <3>2 DEF WellPlaced
    <3>4. QED  BY <1>1, <3>1, <3>3 DEF Item
  <2>4. /\ n \in Node /\ n.state = "live" /\ n.version = 1 /\ n.synced = 1 /\ ~n.edited
        /\ n.held = me.item.at /\ n.flagged = (me.item.is = "trash")
    BY <2>1, <2>3 DEF NoNode, Node
  <2>5. Follows(n, nodes[kk]) /\ Synced(n)  BY <1>5, <2>4 DEF Follows, Synced
  <2>6. library[kk] = me.item => InStep(kk)'
    <3>1. nodes' = [nodes EXCEPT ![kk] = n] /\ library' = library  BY <2>2 DEF Writes, zotero
    <3>2. nodes'[kk] = n  BY <1>3, <3>1 DEF IInv, TypeOK
    <3>3. QED  BY <2>3, <2>4, <3>1, <3>2 DEF InStep
  <2>7. QED  BY <1>0, <1>1, <1>2, <1>3, <2>2, <2>4, <2>5, <2>6, WriteMoves
<1>6. QED  BY <1>4, <1>5

LEMMA EditKeeps ==
  ASSUME IInv, NEW s \in Syncers, Edit(s)
  PROVE  IInv'
<1>0. PICK me : me = Me(s)  OBVIOUS
<1>1. /\ me \in Sync /\ WellPlaced(me) /\ Placed(me) /\ me.pc = "edit" /\ me.item \in Item /\ Works(s)
  BY <1>0, MyPlace DEF Edit, Works
<1>2. PICK n : n = nodes[me.item.key]  OBVIOUS
<1>3. CASE n.state # "live"
  <2>1. Only(s, Error(Me(s)))  BY <1>0, <1>2, <1>3 DEF Edit
  <2>2. QED  BY <1>0, <1>1, <2>1, ErrorKeeps
<1>4. CASE n.state = "live"
  <2>1. PICK next : next = [me EXCEPT !.pc = "save", !.read = n.version]  OBVIOUS
  <2>2. Only(s, next)  BY <1>0, <1>2, <1>4, <2>1 DEF Edit
  <2>3. n.version \in Nat
    <3>1. me.item.key \in Keys  BY <1>1 DEF Item
    <3>2. QED  BY <1>2, <3>1, AllTyped DEF IInv
  <2>4. /\ next \in Sync /\ next.pc = "save" /\ next.item = me.item
        /\ next.was = me.was /\ next.since = me.since /\ next.latest = me.latest /\ next.todo = me.todo
        /\ next.got = me.got /\ next.removing = me.removing /\ next.errors = me.errors
        /\ Holds(next) = Holds(me)
    BY <1>1, <2>1, <2>3 DEF Sync, Places, Holds
  <2>5. WellPlaced(next)  BY <1>1, <2>4, NothingAssumption DEF WellPlaced
  <2>6. \A k \in Keys : Brings(me, k) => Brings(next, k)  BY <1>1, <2>4 DEF Brings
  <2>7. QED  BY <1>0, <1>1, <2>2, <2>4, <2>5, <2>6, OnlyMoves
<1>5. QED  BY <1>3, <1>4

LEMMA SaveKeeps ==
  ASSUME IInv, NEW s \in Syncers, Save(s)
  PROVE  IInv'
<1>0. PICK me : me = Me(s)  OBVIOUS
<1>1. /\ me \in Sync /\ WellPlaced(me) /\ Placed(me) /\ me.pc = "save" /\ me.item \in Item /\ Works(s)
  BY <1>0, MyPlace DEF Save, Works
<1>2. PICK kk : kk = me.item.key  OBVIOUS
<1>3. kk \in Keys  BY <1>1, <1>2 DEF Item
<1>4. PICK old : old = nodes[kk]  OBVIOUS
<1>5. old \in Node /\ old.version \in Nat /\ old.held \in Nat
  BY <1>3, <1>4, AllTyped DEF IInv
<1>6. CASE old.state # "live"
  <2>1. Only(s, Error(Me(s)))  BY <1>0, <1>2, <1>4, <1>6 DEF Save
  <2>2. QED  BY <1>0, <1>1, <2>1, ErrorKeeps
<1>7. CASE old.state = "live" /\ old.version # me.read /\ me.tries = Attempts
  <2>1. Only(s, Error(Me(s)))  BY <1>0, <1>2, <1>4, <1>7 DEF Save
  <2>2. QED  BY <1>0, <1>1, <2>1, ErrorKeeps
<1>8. CASE old.state = "live" /\ old.version # me.read /\ me.tries # Attempts
  <2>0. PICK t \in Nat : t = me.tries + 1  BY <1>1 DEF Sync
  <2>1. PICK next : next = [me EXCEPT !.pc = "edit", !.tries = t]  OBVIOUS
  <2>2. Only(s, next)  BY <1>0, <1>2, <1>4, <1>8, <2>0, <2>1 DEF Save
  <2>3. /\ next \in Sync /\ next.pc = "edit" /\ next.item = me.item
        /\ next.was = me.was /\ next.since = me.since /\ next.latest = me.latest /\ next.todo = me.todo
        /\ next.got = me.got /\ next.removing = me.removing /\ next.errors = me.errors
        /\ Holds(next) = Holds(me)
    BY <1>1, <2>1 DEF Sync, Places, Holds
  <2>4. WellPlaced(next)  BY <1>1, <2>3, NothingAssumption DEF WellPlaced
  <2>5. \A k \in Keys : Brings(me, k) => Brings(next, k)  BY <1>1, <2>3 DEF Brings
  <2>6. QED  BY <1>0, <1>1, <2>2, <2>3, <2>4, <2>5, OnlyMoves
<1>9. CASE old.state = "live" /\ old.version = me.read
  <2>1. PICK n : n = Updated(old, me.item)  OBVIOUS
  <2>2. Writes(s, kk, n)  BY <1>0, <1>2, <1>4, <1>9, <2>1 DEF Save
  <2>3. me.item.at \in Nat /\ me.item.is \in {"live", "trash", "gone"}
    <3>1. me.item \in Holds(me)  BY <1>1, Held, NothingAssumption
    <3>2. me.item.is # "none"  BY <1>1, <3>1 DEF WellPlaced
    <3>3. QED  BY <1>1, <3>2 DEF Item
  <2>4. /\ n \in Node /\ n.state = "live"
        /\ n.version = old.version + 1 /\ n.synced = old.version + 1
        /\ n.flagged = (me.item.is # "live")
        /\ me.item.is # "gone" => n.held = me.item.at /\ ~n.edited
        /\ me.item.is = "gone" => n.flagged
    <3>1. PICK v \in Nat : v = old.version + 1  BY <1>5
    <3>2. PICK f \in BOOLEAN : f = (me.item.is # "live")  OBVIOUS
    <3>3. CASE me.item.is = "gone"
      <4>1. n = [old EXCEPT !.version = v, !.synced = v, !.flagged = f, !.held = old.held,
                            !.edited = old.edited]
        BY <2>1, <3>1, <3>2, <3>3 DEF Updated
      <4>2. /\ n \in Node /\ n.state = old.state /\ n.version = v /\ n.synced = v /\ n.flagged = f
        BY <1>5, <4>1 DEF Node
      <4>3. f = TRUE  BY <3>2, <3>3
      <4>4. QED  BY <1>9, <3>1, <3>2, <3>3, <4>2, <4>3
    <3>4. CASE me.item.is # "gone"
      <4>1. n = [old EXCEPT !.version = v, !.synced = v, !.flagged = f, !.held = me.item.at,
                            !.edited = FALSE]
        BY <2>1, <3>1, <3>2, <3>4 DEF Updated
      <4>2. /\ n \in Node /\ n.state = old.state /\ n.version = v /\ n.synced = v /\ n.flagged = f
            /\ n.held = me.item.at /\ ~n.edited
        BY <1>5, <2>3, <4>1 DEF Node
      <4>3. QED  BY <1>9, <3>1, <3>2, <3>4, <4>2
    <3>5. QED  BY <3>3, <3>4
  <2>5. Follows(n, nodes[kk])  BY <1>4, <1>5, <2>4 DEF Follows
  <2>6. Synced(n)  BY <1>5, <2>3, <2>4 DEF Synced
  <2>7. library[kk] = me.item => InStep(kk)'
    <3>1. nodes' = [nodes EXCEPT ![kk] = n] /\ library' = library  BY <2>2 DEF Writes, zotero
    <3>2. nodes'[kk] = n  BY <1>3, <3>1 DEF IInv, TypeOK
    <3>3. QED  BY <2>3, <2>4, <3>1, <3>2 DEF InStep
  <2>8. QED  BY <1>0, <1>1, <1>2, <1>3, <2>2, <2>4, <2>5, <2>6, <2>7, WriteMoves
<1>10. QED  BY <1>6, <1>7, <1>8, <1>9

LEMMA DeleteKeeps ==
  ASSUME IInv, NEW s \in Syncers, Delete(s)
  PROVE  IInv'
<1>0. PICK me : me = Me(s)  OBVIOUS
<1>1. /\ me \in Sync /\ WellPlaced(me) /\ me.pc = "delete" /\ me.item \in Item /\ Works(s)
  BY <1>0, MyPlace DEF Delete, Works
<1>2. PICK kk : kk = me.item.key  OBVIOUS
<1>3. kk \in Keys /\ nodes[kk] \in Node  BY <1>1, <1>2 DEF Item, IInv, TypeOK
<1>4. CASE nodes[kk].state # "live" \/ nodes[kk].referenced
  <2>1. Only(s, Error(Me(s)))  BY <1>0, <1>2, <1>4 DEF Delete
  <2>2. QED  BY <1>0, <1>1, <2>1, ErrorKeeps
<1>5. CASE ~(nodes[kk].state # "live" \/ nodes[kk].referenced)
  <2>1. PICK n : n = [nodes[kk] EXCEPT !.state = "deleted"]  OBVIOUS
  <2>2. Writes(s, kk, n)  BY <1>0, <1>2, <1>5, <2>1 DEF Delete
  <2>3. /\ n \in Node /\ n.state = "deleted" /\ n.version = nodes[kk].version
        /\ n.synced = nodes[kk].synced /\ n.edited = nodes[kk].edited
        /\ n.flagged = nodes[kk].flagged
    BY <1>3, <2>1 DEF Node
  <2>4. Follows(n, nodes[kk])  BY <1>3, <2>3 DEF Follows, Node
  <2>5. Synced(n)  BY <1>3, <2>3 DEF IInv, WellKnown, Synced
  <2>6. library[kk] = me.item => InStep(kk)'
    <3>1. nodes' = [nodes EXCEPT ![kk] = n] /\ library' = library  BY <2>2 DEF Writes, zotero
    <3>2. nodes'[kk] = n  BY <1>3, <3>1 DEF IInv, TypeOK
    <3>3. me.item.is = "gone"  BY <1>1 DEF WellPlaced
    <3>4. QED  BY <2>3, <3>1, <3>2, <3>3 DEF InStep
  <2>7. QED  BY <1>0, <1>1, <1>2, <1>3, <2>2, <2>3, <2>4, <2>5, <2>6, WriteMoves
<1>6. QED  BY <1>4, <1>5

LEMMA Bounded == MaxFaults \in Nat /\ MaxActs \in Nat
  BY ZoteroAssumption, Zenon DEF ZoteroAssumption

LEMMA WriteFailsKeeps ==
  ASSUME IInv, NEW s \in Syncers, WriteFails(s)
  PROVE  IInv'
<1>0. PICK me : me = Me(s)  OBVIOUS
<1>1. me \in Sync /\ Placed(me) /\ me.pc # "versions" /\ Works(s)
  BY <1>0, MyPlace DEF WriteFails, Works
<1>2. Error(me) \in Sync /\ WellPlaced(Error(me))  BY <1>1, ErrorIs, LetGo
<1>3. /\ UNCHANGED <<library, version, nodes, saved, lastError, pending, wake, stream, event, link,
                     asked, acts, scenario, excused>>
      /\ Become(s, Error(me)) /\ faults < MaxFaults /\ faults' = faults + 1
  BY <1>0 DEF WriteFails, Fault, Faulty, zotero, watching, people
<1>4. faults' \in 0..MaxFaults  BY <1>3, Bounded DEF IInv, TypeOK
<1>5. TypeOK'  BY <1>2, <1>3, <1>4 DEF IInv, TypeOK, Become
<1>6. \A k \in Keys : Brings(me, k) => Brings(Error(me), k)  BY <1>1, LetsGo
<1>7. UNCHANGED <<library, version, nodes, saved, link, excused>>  BY <1>3
<1>8. QED  BY <1>0, <1>1, <1>2, <1>3, <1>5, <1>6, <1>7, PlaceMoves

LEMMA NoSyncPlaced ==
  ASSUME TypeOK
  PROVE  WellPlaced(NoSync)
<1>1. Holds(NoSync) = {}  BY NoSyncIs DEF Holds
<1>2. version \in Nat  BY DEF TypeOK
<1>3. QED  BY <1>1, <1>2, NoSyncIs DEF WellPlaced

LEMMA RequestFailsKeeps ==
  ASSUME IInv, NEW s \in Syncers, RequestFails(s)
  PROVE  IInv'
<1>0. PICK me : me = Me(s)  OBVIOUS
<1>1. PICK next : next = IF s = Watcher THEN [NoSync EXCEPT !.pc = "sleep"] ELSE NoSync  OBVIOUS
<1>2. /\ next \in Sync /\ next.pc \in {"idle", "sleep"} /\ next.todo = {} /\ next.got = {}
      /\ next.item = Nothing /\ next.latest = 0 /\ next.was = 0 /\ ~next.removing
  <2>1. PICK n : n = NoSync  OBVIOUS
  <2>2. /\ n \in Sync /\ n.pc = "idle" /\ n.todo = {} /\ n.got = {} /\ n.item = Nothing
        /\ n.latest = 0 /\ n.was = 0 /\ ~n.removing
    BY <2>1, NoSyncIs
  <2>3. next = [n EXCEPT !.pc = "sleep"] \/ next = n  BY <1>1, <2>1
  <2>4. QED  BY <2>2, <2>3 DEF Sync, Places
<1>3. WellPlaced(next)
  <2>1. version \in Nat  BY DEF IInv, TypeOK
  <2>2. QED  BY <1>2, <2>1 DEF WellPlaced, Holds
<1>4. /\ UNCHANGED <<library, version, nodes, link, excused>>
      /\ Become(s, next) /\ faults < MaxFaults /\ faults' = faults + 1 /\ saved' = me.was
      /\ lastError' = "zotero" /\ pending' \in {pending, TRUE}
      /\ UNCHANGED <<wake, stream, event, asked, acts, scenario>>
  BY <1>0, <1>1 DEF RequestFails, Fault, Faulty, zotero, people
<1>5. faults' \in 0..MaxFaults  BY <1>4, Bounded DEF IInv, TypeOK
<1>6. me.was \in Nat /\ me.was <= version /\ Works(s)
  BY <1>0, MyPlace DEF RequestFails, Works, WellPlaced, Sync
<1>7. TypeOK'  BY <1>2, <1>4, <1>5, <1>6 DEF IInv, TypeOK, Become
<1>8. \A k \in Keys \ excused : saved' = saved
  <2>1. ASSUME NEW k \in Keys \ excused PROVE saved' = saved
    <3>1. Brings(me, k)  BY <1>0, <1>6 DEF IInv, Known
    <3>2. QED  BY <1>4, <3>1 DEF Brings
  <2>2. QED  BY <2>1
<1>9. UNCHANGED <<library, version, nodes, link, excused>> /\ saved' <= version  BY <1>4, <1>6
<1>10. QED  BY <1>2, <1>3, <1>4, <1>7, <1>8, <1>9, Stops

LEMMA CrashKeeps ==
  ASSUME IInv, NEW s \in Syncers, Crash(s)
  PROVE  IInv'
<1>1. /\ UNCHANGED <<library, version, nodes, saved, link, excused>>
      /\ Become(s, NoSync) /\ faults < MaxFaults /\ faults' = faults + 1
      /\ pending' \in {pending, TRUE} /\ wake' \in {wake, TRUE}
      /\ stream' \in {stream, "down"} /\ event' \in {event, FALSE}
      /\ UNCHANGED <<lastError, asked, acts, scenario>>
  BY DEF Crash, Fault, Faulty, zotero, people, watching
<1>2. faults' \in 0..MaxFaults  BY <1>1, Bounded DEF IInv, TypeOK
<1>3. TypeOK'  BY <1>1, <1>2, NoSyncIs DEF IInv, TypeOK, Become
<1>4. WellPlaced(NoSync)  BY NoSyncPlaced DEF IInv
<1>5. UNCHANGED <<library, version, nodes, saved, link, excused>> /\ saved' <= version
  BY <1>1 DEF IInv
<1>6. QED  BY <1>1, <1>3, <1>4, <1>5, NoSyncIs, Stops

LEMMA SleptKeeps ==
  ASSUME IInv, Slept
  PROVE  IInv'
<1>1. /\ UNCHANGED <<library, version, nodes, saved, link, excused>>
      /\ Become(Watcher, NoSync) /\ wake' = TRUE
      /\ UNCHANGED <<pending, stream, event, lastError, asked, acts, scenario, faults>>
  BY DEF Slept, zotero, people, Woken
<1>2. TypeOK'  BY <1>1, NoSyncIs DEF IInv, TypeOK, Become
<1>3. WellPlaced(NoSync)  BY NoSyncPlaced DEF IInv
<1>4. UNCHANGED <<library, version, nodes, saved, link, excused>> /\ saved' <= version
  BY <1>1 DEF IInv
<1>5. Watcher \in Syncers  BY DEF Syncers
<1>6. QED  BY <1>1, <1>2, <1>3, <1>4, <1>5, NoSyncIs, Stops

\* The version is stored when there is nothing left to bring.
LEMMA StoreKeeps ==
  ASSUME IInv, NEW s \in Syncers, Store(s)
  PROVE  IInv'
<1>0. PICK me : me = Me(s)  OBVIOUS
<1>1. /\ me \in Sync /\ WellPlaced(me) /\ me.pc = "store" /\ Works(s)
      /\ me.got = {} /\ me.todo = {} /\ me.item = Nothing /\ (me.removing \/ me.since = 0)
      /\ me.latest \in Nat /\ me.latest <= version /\ (me.removing => me.since # 0)
      /\ me.was \in Nat /\ me.was <= version
  BY <1>0, MyPlace DEF Store, Works, WellPlaced, Sync
<1>2. /\ UNCHANGED <<library, version, nodes, link>>
      /\ UNCHANGED <<pending, wake, stream, event, asked, acts, scenario, faults>>
      /\ saved' = Stored(me) /\ lastError' \in {"items", "none"} /\ Become(s, NoSync)
      /\ excused' = excused \cup Unasked(me)
  BY <1>0 DEF Store, zotero, watching, people
<1>3. \/ saved' = me.was /\ me.errors
      \/ saved' = me.latest /\ ~me.errors
  BY <1>1, <1>2 DEF Stored, Sync
<1>4. saved' \in Nat /\ saved' <= version'  BY <1>1, <1>2, <1>3 DEF IInv, TypeOK
<1>5. TypeOK'
  <2>1. excused' \subseteq Keys  BY <1>2 DEF IInv, TypeOK, Unasked
  <2>2. QED  BY <1>2, <1>4, <2>1, NoSyncIs DEF IInv, TypeOK, Become
<1>6. Me(s)' = NoSync /\ \A r \in Syncers \ {s} : Me(r)' = Me(r)
  BY <1>2 DEF IInv, TypeOK, Become, Me
<1>7. \A k \in Keys : InStep(k)' <=> InStep(k)  BY <1>2 DEF InStep
<1>8. \A k \in Keys : WellKnown(k)'  BY <1>2 DEF IInv, WellKnown
<1>9. \A r \in Syncers : WellPlaced(Me(r))'
  <2>1. WellPlaced(Me(s))'
    <3>1. WellPlaced(NoSync)  BY NoSyncPlaced DEF IInv
    <3>2. NoSync' = NoSync  BY DEF NoSync, NoNode
    <3>3. QED  BY <1>2, <1>6, <3>1 DEF WellPlaced, Holds, Decided
  <2>2. ASSUME NEW r \in Syncers \ {s} PROVE WellPlaced(Me(r))'
    <3>1. WellPlaced(Me(r)) /\ Me(r)' = Me(r)  BY <1>6 DEF IInv
    <3>2. QED  BY <3>1, <1>2 DEF WellPlaced, Holds, Decided
  <2>3. QED  BY <2>1, <2>2
<1>10. ASSUME NEW k \in Keys \ excused' PROVE Known(k)'
  <2>1. Known(k) /\ Brings(me, k) /\ \A r \in Syncers \ {s} : ~Works(r)
    BY <1>0, <1>1, <1>2 DEF IInv, Known
  <2>2. \A r \in Syncers : ~Works(r)'
    <3>1. ~Works(s)'  BY <1>6, NoSyncIs DEF Works
    <3>2. QED  BY <1>6, <2>1, <3>1 DEF Works
  <2>3. library[k] \in Item /\ library[k].at \in Nat /\ library[k] # Nothing
    BY AllTyped, NothingAssumption DEF IInv
  <2>4. library[k].at <= saved' => InStep(k)'
    <3>1. CASE me.errors
      <4>1. saved' = saved  BY <1>3, <2>1, <3>1 DEF Brings
      <4>2. QED  BY <1>2, <1>7, <2>1, <4>1 DEF Known
    <3>2. CASE ~me.errors /\ library[k].at <= me.latest
      <4>1. \/ InStep(k)
            \/ library[k].is = "gone" /\ (me.since = 0 \/ ~me.removing)
        BY <1>1, <2>1, <2>3, <3>2 DEF Brings
      <4>2. CASE library[k].is = "gone" /\ me.since = 0
        <5>1. k \notin Unasked(me)  BY <1>2
        <5>2. ~(nodes[k].state = "live" /\ ~nodes[k].flagged)  BY <3>2, <4>2, <5>1 DEF Unasked
        <5>3. InStep(k)  BY <4>2, <5>2 DEF InStep
        <5>4. QED  BY <1>7, <5>3
      <4>3. QED  BY <1>1, <1>7, <4>1, <4>2
    <3>3. QED  BY <1>3, <3>1, <3>2
  <2>5. ~(link # Nothing /\ link.key = k)  BY <1>1, <2>1 DEF Known
  <2>6. QED  BY <1>2, <2>2, <2>4, <2>5 DEF Known
<1>11. QED  BY <1>2, <1>4, <1>5, <1>8, <1>9, <1>10 DEF IInv

\* A sync that begins brings what there is: another one excuses everything.
LEMMA BeginKeeps ==
  ASSUME IInv, NEW s \in Syncers, NEW full \in BOOLEAN, Begin(s, full),
         pending' \in BOOLEAN, wake' \in BOOLEAN, acts' \in 0..MaxActs
  PROVE  IInv'
<1>1. PICK next : next = [NoSync EXCEPT !.pc = "versions", !.was = saved,
                                        !.since = IF full THEN 0 ELSE saved]
  OBVIOUS
<1>2. /\ next \in Sync /\ next.pc = "versions" /\ next.since \in {0, saved} /\ next.latest = 0
      /\ next.was = saved /\ saved \in Nat /\ saved <= version
      /\ next.todo = {} /\ next.got = {} /\ next.item = Nothing /\ ~next.removing
  <2>1. PICK n : n = NoSync  OBVIOUS
  <2>2. PICK since \in Nat : since = (IF full THEN 0 ELSE saved)  BY DEF IInv, TypeOK
  <2>3. next = [n EXCEPT !.pc = "versions", !.was = saved, !.since = since]  BY <1>1, <2>1, <2>2
  <2>4. n \in Sync /\ n.todo = {} /\ n.got = {} /\ n.item = Nothing /\ n.latest = 0 /\ ~n.removing
    BY <2>1, NoSyncIs
  <2>5. saved \in Nat /\ saved <= version  BY DEF IInv, TypeOK
  <2>6. QED  BY <2>2, <2>3, <2>4, <2>5 DEF Sync, Places
<1>3. Holds(next) = {}  BY <1>2 DEF Holds
<1>4. /\ UNCHANGED <<library, version, nodes, saved, link, lastError, stream, event, asked, scenario, faults>>
      /\ Become(s, next) /\ Me(s).pc = "idle"
      /\ excused' = IF \E r \in Syncers \ {s} : Me(r).pc \notin {"idle", "sleep"} THEN Keys
                    ELSE IF link # Nothing THEN excused \cup {link.key} ELSE excused
  BY <1>1 DEF Begin, zotero
<1>5. /\ excused \subseteq excused' /\ excused' \subseteq Keys
      /\ \A k \in Keys \ excused' : \A r \in Syncers \ {s} : ~Works(r)
      /\ \A k \in Keys \ excused' : link # Nothing => link.key # k
  <2>1. excused \subseteq Keys /\ (link # Nothing => link.key \in Keys)  BY DEF IInv, TypeOK, Item
  <2>2. QED  BY <1>4, <2>1 DEF Works
<1>6. TypeOK'  BY <1>2, <1>4, <1>5 DEF IInv, TypeOK, Become
<1>7. Me(s)' = next /\ \A r \in Syncers \ {s} : Me(r)' = Me(r)
  BY <1>4 DEF IInv, TypeOK, Become, Me
<1>8. \A k \in Keys : InStep(k)' <=> InStep(k)  BY <1>4 DEF InStep
<1>9. \A k \in Keys : WellKnown(k)'  BY <1>4 DEF IInv, WellKnown
<1>10. \A r \in Syncers : WellPlaced(Me(r))'
  <2>1. WellPlaced(Me(s))'
    <3>1. version \in Nat  BY DEF IInv, TypeOK
    <3>2. QED  BY <1>2, <1>4, <1>7, <3>1 DEF WellPlaced, Holds
  <2>2. ASSUME NEW r \in Syncers \ {s} PROVE WellPlaced(Me(r))'
    <3>1. WellPlaced(Me(r)) /\ Me(r)' = Me(r)  BY <1>7 DEF IInv
    <3>2. QED  BY <3>1, <1>4 DEF WellPlaced, Holds, Decided
  <2>3. QED  BY <2>1, <2>2
<1>11. ASSUME NEW k \in Keys \ excused' PROVE Known(k)'
  <2>1. Known(k)  BY <1>5 DEF IInv
  <2>2. \A r \in Syncers \ {s} : ~Works(r)'  BY <1>5, <1>7 DEF Works
  <2>3. Brings(Me(s), k)'  BY <1>2, <1>4, <1>7 DEF Brings, Holds
  <2>4. library'[k].at <= saved' => InStep(k)'  BY <1>4, <1>8, <2>1 DEF Known
  <2>5. ~(link' # Nothing /\ link'.key = k)  BY <1>4, <1>5
  <2>6. QED  BY <2>2, <2>3, <2>4, <2>5 DEF Known
<1>12. QED  BY <1>4, <1>6, <1>9, <1>10, <1>11 DEF IInv

LEMMA WatcherSyncsKeeps ==
  ASSUME IInv, WatcherSyncs
  PROVE  IInv'
<1>1. Watcher \in Syncers  BY DEF Syncers
<1>2. /\ Begin(Watcher, FALSE) /\ pending' \in BOOLEAN /\ wake' \in BOOLEAN /\ acts' \in 0..MaxActs
  BY DEF WatcherSyncs, IInv, TypeOK
<1>3. QED  BY <1>1, <1>2, BeginKeeps

LEMMA ByHandSyncsKeeps ==
  ASSUME IInv, ByHandSyncs
  PROVE  IInv'
<1>1. ByHand \in Syncers  BY DEF Syncers
<1>2. PICK full \in BOOLEAN : Begin(ByHand, full)  BY Zenon DEF ByHandSyncs
<1>3. acts < MaxActs /\ acts' = acts + 1 /\ UNCHANGED <<pending, wake>>
  BY Zenon DEF ByHandSyncs
<1>4. pending' \in BOOLEAN /\ wake' \in BOOLEAN /\ acts' \in 0..MaxActs
  BY <1>3, Bounded DEF IInv, TypeOK
<1>5. QED  BY <1>1, <1>2, <1>4, BeginKeeps

\* What changes in Zotero is later than what any sync is to bring.
LEMMA ChangeKeeps ==
  ASSUME IInv, NEW kk \in Keys, NEW is \in {"live", "trash", "gone"}, Change(kk, is)
  PROVE  IInv'
<1>1. /\ UNCHANGED <<nodes, saved, lastError, sync, pending, wake, stream, link, asked, acts,
                     scenario, faults, excused>>
      /\ version' = version + 1 /\ event' \in BOOLEAN
      /\ library' = [library EXCEPT ![kk] = [library[kk] EXCEPT !.at = version', !.is = is]]
  BY DEF Change, people, IInv, TypeOK
<1>2. version \in Nat /\ saved \in Nat /\ saved <= version /\ version' \in Nat
  BY <1>1 DEF IInv, TypeOK
<1>3. PICK v \in Nat : v = version'  BY <1>2
<1>4. PICK item : item = [library[kk] EXCEPT !.at = v, !.is = is]  OBVIOUS
<1>5. library[kk] \in Item /\ library[kk].key = kk  BY DEF IInv, TypeOK, WellKnown
<1>6. item \in Item /\ item.key = kk /\ item.at = version + 1 /\ item.is = is
  BY <1>1, <1>3, <1>4, <1>5 DEF Item
<1>7. library'[kk] = item /\ \A k \in Keys \ {kk} : library'[k] = library[k]
  BY <1>1, <1>3, <1>4 DEF IInv, TypeOK
<1>8. library' \in [Keys -> Item]  BY <1>1, <1>3, <1>4, <1>6 DEF IInv, TypeOK
<1>9. TypeOK'  BY <1>1, <1>2, <1>8 DEF IInv, TypeOK
<1>10. ASSUME NEW k \in Keys PROVE WellKnown(k)'
  <2>1. WellKnown(k) /\ library[k].at \in Nat  BY AllTyped DEF IInv
  <2>2. CASE k = kk  BY <1>1, <1>2, <1>6, <1>7, <2>1, <2>2 DEF WellKnown
  <2>3. CASE k # kk  BY <1>1, <1>2, <1>7, <2>1, <2>3 DEF WellKnown
  <2>4. QED  BY <2>2, <2>3
<1>11. ASSUME NEW s \in Syncers PROVE WellPlaced(Me(s))'
  <2>1. Me(s)' = Me(s)  BY <1>1 DEF Me
  <2>2. WellPlaced(Me(s)) /\ Me(s).todo \subseteq Keys /\ Me(s).latest \in Nat
        /\ Me(s).was \in Nat
    BY AllTyped DEF IInv
  <2>3. \A k \in Me(s).todo : library'[k].is # "none"
    BY <1>6, <1>7, <2>2 DEF WellPlaced
  <2>4. Me(s).latest <= version' /\ Me(s).was <= version'  BY <1>1, <1>2, <2>2 DEF WellPlaced
  <2>5. QED  BY <1>1, <2>1, <2>2, <2>3, <2>4 DEF WellPlaced, Holds, Decided
<1>12. ASSUME NEW k \in Keys \ excused PROVE Known(k)'
  <2>1. Known(k)  BY DEF IInv
  <2>2. CASE k # kk
    <3>1. library'[k] = library[k]  BY <1>7, <2>2
    <3>2. InStep(k)' <=> InStep(k)  BY <1>1, <3>1 DEF InStep
    <3>3. QED  BY <1>1, <2>1, <3>1, <3>2 DEF Known, Works, Brings, Holds, Me
  <2>3. CASE k = kk
    <3>1. library'[k].at = version + 1  BY <1>6, <1>7, <2>3
    <3>2. ASSUME NEW s \in Syncers, Works(s)
          PROVE  Brings(Me(s), k)' /\ \A r \in Syncers \ {s} : ~Works(r)'
      <4>1. Brings(Me(s), k) /\ \A r \in Syncers \ {s} : ~Works(r)  BY <2>1, <3>2 DEF Known
      <4>2. Me(s).latest \in Nat /\ Me(s).latest <= version  BY AllTyped DEF IInv, WellPlaced
      <4>3. Me(s)' = Me(s) /\ \A r \in Syncers : Me(r)' = Me(r)  BY <1>1 DEF Me
      <4>4. library'[k].at > saved /\ library'[k].at > Me(s).latest
        BY <1>2, <3>1, <4>2
      <4>5. ~(library'[k].at <= Me(s).latest)  BY <1>2, <3>1, <4>2
      <4>6. Brings(Me(s), k)'  BY <1>1, <4>1, <4>3, <4>4, <4>5 DEF Brings, Holds
      <4>7. QED  BY <4>1, <4>3, <4>6 DEF Works
    <3>3. library'[k].at > saved /\ ~(library'[k].at <= saved)  BY <1>2, <3>1
    <3>4. \A s \in Syncers : Works(s)' <=> Works(s)  BY <1>1 DEF Works, Me
    <3>5. QED  BY <1>1, <2>1, <3>2, <3>3, <3>4 DEF Known
  <2>4. QED  BY <2>2, <2>3
<1>13. QED  BY <1>1, <1>2, <1>9, <1>10, <1>11, <1>12 DEF IInv

-----------------------------------------------------------------------------
(* People *)

\* What a person makes of a node: it is as much in step as it was, if it has to be.
LEMMA PersonMoves ==
  ASSUME IInv, TypeOK', NEW kk \in Keys, NEW n \in Node, nodes' = [nodes EXCEPT ![kk] = n],
         Follows(n, nodes[kk]), Synced(n),
         UNCHANGED <<library, version, saved, sync>>, link' = link \/ link' = Nothing,
         excused \subseteq excused',
         kk \notin excused' /\ InStep(kk) /\ (library[kk].at <= saved \/ \E s \in Syncers : Works(s))
           => InStep(kk)'
  PROVE  IInv'
<1>1. /\ \A k \in Keys : WellKnown(k)'
      /\ \A k \in Keys \ {kk} : nodes'[k] = nodes[k] /\ (InStep(k) => InStep(k)')
      /\ \A me \in Sync : WellPlaced(me) => WellPlaced(me)'
  <2>1. UNCHANGED <<library, version>>  OBVIOUS
  <2>2. QED  BY <2>1, NodesFollow
<1>2. \A s \in Syncers : Me(s)' = Me(s)  BY DEF Me
<1>3. ASSUME NEW s \in Syncers PROVE WellPlaced(Me(s))'
  <2>1. PICK me : me = Me(s)  OBVIOUS
  <2>2. me \in Sync /\ WellPlaced(me)  BY <2>1, MyPlace
  <2>3. WellPlaced(me)'  BY <1>1, <2>2
  <2>4. Me(s)' = me  BY <1>2, <2>1
  <2>5. QED  BY <2>3, <2>4 DEF WellPlaced, Holds, Decided
<1>4. ASSUME NEW k \in Keys \ excused' PROVE Known(k)'
  <2>1. Known(k)  BY DEF IInv
  <2>2. InStep(k) /\ (library[k].at <= saved \/ \E s \in Syncers : Works(s)) => InStep(k)'
    BY <1>1
  <2>3. \A s \in Syncers : Works(s)' <=> Works(s)  BY <1>2 DEF Works
  <2>4. ASSUME NEW s \in Syncers, Works(s)
        PROVE  Brings(Me(s), k)' /\ \A r \in Syncers \ {s} : ~Works(r)'
    <3>1. Brings(Me(s), k) /\ \A r \in Syncers \ {s} : ~Works(r)  BY <2>1, <2>4 DEF Known
    <3>2. InStep(k) => InStep(k)'  BY <2>2, <2>4
    <3>3. Brings(Me(s), k)'  BY <1>2, <3>1, <3>2 DEF Brings, Holds
    <3>4. QED  BY <2>3, <3>1, <3>3
  <2>5. library'[k].at <= saved' => InStep(k)'  BY <2>1, <2>2 DEF Known
  <2>6. link' # Nothing /\ link'.key = k =>
          /\ \A s \in Syncers : ~Works(s)'
          /\ library'[k] = link' \/ library'[k].at > saved'
    BY <2>1, <2>3 DEF Known
  <2>7. QED  BY <2>3, <2>4, <2>5, <2>6 DEF Known
<1>5. QED  BY <1>1, <1>3, <1>4 DEF IInv

LEMMA PersonEditsKeeps ==
  ASSUME IInv, NEW k \in Keys, PersonEdits(k)
  PROVE  IInv'
<1>1. PICK old : old = nodes[k]  OBVIOUS
<1>2. old \in Node /\ old.version \in Nat /\ old.state = "live"
  BY <1>1, AllTyped DEF PersonEdits, IInv
<1>3. PICK v \in Nat : v = old.version + 1  BY <1>2
<1>4. PICK n : n = [old EXCEPT !.version = v, !.edited = TRUE]  OBVIOUS
<1>5. /\ n \in Node /\ n.state = "live" /\ n.version = v /\ n.synced = old.synced
      /\ n.flagged = old.flagged /\ n.held = old.held
  BY <1>2, <1>4 DEF Node
<1>6. /\ nodes' = [nodes EXCEPT ![k] = n] /\ acts < MaxActs /\ acts' = acts + 1
      /\ UNCHANGED <<library, version, saved, lastError, sync, pending, wake, stream, event, faults,
                     scenario, link, asked, excused>>
  BY <1>1, <1>3, <1>4 DEF PersonEdits, Acts, zotero, watching, IInv, TypeOK
<1>7. acts' \in 0..MaxActs  BY <1>6, Bounded DEF IInv, TypeOK
<1>8. TypeOK'  BY <1>5, <1>6, <1>7 DEF IInv, TypeOK
<1>9. Follows(n, nodes[k])  BY <1>1, <1>2, <1>3, <1>5 DEF Follows
<1>10. Synced(n)
  <2>1. Synced(old) /\ (old.synced = Nothing \/ old.synced \in Nat)
    BY <1>1, <1>2 DEF IInv, WellKnown, Synced, Node
  <2>2. QED  BY <1>2, <1>3, <1>5, <2>1 DEF Synced
<1>11. InStep(k) => InStep(k)'
  <2>1. nodes'[k] = n /\ library' = library  BY <1>6 DEF IInv, TypeOK
  <2>2. QED  BY <1>1, <1>2, <1>5, <2>1 DEF InStep
<1>12. UNCHANGED <<library, version, saved, sync>> /\ link' = link /\ excused \subseteq excused'
  BY <1>6
<1>13. QED  BY <1>5, <1>6, <1>8, <1>9, <1>10, <1>11, <1>12, PersonMoves

LEMMA PersonCitesKeeps ==
  ASSUME IInv, NEW k \in Keys, PersonCites(k)
  PROVE  IInv'
<1>1. PICK old : old = nodes[k]  OBVIOUS
<1>2. old \in Node /\ old.version \in Nat /\ old.state \in {"absent", "live"}
  BY <1>1, AllTyped DEF PersonCites, IInv, Node
<1>3. PICK n : n = IF old.state = "absent"
                   THEN [NoNode EXCEPT !.state = "live", !.version = 1, !.referenced = TRUE]
                   ELSE [old EXCEPT !.referenced = ~@]
  OBVIOUS
<1>4. /\ nodes' = [nodes EXCEPT ![k] = n] /\ acts < MaxActs /\ acts' = acts + 1
      /\ UNCHANGED <<library, version, saved, lastError, sync, pending, wake, stream, event, faults,
                     scenario, link, asked, excused>>
  BY <1>1, <1>3 DEF PersonCites, Acts, zotero, watching, IInv, TypeOK
<1>5. acts' \in 0..MaxActs  BY <1>4, Bounded DEF IInv, TypeOK
<1>6. UNCHANGED <<library, version, saved, sync>> /\ link' = link /\ excused \subseteq excused'
  BY <1>4
<1>7. CASE old.state = "absent"
  <2>1. n \in Node /\ n.state = "live" /\ n.version = 1 /\ n.synced = Nothing /\ n.held = 0
    BY <1>3, <1>7 DEF NoNode, Node
  <2>2. TypeOK'  BY <1>4, <1>5, <2>1 DEF IInv, TypeOK
  <2>3. Follows(n, nodes[k]) /\ Synced(n)  BY <1>1, <1>7, <2>1 DEF Follows, Synced
  <2>4. InStep(k) => InStep(k)'
    <3>1. nodes'[k] = n /\ library' = library  BY <1>4 DEF IInv, TypeOK
    <3>2. QED  BY <1>1, <1>7, <2>1, <3>1 DEF InStep
  <2>5. QED  BY <1>4, <1>6, <2>1, <2>2, <2>3, <2>4, PersonMoves
<1>8. CASE old.state # "absent"
  <2>1. PICK r \in BOOLEAN : r = ~old.referenced  OBVIOUS
  <2>2. n = [old EXCEPT !.referenced = r]  BY <1>3, <1>8, <2>1
  <2>3. /\ n \in Node /\ n.state = old.state /\ n.version = old.version /\ n.synced = old.synced
        /\ n.flagged = old.flagged /\ n.held = old.held /\ n.edited = old.edited
    BY <1>2, <2>2 DEF Node
  <2>4. TypeOK'  BY <1>4, <1>5, <2>3 DEF IInv, TypeOK
  <2>5. Follows(n, nodes[k])  BY <1>1, <1>2, <1>8, <2>3 DEF Follows
  <2>6. Synced(n)
    <3>1. Synced(old)  BY <1>1 DEF IInv, WellKnown, Synced
    <3>2. QED  BY <2>3, <3>1 DEF Synced
  <2>7. InStep(k) => InStep(k)'
    <3>1. nodes'[k] = n /\ library' = library  BY <1>4 DEF IInv, TypeOK
    <3>2. QED  BY <1>1, <2>3, <3>1 DEF InStep
  <2>8. QED  BY <1>4, <1>6, <2>3, <2>4, <2>5, <2>6, <2>7, PersonMoves
<1>9. QED  BY <1>7, <1>8

LEMMA PersonLooksKeeps ==
  ASSUME IInv, NEW k \in Keys, PersonLooks(k)
  PROVE  IInv'
<1>1. /\ UNCHANGED <<library, version, saved, lastError, sync, pending, wake, stream, event, faults,
                     scenario, nodes, link, excused>>
      /\ acts < MaxActs /\ acts' = acts + 1 /\ asked' = asked \cup {k}
  BY DEF PersonLooks, Acts, zotero, watching
<1>2. acts' \in 0..MaxActs  BY <1>1, Bounded DEF IInv, TypeOK
<1>3. TypeOK'  BY <1>1, <1>2 DEF IInv, TypeOK
<1>4. PICK n : n = nodes[k]  OBVIOUS
<1>5. n \in Node /\ n.version \in Nat  BY <1>4, AllTyped DEF IInv
<1>6. nodes' = [nodes EXCEPT ![k] = n]  BY <1>1, <1>4 DEF IInv, TypeOK
<1>7. n.state # "absent"  BY <1>4 DEF PersonLooks
<1>8. Follows(n, nodes[k]) /\ Synced(n)  BY <1>4, <1>5, <1>7 DEF Follows, Synced, IInv, WellKnown
<1>9. InStep(k) => InStep(k)'  BY <1>1 DEF InStep
<1>10. UNCHANGED <<library, version, saved, sync>> /\ link' = link /\ excused \subseteq excused'
  BY <1>1
<1>11. QED  BY <1>3, <1>5, <1>6, <1>8, <1>9, <1>10, PersonMoves

LEMMA PersonDeletesKeeps ==
  ASSUME IInv, NEW k \in Keys, PersonDeletes(k)
  PROVE  IInv'
<1>1. PICK old : old = nodes[k]  OBVIOUS
<1>2. old \in Node /\ old.version \in Nat  BY <1>1, AllTyped DEF IInv
<1>3. PICK n : n = IF old.state = "live" /\ ~old.referenced
                   THEN [old EXCEPT !.state = "deleted"] ELSE old
  OBVIOUS
<1>4. /\ n \in Node /\ n.version = old.version /\ n.synced = old.synced
      /\ n.flagged = old.flagged /\ n.held = old.held /\ n.edited = old.edited
      /\ n.state = old.state \/ (old.state = "live" /\ n.state = "deleted")
  <2>1. CASE old.state = "live" /\ ~old.referenced  BY <1>2, <1>3, <2>1 DEF Node
  <2>2. CASE ~(old.state = "live" /\ ~old.referenced)  BY <1>2, <1>3, <2>2
  <2>3. QED  BY <2>1, <2>2
<1>5. nodes' = [nodes EXCEPT ![k] = n]
  <2>1. CASE old.state = "live" /\ ~old.referenced
    BY <1>1, <1>3, <2>1 DEF PersonDeletes
  <2>2. CASE ~(old.state = "live" /\ ~old.referenced)
    BY <1>1, <1>3, <2>2 DEF PersonDeletes, IInv, TypeOK
  <2>3. QED  BY <2>1, <2>2
<1>6. /\ UNCHANGED <<library, version, saved, lastError, sync, pending, wake, stream, event, faults,
                     scenario, acts, link, excused>>
      /\ asked' = asked \ {k}
  BY DEF PersonDeletes, zotero, watching
<1>7. TypeOK'  BY <1>4, <1>5, <1>6 DEF IInv, TypeOK
<1>8. Follows(n, nodes[k])  BY <1>1, <1>2, <1>4 DEF Follows
<1>9. Synced(n)
  <2>1. Synced(old)  BY <1>1 DEF IInv, WellKnown, Synced
  <2>2. QED  BY <1>4, <2>1 DEF Synced
<1>10. InStep(k) => InStep(k)'
  <2>1. nodes'[k] = n /\ library' = library  BY <1>5, <1>6 DEF IInv, TypeOK
  <2>2. QED  BY <1>1, <1>4, <2>1 DEF InStep
<1>11. UNCHANGED <<library, version, saved, sync>> /\ link' = link /\ excused \subseteq excused'
  BY <1>6
<1>12. QED  BY <1>4, <1>5, <1>7, <1>8, <1>9, <1>10, <1>11, PersonMoves

LEMMA PersonUndeletesKeeps ==
  ASSUME IInv, NEW k \in Keys, PersonUndeletes(k)
  PROVE  IInv'
<1>1. PICK old : old = nodes[k]  OBVIOUS
<1>2. old \in Node /\ old.version \in Nat  BY <1>1, AllTyped DEF IInv
<1>3. PICK n : n = [old EXCEPT !.state = "live"]  OBVIOUS
<1>4. /\ n \in Node /\ n.state = "live" /\ n.version = old.version /\ n.synced = old.synced
      /\ n.flagged = old.flagged /\ n.edited = old.edited
  BY <1>2, <1>3 DEF Node
<1>5. /\ nodes' = [nodes EXCEPT ![k] = n] /\ acts < MaxActs /\ acts' = acts + 1
      /\ UNCHANGED <<library, version, saved, lastError, sync, pending, wake, stream, event, faults,
                     scenario, link, asked>>
      /\ excused' = excused \cup {k}
  BY <1>1, <1>3 DEF PersonUndeletes, Acts, zotero, watching
<1>6. acts' \in 0..MaxActs  BY <1>5, Bounded DEF IInv, TypeOK
<1>7. TypeOK'  BY <1>4, <1>5, <1>6 DEF IInv, TypeOK
<1>8. Follows(n, nodes[k])  BY <1>1, <1>2, <1>4 DEF Follows
<1>9. Synced(n)
  <2>1. Synced(old)  BY <1>1 DEF IInv, WellKnown, Synced
  <2>2. QED  BY <1>4, <2>1 DEF Synced
<1>10. UNCHANGED <<library, version, saved, sync>> /\ link' = link
       /\ excused \subseteq excused' /\ k \in excused'
  BY <1>5
<1>11. QED  BY <1>4, <1>5, <1>7, <1>8, <1>9, <1>10, PersonMoves

LEMMA PersonLinksKeeps ==
  ASSUME IInv, NEW kk \in Keys, PersonLinks(kk)
  PROVE  IInv'
<1>1. /\ UNCHANGED <<library, version, saved, lastError, sync, pending, wake, stream, event, faults,
                     scenario, nodes, asked>>
      /\ acts < MaxActs /\ acts' = acts + 1 /\ link' = library[kk]
      /\ library[kk].is \in {"live", "trash"}
      /\ excused' = IF \A s \in Syncers : Me(s).pc \in {"idle", "sleep"} THEN excused
                    ELSE excused \cup {kk}
  BY DEF PersonLinks, Acts, zotero, watching
<1>2. acts' \in 0..MaxActs  BY <1>1, Bounded DEF IInv, TypeOK
<1>3. library[kk] \in Item /\ library[kk].key = kk  BY AllTyped DEF IInv, WellKnown
<1>4. /\ excused \subseteq excused' /\ excused' \subseteq Keys
      /\ kk \notin excused' => \A s \in Syncers : ~Works(s)
  BY <1>1 DEF IInv, TypeOK, Works
<1>5. TypeOK'
  <2>1. link' \in Item \cup {Nothing}  BY <1>1, <1>3
  <2>2. QED  BY <1>1, <1>2, <1>4, <2>1 DEF IInv, TypeOK
<1>6. \A s \in Syncers : Me(s)' = Me(s)  BY <1>1 DEF Me
<1>7. \A k \in Keys : InStep(k)' <=> InStep(k)  BY <1>1 DEF InStep
<1>8. \A k \in Keys : WellKnown(k)'  BY <1>1 DEF IInv, WellKnown
<1>9. ASSUME NEW s \in Syncers PROVE WellPlaced(Me(s))'
  <2>1. WellPlaced(Me(s)) /\ Me(s)' = Me(s)  BY <1>6 DEF IInv
  <2>2. QED  BY <1>1, <2>1 DEF WellPlaced, Holds, Decided
<1>10. ASSUME NEW k \in Keys \ excused' PROVE Known(k)'
  <2>1. Known(k)  BY <1>4 DEF IInv
  <2>2. \A s \in Syncers : Works(s)' <=> Works(s)  BY <1>6 DEF Works
  <2>3. ASSUME NEW s \in Syncers, Works(s)
        PROVE  Brings(Me(s), k)' /\ \A r \in Syncers \ {s} : ~Works(r)'
    <3>1. Brings(Me(s), k) /\ \A r \in Syncers \ {s} : ~Works(r)  BY <2>1, <2>3 DEF Known
    <3>2. Brings(Me(s), k)'  BY <1>1, <1>6, <1>7, <3>1 DEF Brings, Holds
    <3>3. QED  BY <2>2, <3>1, <3>2
  <2>4. library'[k].at <= saved' => InStep(k)'  BY <1>1, <1>7, <2>1 DEF Known
  <2>5. link'.key = k => k = kk  BY <1>1, <1>3
  <2>6. link' # Nothing /\ link'.key = k =>
          /\ \A s \in Syncers : ~Works(s)'
          /\ library'[k] = link' \/ library'[k].at > saved'
    BY <1>1, <1>4, <2>2, <2>5
  <2>7. QED  BY <2>2, <2>3, <2>4, <2>6 DEF Known
<1>11. QED  BY <1>1, <1>5, <1>8, <1>9, <1>10 DEF IInv

LEMMA PersonLinkedKeeps ==
  ASSUME IInv, PersonLinked
  PROVE  IInv'
<1>1. link \in Item /\ link.is \in {"live", "trash"} /\ link # Nothing
  BY DEF PersonLinked, IInv, TypeOK
<1>2. PICK k : k = link.key  OBVIOUS
<1>3. k \in Keys /\ link.at \in Nat  BY <1>1, <1>2 DEF Item
<1>4. PICK was : was = link  OBVIOUS
<1>5. PICK old : old = nodes[k]  OBVIOUS
<1>6. old \in Node /\ old.version \in Nat  BY <1>3, <1>5, AllTyped DEF IInv
<1>7. PICK n : n = IF old.state # "absent" THEN old
                   ELSE [NoNode EXCEPT !.state = "live", !.version = 2, !.held = was.at,
                           !.synced = 0, !.flagged = (was.is = "trash"), !.edited = TRUE]
  OBVIOUS
<1>8. /\ nodes' = [nodes EXCEPT ![k] = n] /\ link' = Nothing
      /\ UNCHANGED <<library, version, saved, lastError, sync, pending, wake, stream, event, faults,
                     scenario, acts, asked, excused>>
  BY <1>2, <1>4, <1>5, <1>7 DEF PersonLinked, zotero, watching
<1>9. UNCHANGED <<library, version, saved, sync>> /\ link' = Nothing /\ excused \subseteq excused'
  BY <1>8
<1>10. nodes'[k] = n /\ library' = library  BY <1>3, <1>8 DEF IInv, TypeOK
<1>11. CASE old.state # "absent"
  <2>1. n = old  BY <1>7, <1>11
  <2>2. TypeOK'  BY <1>6, <1>8, <2>1 DEF IInv, TypeOK
  <2>3. Follows(n, nodes[k])  BY <1>5, <1>6, <1>11, <2>1 DEF Follows
  <2>4. Synced(n)  BY <1>3, <1>5, <2>1 DEF IInv, WellKnown, Synced
  <2>5. InStep(k) => InStep(k)'  BY <1>5, <1>10, <2>1 DEF InStep
  <2>6. QED  BY <1>3, <1>6, <1>8, <1>9, <2>1, <2>2, <2>3, <2>4, <2>5, PersonMoves
<1>12. CASE old.state = "absent"
  <2>1. PICK f \in BOOLEAN : f = (was.is = "trash")  OBVIOUS
  <2>2. /\ n \in Node /\ n.state = "live" /\ n.version = 2 /\ n.synced = 0 /\ n.held = was.at
        /\ n.flagged = f
    <3>1. n = [NoNode EXCEPT !.state = "live", !.version = 2, !.held = was.at, !.synced = 0,
                             !.flagged = f, !.edited = TRUE]
      BY <1>7, <1>12, <2>1
    <3>2. was.at \in Nat  BY <1>3, <1>4
    <3>3. QED  BY <3>1, <3>2 DEF NoNode, Node
  <2>3. TypeOK'  BY <1>3, <1>8, <2>2 DEF IInv, TypeOK
  <2>4. Follows(n, nodes[k]) /\ Synced(n)  BY <1>5, <1>12, <2>2 DEF Follows, Synced
  <2>5. k \notin excused' /\ InStep(k) /\ (library[k].at <= saved \/ \E s \in Syncers : Works(s))
          => InStep(k)'
    <3>1. SUFFICES ASSUME k \notin excused', library[k].at <= saved \/ \E s \in Syncers : Works(s)
                   PROVE  InStep(k)'
      OBVIOUS
    <3>2. Known(k)  BY <1>3, <1>8, <3>1 DEF IInv
    <3>3. library[k].at \in Nat /\ saved \in Nat  BY <1>3, AllTyped DEF IInv
    <3>4. library[k] = was  BY <1>1, <1>2, <1>4, <3>1, <3>2, <3>3 DEF Known
    <3>5. QED  BY <1>1, <1>4, <1>10, <2>1, <2>2, <3>4 DEF InStep
  <2>6. QED  BY <1>3, <1>8, <1>9, <2>2, <2>3, <2>4, <2>5, PersonMoves
<1>13. QED  BY <1>11, <1>12

LEMMA StreamKeeps ==
  ASSUME IInv, Connect \/ Told \/ Disconnect
  PROVE  IInv'
<1>1. /\ UNCHANGED <<library, version, nodes, saved, lastError, sync, link, asked, acts, scenario, excused>>
      /\ pending' \in BOOLEAN /\ wake' \in BOOLEAN /\ stream' \in {"down", "up"} /\ event' \in BOOLEAN
      /\ faults' = faults \/ (faults < MaxFaults /\ faults' = faults + 1)
  BY DEF Connect, Told, Disconnect, CatchUp, Faulty, zotero, people, IInv, TypeOK
<1>2. faults' \in 0..MaxFaults  BY <1>1, Bounded DEF IInv, TypeOK
<1>3. TypeOK'  BY <1>1, <1>2 DEF IInv, TypeOK
<1>4. \A s \in Syncers : Me(s)' = Me(s)  BY <1>1 DEF Me
<1>5. \A k \in Keys : InStep(k)' <=> InStep(k)  BY <1>1 DEF InStep
<1>6. \A k \in Keys : WellKnown(k)'  BY <1>1 DEF IInv, WellKnown
<1>7. ASSUME NEW s \in Syncers PROVE WellPlaced(Me(s))'
  <2>1. WellPlaced(Me(s)) /\ Me(s)' = Me(s)  BY <1>4 DEF IInv
  <2>2. QED  BY <1>1, <2>1 DEF WellPlaced, Holds, Decided
<1>8. ASSUME NEW k \in Keys \ excused PROVE Known(k)'
  <2>1. Known(k)  BY DEF IInv
  <2>2. QED  BY <1>1, <1>4, <1>5, <2>1 DEF Known, Works, Brings, Holds
<1>9. QED  BY <1>1, <1>3, <1>6, <1>7, <1>8 DEF IInv

-----------------------------------------------------------------------------
(* The invariant *)

LEMMA InitKeeps ==
  ASSUME Init
  PROVE  IInv
<1>1. FirstItems \subseteq Keys  BY ZoteroAssumption, Zenon DEF ZoteroAssumption
<1>2. ASSUME NEW k \in Keys
      PROVE  /\ library[k] \in Item /\ library[k].key = k
             /\ library[k].at = (IF k \in FirstItems THEN 1 ELSE 0)
             /\ library[k].is = (IF k \in FirstItems THEN "live" ELSE "none")
  BY DEF Init, Item
<1>3. library \in [Keys -> Item]
  <2>1. DOMAIN library = Keys /\ library = [k \in Keys |-> library[k]]  BY DEF Init
  <2>2. QED  BY <1>2, <2>1
<1>4. TypeOK
  <2>1. nodes \in [Keys -> Node] /\ sync \in [Syncers -> Sync]  BY NoSyncIs DEF Init
  <2>2. acts \in 0..MaxActs /\ faults \in 0..MaxFaults  BY Bounded DEF Init
  <2>3. QED  BY <1>3, <2>1, <2>2 DEF Init, TypeOK
<1>5. version = 1 /\ saved = 0 /\ link = Nothing  BY DEF Init
<1>6. \A s \in Syncers : Me(s) = NoSync  BY DEF Init, Me
<1>7. ASSUME NEW k \in Keys PROVE WellKnown(k)
  <2>1. nodes[k].synced = Nothing  BY DEF Init, NoNode
  <2>2. QED  BY <1>2, <1>5, <2>1 DEF WellKnown
<1>8. \A s \in Syncers : WellPlaced(Me(s))  BY <1>4, <1>6, NoSyncPlaced
<1>9. ASSUME NEW k \in Keys PROVE Known(k)
  <2>1. \A s \in Syncers : ~Works(s)  BY <1>6, NoSyncIs DEF Works
  <2>2. library[k].at <= saved => InStep(k)  BY <1>2, <1>5 DEF InStep
  <2>3. QED  BY <1>5, <2>1, <2>2 DEF Known
<1>10. QED  BY <1>4, <1>5, <1>7, <1>8, <1>9 DEF IInv

LEMMA NextKeeps ==
  ASSUME IInv, [Next]_vars
  PROVE  IInv'
<1>1. CASE UNCHANGED vars
  <2>1. UNCHANGED <<library, version, nodes, saved, lastError, sync, pending, wake, stream, event, link,
                    asked, acts, scenario, faults, excused>>
    BY <1>1 DEF vars
  <2>2. TypeOK'  BY <2>1 DEF IInv, TypeOK
  <2>3. PICK s : s = Watcher  OBVIOUS
  <2>4. s \in Syncers  BY <2>3 DEF Syncers
  <2>5. \A r \in Syncers : Me(r)' = Me(r)  BY <2>1 DEF Me
  <2>6. \A k \in Keys : InStep(k)' <=> InStep(k)  BY <2>1 DEF InStep
  <2>7. \A k \in Keys : WellKnown(k)'  BY <2>1 DEF IInv, WellKnown
  <2>8. ASSUME NEW r \in Syncers PROVE WellPlaced(Me(r))'
    <3>1. WellPlaced(Me(r)) /\ Me(r)' = Me(r)  BY <2>5 DEF IInv
    <3>2. QED  BY <2>1, <3>1 DEF WellPlaced, Holds, Decided
  <2>9. ASSUME NEW k \in Keys \ excused PROVE Known(k)'
    <3>1. Known(k)  BY DEF IInv
    <3>2. QED  BY <2>1, <2>5, <2>6, <3>1 DEF Known, Works, Brings, Holds
  <2>10. QED  BY <2>1, <2>2, <2>7, <2>8, <2>9 DEF IInv
<1>2. ASSUME NEW k \in Keys, NEW is \in {"live", "trash", "gone"}, Change(k, is) PROVE IInv'
  BY <1>2, ChangeKeeps
<1>3. CASE Connect \/ Told \/ Disconnect  BY <1>3, StreamKeeps
<1>4. CASE WatcherSyncs  BY <1>4, WatcherSyncsKeeps
<1>5. CASE ByHandSyncs  BY <1>5, ByHandSyncsKeeps
<1>6. CASE Slept  BY <1>6, SleptKeeps
<1>7. ASSUME NEW s \in Syncers, Syncing(s) PROVE IInv'
  <2>1. CASE Versions(s)  BY <2>1, VersionsKeeps
  <2>2. CASE Items(s)  BY <2>2, ItemsKeeps
  <2>3. CASE Find(s)  BY <2>3, FindKeeps
  <2>4. CASE FindAgain(s)  BY <2>4, FindAgainKeeps
  <2>5. CASE Create(s)  BY <2>5, CreateKeeps
  <2>6. CASE Edit(s)  BY <2>6, EditKeeps
  <2>7. CASE Save(s)  BY <2>7, SaveKeeps
  <2>8. CASE Delete(s)  BY <2>8, DeleteKeeps
  <2>9. CASE DeletedItems(s)  BY <2>9, DeletedItemsKeeps
  <2>10. CASE Store(s)  BY <2>10, StoreKeeps
  <2>11. QED
    BY <1>7, <2>1, <2>2, <2>3, <2>4, <2>5, <2>6, <2>7, <2>8, <2>9, <2>10 DEF Syncing
<1>8. ASSUME NEW s \in Syncers, WriteFails(s) PROVE IInv'  BY <1>8, WriteFailsKeeps
<1>9. ASSUME NEW s \in Syncers, RequestFails(s) PROVE IInv'  BY <1>9, RequestFailsKeeps
<1>10. ASSUME NEW s \in Syncers, Crash(s) PROVE IInv'  BY <1>10, CrashKeeps
<1>11. CASE People
  <2>1. ASSUME NEW k \in Keys, PersonEdits(k) PROVE IInv'  BY <2>1, PersonEditsKeeps
  <2>2. ASSUME NEW k \in Keys, PersonCites(k) PROVE IInv'  BY <2>2, PersonCitesKeeps
  <2>3. ASSUME NEW k \in Keys, PersonLooks(k) PROVE IInv'  BY <2>3, PersonLooksKeeps
  <2>4. ASSUME NEW k \in Keys, PersonDeletes(k) PROVE IInv'  BY <2>4, PersonDeletesKeeps
  <2>5. ASSUME NEW k \in Keys, PersonUndeletes(k) PROVE IInv'  BY <2>5, PersonUndeletesKeeps
  <2>6. ASSUME NEW k \in Keys, PersonLinks(k) PROVE IInv'  BY <2>6, PersonLinksKeeps
  <2>7. CASE PersonLinked  BY <2>7, PersonLinkedKeeps
  <2>8. QED  BY <1>11, <2>1, <2>2, <2>3, <2>4, <2>5, <2>6, <2>7 DEF People
<1>12. QED
  BY <1>1, <1>2, <1>3, <1>4, <1>5, <1>6, <1>7, <1>8, <1>9, <1>10, <1>11 DEF Next

-----------------------------------------------------------------------------
(* What the library in the database promises *)

\* Whatever Zotero, people, syncs and faults do, every item that a sync is to bring is in step
\* or still before it, and every node that is to be deleted is one that was not edited.
THEOREM Invariance == Spec => []IInv
<1>1. Init => IInv  BY InitKeeps
<1>2. IInv /\ [Next]_vars => IInv'  BY NextKeeps
<1>3. QED  BY <1>1, <1>2, PTL DEF Spec

\* The version that is stored is a promise (sync_library stores it last, and only if nothing
\* failed): what Zotero did up to it is in the database.
THEOREM StoredIsInStep == Spec => []Reconciled
<1>1. IInv => Reconciled  BY DEF IInv, Known, Reconciled
<1>2. QED  BY <1>1, Invariance, PTL

\* What a person has edited is deleted by no sync that has seen the edit (apply_deletion),
\* but for a node that no sync has written, or that an earlier pass has flagged.
THEOREM EditsAreKept == Spec => EditedIsKept
<1>1. ASSUME IInv, NEW s \in Syncers, NEW k \in Keys,
             Me(s).pc = "delete", Me(s).item.key = k, nodes[k].edited
      PROVE  \/ Me(s).seen.flagged \/ Me(s).seen.synced = Nothing
             \/ Me(s).seen.version # nodes[k].version
  <2>1. Decided(Me(s), nodes[k])  BY <1>1 DEF IInv, WellPlaced
  <2>2. QED  BY <1>1, <2>1 DEF Decided
<1>2. IInv => \A s \in Syncers, k \in Keys :
       /\ Me(s).pc = "delete" /\ Me(s).item.key = k
       /\ nodes[k].state = "live" /\ nodes'[k].state = "deleted"
       /\ nodes[k].edited
       => \/ Me(s).seen.flagged \/ Me(s).seen.synced = Nothing
          \/ Me(s).seen.version # nodes[k].version
  BY <1>1
<1>3. QED  BY <1>2, Invariance, PTL DEF EditedIsKept

=============================================================================
