------------------------------ MODULE HeadStore ------------------------------
(***************************************************************************)
(* What writes of heads promise (models.md, "Deleting"; memgraph.md), as if *)
(* each were made at one moment: no transactions, queries, conflicts or     *)
(* retries.  It is what HeadWrites implements on Memgraph.                  *)
(***************************************************************************)
EXTENDS Naturals

CONSTANTS Heads, Entities, Urls

VARIABLES state,    \* "absent", "live" or "deleted"
          version,  \* how often it has been written
          refs,     \* the entities it refers to
          urls,     \* the URLs it has
          marked,   \* those someone wanted gone, while they were in use
          revived   \* those undeleted, and not written since

vars == <<state, version, refs, urls, marked, revived>>

Disjoint(f) == \A g, h \in Heads : g # h => f[g] \cap f[h] = {}

Holders(e) == {h \in Heads \ {e} : state[h] = "live" /\ e \in refs[h]}

Init ==
  /\ state \in [Heads -> {"absent", "live", "deleted"}]
  /\ version \in [Heads -> Nat]
  /\ refs \in [Heads -> SUBSET Entities]
  /\ urls \in [Heads -> SUBSET Urls]
  /\ Disjoint(urls)
  /\ marked = {}
  /\ revived = {}

\* The heads that are written by a step.
Written == {h \in Heads : version'[h] # version[h]}

\* Heads are written together: a document, and an entity that is new in it.
\* None was deleted, each is one version on, each refers to what is there, and
\* no URL has two owners.
Write(W) ==
  /\ \A h \in W : state[h] # "deleted"
  /\ state' = [h \in Heads |-> IF h \in W THEN "live" ELSE state[h]]
  /\ version' = [h \in Heads |-> version[h] + (IF h \in W THEN 1 ELSE 0)]
  /\ refs' \in [Heads -> SUBSET Entities]
  /\ urls' \in [Heads -> SUBSET Urls]
  /\ \A h \in Heads \ W : refs'[h] = refs[h] /\ urls'[h] = urls[h]
  /\ \A h \in W : \A e \in refs'[h] : state'[e] = "live"
  /\ Disjoint(urls')
  /\ marked' = marked \ W
  /\ revived' = revived \ W

\* An entity that only what was undeleted refers to, or a document.
Delete(h) ==
  /\ state[h] = "live"
  /\ Holders(h) \subseteq revived
  /\ state' = [state EXCEPT ![h] = "deleted"]
  /\ marked' = marked \ {h}
  /\ revived' = revived \ {h}
  /\ UNCHANGED <<version, refs, urls>>

Mark(h) ==
  /\ state[h] = "live"
  /\ marked' = marked \cup {h}
  /\ UNCHANGED <<state, version, refs, urls, revived>>

Undelete(h) ==
  /\ state[h] = "deleted"
  /\ state' = [state EXCEPT ![h] = "live"]
  /\ revived' = revived \cup {h}
  /\ UNCHANGED <<version, refs, urls, marked>>

Next ==
  \/ Written # {} /\ Write(Written)
  \/ \E h \in Heads : Delete(h) \/ Mark(h) \/ Undelete(h)

Spec == Init /\ [][Next]_vars
=============================================================================
