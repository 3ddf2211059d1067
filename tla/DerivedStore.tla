----------------------------- MODULE DerivedStore -----------------------------
(***************************************************************************)
(* What the derived facts promise (docs/derived.md, "Keeping it up to       *)
(* date"), without queue, batches, leases or rebuilds: a justification that *)
(* is wrong, or missing, rests on a head that is known to be dirty, and the *)
(* stored justifications change nowhere else.                               *)
(***************************************************************************)
CONSTANTS Heads, Justs, Evidence, Rules, Body, NoRule

VARIABLES content,   \* content[h]: what the tree of h supports
          rule,      \* the rule that is deployed
          justs,     \* the justifications stored
          dirty      \* the heads whose derived facts may not be up to date

vars == <<content, rule, justs, dirty>>

Right == {j \in Body[rule] : \A h \in Evidence[j] : j \in content[h]}

\* Wrong, or missing, only where something is dirty.
Covered ==
  \A j \in Justs : (j \in justs) # (j \in Right) => Evidence[j] \cap dirty # {}

Init ==
  /\ content \in [Heads -> SUBSET Justs]
  /\ rule \in Rules \cup {NoRule}
  /\ justs = {}
  /\ dirty \in SUBSET Heads
  /\ Covered

\* A head is written: it is dirty, unless nothing is derived at all.
Edit(h, c) ==
  /\ content' = [content EXCEPT ![h] = c]
  /\ dirty' = IF rule = NoRule THEN dirty ELSE dirty \cup {h}
  /\ UNCHANGED <<rule, justs>>

\* Another rule is deployed.
Revise(r) ==
  /\ rule' = r
  /\ dirty' \in SUBSET Heads
  /\ Covered'
  /\ UNCHANGED <<content, justs>>

\* Justifications are written and deleted, where something is dirty.
Derive ==
  /\ justs' \in SUBSET Justs
  /\ \A j \in Justs : (j \in justs) # (j \in justs') => Evidence[j] \cap dirty # {}
  /\ UNCHANGED <<content, rule, dirty>>

\* Heads are clean when nothing rests on them alone that is wrong.
Settle ==
  /\ dirty' \in SUBSET dirty
  /\ Covered'
  /\ UNCHANGED <<content, rule, justs>>

Next ==
  \/ \E h \in Heads, c \in SUBSET Justs : Edit(h, c)
  \/ \E r \in Rules \cup {NoRule} : Revise(r)
  \/ Derive
  \/ Settle

Spec == Init /\ [][Next]_vars

=============================================================================
