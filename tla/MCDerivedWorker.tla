--------------------------- MODULE MCDerivedWorker ---------------------------
(* DerivedWorker on a small instance: j1 rests on two heads, j2 on one.     *)
EXTENDS DerivedWorker, TLC

CONSTANTS h1, h2, j1, j2, r1, r2, w1, w2

MCEvidence == [j \in Justs |-> IF j = j1 THEN {h1, h2} ELSE {h2}]
MCSeedOf   == [j \in Justs |-> IF j = j1 THEN h1 ELSE h2]

\* The second version of the rule does not admit j2 any more.
MCBody == [r \in Rules \cup {NoRule} |->
             IF r = r1 THEN Justs ELSE IF r = r2 THEN {j1} ELSE {}]

=============================================================================
