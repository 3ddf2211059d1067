------------------------------- MODULE Pending -------------------------------
(***************************************************************************)
(* The queue of work that writes leave behind (pangloss_cypher/pending.py). *)
(*                                                                         *)
(* One (:PGPending) node per kind of work and head node; this module is     *)
(* one kind.  A node is a member of `pending`; its token is token[h]; a     *)
(* claim that has not run out (claimed_until >= now) is a member of         *)
(* `claimed`.  The id of a claim is written and never read by the code, so  *)
(* it is not modelled.  Tokens are uuids: here, numbers given out once.     *)
(* Each action is one transaction of the queue's caller.                    *)
(***************************************************************************)
EXTENDS Naturals, FiniteSets

CONSTANT Heads          \* the head nodes (documents and entities)

VARIABLES pending,      \* the heads that have a PGPending node
          token,        \* the token of each head's node
          claimed,      \* the heads whose claim still holds
          nextToken     \* no token given out so far is as large

queueVars == <<pending, token, claimed, nextToken>>

QueueTypeOK ==
  /\ pending \subseteq Heads
  /\ token \in [Heads -> Nat]
  /\ claimed \subseteq pending
  /\ nextToken \in Nat \ {0}
  /\ \A h \in Heads : token[h] < nextToken

QueueInit ==
  /\ pending = {}
  /\ token = [h \in Heads |-> 0]
  /\ claimed = {}
  /\ nextToken = 1

\* (mutant) a head that is marked already keeps its token
MarkKeepsToken(S) ==
  /\ pending' = pending \cup S
  /\ token' = [h \in Heads |-> IF h \in S \ pending THEN nextToken ELSE token[h]]
  /\ nextToken' = nextToken + 1
  /\ UNCHANGED claimed

\* MERGE by key, and a new token: a claim the node has is left on it.
MarkHeads(S) ==
  /\ pending' = pending \cup S
  /\ token' = [h \in Heads |-> IF h \in S THEN nextToken ELSE token[h]]
  /\ nextToken' = nextToken + 1
  /\ UNCHANGED claimed

\* What a claim may take: not claimed, or claimed by a claim that has run out.
Claimable == pending \ claimed

ClaimHeads(S) ==
  /\ S \subseteq Claimable
  /\ claimed' = claimed \cup S
  /\ UNCHANGED <<pending, token, nextToken>>

\* (mutant) whatever the token is now
CompletedAnyway(S, tokens) == {h \in S \cap pending : tokens[h] > 0}

\* The nodes whose token is still the one claimed go, whoever claims them now.
Completed(S, tokens) == {h \in S \cap pending : token[h] = tokens[h]}

CompleteHeads(S, tokens) ==
  /\ pending' = pending \ Completed(S, tokens)
  /\ claimed' = claimed \ Completed(S, tokens)
  /\ UNCHANGED <<token, nextToken>>

\* By key, so it takes the claim off even when another worker made it.
ReleaseHeads(S) ==
  /\ claimed' = claimed \ S
  /\ UNCHANGED <<pending, token, nextToken>>

\* (mutant) a claim holds until it is given back
ClaimNeverEnds(h) ==
  /\ h \in claimed \ pending
  /\ UNCHANGED queueVars

\* Time passes: claimed_until of h is in the past.
ClaimRunsOut(h) ==
  /\ h \in claimed
  /\ claimed' = claimed \ {h}
  /\ UNCHANGED <<pending, token, nextToken>>

=============================================================================
