------------------------------ MODULE Typology ------------------------------
(***************************************************************************)
(* A vocabulary of types in a hierarchy (pangloss_typology): types are made, *)
(* moved, edited, merged, deleted and undeleted, and earlier versions of     *)
(* them restored (pangloss_history.restore), by several processes.  A step   *)
(* is a transaction, or a read outside one: what locks the hierarchy, or     *)
(* writes a head, is as good as made at one moment (HeadWrites).             *)
(***************************************************************************)
EXTENDS Integers, Sequences, SequencesExt, FiniteSets

CONSTANTS
  Types,
  FirstPlaces,   \* where those there are at first may be: one of these functions
  Root,          \* above all types
  Heads,         \* entities that may have a type
  NoType,
  Processes,
  MoveAttempts,  \* MOVE_ATTEMPTS
  MaxCalls,      \* (bound) calls
  MaxVersions    \* (bound) versions of a type: two merges may give it to each other

\* In a tree given by the node above each, a is above t.
Over(a, t, up) ==
  \A S \in SUBSET DOMAIN up :
    (up[t] \in S \cup {Root} /\ \A s \in S : up[s] \in S \cup {Root}) => a \in S

ASSUME TypologyAssumption ==
  /\ \A f \in FirstPlaces :
       /\ DOMAIN f \subseteq Types
       /\ \A t \in DOMAIN f : f[t] \in DOMAIN f \cup {Root} /\ ~Over(t, t, f)
  /\ Root \notin Types /\ NoType \notin Types /\ Heads \cap Types = {}
  /\ MoveAttempts \in Nat \ {0} /\ MaxCalls \in Nat /\ MaxVersions \in Nat \ {0}

VARIABLES
  past,    \* the supertype of each type in each of its versions, which history has
  state,   \* whether a type is there
  given,   \* the type of each head (has_type)
  calls,   \* where each process is
  begun,
  astray,  \* (history) a restore, or a forced edit, has put a type elsewhere
  strays   \* (history) what was put below a deleted type, or came back below one

vars == <<past, state, given, calls, begun, astray, strays>>

Call ==
  [pc : {"idle", "read", "move", "edit", "relink", "retype", "delete", "bring", "revive", "restore"},
   then : {"idle", "relink", "delete"},   \* what a move is followed by
   type : Types \cup {NoType}, to : Types \cup {Root},
   version : Nat,                          \* the expected version (0: any)
   tries : 1..MoveAttempts,
   from : Types \cup {NoType}, into : Types \cup {NoType}, above : Types \cup {Root}]   \* of a merge
NoCall ==
  [pc |-> "idle", then |-> "idle", type |-> NoType, to |-> Root, version |-> 0, tries |-> 1,
   from |-> NoType, into |-> NoType, above |-> Root]

TypeOK ==
  /\ past \in [Types -> Seq(Types \cup {Root})]
  /\ state \in [Types -> {"new", "live", "deleted"}]
  /\ given \in [Heads -> Types \cup {NoType}]
  /\ calls \in [Processes -> Call]
  /\ begun \in 0..MaxCalls
  /\ astray \in BOOLEAN /\ strays \subseteq Types \cup Heads

Init ==
  /\ \E f \in FirstPlaces :
       /\ past = [t \in Types |-> IF t \in DOMAIN f THEN <<f[t]>> ELSE <<>>]
       /\ state = [t \in Types |-> IF t \in DOMAIN f THEN "live" ELSE "new"]
  /\ given = [h \in Heads |-> NoType]
  /\ calls = [p \in Processes |-> NoCall]
  /\ begun = 0 /\ astray = FALSE /\ strays = {}

-----------------------------------------------------------------------------
(* The hierarchy *)

Made == {t \in Types : past[t] # <<>>}
Live == {t \in Types : state[t] = "live"}
Place(t) == Last(past[t])
Version(t) == Len(past[t])

\* is_below: in the database, where what is deleted is still in its place.
Below(t, a) == Over(a, t, [s \in Made |-> Place(s)])

\* types: the rows that a reader sees, without what is deleted.
RowPlace(t) == IF Place(t) \in Live THEN Place(t) ELSE Root
RowBelow(t, a) == Over(a, t, [s \in Live |-> RowPlace(s)])
WouldLoop(t, to) == to # Root /\ (to = t \/ RowBelow(to, t))

Subtypes(t) == {s \in Made : Place(s) = t}
Used(t) == (\E s \in Live : Place(s) = t) \/ \E h \in Heads : given[h] = t

Puts(t, to) == Version(t) < MaxVersions /\ past' = [past EXCEPT ![t] = Append(@, to)]

Me(p) == calls[p]
Become(p, call) == calls' = [calls EXCEPT ![p] = call]
Ends(p) == Become(p, NoCall)
Begins(p, call) ==
  /\ Me(p).pc = "idle" /\ begun < MaxCalls /\ begun' = begun + 1
  /\ Become(p, call)
  /\ UNCHANGED <<past, state, given, astray, strays>>

-----------------------------------------------------------------------------
(* move *)

BeginMove(p) ==
  \E t \in Live, to \in Live \cup {Root} :
    /\ ~WouldLoop(t, to)
    /\ Begins(p, [NoCall EXCEPT !.pc = "read", !.type = t, !.to = to])

\* get_for_edit
ReadVersion(p) ==
  /\ Me(p).pc = "read"
  /\ IF Me(p).type \in Live
     THEN Become(p, [Me(p) EXCEPT !.pc = "move", !.version = Version(Me(p).type)])
     ELSE Ends(p)
  /\ UNCHANGED <<past, state, given, begun, astray, strays>>

\* (Mutant: that it is not a loop is taken from what was read before the lock.)
MovesWell(t, to) == t \in Live /\ (to = Root \/ to \in Live)

\* check_move, under the lock.
MayMove(t, to) ==
  /\ t \in Live
  /\ to = Root \/ (to \in Live /\ to # t /\ ~Below(to, t))

TriesAgain(tries) == tries < MoveAttempts

\* The update of a move: under the hierarchy's lock, of the version that was read.
Move(p) ==
  /\ Me(p).pc = "move"
  /\ LET c == Me(p) IN
     CASE ~MayMove(c.type, c.to) -> Ends(p) /\ UNCHANGED past
       [] MayMove(c.type, c.to) /\ c.version = Version(c.type) ->
            /\ Puts(c.type, c.to)
            /\ IF c.then = "idle" THEN Ends(p)
               ELSE Become(p, [c EXCEPT !.pc = c.then, !.tries = 1])
       [] OTHER ->
            /\ IF TriesAgain(c.tries) THEN Become(p, [c EXCEPT !.pc = "read", !.tries = @ + 1])
               ELSE Ends(p)
            /\ UNCHANGED past
  /\ UNCHANGED <<state, given, begun, astray, strays>>

-----------------------------------------------------------------------------
(* update: the type is read and written again, its place with it.  By the API's own   *)
(* update of an entity also whatever its version is by then (If-Match: * ), if its    *)
(* place is what it was when the request began.                                       *)

BeginEdit(p) ==
  \E t \in Live : \E version \in {Version(t), 0} :
    Begins(p, [NoCall EXCEPT !.pc = "edit", !.type = t, !.to = Place(t), !.version = version])

\* (Mutant: whatever its version is.)
OfAnyVersion(call) == TRUE

OfItsVersion(call) == call.version \in {0, Version(call.type)}

\* The update, which does not take the hierarchy's lock.
Written(p) ==
  LET c == Me(p) IN
    /\ IF c.type \in Live /\ c.to \in Live \cup {Root} /\ OfItsVersion(c)
       THEN /\ Puts(c.type, c.to)
            /\ astray' = (astray \/ (c.to # Place(c.type) /\ (c.version = 0 \/ c.pc = "restore")))
       ELSE UNCHANGED <<past, astray>>
    /\ Ends(p)
    /\ UNCHANGED <<state, given, begun, strays>>

Edit(p) == Me(p).pc = "edit" /\ Written(p)

-----------------------------------------------------------------------------
(* delete *)

BeginDelete(p) ==
  \E t \in Live : ~Used(t) /\ Begins(p, [NoCall EXCEPT !.pc = "delete", !.type = t])

\* (Mutant: what was read before is taken for granted.)
NotUsedThen(t) == t \in Live

\* soft_delete
Deletable(t) == t \in Live /\ ~Used(t)

Delete(p) ==
  /\ Me(p).pc = "delete"
  /\ state' = IF Deletable(Me(p).type) THEN [state EXCEPT ![Me(p).type] = "deleted"] ELSE state
  /\ Ends(p)
  /\ UNCHANGED <<past, given, begun, astray, strays>>

-----------------------------------------------------------------------------
(* merge_counted: first the type merged into takes the other's place, if it is below  *)
(* it; the subtypes are relinked, then the heads; the other leaves the hierarchy and  *)
(* is deleted.  Each relink is in batches (here of one), each a transaction.          *)

BeginMerge(p) ==
  \E t, into \in Live :
    /\ t # into
    /\ LET merge == [NoCall EXCEPT !.from = t, !.into = into, !.above = RowPlace(t)] IN
       Begins(p, IF RowBelow(into, t)
                 THEN [merge EXCEPT !.pc = "read", !.then = "relink", !.type = into,
                                    !.to = RowPlace(t)]
                 ELSE [merge EXCEPT !.pc = "relink"])

\* What is put below `into` is lost to readers if that has been deleted since.
Lost(what, into) == strays' = IF into \in Live THEN strays ELSE strays \cup {what}

\* (Mutant: what was read before the lock is taken for granted.)
MergesAnyway(call) == TRUE

\* check_merge, under the hierarchy's lock.
MayMerge(call) == ~Below(call.into, call.from)

\* relink_batch of is_subtype_of: the subtypes, deleted ones too, whose versions go on.
RelinkSubtypes(p) ==
  /\ Me(p).pc = "relink"
  /\ LET c == Me(p) IN
     IF ~MayMerge(c) THEN Ends(p) /\ UNCHANGED <<past, strays>>
     ELSE IF Subtypes(c.from) \ {c.into} = {}
     THEN Become(p, [c EXCEPT !.pc = "retype"]) /\ UNCHANGED <<past, strays>>
     ELSE \E t \in Subtypes(c.from) \ {c.into} :
            /\ Puts(t, c.into)
            /\ Lost(t, c.into)
            /\ UNCHANGED calls
  /\ UNCHANGED <<state, given, begun, astray>>

\* relink_batch of has_type, without the lock; then, if it had a supertype, a move.
Retype(p) ==
  /\ Me(p).pc = "retype"
  /\ LET c == Me(p)
         have == {h \in Heads : given[h] = c.from} IN
     IF have = {}
     THEN /\ Become(p, [c EXCEPT !.type = c.from, !.to = Root,
                                 !.then = IF c.above # Root THEN "delete" ELSE "idle",
                                 !.pc = IF c.above # Root THEN "read" ELSE "delete"])
          /\ UNCHANGED <<given, strays>>
     ELSE \E h \in have :
            /\ given' = [given EXCEPT ![h] = c.into]
            /\ Lost(h, c.into)
            /\ UNCHANGED calls
  /\ UNCHANGED <<past, state, begun, astray>>

-----------------------------------------------------------------------------
(* restore, of a type as of any head: the version is read, its supertype brought back *)
(* and the type itself, and it is written as an update of the version that the person *)
(* saw, or (0) of the one that there is by then.                                      *)

BeginRestore(p) ==
  \E t \in Made : \E v \in 1..Version(t), version \in {Version(t), 0} :
    Begins(p, [NoCall EXCEPT !.pc = "bring", !.type = t, !.to = past[t][v], !.version = version])

\* undelete: what was below a deleted type may be there again.
Back(t) ==
  /\ state' = [state EXCEPT ![t] = "live"]
  /\ strays' = IF Place(t) \in Live \cup {Root} THEN strays ELSE strays \cup {t}

BringBack(p) ==
  /\ Me(p).pc = "bring"
  /\ IF Me(p).to = Root \/ Me(p).to \in Live THEN UNCHANGED <<state, strays>> ELSE Back(Me(p).to)
  /\ Become(p, [Me(p) EXCEPT !.pc = "revive"])
  /\ UNCHANGED <<past, given, begun, astray>>
Revive(p) ==
  /\ Me(p).pc = "revive"
  /\ IF Me(p).type \in Live THEN UNCHANGED <<state, strays>> ELSE Back(Me(p).type)
  /\ Become(p, [Me(p) EXCEPT !.pc = "restore",
                             !.version = IF @ = 0 THEN Version(Me(p).type) ELSE @])
  /\ UNCHANGED <<past, given, begun, astray>>
Restore(p) == Me(p).pc = "restore" /\ Written(p)

-----------------------------------------------------------------------------
(* Calls of one transaction *)

Once == begun < MaxCalls /\ begun' = begun + 1 /\ UNCHANGED <<calls, astray>>

Create(t, to) ==
  /\ state[t] = "new" /\ to \in Live \cup {Root}
  /\ Puts(t, to)
  /\ state' = [state EXCEPT ![t] = "live"]
  /\ Once /\ UNCHANGED <<given, strays>>

Undelete(t) ==
  /\ state[t] = "deleted"
  /\ Back(t)
  /\ Once /\ UNCHANGED <<past, given>>

\* A head is written with a type.
Give(h, t) ==
  /\ t \in Live /\ given[h] # t
  /\ given' = [given EXCEPT ![h] = t]
  /\ strays' = strays \ {h}
  /\ Once /\ UNCHANGED <<past, state>>

-----------------------------------------------------------------------------
Next ==
  \/ \E p \in Processes :
       \/ BeginMove(p) \/ ReadVersion(p) \/ Move(p)
       \/ BeginEdit(p) \/ Edit(p)
       \/ BeginDelete(p) \/ Delete(p)
       \/ BeginMerge(p) \/ RelinkSubtypes(p) \/ Retype(p)
       \/ BeginRestore(p) \/ BringBack(p) \/ Revive(p) \/ Restore(p)
  \/ \E t \in Types, to \in Types \cup {Root} : Create(t, to)
  \/ \E t \in Types : Undelete(t)
  \/ \E h \in Heads, t \in Types : Give(h, t)

Spec == Init /\ [][Next]_vars

-----------------------------------------------------------------------------
(* The vocabulary stays a tree *)

\* No type is below itself, whatever moves, merges, edits and deletions race, unless a
\* restore, or an edit of any version, has put a type where it had been before: neither
\* takes the hierarchy's lock, nor looks at what is below.
Forest == \A t \in Made : ~Below(t, t)
NoLoop == astray \/ Forest

\* What an edit writes back is where the type is: an edit never undoes a move or a
\* merge that came after it was read (but one of any version may).
EditsKeepPlaces ==
  [][\A p \in Processes : Me(p).pc = "edit" /\ Me(p).version # 0 /\ calls'[p] # Me(p) =>
       \A t \in Made : Last(past'[t]) = Place(t)]_vars

\* Nothing is below a deleted type, or has it: neither is left behind by a merge, or by a
\* delete, that something was moved to meanwhile.  But a merge may put it below a type
\* that was deleted after the merge had begun, and what was below may come back.
NothingBelowDeleted ==
  /\ \A t \in Live \ strays : Place(t) \in Live \cup {Root}
  /\ \A h \in Heads \ strays : given[h] \in Live \cup {NoType}

\* Types that are there, or were, have places among each other, in all their versions.
Placed ==
  /\ \A t \in Types : state[t] = "new" <=> past[t] = <<>>
  /\ \A t \in Made : \A v \in 1..Version(t) : past[t][v] \in Made \cup {Root}
  /\ \A h \in Heads : given[h] \in Made \cup {NoType}

\* What a call is about has been made, and what an edit writes back is the place that its
\* version of the type has.
WellCall(c) ==
  /\ c.pc \in {"read", "move", "edit", "delete", "bring", "revive", "restore"} => c.type \in Made
  /\ c.to \in Made \cup {Root}
  /\ c.pc \in {"relink", "retype"} \/ (c.pc \in {"read", "move"} /\ c.then # "idle") =>
       c.from \in Made /\ c.into \in Made /\ c.from # c.into
  /\ c.pc = "edit" /\ c.version # 0 =>
       c.version <= Version(c.type) /\ past[c.type][c.version] = c.to

IInv == TypeOK /\ Placed /\ (\A p \in Processes : WellCall(Me(p))) /\ NoLoop /\ NothingBelowDeleted
==============================================================================
