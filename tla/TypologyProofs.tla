---------------------------- MODULE TypologyProofs ----------------------------
(***************************************************************************)
(* A vocabulary stays a tree, whatever calls race (Typology): for any types, *)
(* heads, processes and calls.                                               *)
(***************************************************************************)
EXTENDS Typology, TLAPS

-----------------------------------------------------------------------------
(* Trees *)

\* `up` gives the node above each of N, or the root.
IsTree(up, N) ==
  /\ up \in [N -> N \cup {Root}] /\ Root \notin N
  /\ \A x \in N : ~Over(x, x, up)

\* What is closed upwards: it has the node above each of its own.
Closed(S, up) == \A s \in S : up[s] \in S \cup {Root}

\* A node that is not above t is outside of some closed set that has what is above t.
LEMMA NotOver ==
  ASSUME NEW N, NEW up, DOMAIN up = N, NEW a, NEW t
  PROVE  ~Over(a, t, up) <=>
           \E S \in SUBSET N : up[t] \in S \cup {Root} /\ Closed(S, up) /\ a \notin S
  BY DEF Over, Closed

\* A node can be put under one that is neither it nor below it, and the tree is a tree.
LEMMA PutUnder ==
  ASSUME NEW N, NEW up, IsTree(up, N), NEW t \in N, NEW to \in N \cup {Root},
         to # Root => to # t /\ ~Over(t, to, up)
  PROVE  IsTree([up EXCEPT ![t] = to], N)
<1> DEFINE new == [up EXCEPT ![t] = to]
<1>1. /\ up \in [N -> N \cup {Root}] /\ Root \notin N /\ DOMAIN up = N
      /\ new \in [N -> N \cup {Root}] /\ DOMAIN new = N /\ new[t] = to
      /\ \A s \in N \ {t} : new[s] = up[s]
  BY DEF IsTree
<1> HIDE DEF new
<1>2. PICK A \in SUBSET N : Closed(A, up) /\ t \notin A /\ to \in A \cup {Root}
  <2>1. CASE to = Root
    <3>1. Closed({}, up)  BY DEF Closed
    <3>2. QED  BY <2>1, <3>1
  <2>2. CASE to # Root
    <3>1. PICK S \in SUBSET N : up[to] \in S \cup {Root} /\ Closed(S, up) /\ t \notin S
      BY <1>1, <2>2, NotOver
    <3>2. Closed(S \cup {to}, up)  BY <3>1 DEF Closed
    <3>3. QED  BY <2>2, <3>1, <3>2
  <2>3. QED  BY <2>1, <2>2
<1>3. ASSUME NEW x \in N
      PROVE  ~Over(x, x, new)
  <2>1. PICK S \in SUBSET N : up[x] \in S \cup {Root} /\ Closed(S, up) /\ x \notin S
    BY <1>1, NotOver DEF IsTree
  <2>2. CASE x = t
    <3>1. Closed(A, new)  BY <1>1, <1>2 DEF Closed
    <3>2. QED  BY <1>1, <1>2, <2>2, <3>1, NotOver
  <2>3. CASE x # t /\ x \in A
    <3>1. Closed(S \cap A, new)  BY <1>1, <1>2, <2>1 DEF Closed
    <3>2. new[x] \in (S \cap A) \cup {Root}  BY <1>1, <1>2, <2>1, <2>3 DEF Closed
    <3>3. QED  BY <1>1, <2>1, <3>1, <3>2, NotOver
  <2>4. CASE x # t /\ x \notin A
    <3>1. Closed(S \cup A, new)  BY <1>1, <1>2, <2>1 DEF Closed
    <3>2. new[x] \in (S \cup A) \cup {Root}  BY <1>1, <2>1, <2>4
    <3>3. QED  BY <1>1, <2>1, <2>4, <3>1, <3>2, NotOver
  <2>5. QED  BY <2>2, <2>3, <2>4
<1>4. QED  BY <1>1, <1>3 DEF IsTree, new

\* A new node can be put anywhere.
LEMMA PutNew ==
  ASSUME NEW N, NEW up, IsTree(up, N), NEW t, t \notin N \cup {Root}, NEW to \in N \cup {Root},
         NEW new, new \in [N \cup {t} -> N \cup {Root}],
         new[t] = to, \A s \in N : new[s] = up[s]
  PROVE  IsTree(new, N \cup {t})
<1>1. /\ up \in [N -> N \cup {Root}] /\ Root \notin N /\ DOMAIN up = N /\ DOMAIN new = N \cup {t}
  BY DEF IsTree
<1>2. ASSUME NEW x \in N \cup {t}
      PROVE  ~Over(x, x, new)
  <2>1. CASE x = t
    <3>1. Closed(N, new)  BY <1>1 DEF Closed
    <3>2. QED  BY <1>1, <2>1, <3>1, NotOver
  <2>2. CASE x \in N
    <3>1. PICK S \in SUBSET N : up[x] \in S \cup {Root} /\ Closed(S, up) /\ x \notin S
      BY <1>1, <2>2, NotOver DEF IsTree
    <3>2. Closed(S, new)  BY <1>1, <3>1 DEF Closed
    <3>3. QED  BY <1>1, <2>2, <3>1, <3>2, NotOver
  <2>3. QED  BY <2>1, <2>2
<1>3. QED  BY <1>1, <1>2 DEF IsTree

\* What is not below the node above t is not below t.
LEMMA NotOverBelow ==
  ASSUME NEW N, NEW up, up \in [N -> N \cup {Root}], Root \notin N,
         NEW t \in N, NEW into \in N, up[t] \in N, ~Over(up[t], into, up)
  PROVE  ~Over(t, into, up)
  BY NotOver DEF Closed

-----------------------------------------------------------------------------
(* What a write of a place does *)

Up == [s \in Made |-> Place(s)]

LEMMA PlaceTyped ==
  ASSUME TypeOK, Placed
  PROVE  /\ Root \notin Made /\ NoType \notin Made /\ Made \subseteq Types /\ Live \subseteq Made
         /\ \A t \in Made : Version(t) \in Nat \ {0} /\ Place(t) \in Made \cup {Root}
         /\ Up \in [Made -> Made \cup {Root}]
<1>1. ASSUME NEW t \in Made
      PROVE  Version(t) \in Nat \ {0} /\ Place(t) \in Made \cup {Root}
  <2>1. past[t] \in Seq(Types \cup {Root}) /\ past[t] # <<>>  BY DEF Made, TypeOK
  <2>2. Version(t) \in Nat \ {0}  BY <2>1 DEF Version
  <2>3. QED  BY <2>2 DEF Placed, Place, Last, Version
<1>2. Root \notin Made /\ NoType \notin Made /\ Made \subseteq Types /\ Live \subseteq Made
  BY TypologyAssumption DEF TypologyAssumption, Made, Live, Placed, TypeOK
<1>3. QED  BY <1>1, <1>2 DEF Up

\* A place is put after those of a type, whose versions stay what they were.
LEMMA PutsWell ==
  ASSUME TypeOK, Placed, NEW t \in Types, NEW to \in Types \cup {Root}, Puts(t, to)
  PROVE  /\ past' \in [Types -> Seq(Types \cup {Root})]
         /\ \A s \in Types \ {t} : past'[s] = past[s]
         /\ Version(t)' = Version(t) + 1 /\ (past[t] = <<>> => Version(t) = 0)
         /\ past'[t][Version(t) + 1] = to
         /\ \A v \in 1..Version(t) : past'[t][v] = past[t][v]
         /\ Place(t)' = to /\ \A s \in Types \ {t} : Place(s)' = Place(s) /\ Version(s)' = Version(s)
         /\ Made' = Made \cup {t}
<1>1. past[t] \in Seq(Types \cup {Root}) /\ past \in [Types -> Seq(Types \cup {Root})]
  BY DEF TypeOK
<1>2. /\ past' = [past EXCEPT ![t] = Append(past[t], to)]
      /\ past'[t] = Append(past[t], to)
      /\ \A s \in Types \ {t} : past'[s] = past[s]
  BY <1>1 DEF Puts
<1>3. /\ Append(past[t], to) \in Seq(Types \cup {Root})
      /\ Len(Append(past[t], to)) = Len(past[t]) + 1
      /\ Append(past[t], to)[Len(past[t]) + 1] = to
      /\ \A v \in 1..Len(past[t]) : Append(past[t], to)[v] = past[t][v]
      /\ Append(past[t], to) # <<>>
      /\ past[t] = <<>> => Len(past[t]) = 0
  BY <1>1
<1>4. past' \in [Types -> Seq(Types \cup {Root})]  BY <1>1, <1>2, <1>3
<1>5. Made' = Made \cup {t}  BY <1>2, <1>3 DEF Made
<1>6. /\ Version(t)' = Version(t) + 1 /\ (past[t] = <<>> => Version(t) = 0)
      /\ past'[t][Version(t) + 1] = to /\ Place(t)' = to
      /\ \A v \in 1..Version(t) : past'[t][v] = past[t][v]
  BY <1>2, <1>3 DEF Version, Place, Last
<1>7. \A s \in Types \ {t} : Place(s)' = Place(s) /\ Version(s)' = Version(s)
  BY <1>2 DEF Version, Place, Last
<1>8. QED  BY <1>2, <1>4, <1>5, <1>6, <1>7

LEMMA UpOfPut ==
  ASSUME TypeOK, Placed, NEW t \in Made, NEW to \in Made \cup {Root}, Puts(t, to)
  PROVE  Made' = Made /\ Up' = [Up EXCEPT ![t] = to]
<1>1. /\ Made \subseteq Types /\ Up \in [Made -> Made \cup {Root}]
      /\ t \in Types /\ to \in Types \cup {Root}
  BY PlaceTyped
<1>2. /\ Place(t)' = to /\ \A s \in Types \ {t} : Place(s)' = Place(s)
      /\ Made' = Made \cup {t}
  BY <1>1, PutsWell
<1>3. QED  BY <1>1, <1>2 DEF Up

LEMMA PutPlaced ==
  ASSUME TypeOK, Placed, NEW t \in Made, NEW to \in Made \cup {Root}, Puts(t, to),
         UNCHANGED <<state, given>>
  PROVE  Placed' /\ Live' = Live
<1>1. /\ Made \subseteq Types /\ \A s \in Made : Version(s) \in Nat \ {0}
      /\ t \in Types /\ to \in Types \cup {Root}
  BY PlaceTyped
<1>2. /\ \A s \in Types \ {t} : past'[s] = past[s] /\ Version(s)' = Version(s)
      /\ Version(t)' = Version(t) + 1 /\ past'[t][Version(t) + 1] = to
      /\ \A v \in 1..Version(t) : past'[t][v] = past[t][v]
      /\ Made' = Made \cup {t}
  BY <1>1, PutsWell
<1>3. \A s \in Made : \A v \in 1..Version(s)' : past'[s][v] \in Made \cup {Root}
  BY <1>1, <1>2 DEF Placed
<1>4. \A s \in Types : state[s] = "new" <=> past'[s] = <<>>
  BY <1>1, <1>2 DEF Placed, Made
<1>5. QED  BY <1>2, <1>3, <1>4 DEF Placed, Live

\* What calls know of versions stays so when a place is put after them.
LEMMA PutCall ==
  ASSUME TypeOK, Placed, NEW t \in Types, NEW to \in Types \cup {Root}, Puts(t, to),
         NEW c \in Call, WellCall(c)
  PROVE  WellCall(c)'
<1>1. /\ \A s \in Types \ {t} : past'[s] = past[s] /\ Version(s)' = Version(s)
      /\ Version(t)' = Version(t) + 1 /\ Made' = Made \cup {t}
      /\ \A v \in 1..Version(t) : past'[t][v] = past[t][v]
      /\ \A s \in Made : Version(s) \in Nat
      /\ Made \subseteq Types
  BY PutsWell, PlaceTyped
<1>2. c.version \in Nat  BY DEF Call
<1>3. ASSUME c.pc = "edit" /\ c.version # 0
      PROVE  c.version <= Version(c.type)' /\ past'[c.type][c.version] = c.to
  <2>1. /\ c.version <= Version(c.type) /\ past[c.type][c.version] = c.to /\ c.type \in Made
        /\ c.version \in 1..Version(c.type)
    BY <1>1, <1>2, <1>3 DEF WellCall
  <2>2. CASE c.type = t  BY <1>1, <2>1, <2>2
  <2>3. CASE c.type # t  BY <1>1, <2>1, <2>3
  <2>4. QED  BY <2>2, <2>3
<1>4. QED  BY <1>1, <1>3 DEF WellCall

LEMMA SameCall ==
  ASSUME UNCHANGED past, NEW c, WellCall(c)
  PROVE  WellCall(c)'
  BY DEF WellCall, Made, Version

LEMMA ForestIsTree ==
  ASSUME TypeOK, Placed
  PROVE  Forest <=> IsTree(Up, Made)
  BY PlaceTyped DEF Forest, IsTree, Below, Up

\* The tree stays one, if a type is put where it may be, or is.
LEMMA PutTree ==
  ASSUME TypeOK, Placed, Forest, NEW t \in Made, NEW to \in Made \cup {Root}, Puts(t, to),
         \/ to = Place(t)
         \/ to # Root => to # t /\ ~Below(to, t)
  PROVE  Forest'
<1>1. /\ Up \in [Made -> Made \cup {Root}] /\ Made' = Made
      /\ Up' = [Up EXCEPT ![t] = to] /\ IsTree(Up, Made)
  BY PlaceTyped, UpOfPut, ForestIsTree
<1>2. IsTree(Up', Made)
  <2>1. CASE to = Place(t)
    <3>1. Up' = Up  BY <1>1, <2>1 DEF Up
    <3>2. QED  BY <1>1, <3>1
  <2>2. CASE to # Root => to # t /\ ~Below(to, t)
    <3>1. to # Root => to # t /\ ~Over(t, to, Up)  BY <2>2 DEF Below, Up
    <3>2. IsTree([Up EXCEPT ![t] = to], Made)  BY <1>1, <3>1, PutUnder
    <3>3. QED  BY <1>1, <3>2
  <2>3. QED  BY <2>1, <2>2
<1>3. \A x \in Made : ~Over(x, x, Up')  BY <1>2 DEF IsTree
<1>4. QED  BY <1>1, <1>3 DEF Forest, Below, Up

LEMMA SameTree ==
  ASSUME UNCHANGED past, Forest
  PROVE  Forest'
  BY DEF Forest, Below, Made, Place

\* Nothing is left below what is deleted, if a type is put below one that is there, or
\* counted among the strays.
LEMMA PutAbove ==
  ASSUME TypeOK, Placed, NothingBelowDeleted, NEW t \in Made, NEW to \in Made \cup {Root}, Puts(t, to),
         UNCHANGED <<state, given>>, strays \subseteq strays',
         to \in Live \cup {Root} \/ t \in strays'
  PROVE  NothingBelowDeleted'
<1>1. Made \subseteq Types /\ Live \subseteq Made  BY PlaceTyped
<1>2. /\ Place(t)' = to /\ \A s \in Types \ {t} : Place(s)' = Place(s)
      /\ Live' = Live
  BY <1>1, PutsWell DEF Live
<1>3. QED  BY <1>1, <1>2 DEF NothingBelowDeleted

\* A type that comes back leaves nothing below what is deleted, but itself.
LEMMA BackWell ==
  ASSUME TypeOK, Placed, NothingBelowDeleted, NEW t \in Made, Back(t), UNCHANGED <<past, given>>
  PROVE  Placed' /\ NothingBelowDeleted' /\ state' \in [Types -> {"new", "live", "deleted"}]
         /\ strays' \subseteq Types \cup Heads
<1>1. Made \subseteq Types /\ Live \subseteq Made  BY PlaceTyped
<1>2. /\ state' = [state EXCEPT ![t] = "live"] /\ Live' = Live \cup {t} /\ Made' = Made
      /\ strays' = strays \cup (IF Place(t) \in Live \cup {Root} THEN {} ELSE {t})
  BY <1>1 DEF Back, Live, TypeOK, Made
<1>3. Placed'  BY <1>1, <1>2 DEF Placed, Version, Made, TypeOK
<1>4. \A s \in Types : Place(s)' = Place(s)  BY DEF Place
<1>5. NothingBelowDeleted'  BY <1>1, <1>2, <1>4 DEF NothingBelowDeleted
<1>6. QED  BY <1>1, <1>2, <1>3, <1>5 DEF TypeOK

-----------------------------------------------------------------------------
(* Steps *)

LEMMA NoCallWell == NoCall \in Call /\ WellCall(NoCall)
<1>1. NoCall \in Call
  BY TypologyAssumption DEF TypologyAssumption, NoCall, Call
<1>2. WellCall(NoCall)  BY DEF NoCall, WellCall
<1>3. QED  BY <1>1, <1>2

LEMMA Mine ==
  ASSUME IInv, NEW p \in Processes
  PROVE  Me(p) \in Call /\ WellCall(Me(p))
  BY DEF IInv, TypeOK, Me

\* A process goes on, and nothing else.
LEMMA QuietStep ==
  ASSUME IInv, NEW p \in Processes, NEW c \in Call, WellCall(c), Become(p, c),
         UNCHANGED <<past, state, given, astray, strays>>, begun' \in 0..MaxCalls
  PROVE  IInv'
<1>1. TypeOK'  BY DEF IInv, TypeOK, Become
<1>2. Placed' /\ NothingBelowDeleted' /\ NoLoop'
  BY SameTree DEF IInv, Placed, NothingBelowDeleted, NoLoop, Made, Live, Version, Place
<1>3. ASSUME NEW q \in Processes PROVE WellCall(Me(q))'
  <2>1. PICK d \in Call : d = Me(q)' /\ WellCall(d)  BY Mine DEF Become, Me, IInv, TypeOK
  <2>2. WellCall(d)'  BY <2>1, SameCall
  <2>3. QED  BY <2>1, <2>2 DEF WellCall
<1>4. QED  BY <1>1, <1>2, <1>3 DEF IInv

LEMMA BeginStep ==
  ASSUME IInv, NEW p \in Processes, NEW c \in Call, WellCall(c), Begins(p, c)
  PROVE  IInv'
<1>1. begun' \in 0..MaxCalls
  BY TypologyAssumption DEF TypologyAssumption, Begins, IInv, TypeOK
<1>2. QED  BY <1>1, QuietStep DEF Begins

LEMMA EndStep ==
  ASSUME IInv, NEW p \in Processes, Ends(p), UNCHANGED <<past, state, given, begun, astray, strays>>
  PROVE  IInv'
  BY NoCallWell, QuietStep DEF Ends, IInv, TypeOK

\* A type is put somewhere by a process, which goes on or not.
LEMMA PutStep ==
  ASSUME IInv, NEW p \in Processes, NEW c \in Call, WellCall(c), Become(p, c) \/ UNCHANGED calls,
         UNCHANGED <<state, given, begun>>,
         NEW t \in Made, NEW to \in Made \cup {Root}, Puts(t, to),
         astray' \in BOOLEAN, astray => astray', strays \subseteq strays', strays' \subseteq Types \cup Heads,
         to \in Live \cup {Root} \/ t \in strays',
         \/ astray'
         \/ to = Place(t)
         \/ to # Root => to # t /\ ~Below(to, t)
  PROVE  IInv'
<1>0. TypeOK /\ Placed /\ t \in Types /\ to \in Types \cup {Root}
  BY PlaceTyped DEF IInv
<1>1. TypeOK'
  <2>1. past' \in [Types -> Seq(Types \cup {Root})]  BY <1>0, PutsWell
  <2>2. QED  BY <2>1 DEF IInv, TypeOK, Become
<1>2. Placed'  BY <1>0, PutPlaced
<1>3. NothingBelowDeleted'  BY <1>0, PutAbove DEF IInv
<1>4. NoLoop'  BY <1>0, PutTree DEF IInv, NoLoop
<1>5. ASSUME NEW q \in Processes PROVE WellCall(Me(q))'
  <2>1. PICK d \in Call : d = Me(q)' /\ WellCall(d)  BY Mine DEF Become, Me, IInv, TypeOK
  <2>2. WellCall(d)'  BY <1>0, <2>1, PutCall
  <2>3. QED  BY <2>1, <2>2 DEF WellCall
<1>6. QED  BY <1>1, <1>2, <1>3, <1>4, <1>5 DEF IInv

LEMMA CallGoesOn ==
  ASSUME NEW c \in Call, NEW n \in 1..MoveAttempts,
         NEW pc \in {"idle", "read", "move", "edit", "relink", "retype", "delete", "bring", "revive", "restore"}
  PROVE  [c EXCEPT !.pc = pc, !.tries = n] \in Call
  BY DEF Call

LEMMA MoveSteps ==
  ASSUME IInv, NEW p \in Processes, BeginMove(p) \/ ReadVersion(p) \/ Move(p)
  PROVE  IInv'
<1>0. /\ TypeOK /\ Placed /\ Me(p) \in Call /\ WellCall(Me(p)) /\ MoveAttempts \in Nat \ {0}
      /\ Live \subseteq Made /\ Made \subseteq Types
      /\ \A t \in Made : Version(t) \in Nat
  BY Mine, PlaceTyped, TypologyAssumption DEF IInv, TypologyAssumption
<1>1. CASE BeginMove(p)
  <2>1. PICK t \in Live, to \in Live \cup {Root} :
          /\ ~WouldLoop(t, to)
          /\ Begins(p, [NoCall EXCEPT !.pc = "read", !.type = t, !.to = to])
    BY <1>1, Zenon DEF BeginMove
  <2> DEFINE c == [NoCall EXCEPT !.pc = "read", !.type = t, !.to = to]
  <2>2. c \in Call  BY <1>0, NoCallWell DEF Call, NoCall
  <2>3. WellCall(c)  BY <1>0 DEF WellCall, NoCall
  <2>4. Begins(p, c)  BY <2>1
  <2> HIDE DEF c
  <2>5. QED  BY <2>2, <2>3, <2>4, BeginStep
<1>2. CASE ReadVersion(p)
  <2>1. CASE Me(p).type \in Live
    <3> DEFINE c == [Me(p) EXCEPT !.pc = "move", !.version = Version(Me(p).type)]
    <3>1. c \in Call  BY <1>0, <2>1 DEF Call
    <3>2. WellCall(c)  BY <1>0, <1>2, <3>1 DEF WellCall, ReadVersion, Call
    <3>3. QED  BY <1>2, <2>1, <3>1, <3>2, QuietStep DEF ReadVersion, IInv, TypeOK
  <2>2. CASE Me(p).type \notin Live
    BY <1>2, <2>2, EndStep DEF ReadVersion
  <2>3. QED  BY <2>1, <2>2
<1>3. CASE Move(p)
  <2> DEFINE c == Me(p)
             next == [c EXCEPT !.pc = c.then, !.tries = 1]
             again == [c EXCEPT !.pc = "read", !.tries = @ + 1]
  <2>1. CASE ~MayMove(c.type, c.to)
    BY <1>3, <2>1, EndStep DEF Move
  <2>2. CASE MayMove(c.type, c.to) /\ c.version = Version(c.type)
    <3>1. /\ Puts(c.type, c.to) /\ c.type \in Made /\ c.to \in Made \cup {Root}
          /\ c.to \in Live \cup {Root} /\ (c.to # Root => c.to # c.type /\ ~Below(c.to, c.type))
      BY <1>0, <1>3, <2>2 DEF Move, MayMove
    <3>2. IF c.then = "idle" THEN Become(p, NoCall) ELSE Become(p, next)
      BY <1>3, <2>2 DEF Move, Ends
    <3> HIDE DEF next
    <3>3. CASE c.then = "idle"
      BY <1>3, <3>1, <3>2, <3>3, NoCallWell, PutStep DEF Move, IInv, TypeOK
    <3>4. CASE c.then # "idle"
      <4>1. next \in Call
        <5>1. c.then \in {"idle", "relink", "delete"} /\ 1 \in 1..MoveAttempts  BY <1>0 DEF Call
        <5>2. QED  BY <1>0, <5>1, CallGoesOn, Zenon DEF next
      <4>2. WellCall(next)
        BY <1>0, <1>3, <3>1, <3>4, <4>1 DEF WellCall, Move, Call, next
      <4>3. QED  BY <1>3, <3>1, <3>2, <3>4, <4>1, <4>2, PutStep DEF Move, IInv, TypeOK
    <3>5. QED  BY <3>3, <3>4
  <2>3. CASE MayMove(c.type, c.to) /\ c.version # Version(c.type)
    <3>1. IF TriesAgain(c.tries) THEN Become(p, again) ELSE Ends(p)
      BY <1>3, <2>3 DEF Move
    <3>2. UNCHANGED <<past, state, given, begun, astray, strays>>
      BY <1>3, <2>3 DEF Move
    <3>3. CASE TriesAgain(c.tries)
      <4>1. again \in Call
        <5>1. c.tries + 1 \in 1..MoveAttempts  BY <1>0, <3>3 DEF Call, TriesAgain
        <5>2. QED  BY <1>0, <5>1, CallGoesOn, Zenon
      <4>2. WellCall(again)  BY <1>0, <1>3, <4>1 DEF WellCall, Move, Call
      <4> HIDE DEF again
      <4>3. QED  BY <3>1, <3>2, <3>3, <4>1, <4>2, QuietStep DEF IInv, TypeOK
    <3>4. CASE ~TriesAgain(c.tries)
      BY <3>1, <3>2, <3>4, EndStep
    <3>5. QED  BY <3>3, <3>4
  <2>4. QED  BY <2>1, <2>2, <2>3
<1>4. QED  BY <1>1, <1>2, <1>3

LEMMA WrittenStep ==
  ASSUME IInv, NEW p \in Processes, Me(p).pc \in {"edit", "restore"}, Written(p)
  PROVE  IInv'
<1> DEFINE c == Me(p)
           ok == c.type \in Live /\ c.to \in Live \cup {Root} /\ OfItsVersion(c)
<1>0. /\ TypeOK /\ Placed /\ c \in Call /\ WellCall(c) /\ Live \subseteq Made
      /\ astray \in BOOLEAN /\ strays \subseteq Types \cup Heads /\ begun \in 0..MaxCalls
      /\ \A t \in Made : Version(t) \in Nat \ {0}
  BY Mine, PlaceTyped DEF IInv, TypeOK
<1>1. CASE ~ok
  BY <1>1, EndStep DEF Written
<1>2. CASE ok
  <2>1. /\ Puts(c.type, c.to) /\ c.type \in Made /\ c.to \in Made \cup {Root}
        /\ c.to \in Live \cup {Root}
    BY <1>0, <1>2 DEF Written, WellCall
  <2>2. astray' = (astray \/ (c.to # Place(c.type) /\ (c.version = 0 \/ c.pc = "restore")))
    BY <1>2 DEF Written
  <2>3. astray' \/ c.to = Place(c.type)
    <3>1. CASE c.version = 0 \/ c.pc = "restore"  BY <2>2, <3>1
    <3>2. CASE c.version # 0 /\ c.pc = "edit"
      <4>1. c.version = Version(c.type) /\ past[c.type][c.version] = c.to
        BY <1>0, <1>2, <3>2 DEF OfItsVersion, WellCall
      <4>2. QED  BY <4>1 DEF Place, Last, Version
    <3>3. QED  BY <3>1, <3>2
  <2>4. astray' \in BOOLEAN /\ (astray => astray')  BY <1>0, <2>2
  <2>5. Become(p, NoCall) /\ UNCHANGED <<state, given, begun, strays>>  BY DEF Written, Ends
  <2>6. QED  BY <1>0, <2>1, <2>3, <2>4, <2>5, NoCallWell, PutStep
<1>3. QED  BY <1>1, <1>2

LEMMA EditSteps ==
  ASSUME IInv, NEW p \in Processes, BeginEdit(p) \/ Edit(p)
  PROVE  IInv'
<1>1. CASE BeginEdit(p)
  <2>1. PICK t \in Live : \E version \in {Version(t), 0} :
          Begins(p, [NoCall EXCEPT !.pc = "edit", !.type = t, !.to = Place(t), !.version = version])
    BY <1>1, Zenon DEF BeginEdit
  <2>2. PICK version \in {Version(t), 0} :
          Begins(p, [NoCall EXCEPT !.pc = "edit", !.type = t, !.to = Place(t), !.version = version])
    BY <2>1, Zenon
  <2> DEFINE c == [NoCall EXCEPT !.pc = "edit", !.type = t, !.to = Place(t), !.version = version]
  <2>3. /\ t \in Made /\ t \in Types /\ Version(t) \in Nat \ {0} /\ Place(t) \in Made \cup {Root}
        /\ Made \subseteq Types
    BY PlaceTyped DEF IInv
  <2>4. c \in Call  BY <2>3, NoCallWell DEF Call, NoCall
  <2>5. WellCall(c)  BY <2>3 DEF WellCall, NoCall, Place, Last, Version
  <2> HIDE DEF c
  <2>6. Begins(p, c)  BY <2>2 DEF c
  <2>7. QED  BY <2>4, <2>5, <2>6, BeginStep
<1>2. CASE Edit(p)
  BY <1>2, WrittenStep DEF Edit
<1>3. QED  BY <1>1, <1>2

\* A type goes that nothing is below, and that no head has.
LEMMA DeleteSteps ==
  ASSUME IInv, NEW p \in Processes, BeginDelete(p) \/ Delete(p)
  PROVE  IInv'
<1>0. /\ TypeOK /\ Placed /\ NothingBelowDeleted /\ Me(p) \in Call /\ WellCall(Me(p))
      /\ Live \subseteq Made /\ Made \subseteq Types
  BY Mine, PlaceTyped DEF IInv
<1>1. CASE BeginDelete(p)
  <2>1. PICK t \in Live : ~Used(t) /\ Begins(p, [NoCall EXCEPT !.pc = "delete", !.type = t])
    BY <1>1, Zenon DEF BeginDelete
  <2> DEFINE c == [NoCall EXCEPT !.pc = "delete", !.type = t]
  <2>2. c \in Call  BY <1>0, NoCallWell DEF Call, NoCall
  <2>3. WellCall(c)  BY <1>0 DEF WellCall, NoCall
  <2>4. Begins(p, c)  BY <2>1
  <2> HIDE DEF c
  <2>5. QED  BY <2>2, <2>3, <2>4, BeginStep
<1>2. CASE Delete(p)
  <2> DEFINE t == Me(p).type
  <2>1. CASE ~Deletable(t)
    BY <1>2, <2>1, EndStep DEF Delete
  <2>2. CASE Deletable(t)
    <3>1. /\ t \in Live /\ ~Used(t) /\ state' = [state EXCEPT ![t] = "deleted"]
          /\ calls' = [calls EXCEPT ![p] = NoCall]
          /\ UNCHANGED <<past, given, begun, astray, strays>>
      BY <1>2, <2>2 DEF Delete, Deletable, Ends, Become
    <3>2. TypeOK'  BY <3>1, NoCallWell DEF IInv, TypeOK
    <3>3. Made' = Made /\ Live' = Live \ {t} /\ \A s \in Types : Place(s)' = Place(s) /\ Version(s)' = Version(s)
      BY <1>0, <3>1 DEF Made, Live, Place, Version, TypeOK
    <3>4. Placed'  BY <1>0, <3>1, <3>3 DEF Placed, Version, Made, TypeOK
    <3>5. NothingBelowDeleted'
      BY <1>0, <3>1, <3>3 DEF NothingBelowDeleted, Used
    <3>6. NoLoop'  BY <3>1, SameTree DEF IInv, NoLoop
    <3>7. ASSUME NEW q \in Processes PROVE WellCall(Me(q))'
      <4>1. PICK d \in Call : d = Me(q)' /\ WellCall(d)
        BY <3>1, Mine, NoCallWell DEF Me, IInv, TypeOK
      <4>2. WellCall(d)'  BY <3>1, <4>1, SameCall
      <4>3. QED  BY <4>1, <4>2 DEF WellCall
    <3>8. QED  BY <3>2, <3>4, <3>5, <3>6, <3>7 DEF IInv
  <2>3. QED  BY <2>1, <2>2
<1>3. QED  BY <1>1, <1>2

\* What was below a type is put below another, that is not; heads that had it, too.
LEMMA MergeSteps ==
  ASSUME IInv, NEW p \in Processes, BeginMerge(p) \/ RelinkSubtypes(p) \/ Retype(p)
  PROVE  IInv'
<1>0. /\ TypeOK /\ Placed /\ NothingBelowDeleted /\ Me(p) \in Call /\ WellCall(Me(p))
      /\ Live \subseteq Made /\ Made \subseteq Types /\ Root \notin Made
      /\ \A t \in Made : Version(t) \in Nat /\ Place(t) \in Made \cup {Root}
      /\ Up \in [Made -> Made \cup {Root}]
      /\ astray \in BOOLEAN /\ strays \subseteq Types \cup Heads /\ begun \in 0..MaxCalls
  BY Mine, PlaceTyped DEF IInv, TypeOK
<1>1. CASE BeginMerge(p)
  <2>1. PICK t \in Live, into \in Live :
          /\ t # into
          /\ LET merge == [NoCall EXCEPT !.from = t, !.into = into, !.above = RowPlace(t)] IN
             Begins(p, IF RowBelow(into, t)
                       THEN [merge EXCEPT !.pc = "read", !.then = "relink", !.type = into,
                                          !.to = RowPlace(t)]
                       ELSE [merge EXCEPT !.pc = "relink"])
    BY <1>1, Zenon DEF BeginMerge
  <2> DEFINE merge == [NoCall EXCEPT !.from = t, !.into = into, !.above = RowPlace(t)]
             c == IF RowBelow(into, t)
                  THEN [merge EXCEPT !.pc = "read", !.then = "relink", !.type = into, !.to = RowPlace(t)]
                  ELSE [merge EXCEPT !.pc = "relink"]
  <2>2. /\ t \in Types /\ into \in Types /\ t \in Made /\ into \in Made /\ t # into
        /\ RowPlace(t) \in Made \cup {Root}
    BY <1>0, <2>1 DEF RowPlace
  <2>3. merge \in Call /\ merge.from = t /\ merge.into = into /\ merge.to = Root
        /\ merge.version = 0 /\ merge.then = "idle"
    BY <1>0, <2>2, NoCallWell DEF Call, NoCall
  <2> HIDE DEF merge
  <2>4. c \in Call
    <3>1. CASE RowBelow(into, t)
      <4>1. RowPlace(t) \in Types \cup {Root}  BY <1>0, <2>2
      <4>2. [merge EXCEPT !.pc = "read", !.then = "relink", !.type = into, !.to = RowPlace(t)] \in Call
        BY <2>2, <2>3, <4>1 DEF Call
      <4>3. QED  BY <3>1, <4>2
    <3>2. CASE ~RowBelow(into, t)  BY <1>0, <2>2, <2>3, <3>2 DEF Call
    <3>3. QED  BY <3>1, <3>2
  <2>5. WellCall(c)
    <3>1. CASE RowBelow(into, t)
      <4>1. /\ c.pc = "read" /\ c.type = into /\ c.to = RowPlace(t) /\ c.from = t /\ c.into = into
        BY <2>3, <3>1 DEF Call
      <4>2. QED  BY <2>2, <4>1 DEF WellCall
    <3>2. CASE ~RowBelow(into, t)
      <4>1. /\ c.pc = "relink" /\ c.to = Root /\ c.from = t /\ c.into = into
        BY <2>3, <3>2 DEF Call
      <4>2. QED  BY <2>2, <4>1 DEF WellCall
    <3>3. QED  BY <3>1, <3>2
  <2>6. Begins(p, c)  BY <2>1 DEF merge
  <2> HIDE DEF c
  <2>7. QED  BY <2>4, <2>5, <2>6, BeginStep
<1>2. CASE RelinkSubtypes(p)
  <2> DEFINE c == Me(p)
  <2>1. CASE ~MayMerge(c)
    BY <1>2, <2>1, EndStep DEF RelinkSubtypes
  <2>2. CASE MayMerge(c) /\ Subtypes(c.from) \ {c.into} = {}
    <3> DEFINE next == [c EXCEPT !.pc = "retype"]
    <3>1. next \in Call  BY <1>0 DEF Call
    <3>2. WellCall(next)  BY <1>0, <1>2, <3>1 DEF WellCall, RelinkSubtypes, Call
    <3>3. QED  BY <1>0, <1>2, <2>2, <3>1, <3>2, QuietStep DEF RelinkSubtypes
  <2>3. CASE MayMerge(c) /\ Subtypes(c.from) \ {c.into} # {}
    <3>1. PICK t \in Subtypes(c.from) \ {c.into} : Puts(t, c.into) /\ Lost(t, c.into) /\ UNCHANGED calls
      BY <1>2, <2>3 DEF RelinkSubtypes
    <3>2. /\ c.from \in Made /\ c.into \in Made /\ t \in Made /\ Place(t) = c.from
          /\ UNCHANGED <<state, given, begun, astray>>
      BY <1>0, <1>2 DEF RelinkSubtypes, WellCall, Subtypes
    <3>3. ~Over(c.from, c.into, Up) /\ Up[t] = c.from
      BY <2>3, <3>2 DEF MayMerge, Below, Up
    <3>4. ~Over(t, c.into, Up)  BY <1>0, <3>2, <3>3, NotOverBelow
    <3>5. c.into # t /\ ~Below(c.into, t)  BY <3>1, <3>4 DEF Below, Up
    <3>6. /\ strays \subseteq strays' /\ strays' \subseteq Types \cup Heads
          /\ c.into \in Live \cup {Root} \/ t \in strays'
      BY <1>0, <3>1, <3>2 DEF Lost
    <3>7. QED  BY <1>0, <3>1, <3>2, <3>5, <3>6, NoCallWell, PutStep
  <2>4. QED  BY <2>1, <2>2, <2>3
<1>3. CASE Retype(p)
  <2> DEFINE c == Me(p)
             have == {h \in Heads : given[h] = c.from}
             gone == [c EXCEPT !.type = c.from, !.to = Root,
                               !.then = IF c.above # Root THEN "delete" ELSE "idle",
                               !.pc = IF c.above # Root THEN "read" ELSE "delete"]
  <2>0. c.from \in Made /\ c.into \in Made /\ c.from # c.into
    BY <1>0, <1>3 DEF Retype, WellCall
  <2>1. CASE have = {}
    <3>1. gone \in Call  BY <1>0, <2>0 DEF Call
    <3>2. WellCall(gone)  BY <1>0, <2>0 DEF WellCall, Call
    <3>3. Become(p, gone) /\ UNCHANGED <<past, state, given, begun, astray, strays>>
      BY <1>3, <2>1 DEF Retype
    <3> HIDE DEF gone
    <3>4. QED  BY <1>0, <3>1, <3>2, <3>3, QuietStep
  <2>2. CASE have # {}
    <3>1. PICK h \in have : given' = [given EXCEPT ![h] = c.into] /\ Lost(h, c.into) /\ UNCHANGED calls
      BY <1>3, <2>2 DEF Retype
    <3>2. UNCHANGED <<past, state, begun, astray>>  BY <1>3 DEF Retype
    <3>3. TypeOK'  BY <1>0, <2>0, <3>1, <3>2 DEF TypeOK, Lost
    <3>4. Placed'  BY <1>0, <2>0, <3>1, <3>2 DEF Placed, TypeOK, Made, Version
    <3>5. NothingBelowDeleted'
      BY <1>0, <2>0, <3>1, <3>2 DEF NothingBelowDeleted, TypeOK, Lost, Live, Place
    <3>6. NoLoop'  BY <3>2, SameTree DEF IInv, NoLoop
    <3>7. ASSUME NEW q \in Processes PROVE WellCall(Me(q))'
      BY <3>1, <3>2 DEF Me, IInv, WellCall, Made, Version
    <3>8. QED  BY <3>3, <3>4, <3>5, <3>6, <3>7 DEF IInv
  <2>3. QED  BY <2>1, <2>2
<1>4. QED  BY <1>1, <1>2, <1>3

\* What comes back, and is written as it was before: then whether the types are a tree
\* still is no longer known.
LEMMA RestoreSteps ==
  ASSUME IInv, NEW p \in Processes,
         BeginRestore(p) \/ BringBack(p) \/ Revive(p) \/ Restore(p)
  PROVE  IInv'
<1>0. /\ TypeOK /\ Placed /\ NothingBelowDeleted /\ Me(p) \in Call /\ WellCall(Me(p))
      /\ Live \subseteq Made /\ Made \subseteq Types
      /\ \A t \in Made : Version(t) \in Nat \ {0}
      /\ astray \in BOOLEAN /\ strays \subseteq Types \cup Heads /\ begun \in 0..MaxCalls
  BY Mine, PlaceTyped DEF IInv, TypeOK
<1>1. CASE BeginRestore(p)
  <2>1. PICK t \in Made : \E v \in 1..Version(t), version \in {Version(t), 0} :
          Begins(p, [NoCall EXCEPT !.pc = "bring", !.type = t, !.to = past[t][v], !.version = version])
    BY <1>1, Zenon DEF BeginRestore
  <2>2. PICK v \in 1..Version(t), version \in {Version(t), 0} :
          Begins(p, [NoCall EXCEPT !.pc = "bring", !.type = t, !.to = past[t][v], !.version = version])
    BY <2>1, Zenon
  <2> DEFINE c == [NoCall EXCEPT !.pc = "bring", !.type = t, !.to = past[t][v], !.version = version]
  <2>3. t \in Types /\ Version(t) \in Nat /\ past[t][v] \in Made \cup {Root}
    BY <1>0 DEF Placed
  <2>4. c \in Call  BY <1>0, <2>3, NoCallWell DEF Call, NoCall
  <2>5. WellCall(c)  BY <2>3 DEF WellCall, NoCall
  <2> HIDE DEF c
  <2>6. Begins(p, c)  BY <2>2 DEF c
  <2>7. QED  BY <2>4, <2>5, <2>6, BeginStep
<1>2. ASSUME NEW t \in Made, NEW c \in Call, WellCall(c), Become(p, c),
             Back(t), UNCHANGED <<past, given, begun, astray>>
      PROVE  IInv'
  <2>1. /\ Placed' /\ NothingBelowDeleted' /\ state' \in [Types -> {"new", "live", "deleted"}]
        /\ strays' \subseteq Types \cup Heads
    BY <1>0, <1>2, BackWell
  <2>2. TypeOK'  BY <1>0, <1>2, <2>1 DEF TypeOK, Become
  <2>3. NoLoop'  BY <1>2, SameTree DEF IInv, NoLoop
  <2>4. ASSUME NEW q \in Processes PROVE WellCall(Me(q))'
    <3>1. PICK d \in Call : d = Me(q)' /\ WellCall(d)
      BY <1>2, Mine DEF Become, Me, IInv, TypeOK
    <3>2. WellCall(d)'  BY <1>2, <3>1, SameCall
    <3>3. QED  BY <3>1, <3>2 DEF WellCall
  <2>5. QED  BY <2>1, <2>2, <2>3, <2>4 DEF IInv
<1>3. CASE BringBack(p)
  <2> DEFINE c == [Me(p) EXCEPT !.pc = "revive"]
  <2>1. c \in Call /\ WellCall(c)
    <3>1. c \in Call  BY <1>0 DEF Call
    <3>2. WellCall(c)  BY <1>0, <1>3, <3>1 DEF WellCall, BringBack, Call
    <3>3. QED  BY <3>1, <3>2
  <2>2. Become(p, c) /\ UNCHANGED <<past, given, begun, astray>>
    BY <1>3 DEF BringBack
  <2>3. Me(p).to \in Made \cup {Root}  BY <1>0 DEF WellCall
  <2> HIDE DEF c
  <2>4. CASE Me(p).to = Root \/ Me(p).to \in Live
    <3>1. UNCHANGED <<state, strays>>  BY <1>3, <2>4 DEF BringBack
    <3>2. QED  BY <1>0, <2>1, <2>2, <3>1, QuietStep
  <2>5. CASE ~(Me(p).to = Root \/ Me(p).to \in Live)
    <3>1. Back(Me(p).to)  BY <1>3, <2>5 DEF BringBack
    <3>2. QED  BY <1>2, <2>1, <2>2, <2>3, <2>5, <3>1
  <2>6. QED  BY <2>4, <2>5
<1>4. CASE Revive(p)
  <2> DEFINE c == [Me(p) EXCEPT !.pc = "restore",
                                !.version = IF @ = 0 THEN Version(Me(p).type) ELSE @]
  <2>0. Me(p).type \in Made  BY <1>0, <1>4 DEF WellCall, Revive
  <2>1. c \in Call /\ WellCall(c)
    <3>1. c \in Call
      <4>1. (IF Me(p).version = 0 THEN Version(Me(p).type) ELSE Me(p).version) \in Nat
        BY <1>0, <2>0 DEF Call
      <4>2. \A n \in Nat : [Me(p) EXCEPT !.pc = "restore", !.version = n] \in Call  BY <1>0 DEF Call
      <4>3. QED  BY <4>1, <4>2, Zenon
    <3>2. WellCall(c)  BY <1>0, <2>0, <3>1 DEF WellCall, Call
    <3>3. QED  BY <3>1, <3>2
  <2>2. Become(p, c) /\ UNCHANGED <<past, given, begun, astray>>
    BY <1>4 DEF Revive
  <2> HIDE DEF c
  <2>3. CASE Me(p).type \in Live
    <3>1. UNCHANGED <<state, strays>>  BY <1>4, <2>3 DEF Revive
    <3>2. QED  BY <1>0, <2>1, <2>2, <3>1, QuietStep
  <2>4. CASE Me(p).type \notin Live
    <3>1. Back(Me(p).type)  BY <1>4, <2>4 DEF Revive
    <3>2. QED  BY <1>2, <2>0, <2>1, <2>2, <3>1
  <2>5. QED  BY <2>3, <2>4
<1>5. CASE Restore(p)
  BY <1>5, WrittenStep DEF Restore
<1>6. QED  BY <1>1, <1>3, <1>4, <1>5

LEMMA CreateStep ==
  ASSUME IInv, NEW t \in Types, NEW to \in Types \cup {Root}, Create(t, to)
  PROVE  IInv'
<1>0. /\ TypeOK /\ Placed /\ NothingBelowDeleted
      /\ Live \subseteq Made /\ Made \subseteq Types /\ Root \notin Made /\ t \notin Made
      /\ \A s \in Made : Version(s) \in Nat /\ Place(s) \in Made \cup {Root}
      /\ Up \in [Made -> Made \cup {Root}]
      /\ to \in Live \cup {Root} /\ past[t] = <<>> /\ MaxCalls \in Nat /\ Root \notin Types
  BY PlaceTyped, TypologyAssumption DEF IInv, Create, Placed, Made, TypologyAssumption
<1>1. /\ Puts(t, to) /\ state' = [state EXCEPT ![t] = "live"]
      /\ begun < MaxCalls /\ begun' = begun + 1 /\ UNCHANGED <<calls, astray, given, strays>>
  BY DEF Create, Once
<1>2. /\ past' \in [Types -> Seq(Types \cup {Root})]
      /\ \A s \in Types \ {t} : past'[s] = past[s] /\ Place(s)' = Place(s) /\ Version(s)' = Version(s)
      /\ Version(t)' = 1 /\ past'[t][1] = to /\ Place(t)' = to /\ Made' = Made \cup {t}
  BY <1>0, <1>1, PutsWell
<1>3. Live' = Live \cup {t}  BY <1>1 DEF Live, IInv, TypeOK
<1>4. TypeOK'
  <2>1. begun' \in 0..MaxCalls  BY <1>0, <1>1 DEF TypeOK
  <2>2. state' \in [Types -> {"new", "live", "deleted"}]  BY <1>0, <1>1 DEF TypeOK
  <2>3. QED  BY <1>0, <1>1, <1>2, <2>1, <2>2 DEF TypeOK
<1>5. Placed'
  <2>1. \A s \in Types : state'[s] = "new" <=> past'[s] = <<>>
    BY <1>0, <1>1, <1>2 DEF Placed, TypeOK, Made
  <2>2. \A s \in Made' : \A v \in 1..Version(s)' : past'[s][v] \in Made' \cup {Root}
    BY <1>0, <1>2 DEF Placed
  <2>3. \A h \in Heads : given'[h] \in Made' \cup {NoType}
    BY <1>0, <1>1, <1>2 DEF Placed
  <2>4. QED  BY <2>1, <2>2, <2>3 DEF Placed
<1>6. NothingBelowDeleted'
  BY <1>0, <1>1, <1>2, <1>3 DEF NothingBelowDeleted
<1>7. NoLoop'
  <2>1. CASE astray  BY <1>1, <2>1 DEF NoLoop
  <2>2. CASE ~astray
    <3>1. IsTree(Up, Made)  BY <1>0, <2>2, ForestIsTree DEF IInv, NoLoop
    <3>2. Up' \in [Made \cup {t} -> Made \cup {Root}] /\ Up'[t] = to /\ \A s \in Made : Up'[s] = Up[s]
      BY <1>0, <1>2 DEF Up
    <3>3. t \notin Made \cup {Root} /\ to \in Made \cup {Root}  BY <1>0
    <3>4. IsTree(Up', Made \cup {t})  BY <3>1, <3>2, <3>3, PutNew
    <3>5. \A x \in Made' : ~Over(x, x, Up')  BY <1>2, <3>4 DEF IsTree
    <3>6. QED  BY <3>5 DEF NoLoop, Forest, Below, Up
  <2>3. QED  BY <2>1, <2>2
<1>8. ASSUME NEW q \in Processes PROVE WellCall(Me(q))'
  <2>1. PICK d \in Call : d = Me(q)' /\ WellCall(d)  BY <1>1, Mine DEF Me, IInv, TypeOK
  <2>2. WellCall(d)'  BY <1>0, <1>1, <2>1, PutCall
  <2>3. QED  BY <2>1, <2>2 DEF WellCall
<1>9. QED  BY <1>4, <1>5, <1>6, <1>7, <1>8 DEF IInv

LEMMA OtherSteps ==
  ASSUME IInv,
         (\E t \in Types : Undelete(t)) \/ (\E h \in Heads, t \in Types : Give(h, t))
  PROVE  IInv'
<1>0. /\ TypeOK /\ Placed /\ NothingBelowDeleted /\ Live \subseteq Made /\ Made \subseteq Types
      /\ MaxCalls \in Nat /\ Heads \cap Types = {}
  BY PlaceTyped, TypologyAssumption DEF IInv, TypologyAssumption
<1>1. begun' \in 0..MaxCalls /\ UNCHANGED <<past, calls, astray>>
  BY <1>0 DEF Undelete, Give, Once, TypeOK
<1>2. NoLoop'  BY <1>1, SameTree DEF IInv, NoLoop
<1>3. ASSUME NEW q \in Processes PROVE WellCall(Me(q))'
  BY <1>1 DEF Me, IInv, WellCall, Made, Version
<1>4. CASE \E t \in Types : Undelete(t)
  <2>1. PICK t \in Types : Undelete(t)  BY <1>4
  <2>2. t \in Made /\ Back(t) /\ UNCHANGED given
    BY <1>0, <2>1 DEF Undelete, Placed, Made
  <2>3. /\ Placed' /\ NothingBelowDeleted' /\ state' \in [Types -> {"new", "live", "deleted"}]
        /\ strays' \subseteq Types \cup Heads
    BY <1>0, <1>1, <2>2, BackWell
  <2>4. TypeOK'  BY <1>0, <1>1, <2>2, <2>3 DEF TypeOK
  <2>5. QED  BY <1>2, <1>3, <2>3, <2>4 DEF IInv
<1>5. CASE \E h \in Heads, t \in Types : Give(h, t)
  <2>1. PICK h \in Heads, t \in Types : Give(h, t)  BY <1>5
  <2>2. /\ t \in Live /\ given' = [given EXCEPT ![h] = t] /\ strays' = strays \ {h} /\ UNCHANGED <<past, state>>
    BY <2>1 DEF Give
  <2>3. TypeOK'  BY <1>0, <1>1, <2>2 DEF TypeOK
  <2>4. Placed'  BY <1>0, <2>2 DEF Placed, TypeOK, Made, Version
  <2>5. NothingBelowDeleted'
    BY <1>0, <2>2 DEF NothingBelowDeleted, TypeOK, Live, Place
  <2>6. QED  BY <1>2, <1>3, <2>3, <2>4, <2>5 DEF IInv
<1>6. QED  BY <1>4, <1>5

-----------------------------------------------------------------------------
(* Theorems *)

LEMMA InitIInv == Init => IInv
<1> SUFFICES ASSUME Init PROVE IInv
  OBVIOUS
<1>1. PICK f \in FirstPlaces :
        /\ past = [t \in Types |-> IF t \in DOMAIN f THEN <<f[t]>> ELSE <<>>]
        /\ state = [t \in Types |-> IF t \in DOMAIN f THEN "live" ELSE "new"]
  BY DEF Init
<1>2. /\ DOMAIN f \subseteq Types /\ MaxCalls \in Nat /\ Root \notin Types /\ NoType \notin Types
      /\ \A t \in DOMAIN f : f[t] \in DOMAIN f \cup {Root} /\ ~Over(t, t, f)
  BY TypologyAssumption DEF TypologyAssumption
<1>3. /\ given = [h \in Heads |-> NoType] /\ calls = [p \in Processes |-> NoCall]
      /\ begun = 0 /\ astray = FALSE /\ strays = {}
  BY DEF Init
<1>4. ASSUME NEW t \in DOMAIN f
      PROVE  /\ past[t] = <<f[t]>> /\ past[t] # <<>> /\ past[t] \in Seq(Types \cup {Root})
             /\ Version(t) = 1 /\ past[t][1] = f[t] /\ Place(t) = f[t]
  <2>1. past[t] = <<f[t]>> /\ f[t] \in Types \cup {Root}  BY <1>1, <1>2
  <2>2. <<f[t]>> \in Seq(Types \cup {Root}) /\ Len(<<f[t]>>) = 1 /\ <<f[t]>>[1] = f[t] /\ <<f[t]>> # <<>>
    BY <2>1
  <2>3. QED  BY <2>1, <2>2 DEF Version, Place, Last
<1>5. Made = DOMAIN f /\ Live = DOMAIN f  BY <1>1, <1>2, <1>4 DEF Made, Live
<1>6. past \in [Types -> Seq(Types \cup {Root})]
  <2>1. \A t \in Types : past[t] \in Seq(Types \cup {Root})
    <3>1. <<>> \in Seq(Types \cup {Root})  OBVIOUS
    <3>2. QED  BY <1>1, <1>4, <3>1
  <2>2. QED  BY <1>1, <2>1
<1>7. TypeOK
  <2>1. state \in [Types -> {"new", "live", "deleted"}]  BY <1>1
  <2>2. calls \in [Processes -> Call] /\ given \in [Heads -> Types \cup {NoType}]
    BY <1>3, NoCallWell
  <2>3. begun \in 0..MaxCalls  BY <1>2, <1>3
  <2>4. QED  BY <1>3, <1>6, <2>1, <2>2, <2>3 DEF TypeOK
<1>8. Placed
  <2>1. \A t \in Types : state[t] = "new" <=> past[t] = <<>>
    BY <1>1, <1>4
  <2>2. QED  BY <1>2, <1>3, <1>4, <1>5, <2>1 DEF Placed
<1>9. \A p \in Processes : WellCall(Me(p))  BY <1>3, NoCallWell DEF Me
<1>10. NoLoop
  <2>1. \A t, a \in DOMAIN f : Below(t, a) => Over(a, t, f)
    <3>1. \A s \in DOMAIN f : f[s] = Place(s)  BY <1>4
    <3>2. QED  BY <1>5, <3>1 DEF Below, Over
  <2>2. QED  BY <1>2, <1>5, <2>1 DEF NoLoop, Forest
<1>11. NothingBelowDeleted  BY <1>2, <1>3, <1>4, <1>5 DEF NothingBelowDeleted
<1>12. QED  BY <1>7, <1>8, <1>9, <1>10, <1>11 DEF IInv

LEMMA NextIInv == IInv /\ [Next]_vars => IInv'
<1> SUFFICES ASSUME IInv, [Next]_vars PROVE IInv'
  OBVIOUS
<1>1. CASE UNCHANGED vars
  <2>1. WellCall(NoCall) /\ UNCHANGED past  BY <1>1, NoCallWell DEF vars
  <2>2. NoLoop'  BY <1>1, SameTree DEF vars, IInv, NoLoop
  <2>3. QED
    BY <1>1, <2>2 DEF vars, IInv, TypeOK, Placed, WellCall, NothingBelowDeleted, Me, Made, Live, Place, Version
<1>2. CASE \E p \in Processes :
             \/ BeginMove(p) \/ ReadVersion(p) \/ Move(p)
             \/ BeginEdit(p) \/ Edit(p)
             \/ BeginDelete(p) \/ Delete(p)
             \/ BeginMerge(p) \/ RelinkSubtypes(p) \/ Retype(p)
             \/ BeginRestore(p) \/ BringBack(p) \/ Revive(p) \/ Restore(p)
  BY <1>2, MoveSteps, EditSteps, DeleteSteps, MergeSteps, RestoreSteps
<1>3. CASE \E t \in Types, to \in Types \cup {Root} : Create(t, to)
  BY <1>3, CreateStep
<1>4. CASE (\E t \in Types : Undelete(t)) \/ (\E h \in Heads, t \in Types : Give(h, t))
  BY <1>4, OtherSteps
<1>5. QED  BY <1>1, <1>2, <1>3, <1>4 DEF Next

\* Types, their places in all their versions and what calls know of them fit together, the
\* types are a tree and nothing is below a deleted one, whatever calls race.
THEOREM Invariance == Spec => []IInv
<1>1. Init => IInv  BY InitIInv
<1>2. IInv /\ [Next]_vars => IInv'  BY NextIInv
<1>3. QED  BY <1>1, <1>2, PTL DEF Spec

\* No type comes to be below itself, unless a restore or an edit of any version put it
\* back: check_move and check_merge suffice, each under the hierarchy's lock.
THEOREM StaysATree == Spec => []NoLoop
<1>1. IInv => NoLoop  BY DEF IInv
<1>2. QED  BY <1>1, Invariance, PTL

\* A delete leaves nothing below what it deletes, nor does a merge, a move or an edit.
THEOREM NothingLeftBelow == Spec => []NothingBelowDeleted
<1>1. IInv => NothingBelowDeleted  BY DEF IInv
<1>2. QED  BY <1>1, Invariance, PTL

\* While a process has an edit to write, it does nothing else.
LEMMA EditAlone ==
  ASSUME IInv, Next, NEW p \in Processes, Me(p).pc = "edit", calls'[p] # Me(p)
  PROVE  Edit(p)
<1>0. calls \in [Processes -> Call]  BY DEF IInv, TypeOK
<1>1. ASSUME NEW q \in Processes, NEW c, Become(q, c) PROVE q = p
  BY <1>0, <1>1 DEF Me, Become
<1>2. ASSUME NEW q \in Processes, NEW c, Begins(q, c) PROVE FALSE
  BY <1>1, <1>2 DEF Begins
<1>3. ASSUME NEW q \in Processes, Ends(q) PROVE q = p
  BY <1>1, <1>3 DEF Ends
<1>4. calls' # calls  BY DEF Me
<1>5. ASSUME NEW q \in Processes,
             BeginMove(q) \/ BeginEdit(q) \/ BeginDelete(q) \/ BeginMerge(q) \/ BeginRestore(q)
      PROVE  FALSE
  <2>1. CASE BeginMove(q)  BY <1>2, <2>1, Zenon DEF BeginMove
  <2>2. CASE BeginEdit(q)  BY <1>2, <2>2, Zenon DEF BeginEdit
  <2>3. CASE BeginDelete(q)  BY <1>2, <2>3, Zenon DEF BeginDelete
  <2>4. CASE BeginMerge(q)  BY <1>2, <2>4, Zenon DEF BeginMerge
  <2>5. CASE BeginRestore(q)  BY <1>2, <2>5, Zenon DEF BeginRestore
  <2>6. QED  BY <1>5, <2>1, <2>2, <2>3, <2>4, <2>5
<1>6. ASSUME NEW q \in Processes, ReadVersion(q) \/ Move(q) \/ Delete(q) PROVE FALSE
  <2>1. q = p  BY <1>1, <1>3, <1>6 DEF ReadVersion, Move, Delete
  <2>2. QED  BY <1>6, <2>1 DEF ReadVersion, Move, Delete
<1>7. ASSUME NEW q \in Processes, RelinkSubtypes(q) \/ Retype(q) PROVE FALSE
  <2>1. q = p  BY <1>1, <1>3, <1>4, <1>7 DEF RelinkSubtypes, Retype
  <2>2. QED  BY <1>7, <2>1 DEF RelinkSubtypes, Retype
<1>8. ASSUME NEW q \in Processes, BringBack(q) \/ Revive(q) \/ Restore(q) PROVE FALSE
  <2>1. q = p  BY <1>1, <1>3, <1>8 DEF BringBack, Revive, Restore, Written
  <2>2. QED  BY <1>8, <2>1 DEF BringBack, Revive, Restore
<1>9. PICK q \in Processes : Edit(q)
  BY <1>4, <1>5, <1>6, <1>7, <1>8 DEF Next, Create, Undelete, Give, Once
<1>10. q = p  BY <1>3, <1>9 DEF Edit, Written
<1>11. QED  BY <1>9, <1>10

\* The optimistic check of the version suffices for an edit, which writes the place with
\* the rest, not to undo a move that came after it was read.
THEOREM EditsKeep == Spec => EditsKeepPlaces
<1>1. ASSUME IInv, [Next]_vars
      PROVE  [\A p \in Processes : Me(p).pc = "edit" /\ Me(p).version # 0 /\ calls'[p] # Me(p) =>
                \A t \in Made : Last(past'[t]) = Place(t)]_vars
  <2> SUFFICES ASSUME Next, NEW p \in Processes, Me(p).pc = "edit", Me(p).version # 0,
                      calls'[p] # Me(p), NEW t \in Made
               PROVE  Last(past'[t]) = Place(t)
    BY <1>1
  <2>1. Edit(p)  BY <1>1, EditAlone
  <2> DEFINE c == Me(p)
  <2>2. TypeOK /\ Placed /\ c \in Call /\ WellCall(c) /\ Made \subseteq Types
    BY <1>1, Mine, PlaceTyped DEF IInv
  <2>3. CASE UNCHANGED past  BY <2>3 DEF Place
  <2>4. CASE past' # past
    <3>1. Puts(c.type, c.to) /\ OfItsVersion(c)  BY <2>1, <2>4 DEF Edit, Written
    <3>2. c.type \in Made /\ c.to \in Made \cup {Root}
      BY <2>1, <2>2 DEF WellCall, Edit
    <3>3. c.version = Version(c.type) /\ past[c.type][c.version] = c.to
      BY <2>2, <3>1 DEF WellCall, OfItsVersion
    <3>4. c.to = Place(c.type)  BY <3>3 DEF Place, Last, Version
    <3>5. PICK u \in Made, to \in Made \cup {Root} : Puts(u, to) /\ to = Place(u)
      BY <3>1, <3>2, <3>4
    <3>6. u \in Types /\ to \in Types \cup {Root}  BY <2>2
    <3>7. Place(u)' = to /\ \A s \in Types \ {u} : Place(s)' = Place(s)
      BY <2>2, <3>5, <3>6, PutsWell
    <3>8. Place(t)' = Place(t)  BY <2>2, <3>5, <3>7
    <3>9. QED  BY <3>8 DEF Place
  <2>5. QED  BY <2>3, <2>4
<1>2. QED  BY <1>1, Invariance, PTL DEF Spec, EditsKeepPlaces
=============================================================================
