----------------------------- MODULE HistoryProofs -----------------------------
(***************************************************************************)
(* What is recorded of a head is what it was, what is restored is what was   *)
(* recorded, and a baseline mends what is missing (History): for any heads,  *)
(* callers, sizes of the queue and of the batches, crashes and failures.     *)
(***************************************************************************)
EXTENDS History, FiniteSetTheorems, SequenceTheorems, WellFoundedInduction, TLAPS

-----------------------------------------------------------------------------
(* Sequences, and what is in them *)

LEMMA Elements ==
  ASSUME NEW S, NEW s \in Seq(S)
  PROVE  /\ ToSet(s) \subseteq S
         /\ Len(s) \in Nat /\ DOMAIN s = 1..Len(s)
         /\ \A i \in DOMAIN s : s[i] \in ToSet(s)
<1>1. Len(s) \in Nat /\ s \in [1..Len(s) -> S] /\ DOMAIN s = 1..Len(s)  BY LenProperties
<1>2. QED  BY <1>1 DEF ToSet

LEMMA OfNone == ToSet(<<>>) = {} /\ \A S : <<>> \in Seq(S)
<1>1. DOMAIN <<>> = {}  OBVIOUS
<1>2. QED  BY <1>1, EmptySeq DEF ToSet

LEMMA OfOne ==
  ASSUME NEW S, NEW x \in S
  PROVE  <<x>> \in Seq(S) /\ ToSet(<<x>>) = {x} /\ <<x>> # <<>>
<1>1. <<x>> \in Seq(S) /\ DOMAIN <<x>> = {1} /\ <<x>>[1] = x  OBVIOUS
<1>2. ToSet(<<x>>) = {x}  BY <1>1 DEF ToSet
<1>3. QED  BY <1>1, <1>2, OfNone

LEMMA OfConcat ==
  ASSUME NEW S, NEW s \in Seq(S), NEW t \in Seq(S)
  PROVE  s \o t \in Seq(S) /\ ToSet(s \o t) = ToSet(s) \cup ToSet(t)
<1> DEFINE u == s \o t
<1>1. /\ u \in Seq(S) /\ Len(u) = Len(s) + Len(t)
      /\ \A i \in 1..Len(s) + Len(t) : u[i] = IF i <= Len(s) THEN s[i] ELSE t[i - Len(s)]
  BY ConcatProperties
<1>2. /\ Len(s) \in Nat /\ DOMAIN s = 1..Len(s) /\ Len(t) \in Nat /\ DOMAIN t = 1..Len(t)
      /\ DOMAIN u = 1..Len(u)
  BY <1>1, Elements
<1> HIDE DEF u
<1>3. ASSUME NEW i \in DOMAIN u PROVE u[i] \in ToSet(s) \cup ToSet(t)
  <2>1. CASE i <= Len(s)  BY <1>1, <1>2, <2>1 DEF ToSet
  <2>2. CASE i > Len(s)
    <3>1. i - Len(s) \in DOMAIN t /\ u[i] = t[i - Len(s)]  BY <1>1, <1>2, <2>2
    <3>2. QED  BY <3>1 DEF ToSet
  <2>3. QED  BY <1>1, <1>2, <2>1, <2>2
<1>4. ASSUME NEW i \in DOMAIN s PROVE s[i] \in ToSet(u)
  <2>1. i \in DOMAIN u /\ u[i] = s[i]  BY <1>1, <1>2
  <2>2. QED  BY <2>1 DEF ToSet
<1>5. ASSUME NEW i \in DOMAIN t PROVE t[i] \in ToSet(u)
  <2>1. i + Len(s) \in DOMAIN u /\ u[i + Len(s)] = t[i]  BY <1>1, <1>2
  <2>2. QED  BY <2>1 DEF ToSet
<1>6. ToSet(u) = ToSet(s) \cup ToSet(t)  BY <1>3, <1>4, <1>5 DEF ToSet
<1>7. QED  BY <1>1, <1>6 DEF u

LEMMA OfAppend ==
  ASSUME NEW S, NEW s \in Seq(S), NEW x \in S
  PROVE  /\ Append(s, x) \in Seq(S) /\ ToSet(Append(s, x)) = ToSet(s) \cup {x}
         /\ Len(Append(s, x)) = Len(s) + 1
<1>1. Append(s, x) = s \o <<x>> /\ Len(Append(s, x)) = Len(s) + 1  OBVIOUS
<1> DEFINE t == <<x>>
<1>2. t \in Seq(S) /\ ToSet(t) = {x}  BY OfOne
<1>3. Append(s, x) = s \o t  BY <1>1
<1> HIDE DEF t
<1>4. s \o t \in Seq(S) /\ ToSet(s \o t) = ToSet(s) \cup ToSet(t)  BY <1>2, OfConcat
<1>5. QED  BY <1>1, <1>2, <1>3, <1>4

LEMMA OfTail ==
  ASSUME NEW S, NEW s \in Seq(S), s # <<>>
  PROVE  /\ Head(s) \in S /\ Head(s) \in ToSet(s)
         /\ Tail(s) \in Seq(S) /\ ToSet(Tail(s)) \subseteq ToSet(s) /\ Len(Tail(s)) = Len(s) - 1
<1>1. /\ Head(s) \in S /\ Tail(s) \in Seq(S) /\ Len(Tail(s)) = Len(s) - 1
      /\ \A i \in 1..Len(Tail(s)) : Tail(s)[i] = s[i + 1]
  BY HeadTailProperties
<1>2. /\ Len(s) \in Nat \ {0} /\ DOMAIN s = 1..Len(s) /\ Head(s) = s[1]
      /\ DOMAIN Tail(s) = 1..Len(Tail(s))
  BY <1>1, Elements, EmptySeq
<1>3. Head(s) \in ToSet(s)  BY <1>2 DEF ToSet
<1>4. ASSUME NEW i \in DOMAIN Tail(s) PROVE Tail(s)[i] \in ToSet(s)
  <2>1. i + 1 \in DOMAIN s /\ Tail(s)[i] = s[i + 1]  BY <1>1, <1>2
  <2>2. QED  BY <2>1 DEF ToSet
<1>5. ToSet(Tail(s)) \subseteq ToSet(s)  BY <1>4 DEF ToSet
<1>6. QED  BY <1>1, <1>3, <1>5

\* A finite set is put in some order.
LEMMA OfSet ==
  ASSUME NEW S, IsFiniteSet(S)
  PROVE  /\ SetToSeq(S) \in Seq(S) /\ ToSet(SetToSeq(S)) = S
         /\ S # {} => SetToSeq(S) # <<>>
<1> DEFINE n == Cardinality(S)
           D == 1..n
<1>1. n \in Nat /\ ExistsBijection(D, S)  BY FS_CardinalityType
<1>2. IsFiniteSet(D) /\ Cardinality(D) = n  BY <1>1, FS_Interval
<1> HIDE DEF n
<1>3. PICK g \in [D -> S] : \A a, b \in D : g[a] = g[b] => a = b
  BY <1>1 DEF ExistsBijection, Bijection, Injection, IsInjective
<1>4. \E f \in [D -> S] : IsInjective(f)  BY <1>3 DEF IsInjective
<1> DEFINE s == SetToSeq(S)
<1>5. s \in [D -> S] /\ IsInjective(s)
  <2>1. s = CHOOSE f \in [D -> S] : IsInjective(f)  BY DEF SetToSeq, n
  <2> HIDE DEF s
  <2>2. QED  BY <1>4, <2>1
<1> HIDE DEF s
<1>6. s \in Injection(D, S)  BY <1>5 DEF Injection, IsInjective
<1>7. s \in Surjection(D, S)  BY <1>2, <1>6, FS_Injection DEF n
<1>8. ToSet(s) = S  BY <1>5, <1>7 DEF ToSet, Surjection
<1>9. s \in Seq(S)  BY <1>1, <1>5, SeqDef
<1>10. QED  BY <1>8, <1>9, OfNone DEF s

\* The intervals from the members of a set to its bound are finite, and one is least.
LEMMA GreatestOf ==
  ASSUME NEW S \in SUBSET Nat, S # {}, NEW bound \in Nat, \A k \in S : k <= bound
  PROVE  Max(S) \in S /\ \A k \in S : k <= Max(S)
<1> DEFINE R == StrictSubsetOrdering(Nat)
           T == {s..bound : s \in S}
<1>1. IsWellFoundedOn(R, FiniteSubsetsOf(Nat))  BY FS_StrictSubsetOrderingWellFounded
<1>2. T # {}  OBVIOUS
<1>3. T \subseteq FiniteSubsetsOf(Nat)
  <2>1. ASSUME NEW s \in S PROVE s..bound \in FiniteSubsetsOf(Nat)
    <3>1. s \in Nat /\ IsFiniteSet(s..bound)  BY FS_Interval
    <3>2. QED  BY <3>1 DEF FiniteSubsetsOf
  <2>2. QED  BY <2>1
<1> HIDE DEF R, T
<1>4. PICK x \in T : \A y \in T : ~(<<y, x>> \in R)  BY <1>1, <1>2, <1>3, WFMin
<1>5. PICK m \in S : x = m..bound  BY DEF T
<1>6. ASSUME NEW k \in S, k > m PROVE FALSE
  <2>1. k \in Nat /\ m \in Nat /\ m <= bound  OBVIOUS
  <2>2. k..bound \in T  BY DEF T
  <2>3. k..bound \subseteq m..bound /\ m \in m..bound /\ m \notin k..bound  BY <1>6, <2>1
  <2>4. k..bound \subseteq Nat /\ m..bound \subseteq Nat  BY <2>1
  <2>5. <<k..bound, m..bound>> \in R  BY <2>3, <2>4 DEF R, StrictSubsetOrdering
  <2>6. QED  BY <1>4, <1>5, <2>2, <2>5
<1>7. ASSUME NEW k \in S PROVE k <= m
  <2>1. k \in Nat /\ m \in Nat  OBVIOUS
  <2>2. QED  BY <1>6, <2>1
<1>8. \E y \in S : \A k \in S : y >= k  BY <1>7
<1>9. QED  BY <1>8 DEF Max

-----------------------------------------------------------------------------
(* Records and versions *)

Entry == [what : Content, from : Nat]
Operations == {"create", "update", "delete", "undelete", "restore", "baseline"}

LEMMA RecordIs ==
  ASSUME NEW h \in Heads, NEW version \in Nat, NEW op \in Operations, NEW content \in Content,
         NEW from \in Nat
  PROVE  LET r == Record(h, version, op, content, from)
         IN  /\ r \in HistoryRecord
             /\ r.head = h /\ r.version = version /\ r.op = op /\ r.content = content
BY DEF Record, HistoryRecord, Operations

LEMMA RecordHas ==
  ASSUME NEW r \in HistoryRecord
  PROVE  /\ r.head \in Heads /\ r.version \in Nat /\ r.op \in Operations /\ r.content \in Content
         /\ r.restored_from \in Nat
BY DEF HistoryRecord, Operations

LEMMA Typed ==
  ASSUME TypeOK
  PROVE  /\ \A h \in Heads : contents[h] \in Seq(Entry) /\ Version(h) \in Nat
         /\ \A h \in Heads : \A v \in 1..Version(h) :
              contents[h][v] \in Entry /\ contents[h][v].what \in Content /\ contents[h][v].from \in Nat
         /\ \A h \in Made : Version(h) \in Nat \ {0} /\ Now(h) \in Content
                            /\ Now(h) = contents[h][Version(h)].what
         /\ \A h \in Heads \ Made : Version(h) = 0 /\ contents[h] = <<>>
         /\ None \in Content /\ Made \subseteq Heads /\ Live \subseteq Made
<1>1. \A h \in Heads : contents[h] \in Seq(Entry)  BY DEF TypeOK, Entry
<1>2. \A h \in Heads : Version(h) \in Nat /\ DOMAIN contents[h] = 1..Version(h)
  BY <1>1, LenProperties DEF Version
<1>3. ASSUME NEW h \in Heads, NEW v \in 1..Version(h)
      PROVE  contents[h][v] \in Entry /\ contents[h][v].what \in Content /\ contents[h][v].from \in Nat
  <2>1. contents[h][v] \in Entry  BY <1>1, <1>3, ElementOfSeq DEF Version
  <2>2. QED  BY <2>1 DEF Entry
<1>4. ASSUME NEW h \in Made
      PROVE  /\ Version(h) \in Nat \ {0} /\ Now(h) \in Content
             /\ Now(h) = contents[h][Version(h)].what
  <2>1. h \in Heads /\ contents[h] # <<>>  BY DEF Made
  <2>2. Version(h) \in Nat \ {0}  BY <1>1, <2>1, EmptySeq DEF Version
  <2>3. Now(h) = contents[h][Version(h)].what  BY DEF Now, Last, Version
  <2>4. QED  BY <1>3, <2>1, <2>2, <2>3
<1>5. \A h \in Heads \ Made : Version(h) = 0 /\ contents[h] = <<>>  BY EmptySeq DEF Made, Version
<1>6. None \in Content /\ Made \subseteq Heads /\ Live \subseteq Made
  BY HistoryAssumption DEF None, Content, Made, Live
<1>7. QED  BY <1>1, <1>2, <1>3, <1>4, <1>5, <1>6

\* Each head stays what it is, or is written once more, and what it was stays.
Grows ==
  /\ contents' \in [Heads -> Seq(Entry)]
  /\ \A h \in Heads :
       \/ contents'[h] = contents[h]
       \/ /\ Version(h) < MaxVersions
          /\ \E e \in Entry :
               /\ contents'[h] = Append(contents[h], e)
               /\ e.from \in 0..Version(h)
               /\ e.from # 0 /\ <<h, e.from>> \notin late' => e.what = contents[h][e.from].what

LEMMA Grown ==
  ASSUME TypeOK, Grows
  PROVE  /\ \A h \in Heads :
              /\ Version(h)' \in Nat /\ Version(h)' >= Version(h)
              /\ \A v \in 1..Version(h) : v \in 1..Version(h)' /\ contents'[h][v] = contents[h][v]
         /\ Made \subseteq Made'
<1>1. ASSUME NEW h \in Heads
      PROVE  /\ Version(h)' \in Nat /\ Version(h)' >= Version(h)
             /\ \A v \in 1..Version(h) : v \in 1..Version(h)' /\ contents'[h][v] = contents[h][v]
             /\ h \in Made => h \in Made'
  <2>1. contents[h] \in Seq(Entry) /\ Version(h) \in Nat /\ Len(contents[h]) = Version(h)
    BY Typed DEF Version
  <2>2. CASE contents'[h] = contents[h]  BY <2>1, <2>2 DEF Version, Made
  <2>3. CASE contents'[h] # contents[h]
    <3>1. PICK e \in Entry : contents'[h] = Append(contents[h], e)  BY <2>3 DEF Grows
    <3>2. /\ Len(contents'[h]) = Version(h) + 1
          /\ \A v \in 1..Version(h) : contents'[h][v] = contents[h][v]
      BY <2>1, <3>1
    <3>3. contents'[h] # <<>>
      <4>1. Len(contents'[h]) # 0  BY <2>1, <3>2
      <4>2. QED  BY <4>1, EmptySeq
    <3>4. QED  BY <2>1, <3>2, <3>3 DEF Version, Made
  <2>4. QED  BY <2>2, <2>3
<1>2. Made \subseteq Made'
  <2>1. ASSUME NEW h \in Made PROVE h \in Made'
    <3>1. h \in Heads  BY DEF Made
    <3>2. QED  BY <1>1, <3>1
  <2>2. QED  BY <2>1
<1>3. QED  BY <1>1, <1>2

\* What is right stays right.
LEMMA RightStays ==
  ASSUME TypeOK, Grows, late \subseteq late', NEW r \in HistoryRecord, Right(r)
  PROVE  Right(r)'
<1>1. r.head \in Heads  BY RecordHas
<1>2. QED  BY <1>1, Grown DEF Right

LEMMA RestoringStays ==
  ASSUME TypeOK, Grows, late \subseteq late', NEW c \in Call, Restoring(c)
  PROVE  Restoring(c)'
<1>1. c.head \in Heads  BY DEF Call
<1>2. QED  BY <1>1, Grown DEF Restoring

LEMMA RestoredStays ==
  ASSUME TypeOK, Grows, late \subseteq late', RestoredIsWhatWas,
         \A h \in Heads : Version(h) <= MaxVersions
  PROVE  RestoredIsWhatWas' /\ \A h \in Heads : Version(h)' <= MaxVersions
<1>1. ASSUME NEW h \in Heads
      PROVE  /\ Version(h)' <= MaxVersions
             /\ \A v \in 1..Version(h)' :
                  /\ contents'[h][v].from < v
                  /\ contents'[h][v].from # 0 /\ <<h, contents'[h][v].from>> \notin late' =>
                       contents'[h][v].what = contents'[h][contents'[h][v].from].what
  <2>1. /\ contents[h] \in Seq(Entry) /\ Version(h) \in Nat /\ Len(contents[h]) = Version(h)
        /\ \A v \in 1..Version(h) : contents[h][v].from \in Nat
    BY Typed DEF Version
  <2>2. \A v \in 1..Version(h) : v \in 1..Version(h)' /\ contents'[h][v] = contents[h][v]
    BY Grown
  <2>3. ASSUME NEW v \in 1..Version(h)
        PROVE  /\ contents'[h][v].from < v
               /\ contents'[h][v].from # 0 /\ <<h, contents'[h][v].from>> \notin late' =>
                    contents'[h][v].what = contents'[h][contents'[h][v].from].what
    <3> DEFINE from == contents[h][v].from
    <3>1. /\ from < v /\ from \in Nat /\ contents'[h][v] = contents[h][v]
          /\ from # 0 /\ <<h, from>> \notin late => contents[h][v].what = contents[h][from].what
      BY <2>1, <2>2, <2>3 DEF RestoredIsWhatWas
    <3>2. from # 0 => from \in 1..Version(h)  BY <2>1, <2>3, <3>1
    <3>3. from # 0 => contents'[h][from] = contents[h][from]  BY <2>2, <3>2
    <3>4. QED  BY <3>1, <3>3
  <2>4. CASE contents'[h] = contents[h]
    <3>1. Version(h)' = Version(h)  BY <2>4 DEF Version
    <3>2. QED  BY <2>3, <3>1
  <2>5. CASE contents'[h] # contents[h]
    <3>1. PICK e \in Entry :
            /\ contents'[h] = Append(contents[h], e) /\ Version(h) < MaxVersions
            /\ e.from \in 0..Version(h)
            /\ e.from # 0 /\ <<h, e.from>> \notin late' => e.what = contents[h][e.from].what
      BY <2>5 DEF Grows
    <3>2. Version(h)' = Version(h) + 1 /\ contents'[h][Version(h) + 1] = e
      BY <2>1, <3>1 DEF Version
    <3>3. e.from # 0 => contents'[h][e.from] = contents[h][e.from]
      BY <2>1, <2>2, <3>1
    <3>4. ASSUME NEW v \in 1..Version(h)', v \notin 1..Version(h)
          PROVE  contents'[h][v] = e /\ e.from < v
      <4>1. v = Version(h) + 1  BY <2>1, <3>2, <3>4
      <4>2. QED  BY <2>1, <3>1, <3>2, <4>1
    <3>5. Version(h)' <= MaxVersions  BY <2>1, <3>1, <3>2, HistoryAssumption
    <3>6. QED  BY <2>3, <3>1, <3>3, <3>4, <3>5
  <2>6. QED  BY <2>4, <2>5
<1>2. QED  BY <1>1 DEF RestoredIsWhatWas

-----------------------------------------------------------------------------
(* Calls *)

LEMMA CallHas ==
  ASSUME NEW c \in Call
  PROVE  /\ c.head \in Heads /\ c.from \in Nat /\ c.what \in Content /\ c.based \in Nat
         /\ c.says \in Seq(HistoryRecord) /\ c.unread \in BOOLEAN /\ c.then \in {"idle", "base"}
BY DEF Call

LEMMA Mine ==
  ASSUME TypeOK, NEW p \in Callers
  PROVE  Me(p) \in Call
BY DEF TypeOK, Me

LEMMA IdleIs ==
  /\ Idle \in Call /\ Idle.pc = "idle" /\ Idle.then = "idle" /\ Idle.says = <<>> /\ ~Idle.unread
<1>1. (CHOOSE h \in Heads : TRUE) \in Heads  BY HistoryAssumption
<1>2. None \in Content  BY HistoryAssumption DEF None, Content
<1>3. <<>> \in Seq(HistoryRecord)  BY OfNone
<1>4. QED  BY <1>1, <1>2, <1>3 DEF Idle, Call

\* Who is to announce some records; what they restore is as it was.
LEMMA SaysIs ==
  ASSUME NEW call \in Call, NEW records \in Seq(HistoryRecord),
         NEW new, new = [call EXCEPT !.pc = "say", !.says = records]
  PROVE  /\ new \in Call /\ new.pc = "say" /\ new.says = records /\ new.then = call.then
         /\ new.head = call.head /\ new.from = call.from /\ new.what = call.what
BY DEF Call

Said == UNION {ToSet(Me(q).says) : q \in Callers}

LEMMA OnTheirWayIs ==
  OnTheirWay = ToSet(queue) \cup ToSet(worker.batch) \cup ToSet(base.batch) \cup Said
BY DEF OnTheirWay, Said

LEMMA Becomes ==
  ASSUME TypeOK, NEW p \in Callers, NEW call \in Call, Become(p, call)
  PROVE  /\ calls' \in [Callers -> Call] /\ calls'[p] = call
         /\ \A q \in Callers \ {p} : calls'[q] = calls[q]
         /\ Said' \subseteq Said \cup ToSet(call.says)
<1>1. /\ calls' \in [Callers -> Call] /\ calls'[p] = call
      /\ \A q \in Callers \ {p} : calls'[q] = calls[q]
  BY DEF TypeOK, Become
<1>2. ASSUME NEW r \in Said' PROVE r \in Said \cup ToSet(call.says)
  <2>1. PICK q \in Callers : r \in ToSet(calls'[q].says)  BY DEF Said, Me
  <2>2. CASE q = p  BY <1>1, <2>1, <2>2
  <2>3. CASE q # p  BY <1>1, <2>1, <2>3 DEF Said, Me
  <2>4. QED  BY <2>2, <2>3
<1>3. QED  BY <1>1, <1>2

\* What a call says is of the records that are on their way.
LEMMA SaysOnTheWay ==
  ASSUME TypeOK, NEW p \in Callers
  PROVE  ToSet(Me(p).says) \subseteq OnTheirWay /\ ToSet(Me(p).says) \subseteq HistoryRecord
<1>1. Me(p).says \in Seq(HistoryRecord)  BY Mine, CallHas
<1>2. QED  BY <1>1, Elements DEF OnTheirWay

\* The records there are remain right, and of new ones it is to be shown.
LEMMA RecordsKeep ==
  ASSUME IInv, Grows, late \subseteq late',
         \A r \in (ToSet(store) \cup OnTheirWay)' :
           r \in ToSet(store) \cup OnTheirWay \/ Right(r)'
  PROVE  RecordsAreRight'
<1>1. ASSUME NEW r \in ToSet(store) \cup OnTheirWay PROVE r \in HistoryRecord
  <2>1. /\ store \in Seq(HistoryRecord) /\ queue \in Seq(HistoryRecord)
        /\ worker.batch \in Seq(HistoryRecord) /\ base.batch \in Seq(HistoryRecord)
    BY DEF IInv, TypeOK, Base
  <2>2. \A p \in Callers : ToSet(Me(p).says) \subseteq HistoryRecord
    BY SaysOnTheWay DEF IInv
  <2>3. QED  BY <2>1, <2>2, Elements DEF OnTheirWay
<1>2. ASSUME NEW r \in ToSet(store) \cup OnTheirWay PROVE Right(r)'
  BY <1>1, RightStays DEF IInv, RecordsAreRight
<1>3. QED  BY <1>2 DEF RecordsAreRight

\* What `baseline` knows stays so while others write and records are added.
LEMMA BaseKeeps ==
  ASSUME IInv, Grows, UNCHANGED base, ToSet(store) \subseteq ToSet(store)'
  PROVE  WellBase'
<1>1. TypeOK /\ WellBase /\ Made \subseteq Made'
      /\ \A h \in Heads : Version(h) \in Nat /\ Version(h)' \in Nat /\ Version(h)' >= Version(h)
  BY Typed, Grown DEF IInv
<1>2. ASSUME NEW h \in DOMAIN base.at
      PROVE  h \in Heads /\ base.at[h] \in Nat
  BY <1>1, HistoryAssumption DEF TypeOK, Base
<1>3. ASSUME NEW h \in DOMAIN base.at
      PROVE  /\ base.at[h] <= Version(h)'
             /\ \/ h \in base.todo \/ (base.pc = "read" /\ h = base.head)
                \/ DealtWith(h, ToSet(store) \cup ToSet(base.batch))'
  <2>1. base.at[h] <= Version(h)'  BY <1>1, <1>2 DEF WellBase
  <2>2. CASE DealtWith(h, ToSet(store) \cup ToSet(base.batch))
    BY <2>1, <2>2 DEF DealtWith
  <2>3. QED  BY <1>1, <2>1, <2>2 DEF WellBase
<1>4. base.pc = "read" /\ base.latest # 0 =>
        \E r \in ToSet(store)' : r.head = base.head /\ r.version >= base.latest
  BY <1>1 DEF WellBase
<1>5. QED  BY <1>1, <1>3, <1>4 DEF WellBase

\* A step of a caller.
LEMMA CallerKeeps ==
  ASSUME IInv, NEW p \in Callers, NEW call \in Call, Become(p, call), Grows,
         UNCHANGED <<worker, store, base, faults>>,
         late \subseteq late', late' \subseteq Heads \X Nat, deleted' \subseteq Made,
         begun' \in 0..MaxCalls, missed' \subseteq HistoryRecord,
         queue' \in Seq(HistoryRecord), Len(queue') <= QueueSize,
         ToSet(queue') \subseteq ToSet(queue) \cup ToSet(Me(p).says),
         \A r \in ToSet(call.says) : r \in ToSet(Me(p).says) \/ Right(r)',
         WellCall(call)'
  PROVE  IInv'
<1>1. TypeOK  BY DEF IInv
<1>2. /\ calls' \in [Callers -> Call] /\ calls'[p] = call
      /\ \A q \in Callers \ {p} : calls'[q] = calls[q]
      /\ Said' \subseteq Said \cup ToSet(call.says)
  BY <1>1, Becomes
<1>3. Made \subseteq Made' /\ Made \subseteq Heads  BY <1>1, Grown, Typed
<1>9. TypeOK' /\ deleted' \subseteq Made'  BY <1>1, <1>2, <1>3 DEF TypeOK, Grows, Entry
<1>4. RecordsAreRight'
  <2>1. ASSUME NEW r \in (ToSet(store) \cup OnTheirWay)'
        PROVE  r \in ToSet(store) \cup OnTheirWay \/ Right(r)'
    <3>1. r \in ToSet(store) \/ r \in (ToSet(queue) \cup ToSet(worker.batch) \cup ToSet(base.batch) \cup Said)'
      BY DEF OnTheirWay, Said
    <3>2. QED  BY <1>1, <1>2, <3>1, SaysOnTheWay, OnTheirWayIs
  <2>2. QED  BY <2>1, RecordsKeep
<1>5. RestoredIsWhatWas' /\ \A h \in Heads : Version(h)' <= MaxVersions
  BY <1>1, RestoredStays DEF IInv
<1>6. ASSUME NEW q \in Callers PROVE WellCall(Me(q))'
  <2>1. PICK c \in Call : c = calls'[q]  BY <1>2
  <2>2. WellCall(c)'
    <3>1. CASE q = p  BY <1>2, <2>1, <3>1
    <3>2. CASE q # p
      <4>1. c = Me(q) /\ WellCall(c)  BY <1>2, <2>1, <3>2 DEF IInv, Me
      <4>2. Restoring(c) => Restoring(c)'  BY <1>1, RestoringStays
      <4>3. QED  BY <4>1, <4>2 DEF WellCall
    <3>3. QED  BY <3>1, <3>2
  <2>3. QED  BY <2>1, <2>2 DEF Me, WellCall, Restoring
<1>7. WellBase'  BY BaseKeeps
<1>8. QED  BY <1>4, <1>5, <1>6, <1>7, <1>9 DEF IInv
\* A step of a caller that neither takes from the queue nor puts on it: it announces records,
LEMMA Announces ==
  ASSUME IInv, NEW p \in Callers, NEW call \in Call, NEW records \in Seq(HistoryRecord),
         Says(p, records, call), Grows, records # <<>>,
         UNCHANGED <<queue, worker, store, base, faults, missed, late>>,
         deleted' \subseteq Made, begun' \in 0..MaxCalls,
         \A r \in ToSet(records) : Right(r)',
         call.then = "base" => Restoring(call)'
  PROVE  IInv'
<1> DEFINE new == [call EXCEPT !.pc = "say", !.says = records]
<1>0. new = [call EXCEPT !.pc = "say", !.says = records]  OBVIOUS
<1>2. Become(p, new)  BY DEF Says
<1> HIDE DEF new
<1>1. /\ new \in Call /\ new.pc = "say" /\ new.says = records /\ new.then = call.then
      /\ new.head = call.head /\ new.from = call.from /\ new.what = call.what
  BY <1>0 DEF Call
<1>3. WellCall(new)'  BY <1>1 DEF WellCall, Restoring
<1>4. \A r \in ToSet(new.says) : r \in ToSet(Me(p).says) \/ Right(r)'  BY <1>1
<1>5. TypeOK  BY DEF IInv
<1>6. /\ late \subseteq late' /\ late' \subseteq Heads \X Nat /\ missed' \subseteq HistoryRecord
      /\ queue' \in Seq(HistoryRecord) /\ Len(queue') <= QueueSize
      /\ ToSet(queue') \subseteq ToSet(queue) \cup ToSet(Me(p).says)
  BY <1>5 DEF TypeOK
<1>7. UNCHANGED <<worker, store, base, faults>>  OBVIOUS
<1>8. QED  BY <1>1, <1>2, <1>3, <1>4, <1>6, <1>7, CallerKeeps

\* or goes on without.
LEMMA GoesOn ==
  ASSUME IInv, NEW p \in Callers, NEW call \in Call, Become(p, call), Grows,
         UNCHANGED <<queue, worker, store, base, faults, missed, late>>,
         deleted' \subseteq Made, begun' \in 0..MaxCalls,
         call.says \in {<<>>, Me(p).says}, WellCall(call)'
  PROVE  IInv'
<1>1. \A r \in ToSet(call.says) : r \in ToSet(Me(p).says) \/ Right(r)'  BY OfNone
<1>2. TypeOK  BY DEF IInv
<1>3. /\ late \subseteq late' /\ late' \subseteq Heads \X Nat /\ missed' \subseteq HistoryRecord
      /\ queue' \in Seq(HistoryRecord) /\ Len(queue') <= QueueSize
      /\ ToSet(queue') \subseteq ToSet(queue) \cup ToSet(Me(p).says)
  BY <1>2 DEF TypeOK
<1>4. UNCHANGED <<worker, store, base, faults>>  OBVIOUS
<1>5. QED  BY <1>1, <1>3, <1>4, CallerKeeps

LEMMA NothingGrows ==
  ASSUME TypeOK, UNCHANGED contents
  PROVE  Grows
BY DEF TypeOK, Grows, Entry

LEMMA BeginsWith ==
  ASSUME TypeOK, NEW p \in Callers, Begins(p)
  PROVE  /\ begun' \in 1..MaxCalls /\ begun' \in 0..MaxCalls /\ begun' \in Content
         /\ UNCHANGED <<queue, worker, store, base, faults, missed, late>>
BY HistoryAssumption DEF TypeOK, Begins, Content

\* Each head that is written is what the call says, in a version of its own.
LEMMA WritesGrow ==
  ASSUME TypeOK, NEW hs \in SUBSET Heads, Writes(hs), begun' \in 1..MaxCalls
  PROVE  /\ Grows
         /\ \A h \in hs : /\ contents'[h] = Append(contents[h], [what |-> begun', from |-> 0])
                          /\ Len(contents'[h]) = Version(h) + 1
                          /\ contents'[h][Len(contents'[h])].what = begun'
<1> DEFINE e == [what |-> begun', from |-> 0]
<1>1. e \in Entry /\ e.from = 0 /\ e.what = begun'  BY HistoryAssumption DEF Entry, Content
<1>2. \A h \in Heads : contents'[h] = IF h \in hs THEN Append(contents[h], e) ELSE contents[h]
  BY DEF Writes
<1>3. /\ \A h \in hs : Version(h) < MaxVersions
      /\ contents' = [h \in Heads |-> IF h \in hs THEN Append(contents[h], e) ELSE contents[h]]
  BY DEF Writes
<1> HIDE DEF e
<1>4. ASSUME NEW h \in Heads
      PROVE  contents[h] \in Seq(Entry) /\ Version(h) \in Nat /\ Len(contents[h]) = Version(h)
  BY Typed DEF Version
<1>5. ASSUME NEW h \in Heads PROVE contents'[h] \in Seq(Entry)
  <2>1. Append(contents[h], e) \in Seq(Entry)  BY <1>1, <1>4, OfAppend
  <2>2. QED  BY <1>2, <1>4, <2>1
<1>6. contents' \in [Heads -> Seq(Entry)]  BY <1>2, <1>3, <1>5
<1>7. \A h \in Heads : e.from \in 0..Version(h)  BY <1>1, <1>4
<1>8. Grows  BY <1>1, <1>2, <1>3, <1>6, <1>7 DEF Grows
<1>9. ASSUME NEW h \in hs
      PROVE  /\ contents'[h] = Append(contents[h], e) /\ Len(contents'[h]) = Version(h) + 1
             /\ contents'[h][Len(contents'[h])].what = begun'
  <2>1. contents'[h] = Append(contents[h], e) /\ h \in Heads  BY <1>2
  <2>2. QED  BY <1>1, <1>4, <2>1
<1>10. QED  BY <1>8, <1>9 DEF e

LEMMA Events ==
  ASSUME TypeOK, NEW hs \in SUBSET Heads, Writes(hs), begun' \in 1..MaxCalls,
         NEW h \in hs, NEW op \in Operations, NEW r, r = Event(h, op)
  PROVE  r \in HistoryRecord /\ Right(r)'
<1>1. /\ Len(contents'[h]) = Version(h) + 1 /\ Version(h) \in Nat /\ h \in Heads
      /\ contents'[h][Len(contents'[h])].what = begun'
  BY WritesGrow, Typed
<1>2. begun' \in Content  BY HistoryAssumption DEF Content
<1>3. /\ r \in HistoryRecord /\ r.head = h /\ r.version = Len(contents'[h]) /\ r.content = begun'
  BY <1>1, <1>2, RecordIs DEF Event
<1>4. Version(h)' = Len(contents'[h])  BY DEF Version
<1>5. QED  BY <1>1, <1>3, <1>4 DEF Right

EventsAre(T, hs, op) == T = {Event(h, op) : h \in hs}
LEMMA EventsOf ==
  ASSUME TypeOK, NEW hs \in SUBSET Heads, Writes(hs), begun' \in 1..MaxCalls,
         NEW some \in SUBSET hs, NEW op \in Operations,
         NEW T, EventsAre(T, some, op),
         NEW rs, rs = SetToSeq(T)
  PROVE  /\ rs \in Seq(HistoryRecord)
         /\ some # {} => rs # <<>>
         /\ \A r \in ToSet(rs) : Right(r)'
<1> DEFINE f == [h \in some |-> Event(h, op)]
<1>1. IsFiniteSet(some)  BY HistoryAssumption, FS_Subset
<1>3. T = {Event(h, op) : h \in some}  BY DEF EventsAre
<1>2. f \in Surjection(some, T)  BY <1>3 DEF Surjection
<1> HIDE DEF f
<1>4. IsFiniteSet(T)  BY <1>1, <1>2, FS_Surjection
<1>5. /\ rs \in Seq(T) /\ ToSet(rs) = T
      /\ T # {} => rs # <<>>
  BY <1>4, OfSet
<1>6. ASSUME NEW r \in T PROVE r \in HistoryRecord /\ Right(r)'
  <2>1. PICK h \in some : r = Event(h, op)  BY <1>3
  <2>2. QED  BY <2>1, Events
<1>7. rs \in Seq(HistoryRecord)
  <2>1. \A i \in 1..Len(rs) : rs[i] \in HistoryRecord  BY <1>5, <1>6, Elements
  <2>2. QED  BY <1>5, <2>1, SeqDef, LenProperties
<1>8. some # {} => T # {}  BY <1>3
<1>9. QED  BY <1>5, <1>6, <1>7, <1>8

-----------------------------------------------------------------------------
(* The steps of a caller *)

LEMMA OnCreate ==
  ASSUME IInv, NEW p \in Callers, Create(p)
  PROVE  IInv'
<1>1. TypeOK /\ Begins(p) /\ UNCHANGED deleted  BY DEF IInv, Create
<1>2. /\ begun' \in 1..MaxCalls /\ begun' \in 0..MaxCalls /\ deleted' \subseteq Made
      /\ UNCHANGED <<queue, worker, store, base, faults, missed, late>>
  BY <1>1, BeginsWith DEF IInv
<1>3. PICK h \in Heads \ Made : \E inline \in SUBSET (Heads \ (Made \cup {h})) :
       /\ Writes(inline \cup {h})
       /\ Says(p, SetToSeq({Event(e, "create") : e \in inline}) \o <<Event(h, "create")>>, Idle)
  BY Zenon DEF Create
<1>4. PICK inline \in SUBSET (Heads \ (Made \cup {h})) :
       /\ Writes(inline \cup {h})
       /\ Says(p, SetToSeq({Event(e, "create") : e \in inline}) \o <<Event(h, "create")>>, Idle)
  BY <1>3, Zenon
<1> DEFINE hs == inline \cup {h}
<1>5. PICK last : last = Event(h, "create")  OBVIOUS
<1> DEFINE firsts == {Event(e, "create") : e \in inline}
<1>6. PICK rs : rs = SetToSeq(firsts)  OBVIOUS
<1>18. EventsAre(firsts, inline, "create")  BY DEF EventsAre
<1>7. /\ hs \in SUBSET Heads /\ h \in hs /\ inline \in SUBSET hs /\ Writes(hs)
      /\ Says(p, rs \o <<last>>, Idle)
  BY <1>4, <1>5, <1>6
<1> HIDE DEF hs, firsts
<1>8. last \in HistoryRecord /\ Right(last)'  BY <1>1, <1>2, <1>5, <1>7, Events DEF Operations
<1>9. rs \in Seq(HistoryRecord) /\ \A r \in ToSet(rs) : Right(r)'
  <2>1. "create" \in Operations /\ inline \in SUBSET hs  BY <1>7 DEF Operations
  <2>2. QED  BY <1>1, <1>2, <1>6, <1>7, <1>18, <2>1, EventsOf
<1>10. PICK one : one = <<last>>  OBVIOUS
<1>11. one \in Seq(HistoryRecord) /\ ToSet(one) = {last}  BY <1>8, <1>10, OfOne
<1>12. PICK records : records = rs \o one  OBVIOUS
<1>16. records \in Seq(HistoryRecord) /\ ToSet(records) = ToSet(rs) \cup {last}
  BY <1>9, <1>11, <1>12, OfConcat
<1>17. records # <<>>  BY <1>16, OfNone
<1>13. Grows  BY <1>1, <1>2, <1>7, WritesGrow
<1>14. /\ Says(p, records, Idle) /\ Idle \in Call /\ Idle.then # "base"
       /\ \A r \in ToSet(records) : Right(r)'
  BY <1>7, <1>8, <1>9, <1>10, <1>12, <1>16, IdleIs
<1>15. QED  BY <1>2, <1>13, <1>14, <1>16, <1>17, Announces
LEMMA OnUpdate ==
  ASSUME IInv, NEW p \in Callers, Update(p)
  PROVE  IInv'
<1>1. TypeOK /\ Begins(p) /\ UNCHANGED deleted  BY DEF IInv, Update
<1>2. /\ begun' \in 1..MaxCalls /\ begun' \in 0..MaxCalls /\ deleted' \subseteq Made
      /\ UNCHANGED <<queue, worker, store, base, faults, missed, late>>
  BY <1>1, BeginsWith DEF IInv
<1>3. PICK h \in Live : Writes({h}) /\ Says(p, <<Event(h, "update")>>, Idle)  BY DEF Update
<1>4. PICK event : event = Event(h, "update")  OBVIOUS
<1>5. PICK hs : hs = {h}  OBVIOUS
<1>6. /\ hs \in SUBSET Heads /\ h \in hs /\ Writes(hs) /\ "update" \in Operations
  BY <1>3, <1>5 DEF Live, Made, Operations
<1>7. event \in HistoryRecord /\ Right(event)'  BY <1>1, <1>2, <1>4, <1>6, Events
<1>8. PICK records : records = <<event>>  OBVIOUS
<1>9. records \in Seq(HistoryRecord) /\ ToSet(records) = {event} /\ records # <<>>
  BY <1>7, <1>8, OfOne
<1>10. Grows  BY <1>1, <1>2, <1>6, WritesGrow
<1>11. /\ Says(p, records, Idle) /\ Idle \in Call /\ Idle.then # "base"
       /\ \A r \in ToSet(records) : Right(r)'
  BY <1>3, <1>4, <1>7, <1>8, <1>9, IdleIs
<1>12. QED  BY <1>2, <1>9, <1>10, <1>11, Announces

\* What has no content says nothing of it.
LEMMA Bare ==
  ASSUME IInv, UNCHANGED contents, NEW h \in Made, NEW op \in Operations,
         NEW records, records = <<Record(h, Version(h), op, None, 0)>>
  PROVE  /\ records \in Seq(HistoryRecord) /\ records # <<>> /\ Grows
         /\ \A r \in ToSet(records) : Right(r)'
<1>1. PICK r : r = Record(h, Version(h), op, None, 0)  OBVIOUS
<1>2. /\ TypeOK /\ h \in Heads /\ Version(h) \in Nat \ {0} /\ None \in Content /\ 0 \in Nat
      /\ Version(h) \in Nat
  BY Typed DEF IInv
<1>3. /\ r \in HistoryRecord /\ r.head = h /\ r.version = Version(h) /\ r.content = None
  BY <1>1, <1>2, RecordIs
<1>4. records \in Seq(HistoryRecord) /\ ToSet(records) = {r} /\ records # <<>>
  BY <1>1, <1>3, OfOne
<1>5. Version(h)' = Version(h)  BY DEF Version
<1>6. Right(r)'  BY <1>2, <1>3, <1>5 DEF Right
<1>7. QED  BY <1>2, <1>4, <1>6, NothingGrows

LEMMA OnDelete ==
  ASSUME IInv, NEW p \in Callers, Delete(p)
  PROVE  IInv'
<1>1. TypeOK /\ Begins(p) /\ UNCHANGED contents  BY DEF IInv, Delete
<1>2. PICK h \in Live :
        /\ deleted' = deleted \cup {h}
        /\ Says(p, <<Record(h, Version(h), "delete", None, 0)>>, Idle)
  BY DEF Delete
<1>3. h \in Made /\ deleted' \subseteq Made /\ "delete" \in Operations
  BY <1>2 DEF Live, IInv, Operations
<1>4. /\ begun' \in 0..MaxCalls /\ UNCHANGED <<queue, worker, store, base, faults, missed, late>>
  BY <1>1, BeginsWith
<1>5. PICK records : records = <<Record(h, Version(h), "delete", None, 0)>>  OBVIOUS
<1>6. /\ records \in Seq(HistoryRecord) /\ records # <<>> /\ Grows
      /\ \A r \in ToSet(records) : Right(r)'
  BY <1>1, <1>3, <1>5, Bare
<1>7. Says(p, records, Idle) /\ Idle \in Call /\ Idle.then # "base"  BY <1>2, <1>5, IdleIs
<1>8. QED  BY <1>3, <1>4, <1>6, <1>7, Announces

LEMMA OnUndeleted ==
  ASSUME IInv, NEW p \in Callers, NEW h \in deleted, NEW call \in Call, Undeleted(p, h, call),
         UNCHANGED <<queue, worker, store, base, faults, missed, late>>, begun' \in 0..MaxCalls,
         call.then = "base" => Restoring(call)'
  PROVE  IInv'
<1>1. /\ h \in Made /\ deleted' \subseteq Made /\ "undelete" \in Operations /\ UNCHANGED contents
      /\ Says(p, <<Record(h, Version(h), "undelete", None, 0)>>, call)
  BY DEF IInv, Operations, Undeleted
<1>2. PICK records : records = <<Record(h, Version(h), "undelete", None, 0)>>  OBVIOUS
<1>3. /\ records \in Seq(HistoryRecord) /\ records # <<>> /\ Grows
      /\ \A r \in ToSet(records) : Right(r)'
  BY <1>1, <1>2, Bare
<1>4. Says(p, records, call)  BY <1>1, <1>2
<1>5. QED  BY <1>1, <1>3, <1>4, Announces

LEMMA OnUndelete ==
  ASSUME IInv, NEW p \in Callers, Undelete(p)
  PROVE  IInv'
<1>1. TypeOK /\ Begins(p)  BY DEF IInv, Undelete
<1>2. /\ begun' \in 0..MaxCalls /\ UNCHANGED <<queue, worker, store, base, faults, missed, late>>
  BY <1>1, BeginsWith
<1>3. PICK h \in deleted : Undeleted(p, h, Idle)  BY DEF Undelete
<1>4. Idle \in Call /\ Idle.then # "base"  BY IdleIs
<1>5. QED  BY <1>2, <1>3, <1>4, OnUndeleted

LEMMA OnRelink ==
  ASSUME IInv, NEW p \in Callers, Relink(p)
  PROVE  IInv'
<1>1. TypeOK /\ Begins(p) /\ UNCHANGED deleted  BY DEF IInv, Relink
<1>2. /\ begun' \in 1..MaxCalls /\ begun' \in 0..MaxCalls /\ deleted' \subseteq Made
      /\ UNCHANGED <<queue, worker, store, base, faults, missed, late>>
  BY <1>1, BeginsWith DEF IInv
<1>3. PICK hs \in (SUBSET Made) \ {{}} :
       /\ Writes(hs)
       /\ Says(p, SetToSeq({Event(h, "update") : h \in hs}), [Idle EXCEPT !.unread = TRUE])
  BY Zenon DEF Relink
<1> DEFINE all == {Event(h, "update") : h \in hs}
<1>4. PICK records : records = SetToSeq(all)  OBVIOUS
<1>5. PICK call : call = [Idle EXCEPT !.unread = TRUE]  OBVIOUS
<1>6. Says(p, records, call) /\ EventsAre(all, hs, "update")  BY <1>3, <1>4, <1>5 DEF EventsAre
<1> HIDE DEF all
<1>7. hs \in SUBSET Heads /\ hs \in SUBSET hs /\ hs # {} /\ "update" \in Operations
  BY <1>3 DEF Made, Operations
<1>8. records \in Seq(HistoryRecord) /\ records # <<>> /\ \A r \in ToSet(records) : Right(r)'
  BY <1>1, <1>2, <1>3, <1>4, <1>6, <1>7, EventsOf
<1>9. Grows  BY <1>1, <1>2, <1>3, <1>7, WritesGrow
<1>10. call \in Call /\ call.then # "base"  BY <1>5, IdleIs DEF Call
<1>11. QED  BY <1>2, <1>6, <1>8, <1>9, <1>10, Announces
LEMMA OnReadForm ==
  ASSUME IInv, NEW p \in Callers, ReadForm(p)
  PROVE  IInv'
<1> DEFINE first == Head(Me(p).says)
           h == first.head
           read == [first EXCEPT !.content = IF h \in deleted THEN None ELSE Now(h)]
           new == [Me(p) EXCEPT !.unread = FALSE, !.says = <<read>> \o Tail(@)]
<1>1. /\ TypeOK /\ Me(p) \in Call /\ Me(p).pc = "say" /\ WellCall(Me(p)) /\ deleted \subseteq Made
      /\ UNCHANGED <<contents, deleted, queue, worker, store, base, begun, faults, missed>>
  BY Mine DEF IInv, ReadForm
<1>2. /\ Become(p, new)
      /\ late' = IF read.version = Version(h) THEN late ELSE late \cup {<<h, read.version>>}
  BY DEF ReadForm
<1>3. Me(p).says \in Seq(HistoryRecord) /\ Me(p).says # <<>>  BY <1>1, CallHas DEF WellCall
<1>4. /\ first \in HistoryRecord /\ first \in ToSet(Me(p).says)
      /\ Tail(Me(p).says) \in Seq(HistoryRecord) /\ ToSet(Tail(Me(p).says)) \subseteq ToSet(Me(p).says)
  BY <1>3, OfTail
<1>5. Right(first)  BY <1>1, <1>4, SaysOnTheWay DEF IInv, RecordsAreRight
<1>6. /\ h \in Heads /\ first.version \in Nat /\ first.version \in 1..Version(h) /\ Version(h) \in Nat
      /\ Version(h) # 0
  BY <1>1, <1>4, <1>5, Typed, RecordHas DEF Right
<1>7. h \in Made  BY <1>1, <1>6, Typed
<1>8. /\ Now(h) \in Content /\ Now(h) = contents[h][Version(h)].what /\ None \in Content
  BY <1>1, <1>7, Typed
<1>9. /\ read \in HistoryRecord /\ read.head = h /\ read.version = first.version
      /\ read.content = IF h \in deleted THEN None ELSE Now(h)
  <2>1. (IF h \in deleted THEN None ELSE Now(h)) \in Content  BY <1>8
  <2>2. QED  BY <1>4, <2>1 DEF HistoryRecord
<1>10. PICK tail \in Seq(HistoryRecord) : tail = Tail(Me(p).says)  BY <1>4
<1>11. PICK r \in HistoryRecord : r = read  BY <1>9
<1>12. PICK one : one = <<r>>  OBVIOUS
<1>13. one \in Seq(HistoryRecord) /\ ToSet(one) = {r} /\ one # <<>>  BY <1>11, <1>12, OfOne
<1>14. PICK says : says = one \o tail  OBVIOUS
<1>15. says \in Seq(HistoryRecord) /\ ToSet(says) = {r} \cup ToSet(tail)
  <2>1. says \in Seq(HistoryRecord) /\ ToSet(says) = ToSet(one) \cup ToSet(tail)
    BY <1>13, <1>14, OfConcat
  <2>2. QED  BY <1>13, <2>1
<1>16. /\ new \in Call /\ new.says = says /\ new.pc = "say" /\ new.then = Me(p).then
       /\ new.head = Me(p).head /\ new.from = Me(p).from /\ new.what = Me(p).what
  <2>1. new = [Me(p) EXCEPT !.unread = FALSE, !.says = says]  BY <1>1, <1>10, <1>11, <1>12, <1>14
  <2> HIDE DEF new
  <2>2. QED  BY <1>1, <1>15, <2>1 DEF Call
<1>17. /\ r.head = h /\ r.version = first.version
       /\ r.content = IF h \in deleted THEN None ELSE Now(h)
       /\ late' = IF r.version = Version(h) THEN late ELSE late \cup {<<h, r.version>>}
  BY <1>2, <1>9, <1>11
<1>18. PICK c \in Call : c = new  BY <1>16
<1>19. /\ Become(p, c) /\ c.says = says /\ c.pc = "say" /\ c.then = Me(p).then
       /\ c.head = Me(p).head /\ c.from = Me(p).from /\ c.what = Me(p).what
  BY <1>2, <1>16, <1>18
<1> HIDE DEF new, read, first
<1>20. late \subseteq late' /\ late' \subseteq Heads \X Nat
  <2>1. late \subseteq Heads \X Nat /\ <<h, r.version>> \in Heads \X Nat
    BY <1>1, <1>6, <1>17 DEF TypeOK
  <2>2. QED  BY <1>17, <2>1
<1>21. Right(r)'
  <2>1. /\ UNCHANGED contents /\ r.version \in 1..Version(r.head) /\ Version(r.head)' = Version(r.head)
        /\ r.head = h
    BY <1>1, <1>6, <1>17 DEF Version
  <2>2. r.content # None /\ <<r.head, r.version>> \notin late' =>
          contents[r.head][r.version].what = r.content
    BY <1>8, <1>17
  <2>3. QED  BY <2>1, <2>2 DEF Right
<1>22. Grows  BY <1>1, NothingGrows
<1>23. WellCall(c)'
  <2>1. says # <<>>  BY <1>15, OfNone
  <2>2. c.then = "base" => Restoring(c)  BY <1>1, <1>19 DEF WellCall, Restoring
  <2>3. c.then = "base" => Restoring(c)'  BY <1>1, <1>20, <1>22, <2>2, RestoringStays
  <2>4. QED  BY <1>19, <2>1, <2>3 DEF WellCall
<1>24. \A s \in ToSet(c.says) : s \in ToSet(Me(p).says) \/ Right(s)'
  BY <1>4, <1>10, <1>15, <1>19, <1>21
<1>25. /\ queue' \in Seq(HistoryRecord) /\ Len(queue') <= QueueSize /\ missed' \subseteq HistoryRecord
       /\ ToSet(queue') \subseteq ToSet(queue) \cup ToSet(Me(p).says)
       /\ begun' \in 0..MaxCalls /\ deleted' \subseteq Made /\ UNCHANGED <<worker, store, base, faults>>
  BY <1>1 DEF TypeOK
<1>26. QED  BY <1>19, <1>20, <1>22, <1>23, <1>24, <1>25, CallerKeeps

LEMMA OnSubmit ==
  ASSUME IInv, NEW p \in Callers, Submit(p)
  PROVE  IInv'
<1> DEFINE record == Head(Me(p).says)
           rest == Tail(Me(p).says)
           full == Len(queue) = QueueSize
<1>1. /\ TypeOK /\ Me(p) \in Call /\ Me(p).pc = "say" /\ WellCall(Me(p)) /\ deleted \subseteq Made
      /\ UNCHANGED <<contents, deleted, worker, store, base, begun, faults, late>>
  BY Mine DEF IInv, Submit
<1>2. /\ queue' = IF full THEN queue ELSE Append(queue, record)
      /\ missed' = IF full THEN missed \cup {record} ELSE missed
      /\ IF rest # <<>>
         THEN Become(p, [Me(p) EXCEPT !.says = rest, !.unread = (Head(rest).op = "update")])
         ELSE IF Me(p).then = "idle" THEN Ends(p)
         ELSE Become(p, [Me(p) EXCEPT !.pc = Me(p).then, !.says = <<>>])
  BY DEF Submit
<1>3. Me(p).says \in Seq(HistoryRecord) /\ Me(p).says # <<>>  BY <1>1, CallHas DEF WellCall
<1>4. /\ record \in HistoryRecord /\ record \in ToSet(Me(p).says)
      /\ rest \in Seq(HistoryRecord) /\ ToSet(rest) \subseteq ToSet(Me(p).says)
  BY <1>3, OfTail
<1>5. queue \in Seq(HistoryRecord) /\ Len(queue) \in Nat /\ Len(queue) <= QueueSize /\ QueueSize \in Nat
  BY <1>1, Elements, HistoryAssumption DEF TypeOK
<1>6. /\ queue' \in Seq(HistoryRecord) /\ Len(queue') <= QueueSize
      /\ ToSet(queue') \subseteq ToSet(queue) \cup ToSet(Me(p).says)
  <2>1. CASE full  BY <1>2, <1>5, <2>1
  <2>2. CASE ~full
    <3>1. /\ queue' = Append(queue, record) /\ Append(queue, record) \in Seq(HistoryRecord)
          /\ ToSet(Append(queue, record)) = ToSet(queue) \cup {record}
          /\ Len(Append(queue, record)) = Len(queue) + 1
      BY <1>2, <1>4, <1>5, <2>2, OfAppend
    <3>2. Len(queue) + 1 <= QueueSize  BY <1>5, <2>2
    <3>3. QED  BY <1>4, <3>1, <3>2
  <2>3. QED  BY <2>1, <2>2
<1>7. missed' \subseteq HistoryRecord  BY <1>1, <1>2, <1>4 DEF TypeOK
<1>8. Grows  BY <1>1, NothingGrows
<1>9. /\ late \subseteq late' /\ late' \subseteq Heads \X Nat /\ deleted' \subseteq Made
      /\ begun' \in 0..MaxCalls /\ UNCHANGED <<worker, store, base, faults>>
  BY <1>1 DEF TypeOK
<1>10. ASSUME NEW c \in Call, Become(p, c), ToSet(c.says) \subseteq ToSet(Me(p).says),
              c.pc = "say" => c.says # <<>>,
              c.pc \in {"look", "revive", "base", "save"} \/ c.then = "base" => Restoring(c)
       PROVE  IInv'
  <2>1. Restoring(c) => Restoring(c)'  BY <1>1, <1>8, <1>9, RestoringStays
  <2>2. WellCall(c)'  BY <1>10, <2>1 DEF WellCall
  <2>3. \A r \in ToSet(c.says) : r \in ToSet(Me(p).says) \/ Right(r)'  BY <1>10
  <2>4. QED  BY <1>6, <1>7, <1>8, <1>9, <1>10, <2>2, <2>3, CallerKeeps
<1>11. CASE rest # <<>>
  <2>1. PICK c : c = [Me(p) EXCEPT !.says = rest, !.unread = (Head(rest).op = "update")]  OBVIOUS
  <2>2. Become(p, c)  BY <1>2, <1>11, <2>1
  <2> HIDE DEF rest
  <2>3. /\ c \in Call /\ c.says = rest /\ c.pc = "say" /\ c.then = Me(p).then
        /\ c.head = Me(p).head /\ c.from = Me(p).from /\ c.what = Me(p).what
    BY <1>1, <1>4, <2>1 DEF Call
  <2>4. c.then = "base" => Restoring(c)  BY <1>1, <2>3 DEF WellCall, Restoring
  <2>5. QED  BY <1>4, <1>10, <1>11, <2>2, <2>3, <2>4
<1>12. CASE rest = <<>> /\ Me(p).then = "idle"
  <2>1. Become(p, Idle)  BY <1>2, <1>12 DEF Ends
  <2>2. ToSet(Idle.says) \subseteq ToSet(Me(p).says)  BY IdleIs, OfNone
  <2>3. QED  BY <1>10, <2>1, <2>2, IdleIs
<1>13. CASE rest = <<>> /\ Me(p).then # "idle"
  <2>1. PICK c : c = [Me(p) EXCEPT !.pc = Me(p).then, !.says = <<>>]  OBVIOUS
  <2>2. Become(p, c) /\ Me(p).then = "base"  BY <1>1, <1>2, <1>13, <2>1, CallHas
  <2>3. <<>> \in Seq(HistoryRecord)  BY OfNone
  <2>4. /\ c \in Call /\ c.says = <<>> /\ c.pc = "base" /\ c.then = Me(p).then
        /\ c.head = Me(p).head /\ c.from = Me(p).from /\ c.what = Me(p).what
    BY <1>1, <2>1, <2>2, <2>3 DEF Call
  <2>5. Restoring(c)  BY <1>1, <2>2, <2>4 DEF WellCall, Restoring
  <2>6. QED  BY <1>10, <2>2, <2>4, <2>5, OfNone
<1>14. QED  BY <1>11, <1>12, <1>13
\* What is found of a version is what the head was in it.
LEMMA Found ==
  ASSUME IInv, NEW h \in Heads, NEW v \in 1..Version(h), Get(h, v) # {}
  PROVE  LET what == store[Max(Get(h, v))].content
         IN  /\ what \in Content
             /\ <<h, v>> \notin late => contents[h][v].what = what
<1> DEFINE G == Get(h, v)
<1>1. TypeOK /\ RecordsAreRight /\ store \in Seq(HistoryRecord)  BY DEF IInv, TypeOK
<1>2. Len(store) \in Nat /\ DOMAIN store = 1..Len(store) /\ \A i \in DOMAIN store : store[i] \in ToSet(store)
  BY <1>1, Elements
<1>3. G \in SUBSET Nat /\ \A k \in G : k <= Len(store)  BY <1>2 DEF Get
<1>4. G # {}  OBVIOUS
<1> HIDE DEF G
<1>5. Max(G) \in G  BY <1>2, <1>3, <1>4, GreatestOf
<1>6. PICK i \in G : i = Max(G)  BY <1>5
<1>7. i \in DOMAIN store /\ store[i].head = h /\ store[i].version = v /\ store[i].content # None
  BY <1>6 DEF G, Get
<1>8. PICK r \in ToSet(store) : r = store[i]  BY <1>2, <1>7
<1>9. r \in HistoryRecord  BY <1>1, Elements
<1>10. Right(r)  BY <1>1, <1>8 DEF RecordsAreRight
<1>11. r.content \in Content /\ (<<h, v>> \notin late => contents[h][v].what = r.content)
  BY <1>7, <1>8, <1>9, <1>10, RecordHas DEF Right
<1>12. store[Max(Get(h, v))].content = r.content  BY <1>6, <1>8 DEF G
<1>13. QED  BY <1>11, <1>12

LEMMA OnRestore ==
  ASSUME IInv, NEW p \in Callers, Restore(p)
  PROVE  IInv'
<1>1. TypeOK /\ Begins(p) /\ UNCHANGED <<contents, deleted>>  BY DEF IInv, Restore
<1>2. /\ begun' \in 0..MaxCalls /\ deleted' \subseteq Made
      /\ UNCHANGED <<queue, worker, store, base, faults, missed, late>>
  BY <1>1, BeginsWith DEF IInv
<1>3. PICK h \in Made : \E v \in 1..Version(h), expected \in {0, Version(h)} :
       /\ Get(h, v) # {}
       /\ Become(p, [Idle EXCEPT !.pc = "look", !.head = h, !.from = v,
                                 !.what = store[Max(Get(h, v))].content, !.based = expected])
  BY Zenon DEF Restore
<1>4. PICK v \in 1..Version(h), expected \in {0, Version(h)} :
       /\ Get(h, v) # {}
       /\ Become(p, [Idle EXCEPT !.pc = "look", !.head = h, !.from = v,
                                 !.what = store[Max(Get(h, v))].content, !.based = expected])
  BY <1>3, Zenon
<1>5. PICK what : what = store[Max(Get(h, v))].content  OBVIOUS
<1>6. h \in Heads /\ Version(h) \in Nat  BY <1>1, Typed
<1>7. what \in Content /\ (<<h, v>> \notin late => contents[h][v].what = what)
  BY <1>4, <1>5, <1>6, Found
<1>8. v \in Nat /\ expected \in Nat  BY <1>6
<1>9. PICK c : c = [Idle EXCEPT !.pc = "look", !.head = h, !.from = v, !.what = what, !.based = expected]
  OBVIOUS
<1>10. Become(p, c)  BY <1>4, <1>5, <1>9
<1>11. /\ c \in Call /\ c.pc = "look" /\ c.head = h /\ c.from = v /\ c.what = what /\ c.says = <<>>
  BY <1>6, <1>7, <1>8, <1>9, IdleIs DEF Call
<1>12. Grows /\ late \subseteq late'  BY <1>1, <1>2, NothingGrows
<1>13. Restoring(c)  BY <1>7, <1>11 DEF Restoring
<1>14. WellCall(c)'  BY <1>1, <1>11, <1>12, <1>13, RestoringStays DEF WellCall
<1>15. QED  BY <1>2, <1>10, <1>11, <1>12, <1>14, GoesOn

\* A call that restores, and changes nothing yet.
LEMMA OnNothing ==
  ASSUME IInv, NEW p \in Callers, NEW c \in Call, Become(p, c), Restores(p),
         UNCHANGED <<contents, deleted>>, c.says \in {<<>>, Me(p).says}, c.pc # "say",
         c.pc \in {"look", "revive", "base", "save"} \/ c.then = "base" => Restoring(c)
  PROVE  IInv'
<1>1. /\ TypeOK /\ deleted' \subseteq Made /\ begun' \in 0..MaxCalls
      /\ UNCHANGED <<queue, worker, store, base, faults, missed, late>>
  BY DEF IInv, Restores, TypeOK
<1>2. Grows /\ late \subseteq late'  BY <1>1, NothingGrows
<1>3. WellCall(c)'  BY <1>1, <1>2, RestoringStays DEF WellCall
<1>4. QED  BY <1>1, <1>2, <1>3, GoesOn

LEMMA OnEnd ==
  ASSUME IInv, NEW p \in Callers, Ends(p), Restores(p), UNCHANGED <<contents, deleted>>
  PROVE  IInv'
<1>1. /\ Idle \in Call /\ Become(p, Idle) /\ Idle.says \in {<<>>, Me(p).says} /\ Idle.pc # "say"
      /\ Idle.pc \notin {"look", "revive", "base", "save"} /\ Idle.then # "base"
  BY IdleIs DEF Ends
<1>2. QED  BY <1>1, OnNothing

LEMMA OnLook ==
  ASSUME IInv, NEW p \in Callers, Look(p)
  PROVE  IInv'
<1>1. /\ Me(p) \in Call /\ Me(p).pc = "look" /\ WellCall(Me(p))
      /\ UNCHANGED <<contents, deleted>> /\ Restores(p)
      /\ Become(p, [Me(p) EXCEPT !.pc = IF Me(p).head \in deleted THEN "revive" ELSE "base"])
  BY Mine DEF IInv, Look
<1>2. PICK c : c = [Me(p) EXCEPT !.pc = IF Me(p).head \in deleted THEN "revive" ELSE "base"]  OBVIOUS
<1>3. /\ c \in Call /\ c.pc # "say" /\ c.says = Me(p).says
      /\ c.head = Me(p).head /\ c.from = Me(p).from /\ c.what = Me(p).what
  BY <1>1, <1>2 DEF Call
<1>4. Restoring(c)  BY <1>1, <1>3 DEF WellCall, Restoring
<1>5. QED  BY <1>1, <1>2, <1>3, <1>4, OnNothing

LEMMA OnRevive ==
  ASSUME IInv, NEW p \in Callers, Revive(p)
  PROVE  IInv'
<1>1. /\ TypeOK /\ Me(p) \in Call /\ Me(p).pc = "revive" /\ WellCall(Me(p)) /\ Restores(p)
      /\ IF Me(p).head \in deleted
         THEN Undeleted(p, Me(p).head, [Me(p) EXCEPT !.then = "base"])
         ELSE Ends(p) /\ UNCHANGED <<contents, deleted>>
  BY Mine DEF IInv, Revive
<1>2. CASE Me(p).head \in deleted
  <2>1. PICK c : c = [Me(p) EXCEPT !.then = "base"]  OBVIOUS
  <2>2. Undeleted(p, Me(p).head, c)  BY <1>1, <1>2, <2>1
  <2>3. c \in Call /\ c.head = Me(p).head /\ c.from = Me(p).from /\ c.what = Me(p).what
    BY <1>1, <2>1 DEF Call
  <2>4. /\ UNCHANGED <<queue, worker, store, base, faults, missed, late>>
        /\ begun' \in 0..MaxCalls /\ UNCHANGED contents
    BY <1>1, <2>2 DEF Restores, TypeOK, Undeleted
  <2>5. Restoring(c)  BY <1>1, <2>3 DEF WellCall, Restoring
  <2>6. Grows /\ late \subseteq late'  BY <1>1, <2>4, NothingGrows
  <2>7. Restoring(c)'  BY <1>1, <2>3, <2>5, <2>6, RestoringStays
  <2>8. PICK h \in deleted : h = Me(p).head  BY <1>2
  <2>9. QED  BY <2>2, <2>3, <2>4, <2>7, <2>8, OnUndeleted
<1>3. QED  BY <1>1, <1>2, OnEnd

LEMMA OnReadVersion ==
  ASSUME IInv, NEW p \in Callers, ReadVersion(p)
  PROVE  IInv'
<1>1. /\ TypeOK /\ Me(p) \in Call /\ Me(p).pc = "base" /\ WellCall(Me(p)) /\ Restores(p)
      /\ UNCHANGED <<contents, deleted>>
      /\ IF Me(p).head \in deleted THEN Ends(p)
         ELSE Become(p, [Me(p) EXCEPT !.pc = "save", !.based = IF @ = 0 THEN Version(Me(p).head) ELSE @])
  BY Mine DEF IInv, ReadVersion
<1>2. CASE Me(p).head \notin deleted
  <2>1. PICK n : n = IF Me(p).based = 0 THEN Version(Me(p).head) ELSE Me(p).based  OBVIOUS
  <2>2. n \in Nat  BY <1>1, <2>1, CallHas, Typed
  <2>3. PICK c : c = [Me(p) EXCEPT !.pc = "save", !.based = n]  OBVIOUS
  <2>4. Become(p, c)  BY <1>1, <1>2, <2>1, <2>3
  <2>5. /\ c \in Call /\ c.pc # "say" /\ c.says = Me(p).says
        /\ c.head = Me(p).head /\ c.from = Me(p).from /\ c.what = Me(p).what
    BY <1>1, <2>2, <2>3 DEF Call
  <2>6. Restoring(c)  BY <1>1, <2>5 DEF WellCall, Restoring
  <2>7. QED  BY <1>1, <2>4, <2>5, <2>6, OnNothing
<1>3. QED  BY <1>1, <1>2, OnEnd

LEMMA OnSave ==
  ASSUME IInv, NEW p \in Callers, Save(p)
  PROVE  IInv'
<1>1. PICK c \in Call : c = Me(p)  BY Mine DEF IInv
<1>2. /\ TypeOK /\ c.pc = "save" /\ Restoring(c) /\ Restores(p) /\ UNCHANGED deleted
      /\ IF c.head \in Live /\ c.based = Version(c.head)
         THEN /\ c.based < MaxVersions
              /\ contents' = [contents EXCEPT ![c.head] = Append(@, [what |-> c.what, from |-> c.from])]
              /\ Says(p, <<Record(c.head, c.based + 1, "restore", c.what, c.from)>>, Idle)
         ELSE Ends(p) /\ UNCHANGED contents
  BY <1>1 DEF IInv, Save, WellCall
<1>3. CASE c.head \in Live /\ c.based = Version(c.head)
  <2> DEFINE h == c.head
             e == [what |-> c.what, from |-> c.from]
  <2>1. /\ h \in Heads /\ c.what \in Content /\ c.from \in Nat /\ Version(h) \in Nat
        /\ contents[h] \in Seq(Entry) /\ Version(h) = Len(contents[h]) /\ c.based = Version(h)
        /\ c.from \in 1..Version(h) /\ Version(h) < MaxVersions
        /\ <<h, c.from>> \notin late => contents[h][c.from].what = c.what
    BY <1>2, <1>3, CallHas, Typed DEF Version, Restoring
  <2>2. e \in Entry /\ e.what = c.what /\ e.from = c.from  BY <2>1 DEF Entry
  <2>3. contents' = [contents EXCEPT ![h] = Append(@, e)]  BY <1>2, <1>3
  <2>4. PICK records : records = <<Record(h, c.based + 1, "restore", c.what, c.from)>>  OBVIOUS
  <2>5. Says(p, records, Idle)  BY <1>2, <1>3, <2>4
  <2>6. PICK r : r = Record(h, c.based + 1, "restore", c.what, c.from)  OBVIOUS
  <2>7. "restore" \in Operations /\ c.based + 1 \in Nat  BY <2>1 DEF Operations
  <2>8. r \in HistoryRecord /\ r.head = h /\ r.version = c.based + 1 /\ r.content = c.what
    BY <2>1, <2>6, <2>7, RecordIs
  <2> HIDE DEF e
  <2>9. /\ \A g \in Heads : contents'[g] = IF g = h THEN Append(contents[g], e) ELSE contents[g]
        /\ contents \in [Heads -> Seq(Entry)]
    BY <1>2, <2>3 DEF TypeOK, Entry
  <2>10. contents' \in [Heads -> Seq(Entry)]
    <3>1. Append(contents[h], e) \in Seq(Entry)  BY <2>1, <2>2, OfAppend
    <3>2. QED  BY <2>3, <2>9, <3>1
  <2>11. UNCHANGED <<queue, worker, store, base, faults, missed, late>> /\ begun' \in 0..MaxCalls
    BY <1>2 DEF Restores, TypeOK
  <2>12. /\ contents'[h] = Append(contents[h], e)
         /\ Len(contents'[h]) = Version(h) + 1 /\ contents'[h][Version(h) + 1] = e
    <3>1. PICK s \in Seq(Entry) : s = contents[h]  BY <2>1
    <3>2. contents'[h] = Append(s, e) /\ Len(s) = Version(h)  BY <2>1, <2>9, <3>1
    <3>3. Len(Append(s, e)) = Len(s) + 1 /\ Append(s, e)[Len(s) + 1] = e  BY <2>2
    <3>4. QED  BY <3>1, <3>2, <3>3
  <2>13. Grows
    <3>1. /\ e.from \in 0..Version(h)
          /\ e.from # 0 /\ <<h, e.from>> \notin late' => e.what = contents[h][e.from].what
      BY <2>1, <2>2, <2>11
    <3>2. QED  BY <2>1, <2>2, <2>9, <2>10, <2>12, <3>1 DEF Grows
  <2>14. Right(r)'
    <3>1. Version(r.head)' = Version(h) + 1  BY <2>8, <2>12 DEF Version
    <3>2. contents'[r.head][r.version].what = r.content  BY <2>1, <2>2, <2>8, <2>12
    <3>3. QED  BY <2>1, <2>8, <3>1, <3>2 DEF Right
  <2>15. /\ records \in Seq(HistoryRecord) /\ records # <<>>
         /\ \A s \in ToSet(records) : Right(s)'
    <3>1. records = <<r>>  BY <2>4, <2>6
    <3>2. records \in Seq(HistoryRecord) /\ ToSet(records) = {r} /\ records # <<>>
      BY <2>8, <3>1, OfOne
    <3>3. QED  BY <2>14, <3>2
  <2>16. deleted' \subseteq Made /\ Idle \in Call /\ Idle.then # "base"  BY <1>2, IdleIs DEF IInv
  <2>17. QED  BY <2>5, <2>11, <2>13, <2>15, <2>16, Announces
<1>4. QED  BY <1>2, <1>3, OnEnd

LEMMA OnServe ==
  ASSUME IInv, NEW p \in Callers, Serve(p)
  PROVE  IInv'
BY OnCreate, OnUpdate, OnDelete, OnUndelete, OnRelink, OnRestore, OnReadForm, OnSubmit, OnLook,
   OnRevive, OnReadVersion, OnSave DEF Serve
-----------------------------------------------------------------------------
(* The steps of the thread, and a crash *)

\* They bring no record that there was not, and take none from the store.
LEMMA ThreadKeeps ==
  ASSUME IInv, UNCHANGED <<contents, deleted, base, begun, late>>,
         calls' \in [Callers -> Call], \A p \in Callers : calls'[p] \in {calls[p], Idle},
         worker' \in [pc : {"collect", "insert"}, batch : Seq(HistoryRecord), seq : Nat],
         Len(worker'.batch) <= BatchSize,
         queue' \in Seq(HistoryRecord), Len(queue') <= QueueSize,
         store' \in Seq(HistoryRecord), ToSet(store) \subseteq ToSet(store'),
         faults' \in 0..MaxFaults, missed' \subseteq HistoryRecord,
         ToSet(store') \cup ToSet(queue') \cup ToSet(worker'.batch)
           \subseteq ToSet(store) \cup ToSet(queue) \cup ToSet(worker.batch)
  PROVE  IInv'
<1>1. TypeOK  BY DEF IInv
<1>2. Grows /\ late \subseteq late'  BY <1>1, NothingGrows
<1>3. TypeOK'  BY <1>1 DEF TypeOK
<1>4. ASSUME NEW r \in (ToSet(store) \cup OnTheirWay)'
      PROVE  r \in ToSet(store) \cup OnTheirWay
  <2>1. ASSUME NEW p \in Callers, r \in ToSet(calls'[p].says) PROVE r \in OnTheirWay
    <3>1. CASE calls'[p] = calls[p]  BY <2>1, <3>1 DEF OnTheirWay, Me
    <3>2. CASE calls'[p] = Idle  BY <2>1, <3>2, IdleIs, OfNone
    <3>3. QED  BY <3>1, <3>2
  <2>2. QED  BY <2>1 DEF OnTheirWay, Me
<1>5. RecordsAreRight'  BY <1>2, <1>4, RecordsKeep
<1>6. RestoredIsWhatWas' /\ \A h \in Heads : Version(h)' <= MaxVersions
  BY <1>1, <1>2, RestoredStays DEF IInv
<1>7. ASSUME NEW p \in Callers PROVE WellCall(Me(p))'
  <2>1. PICK c \in Call : c = calls'[p]  OBVIOUS
  <2>2. WellCall(c)'
    <3>1. CASE c = calls[p]
      <4>1. c = Me(p) /\ WellCall(c)  BY <3>1 DEF IInv, Me
      <4>2. Restoring(c) => Restoring(c)'  BY <1>1, <1>2, RestoringStays
      <4>3. QED  BY <4>1, <4>2 DEF WellCall
    <3>2. CASE c = Idle  BY <3>2, IdleIs DEF WellCall
    <3>3. QED  BY <2>1, <3>1, <3>2
  <2>3. QED  BY <2>1, <2>2 DEF Me, WellCall, Restoring
<1>8. WellBase'  BY <1>2, BaseKeeps
<1>9. deleted' \subseteq Made'  BY DEF IInv, Made
<1>10. QED  BY <1>3, <1>5, <1>6, <1>7, <1>8, <1>9 DEF IInv

LEMMA NextSeqIs ==
  ASSUME TypeOK, NEW h
  PROVE  NextSeq(h) \in Nat
<1> DEFINE at == {i \in DOMAIN store : store[i].head = h}
<1>1. Len(store) \in Nat /\ DOMAIN store = 1..Len(store)  BY Elements DEF TypeOK
<1>2. IsFiniteSet(1..Len(store)) /\ at \subseteq 1..Len(store)  BY <1>1, FS_Interval
<1> HIDE DEF at
<1>3. Cardinality(at) \in Nat  BY <1>2, FS_Subset, FS_CardinalityType
<1>4. NextSeq(h) = Cardinality(at) + 1  BY DEF NextSeq, at
<1>5. QED  BY <1>3, <1>4

LEMMA ThreadIs ==
  ASSUME TypeOK
  PROVE  /\ worker.batch \in Seq(HistoryRecord) /\ Len(worker.batch) \in Nat
         /\ Len(worker.batch) <= BatchSize /\ worker.seq \in Nat
         /\ ToSet(worker.batch) \subseteq HistoryRecord
         /\ queue \in Seq(HistoryRecord) /\ Len(queue) \in Nat /\ Len(queue) <= QueueSize
         /\ ToSet(queue) \subseteq HistoryRecord
         /\ QueueSize \in Nat /\ BatchSize \in Nat
<1>1. worker.batch \in Seq(HistoryRecord) /\ queue \in Seq(HistoryRecord)  BY DEF TypeOK
<1>2. QED  BY <1>1, Elements, HistoryAssumption DEF TypeOK

LEMMA NoBatchIs ==
  /\ NoBatch \in [pc : {"collect", "insert"}, batch : Seq(HistoryRecord), seq : Nat]
  /\ NoBatch.batch = <<>> /\ Len(NoBatch.batch) <= BatchSize
<1>1. <<>> \in Seq(HistoryRecord) /\ Len(<<>>) = 0 /\ BatchSize \in Nat
  BY OfNone, HistoryAssumption
<1>2. QED  BY <1>1 DEF NoBatch

LEMMA OnTake ==
  ASSUME IInv, Take
  PROVE  IInv'
<1>1. /\ TypeOK /\ queue # <<>> /\ Len(worker.batch) < BatchSize
      /\ worker' = [worker EXCEPT !.batch = Append(@, Head(queue))] /\ queue' = Tail(queue)
      /\ UNCHANGED <<contents, deleted, calls, store, base, begun, faults, missed, late>>
  BY DEF IInv, Take
<1>2. /\ Head(queue) \in HistoryRecord /\ Head(queue) \in ToSet(queue)
      /\ queue' \in Seq(HistoryRecord) /\ ToSet(queue') \subseteq ToSet(queue)
      /\ Len(queue') = Len(queue) - 1
  BY <1>1, ThreadIs, OfTail
<1>3. PICK batch : batch = Append(worker.batch, Head(queue))  OBVIOUS
<1>4. /\ batch \in Seq(HistoryRecord) /\ ToSet(batch) = ToSet(worker.batch) \cup {Head(queue)}
      /\ Len(batch) = Len(worker.batch) + 1
  BY <1>1, <1>2, <1>3, ThreadIs, OfAppend
<1>5. worker' = [worker EXCEPT !.batch = batch]  BY <1>1, <1>3
<1>6. /\ worker' \in [pc : {"collect", "insert"}, batch : Seq(HistoryRecord), seq : Nat]
      /\ worker'.batch = batch
  BY <1>1, <1>4, <1>5 DEF TypeOK
<1>7. Len(worker'.batch) <= BatchSize /\ Len(queue') <= QueueSize
  BY <1>1, <1>2, <1>4, <1>6, ThreadIs
<1>8. /\ calls' \in [Callers -> Call] /\ \A p \in Callers : calls'[p] \in {calls[p], Idle}
      /\ store' \in Seq(HistoryRecord) /\ faults' \in 0..MaxFaults /\ missed' \subseteq HistoryRecord
  BY <1>1 DEF TypeOK
<1>9. ToSet(store') \cup ToSet(queue') \cup ToSet(worker'.batch)
        \subseteq ToSet(store) \cup ToSet(queue) \cup ToSet(worker.batch)
  BY <1>1, <1>2, <1>4, <1>6
<1>10. QED  BY <1>1, <1>2, <1>6, <1>7, <1>8, <1>9, ThreadKeeps

LEMMA OnSelect ==
  ASSUME IInv, Select
  PROVE  IInv'
<1>1. /\ TypeOK /\ UNCHANGED <<contents, deleted, calls, queue, store, base, begun, faults, missed, late>>
      /\ worker' = [worker EXCEPT !.pc = "insert", !.seq = NextSeq(Head(worker.batch).head)]
  BY DEF IInv, Select
<1>2. PICK n \in Nat : n = NextSeq(Head(worker.batch).head)  BY <1>1, NextSeqIs
<1>3. worker' = [worker EXCEPT !.pc = "insert", !.seq = n]  BY <1>1, <1>2
<1>4. /\ worker' \in [pc : {"collect", "insert"}, batch : Seq(HistoryRecord), seq : Nat]
      /\ worker'.batch = worker.batch
  BY <1>1, <1>3 DEF TypeOK
<1>5. /\ calls' \in [Callers -> Call] /\ \A p \in Callers : calls'[p] \in {calls[p], Idle}
      /\ store' \in Seq(HistoryRecord) /\ faults' \in 0..MaxFaults /\ missed' \subseteq HistoryRecord
      /\ queue' \in Seq(HistoryRecord) /\ Len(queue') <= QueueSize
      /\ Len(worker'.batch) <= BatchSize
  BY <1>1, <1>4 DEF TypeOK
<1>6. QED  BY <1>1, <1>4, <1>5, ThreadKeeps

\* The thread has dealt with its batch: it was written, or failed.
LEMMA Finished ==
  ASSUME IInv, worker' = NoBatch, UNCHANGED <<contents, deleted, calls, queue, base, begun, late>>,
         faults' \in 0..MaxFaults, missed' \subseteq missed \cup ToSet(worker.batch),
         store' \in {store, store \o worker.batch}
  PROVE  IInv'
<1>1. TypeOK /\ store \in Seq(HistoryRecord)  BY DEF IInv, TypeOK
<1>2. /\ store' \in Seq(HistoryRecord) /\ ToSet(store) \subseteq ToSet(store')
      /\ ToSet(store') \subseteq ToSet(store) \cup ToSet(worker.batch)
  <2>1. PICK s, t : s = store /\ t = worker.batch  OBVIOUS
  <2>2. s \in Seq(HistoryRecord) /\ t \in Seq(HistoryRecord)  BY <1>1, <2>1, ThreadIs
  <2>3. s \o t \in Seq(HistoryRecord) /\ ToSet(s \o t) = ToSet(s) \cup ToSet(t)  BY <2>2, OfConcat
  <2>4. store' = s \/ store' = s \o t  BY <2>1
  <2>5. QED  BY <2>1, <2>2, <2>3, <2>4
<1>3. /\ calls' \in [Callers -> Call] /\ \A p \in Callers : calls'[p] \in {calls[p], Idle}
      /\ missed' \subseteq HistoryRecord /\ queue' \in Seq(HistoryRecord) /\ Len(queue') <= QueueSize
  BY <1>1, ThreadIs DEF TypeOK
<1>4. /\ worker' \in [pc : {"collect", "insert"}, batch : Seq(HistoryRecord), seq : Nat]
      /\ Len(worker'.batch) <= BatchSize /\ ToSet(worker'.batch) = {}
  BY NoBatchIs, OfNone
<1>5. ToSet(store') \cup ToSet(queue') \cup ToSet(worker'.batch)
        \subseteq ToSet(store) \cup ToSet(queue) \cup ToSet(worker.batch)
  BY <1>2, <1>4
<1>6. QED  BY <1>2, <1>3, <1>4, <1>5, ThreadKeeps

LEMMA OnInsert ==
  ASSUME IInv, Insert \/ StoreFails
  PROVE  IInv'
<1>1. faults \in 0..MaxFaults /\ MaxFaults \in Nat  BY HistoryAssumption DEF IInv, TypeOK
<1>2. CASE Insert
  <2>1. /\ worker' = NoBatch /\ UNCHANGED <<contents, deleted, calls, queue, base, begun, late>>
        /\ faults' \in 0..MaxFaults /\ missed' \subseteq missed \cup ToSet(worker.batch)
        /\ store' \in {store, store \o worker.batch}
    BY <1>1, <1>2 DEF Insert
  <2>2. QED  BY <2>1, Finished
<1>3. CASE StoreFails
  <2>1. /\ worker' = NoBatch /\ UNCHANGED <<contents, deleted, calls, queue, base, begun, late>>
        /\ faults' \in 0..MaxFaults /\ missed' \subseteq missed \cup ToSet(worker.batch)
        /\ store' \in {store, store \o worker.batch}
    BY <1>1, <1>3 DEF StoreFails
  <2>2. QED  BY <2>1, Finished
<1>4. QED  BY <1>2, <1>3

LEMMA OnCrash ==
  ASSUME IInv, Crash
  PROVE  IInv'
<1>1. /\ TypeOK /\ UNCHANGED <<contents, deleted, store, base, begun, late>>
      /\ calls' = [p \in Callers |-> Idle] /\ queue' = <<>> /\ worker' = NoBatch
      /\ missed' = missed \cup ToSet(queue) \cup ToSet(worker.batch) \cup Said
  BY DEF IInv, Crash, Said
<1>2. faults' \in 0..MaxFaults  BY <1>1, HistoryAssumption DEF Crash, TypeOK
<1>3. missed' \subseteq HistoryRecord
  <2>1. Said \subseteq HistoryRecord  BY <1>1, SaysOnTheWay DEF Said
  <2>2. QED  BY <1>1, <2>1, ThreadIs DEF TypeOK
<1>4. /\ calls' \in [Callers -> Call] /\ \A p \in Callers : calls'[p] \in {calls[p], Idle}
  BY <1>1, IdleIs
<1>5. /\ queue' \in Seq(HistoryRecord) /\ Len(queue') <= QueueSize /\ ToSet(queue') = {}
  BY <1>1, OfNone, ThreadIs, HistoryAssumption
<1>6. /\ worker' \in [pc : {"collect", "insert"}, batch : Seq(HistoryRecord), seq : Nat]
      /\ Len(worker'.batch) <= BatchSize /\ ToSet(worker'.batch) = {}
  BY <1>1, NoBatchIs, OfNone
<1>7. store' \in Seq(HistoryRecord)  BY <1>1 DEF TypeOK
<1>8. ToSet(store') \cup ToSet(queue') \cup ToSet(worker'.batch)
        \subseteq ToSet(store) \cup ToSet(queue) \cup ToSet(worker.batch)
  BY <1>1, <1>5, <1>6
<1>9. QED  BY <1>1, <1>2, <1>3, <1>4, <1>5, <1>6, <1>7, <1>8, ThreadKeeps
-----------------------------------------------------------------------------
(* The steps of the command *)

LEMMA BaseHas ==
  ASSUME TypeOK, NEW b \in Base
  PROVE  /\ b.todo \subseteq Heads /\ b.head \in Heads /\ b.latest \in Nat
         /\ b.batch \in Seq(HistoryRecord) /\ ToSet(b.batch) \subseteq HistoryRecord /\ b.seq \in Nat
         /\ DOMAIN b.at \in SUBSET Heads /\ b.at \in [DOMAIN b.at -> 0..MaxVersions]
         /\ \A h \in DOMAIN b.at : h \in Heads /\ b.at[h] \in Nat
<1>1. /\ b.todo \subseteq Heads /\ b.head \in Heads /\ b.latest \in Nat
      /\ b.batch \in Seq(HistoryRecord) /\ b.seq \in Nat
      /\ b.at \in UNION {[hs -> 0..MaxVersions] : hs \in SUBSET Heads}
  BY DEF Base
<1>2. PICK hs \in SUBSET Heads : b.at \in [hs -> 0..MaxVersions]  BY <1>1
<1>3. DOMAIN b.at = hs /\ \A h \in hs : b.at[h] \in 0..MaxVersions  BY <1>2
<1>4. MaxVersions \in Nat  BY HistoryAssumption
<1>5. QED  BY <1>1, <1>2, <1>3, <1>4, Elements

LEMMA NoBaseIs ==
  NoBase \in Base /\ NoBase.pc = "idle" /\ NoBase.todo = {} /\ NoBase.batch = <<>> /\ DOMAIN NoBase.at = {}
<1>1. (CHOOSE h \in Heads : TRUE) \in Heads  BY HistoryAssumption
<1>2. PICK none : none = <<>>  OBVIOUS
<1>3. none \in Seq(0..MaxVersions) /\ Len(none) = 0 /\ DOMAIN none = {}  BY <1>2, OfNone
<1>4. none \in [1..0 -> 0..MaxVersions]  BY <1>3, LenProperties
<1>5. none \in [{} -> 0..MaxVersions]  BY <1>4
<1>6. none \in UNION {[hs -> 0..MaxVersions] : hs \in SUBSET Heads}  BY <1>5
<1>7. none \in Seq(HistoryRecord)  BY <1>2, OfNone
<1>8. NoBase = [pc |-> "idle", todo |-> {}, at |-> none, head |-> CHOOSE h \in Heads : TRUE,
                latest |-> 0, batch |-> none, seq |-> 0]
  BY <1>2 DEF NoBase
<1>9. QED  BY <1>1, <1>2, <1>3, <1>6, <1>7, <1>8 DEF Base

\* The greatest version of the records of a head is that of one of them.
LEMMA LatestIs ==
  ASSUME IInv, NEW h \in Heads
  PROVE  /\ LatestVersion(h) \in Nat
         /\ LatestVersion(h) # 0 =>
              \E r \in ToSet(store) : r.head = h /\ r.version >= LatestVersion(h)
         /\ \A r \in ToSet(store) : r.head = h => LatestVersion(h) >= r.version
<1> DEFINE of == {s \in ToSet(store) : s.head = h}
           V == {0} \cup {r.version : r \in of}
<1>1. TypeOK /\ RecordsAreRight /\ \A g \in Heads : Version(g) <= MaxVersions  BY DEF IInv
<1>2. ASSUME NEW r \in ToSet(store) PROVE r \in HistoryRecord /\ r.version \in 0..MaxVersions
  <2>1. r \in HistoryRecord  BY <1>1, Elements DEF TypeOK
  <2>2. r.head \in Heads /\ r.version \in 1..Version(r.head)
    BY <1>1, <2>1, RecordHas DEF RecordsAreRight, Right
  <2>3. QED  BY <1>1, <2>1, <2>2, Typed, HistoryAssumption
<1>4. LatestVersion(h) = Max(V)  BY DEF LatestVersion
<1>5. 0 \in V /\ \A k \in V : k = 0 \/ \E r \in of : k = r.version  OBVIOUS
<1>6. \A r \in of : r.version \in V  OBVIOUS
<1> HIDE DEF V
<1>3. V \in SUBSET Nat /\ V # {} /\ MaxVersions \in Nat /\ \A k \in V : k <= MaxVersions
  <2>1. MaxVersions \in Nat  BY HistoryAssumption
  <2>2. ASSUME NEW k \in V PROVE k \in 0..MaxVersions
    <3>1. CASE k = 0  BY <2>1, <3>1
    <3>2. CASE k # 0
      <4>1. PICK r \in of : k = r.version  BY <1>5, <3>2
      <4>2. QED  BY <1>2, <4>1
    <3>3. QED  BY <3>1, <3>2
  <2>3. QED  BY <1>5, <2>1, <2>2
<1>7. Max(V) \in V /\ \A k \in V : k <= Max(V)  BY <1>3, GreatestOf
<1>8. Max(V) \in Nat  BY <1>3, <1>7
<1>9. Max(V) # 0 => \E r \in of : r.version >= Max(V)
  <2>1. ASSUME Max(V) # 0 PROVE \E r \in of : r.version >= Max(V)
    <3>1. PICK r \in of : Max(V) = r.version  BY <1>5, <1>7, <2>1
    <3>2. QED  BY <1>8, <3>1
  <2>2. QED  BY <2>1
<1>10. ASSUME NEW r \in ToSet(store), r.head = h PROVE Max(V) >= r.version
  <2>1. r \in of /\ r.version \in V /\ r.version \in Nat  BY <1>2, <1>6, <1>10
  <2>2. QED  BY <1>7, <1>8, <2>1
<1>11. QED  BY <1>4, <1>8, <1>9, <1>10

\* A step of the command: the records it adds to the store are those that it had made.
LEMMA CommandKeeps ==
  ASSUME IInv, UNCHANGED <<contents, deleted, server, faults, missed, late>>,
         begun' \in 0..MaxCalls, base' \in Base,
         store' \in Seq(HistoryRecord), ToSet(store') \subseteq ToSet(store) \cup ToSet(base.batch),
         \A r \in ToSet(base'.batch) : r \in ToSet(base.batch) \/ Right(r),
         WellBase'
  PROVE  IInv'
<1>1. TypeOK  BY DEF IInv
<1>2. Grows /\ late \subseteq late' /\ UNCHANGED <<calls, queue, worker>>  BY <1>1, NothingGrows DEF server
<1>3. TypeOK'  BY <1>1, <1>2 DEF TypeOK
<1>4. ASSUME NEW r, Right(r) PROVE Right(r)'  BY <1>4 DEF Right, Version
<1>5. ASSUME NEW r \in (ToSet(store) \cup OnTheirWay)'
      PROVE  r \in ToSet(store) \cup OnTheirWay \/ Right(r)'
  <2>1. r \in ToSet(store') \/ r \in ToSet(base'.batch)
          \/ r \in ToSet(queue) \cup ToSet(worker.batch) \cup UNION {ToSet(Me(q).says) : q \in Callers}
    BY <1>2 DEF OnTheirWay, Me
  <2>2. QED  BY <1>4, <2>1 DEF OnTheirWay
<1>6. RecordsAreRight'  BY <1>2, <1>5, RecordsKeep
<1>7. RestoredIsWhatWas' /\ \A h \in Heads : Version(h)' <= MaxVersions
  BY <1>1, <1>2, RestoredStays DEF IInv
<1>8. ASSUME NEW p \in Callers PROVE WellCall(Me(p))'
  <2>1. PICK c \in Call : c = Me(p)  BY <1>1, Mine
  <2>2. WellCall(c)  BY <2>1 DEF IInv
  <2>3. Restoring(c) => Restoring(c)'  BY <1>1, <1>2, RestoringStays
  <2>4. WellCall(c)'  BY <2>2, <2>3 DEF WellCall
  <2>5. c = calls'[p]  BY <1>2, <2>1 DEF Me
  <2>6. QED  BY <2>4, <2>5 DEF Me, WellCall, Restoring
<1>9. deleted' \subseteq Made'  BY DEF IInv, Made
<1>10. QED  BY <1>3, <1>6, <1>7, <1>8, <1>9 DEF IInv

LEMMA OnBaseline ==
  ASSUME IInv, Baseline
  PROVE  IInv'
<1>1. TypeOK /\ UNCHANGED <<contents, deleted, server, store, faults, missed, late>>
  BY DEF IInv, Baseline
<1>2. PICK at : at = [h \in Live |-> Version(h)]  OBVIOUS
<1>3. begun' \in 0..MaxCalls /\ base' = [NoBase EXCEPT !.pc = "look", !.todo = Live, !.at = at]
  BY <1>1, <1>2, HistoryAssumption DEF Baseline, TypeOK
<1>4. Live \in SUBSET Heads /\ Live \subseteq Made /\ Made \subseteq Heads /\ DOMAIN at = Live
  BY <1>1, <1>2, Typed
<1>5. ASSUME NEW h \in Live PROVE at[h] = Version(h) /\ Version(h) \in 0..MaxVersions /\ h \in Heads
  BY <1>1, <1>2, <1>4, <1>5, Typed DEF IInv
<1>6. at \in [Live -> 0..MaxVersions]  BY <1>2, <1>5
<1>7. at \in UNION {[hs -> 0..MaxVersions] : hs \in SUBSET Heads}  BY <1>4, <1>6
<1>8. PICK b : b = base'  OBVIOUS
<1>9. /\ b \in Base /\ b.pc = "look" /\ b.todo = Live /\ b.at = at /\ b.batch = <<>>
  BY <1>3, <1>4, <1>7, <1>8, NoBaseIs DEF Base
<1>10. \A h \in DOMAIN at : at[h] <= Version(h)' /\ h \in Live
  <2>1. ASSUME NEW h \in Live PROVE at[h] <= Version(h)'
    <3>1. Version(h)' = Version(h)  BY <1>1 DEF Version
    <3>2. QED  BY <1>5, <3>1
  <2>2. QED  BY <1>4, <2>1
<1>11. Made' = Made  BY <1>1 DEF Made
<1>12. WellBase'  BY <1>4, <1>8, <1>9, <1>10, <1>11 DEF WellBase
<1>13. /\ base' \in Base /\ store' \in Seq(HistoryRecord)
       /\ ToSet(store') \subseteq ToSet(store) \cup ToSet(base.batch)
       /\ \A r \in ToSet(base'.batch) : r \in ToSet(base.batch) \/ Right(r)
  BY <1>1, <1>8, <1>9, OfNone DEF TypeOK
<1>14. QED  BY <1>1, <1>3, <1>12, <1>13, CommandKeeps
\* What the command goes on with, given that the contents and the store remain.
LEMMA CommandOn ==
  ASSUME IInv, UNCHANGED <<contents, deleted, server, store, begun, faults, missed, late>>,
         NEW b \in Base, base' = b,
         \A r \in ToSet(b.batch) : r \in ToSet(base.batch) \/ Right(r),
         b.todo \subseteq base.todo,
         b.pc \notin {"look", "read"} => b.todo = {},
         DOMAIN b.at \subseteq DOMAIN base.at, \A h \in DOMAIN b.at : b.at[h] = base.at[h],
         \A h \in DOMAIN b.at :
           \/ h \in b.todo \/ (b.pc = "read" /\ h = b.head)
           \/ DealtWith(h, ToSet(store) \cup ToSet(b.batch)),
         b.pc = "done" => b.batch = <<>>,
         b.pc = "read" =>
           /\ b.head \in Made
           /\ b.latest # 0 => \E r \in ToSet(store) : r.head = b.head /\ r.version >= b.latest
  PROVE  IInv'
<1>1. TypeOK /\ WellBase /\ Made' = Made  BY DEF IInv, Made
<1>2. ASSUME NEW h \in DOMAIN b.at
      PROVE  /\ b.at[h] <= Version(h)'
             /\ \/ h \in b.todo \/ (b.pc = "read" /\ h = b.head)
                \/ DealtWith(h, ToSet(store) \cup ToSet(b.batch))'
  <2>1. b.at[h] <= Version(h)' /\ b.at[h] = base.at[h]  BY <1>1 DEF WellBase, Version
  <2>2. DealtWith(h, ToSet(store) \cup ToSet(b.batch)) =>
          DealtWith(h, ToSet(store) \cup ToSet(b.batch))'
    BY <2>1 DEF DealtWith
  <2>3. QED  BY <2>1, <2>2
<1>3. b.todo \subseteq Made  BY <1>1 DEF WellBase
<1>4. WellBase'  BY <1>1, <1>2, <1>3 DEF WellBase
<1>5. /\ begun' \in 0..MaxCalls /\ base' \in Base /\ store' \in Seq(HistoryRecord)
      /\ ToSet(store') \subseteq ToSet(store) \cup ToSet(base.batch)
      /\ \A r \in ToSet(base'.batch) : r \in ToSet(base.batch) \/ Right(r)
  BY <1>1 DEF TypeOK
<1>6. QED  BY <1>4, <1>5, CommandKeeps

LEMMA OnBaselineLooks ==
  ASSUME IInv, BaselineLooks
  PROVE  IInv'
<1>1. /\ TypeOK /\ WellBase /\ base \in Base /\ base.pc = "look"
      /\ UNCHANGED <<contents, deleted, server, store, begun, faults, missed, late>>
  BY DEF IInv, TypeOK, BaselineLooks
<1>2. PICK h \in base.todo :
       base' = IF UpToDate(h) THEN [base EXCEPT !.todo = @ \ {h}]
               ELSE [base EXCEPT !.pc = "read", !.todo = @ \ {h}, !.head = h, !.latest = LatestVersion(h)]
  BY Zenon DEF BaselineLooks
<1>3. h \in Made /\ h \in Heads  BY <1>1 DEF WellBase, Made
<1>4. PICK latest \in Nat :
        /\ latest = LatestVersion(h)
        /\ latest # 0 => \E r \in ToSet(store) : r.head = h /\ r.version >= latest
  BY <1>3, LatestIs
<1>5. PICK b : b = base'  OBVIOUS
<1>6. CASE UpToDate(h)
  <2>1. b = [base EXCEPT !.todo = base.todo \ {h}]  BY <1>2, <1>5, <1>6
  <2>2. /\ b \in Base /\ b.pc = "look" /\ b.todo = base.todo \ {h}
        /\ b.at = base.at /\ b.batch = base.batch
    BY <1>1, <2>1 DEF Base
  <2>3. latest # 0 /\ latest >= base.at[h]  BY <1>4, <1>6 DEF UpToDate
  <2>4. PICK r \in ToSet(store) : r.head = h /\ r.version >= latest  BY <1>4, <2>3
  <2>5. r.version \in Nat  BY <1>1, Elements, RecordHas DEF TypeOK
  <2>6. h \in DOMAIN base.at => DealtWith(h, ToSet(store) \cup ToSet(b.batch))
    <3>1. h \in DOMAIN base.at => base.at[h] \in Nat  BY <1>1, BaseHas
    <3>2. QED  BY <1>4, <2>2, <2>3, <2>4, <2>5, <3>1 DEF DealtWith
  <2>7. \A g \in DOMAIN b.at :
          g \in b.todo \/ DealtWith(g, ToSet(store) \cup ToSet(b.batch))
    BY <1>1, <2>2, <2>6 DEF WellBase
  <2>8. QED  BY <1>1, <1>5, <2>2, <2>7, CommandOn
<1>7. CASE ~UpToDate(h)
  <2>1. b = [base EXCEPT !.pc = "read", !.todo = base.todo \ {h}, !.head = h, !.latest = latest]
    BY <1>1, <1>2, <1>4, <1>5, <1>7
  <2>2. /\ b \in Base /\ b.pc = "read" /\ b.todo = base.todo \ {h} /\ b.head = h /\ b.latest = latest
        /\ b.at = base.at /\ b.batch = base.batch
    BY <1>1, <1>3, <2>1 DEF Base
  <2>3. \A g \in DOMAIN b.at :
          \/ g \in b.todo \/ (b.pc = "read" /\ g = b.head)
          \/ DealtWith(g, ToSet(store) \cup ToSet(b.batch))
    BY <1>1, <2>2 DEF WellBase
  <2>4. QED  BY <1>1, <1>3, <1>4, <1>5, <2>2, <2>3, CommandOn
<1>8. QED  BY <1>6, <1>7

LEMMA OnBaselineReads ==
  ASSUME IInv, BaselineReads
  PROVE  IInv'
<1> DEFINE h == base.head
           looks == [base EXCEPT !.pc = "look"]
           record == Record(h, Version(h), "baseline", Now(h), 0)
<1>1. /\ TypeOK /\ WellBase /\ base \in Base /\ base.pc = "read" /\ h \in Made /\ h \in Heads
      /\ UNCHANGED <<contents, deleted, server, store, begun, faults, missed, late>>
  BY DEF IInv, TypeOK, BaselineReads, WellBase, Made
<1>2. base' = CASE h \in deleted -> [looks EXCEPT !.at = [g \in DOMAIN @ \ {h} |-> @[g]]]
               [] h \notin deleted /\ NeedsOne(base.latest, Version(h)) ->
                    [looks EXCEPT !.batch = Append(@, record)]
               [] OTHER -> looks
  BY DEF BaselineReads
<1>3. PICK b : b = base'  OBVIOUS
<1>4. /\ looks \in Base /\ looks.pc = "look" /\ looks.todo = base.todo /\ looks.at = base.at
      /\ looks.head = base.head /\ looks.latest = base.latest /\ looks.batch = base.batch
  BY <1>1 DEF Base
<1>5. \A g \in DOMAIN base.at : g # h =>
        g \in base.todo \/ DealtWith(g, ToSet(store) \cup ToSet(base.batch))
  BY <1>1 DEF WellBase
<1>6. h \in DOMAIN base.at => base.at[h] <= Version(h) /\ base.at[h] \in Nat
  BY <1>1, BaseHas DEF WellBase
<1>7. Version(h) \in Nat \ {0} /\ Now(h) \in Content /\ Now(h) = contents[h][Version(h)].what
  BY <1>1, Typed
<1> HIDE DEF looks
<1>8. CASE h \in deleted
  <2>1. b = [looks EXCEPT !.at = [g \in DOMAIN looks.at \ {h} |-> looks.at[g]]]
    BY <1>2, <1>3, <1>4, <1>8
  <2>2. PICK at : at = [g \in DOMAIN base.at \ {h} |-> base.at[g]]  OBVIOUS
  <2>3. b = [looks EXCEPT !.at = at]  BY <1>4, <2>1, <2>2
  <2>4. at \in UNION {[hs -> 0..MaxVersions] : hs \in SUBSET Heads}
    <3>1. DOMAIN base.at \in SUBSET Heads /\ base.at \in [DOMAIN base.at -> 0..MaxVersions]
      BY <1>1, BaseHas
    <3>2. at \in [DOMAIN base.at \ {h} -> 0..MaxVersions]  BY <2>2, <3>1
    <3>3. DOMAIN base.at \ {h} \in SUBSET Heads  BY <3>1
    <3>4. QED  BY <3>2, <3>3
  <2>5. /\ b \in Base /\ b.pc = "look" /\ b.todo = base.todo /\ b.at = at /\ b.batch = base.batch
    BY <1>4, <2>3, <2>4 DEF Base
  <2>6. DOMAIN at = DOMAIN base.at \ {h} /\ \A g \in DOMAIN at : at[g] = base.at[g]  BY <2>2
  <2>7. /\ DOMAIN b.at \subseteq DOMAIN base.at /\ \A g \in DOMAIN b.at : b.at[g] = base.at[g]
        /\ \A g \in DOMAIN b.at : g \in b.todo \/ DealtWith(g, ToSet(store) \cup ToSet(b.batch))
    BY <1>5, <2>5, <2>6
  <2>8. QED  BY <1>1, <1>3, <2>5, <2>7, CommandOn
<1>9. CASE h \notin deleted /\ NeedsOne(base.latest, Version(h))
  <2>1. b = [looks EXCEPT !.batch = Append(base.batch, record)]
    BY <1>2, <1>3, <1>4, <1>9
  <2>2. "baseline" \in Operations /\ 0 \in Nat /\ Version(h) \in Nat  BY <1>7 DEF Operations
  <2>3. PICK r : r = record  OBVIOUS
  <2>4. r \in HistoryRecord /\ r.head = h /\ r.version = Version(h) /\ r.content = Now(h)
    BY <1>1, <1>7, <2>2, <2>3, RecordIs
  <2>5. PICK batch : batch = Append(base.batch, r)  OBVIOUS
  <2>6. batch \in Seq(HistoryRecord) /\ ToSet(batch) = ToSet(base.batch) \cup {r}
    BY <1>1, <2>4, <2>5, BaseHas, OfAppend
  <2>7. b = [looks EXCEPT !.batch = batch]  BY <2>1, <2>3, <2>5
  <2>8. /\ b \in Base /\ b.pc = "look" /\ b.todo = base.todo /\ b.at = base.at /\ b.batch = batch
    BY <1>4, <2>6, <2>7 DEF Base
  <2>9. Right(r)  BY <1>7, <2>4 DEF Right
  <2>10. \A g \in DOMAIN b.at : g \in b.todo \/ DealtWith(g, ToSet(store) \cup ToSet(b.batch))
    <3>1. h \in DOMAIN base.at => DealtWith(h, ToSet(store) \cup ToSet(b.batch))
      BY <1>6, <1>7, <2>4, <2>6, <2>8 DEF DealtWith
    <3>2. ASSUME NEW g \in DOMAIN base.at, g # h
          PROVE  g \in b.todo \/ DealtWith(g, ToSet(store) \cup ToSet(b.batch))
      BY <1>5, <2>6, <2>8, <3>2 DEF DealtWith
    <3>3. QED  BY <2>8, <3>1, <3>2
  <2>11. /\ \A s \in ToSet(b.batch) : s \in ToSet(base.batch) \/ Right(s)
         /\ DOMAIN b.at \subseteq DOMAIN base.at /\ \A g \in DOMAIN b.at : b.at[g] = base.at[g]
    BY <2>6, <2>8, <2>9
  <2>12. QED  BY <1>1, <1>3, <2>8, <2>10, <2>11, CommandOn
<1>10. CASE h \notin deleted /\ ~NeedsOne(base.latest, Version(h))
  <2>1. b = looks  BY <1>2, <1>3, <1>10
  <2>2. base.latest \in Nat /\ base.latest >= Version(h)  BY <1>1, <1>7, <1>10, BaseHas DEF NeedsOne
  <2>3. base.latest # 0  BY <1>7, <2>2
  <2>4. PICK r \in ToSet(store) : r.head = h /\ r.version >= base.latest  BY <1>1, <2>3 DEF WellBase
  <2>5. r \in HistoryRecord /\ r.version \in Nat  BY <1>1, Elements, RecordHas DEF TypeOK
  <2>6. h \in DOMAIN base.at => DealtWith(h, ToSet(store) \cup ToSet(base.batch))
    BY <1>6, <1>7, <2>2, <2>4, <2>5 DEF DealtWith
  <2>7. \A g \in DOMAIN b.at : g \in b.todo \/ DealtWith(g, ToSet(store) \cup ToSet(b.batch))
    BY <1>4, <1>5, <2>1, <2>6
  <2>8. QED  BY <1>1, <1>3, <1>4, <2>1, <2>7, CommandOn
<1>11. QED  BY <1>8, <1>9, <1>10

LEMMA OnBaselineSelects ==
  ASSUME IInv, BaselineSelects
  PROVE  IInv'
<1>1. /\ TypeOK /\ WellBase /\ base \in Base /\ base.pc = "look" /\ base.todo = {}
      /\ base' = IF base.batch = <<>> THEN [base EXCEPT !.pc = "done"]
                 ELSE [base EXCEPT !.pc = "insert", !.seq = NextSeq(Head(base.batch).head)]
      /\ UNCHANGED <<contents, deleted, server, store, begun, faults, missed, late>>
  BY DEF IInv, TypeOK, BaselineSelects
<1>2. PICK n \in Nat : n = NextSeq(Head(base.batch).head)  BY <1>1, NextSeqIs
<1>3. PICK b : b = base'  OBVIOUS
<1>4. (b = [base EXCEPT !.pc = "done"] /\ base.batch = <<>>) \/ b = [base EXCEPT !.pc = "insert", !.seq = n]
  BY <1>1, <1>2, <1>3
<1>5. /\ b \in Base /\ b.pc \in {"done", "insert"} /\ b.todo = base.todo /\ b.at = base.at
      /\ b.batch = base.batch
      /\ b.pc = "done" => b.batch = <<>>
  BY <1>1, <1>4 DEF Base
<1>6. \A g \in DOMAIN b.at : DealtWith(g, ToSet(store) \cup ToSet(b.batch))
  BY <1>1, <1>5 DEF WellBase
<1>7. QED  BY <1>1, <1>3, <1>5, <1>6, CommandOn

LEMMA OnBaselineInserts ==
  ASSUME IInv, BaselineInserts
  PROVE  IInv'
<1>1. /\ TypeOK /\ WellBase /\ base \in Base /\ base.pc = "insert"
      /\ UNCHANGED <<contents, deleted, server, begun, faults, missed, late>>
      /\ IF FitsStore(base.batch, base.seq)
         THEN store' = store \o base.batch /\ base' = [base EXCEPT !.pc = "done", !.batch = <<>>]
         ELSE base' = NoBase /\ UNCHANGED store
  BY DEF IInv, TypeOK, BaselineInserts
<1>2. store \in Seq(HistoryRecord) /\ begun' \in 0..MaxCalls /\ Made' = Made
  BY <1>1 DEF TypeOK, Made
<1>3. PICK b : b = base'  OBVIOUS
<1>4. CASE FitsStore(base.batch, base.seq)
  <2>1. PICK s, t : s = store /\ t = base.batch  OBVIOUS
  <2>2. s \in Seq(HistoryRecord) /\ t \in Seq(HistoryRecord)  BY <1>1, <1>2, <2>1, BaseHas
  <2>3. s \o t \in Seq(HistoryRecord) /\ ToSet(s \o t) = ToSet(s) \cup ToSet(t)  BY <2>2, OfConcat
  <2>4. store' \in Seq(HistoryRecord) /\ ToSet(store') = ToSet(store) \cup ToSet(base.batch)
    BY <1>1, <1>4, <2>1, <2>3
  <2>5. PICK none : none = <<>>  OBVIOUS
  <2>6. none \in Seq(HistoryRecord) /\ ToSet(none) = {}  BY <2>5, OfNone
  <2>7. b = [base EXCEPT !.pc = "done", !.batch = none]  BY <1>1, <1>3, <1>4, <2>5
  <2>8. b \in Base /\ b.pc = "done" /\ b.todo = base.todo /\ b.at = base.at /\ b.batch = none
    BY <1>1, <2>6, <2>7 DEF Base
  <2>9. ASSUME NEW h \in DOMAIN b.at
        PROVE  b.at[h] <= Version(h)' /\ DealtWith(h, ToSet(store) \cup ToSet(base.batch))'
    <3>1. b.at[h] <= Version(h)'  BY <1>1, <2>8 DEF WellBase, Version
    <3>2. DealtWith(h, ToSet(store) \cup ToSet(base.batch))  BY <1>1, <2>8 DEF WellBase
    <3>3. QED  BY <1>3, <2>4, <2>6, <2>8, <3>1, <3>2 DEF DealtWith
  <2>10. base.todo = {}  BY <1>1 DEF WellBase
  <2>11. WellBase'  BY <1>3, <2>5, <2>8, <2>9, <2>10 DEF WellBase
  <2>12. QED  BY <1>1, <1>2, <1>3, <2>4, <2>6, <2>8, <2>11, CommandKeeps
<1>5. CASE ~FitsStore(base.batch, base.seq)
  <2>1. b = NoBase /\ UNCHANGED store  BY <1>1, <1>3, <1>5
  <2>2. /\ b \in Base /\ b.pc = "idle" /\ b.todo = {} /\ b.batch = <<>> /\ DOMAIN b.at = {}
    BY <2>1, NoBaseIs
  <2>3. \A r \in ToSet(b.batch) : r \in ToSet(base.batch) \/ Right(r)  BY <2>2, OfNone
  <2>4. QED  BY <1>1, <1>3, <2>1, <2>2, <2>3, CommandOn
<1>6. QED  BY <1>4, <1>5
-----------------------------------------------------------------------------
(* At first, and ever after *)

LEMMA Initially ==
  ASSUME Init
  PROVE  IInv
<1>1. PICK there \in First : \E recorded \in SUBSET there :
       /\ contents = [h \in Heads |-> IF h \in there THEN <<[what |-> 1, from |-> 0]>> ELSE <<>>]
       /\ store = SetToSeq({FirstRecord(h) : h \in recorded})
       /\ missed = {FirstRecord(h) : h \in there \ recorded}
  BY Zenon DEF Init
<1>2. PICK recorded \in SUBSET there :
       /\ contents = [h \in Heads |-> IF h \in there THEN <<[what |-> 1, from |-> 0]>> ELSE <<>>]
       /\ store = SetToSeq({FirstRecord(h) : h \in recorded})
       /\ missed = {FirstRecord(h) : h \in there \ recorded}
  BY <1>1, Zenon
<1>3. /\ deleted = {} /\ calls = [p \in Callers |-> Idle] /\ queue = <<>> /\ worker = NoBatch
      /\ base = NoBase /\ begun = 0 /\ faults = 0 /\ late = {}
  BY DEF Init
<1>4. there \subseteq Heads  BY HistoryAssumption
<1> DEFINE e == [what |-> 1, from |-> 0]
<1>5. e \in Entry /\ e.what = 1 /\ e.from = 0  BY HistoryAssumption DEF Entry, Content
<1>6. PICK one : one = <<e>>  OBVIOUS
<1>7. PICK none : none = <<>>  OBVIOUS
<1>8. contents = [h \in Heads |-> IF h \in there THEN one ELSE none]  BY <1>2, <1>6, <1>7
<1> HIDE DEF e
<1>9. one \in Seq(Entry) /\ Len(one) = 1 /\ one[1] = e /\ none \in Seq(Entry) /\ Len(none) = 0 /\ one # none
  BY <1>5, <1>6, <1>7, OfNone
<1>10. contents \in [Heads -> Seq(Entry)]  BY <1>8, <1>9
<1>11. ASSUME NEW h \in Heads
       PROVE  /\ h \in there => Version(h) = 1 /\ contents[h][1] = e
              /\ h \notin there => Version(h) = 0
  BY <1>8, <1>9 DEF Version
<1>12. ASSUME NEW h \in there, NEW r, r = FirstRecord(h)
       PROVE  r \in HistoryRecord /\ Right(r)
  <2>1. h \in Heads /\ 1 \in Nat /\ 0 \in Nat /\ "create" \in Operations /\ 1 \in Content
    BY <1>4, HistoryAssumption DEF Operations, Content
  <2>2. r \in HistoryRecord /\ r.head = h /\ r.version = 1 /\ r.content = 1
    BY <1>12, <2>1, RecordIs DEF FirstRecord
  <2>3. Version(h) = 1 /\ contents[h][1].what = 1  BY <1>5, <1>11, <2>1
  <2>4. QED  BY <2>2, <2>3 DEF Right
<1> DEFINE T == {FirstRecord(h) : h \in recorded}
           f == [h \in recorded |-> FirstRecord(h)]
<1>13. f \in Surjection(recorded, T)  BY DEF Surjection
<1>14. store = SetToSeq(T)  BY <1>2
<1>15. \A r \in T : r \in HistoryRecord /\ Right(r)
  <2>1. ASSUME NEW h \in recorded, NEW r, r = FirstRecord(h) PROVE r \in HistoryRecord /\ Right(r)
    BY <1>12, <2>1
  <2>2. QED  BY <2>1
<1>16. missed \subseteq HistoryRecord
  <2>1. ASSUME NEW r \in missed PROVE r \in HistoryRecord
    <3>1. PICK h \in there : r = FirstRecord(h)  BY <1>2
    <3>2. QED  BY <1>12, <3>1
  <2>2. QED  BY <2>1
<1> HIDE DEF T, f
<1>17. IsFiniteSet(recorded)  BY <1>4, HistoryAssumption, FS_Subset
<1>18. IsFiniteSet(T)  BY <1>13, <1>17, FS_Surjection
<1>19. store \in Seq(T) /\ ToSet(store) = T  BY <1>14, <1>18, OfSet
<1>20. store \in Seq(HistoryRecord)
  <2>1. \A i \in 1..Len(store) : store[i] \in HistoryRecord  BY <1>15, <1>19, Elements
  <2>2. QED  BY <1>19, <2>1, SeqDef, LenProperties
<1>21. queue \in Seq(HistoryRecord) /\ Len(queue) <= QueueSize /\ ToSet(queue) = {}
  BY <1>3, OfNone, HistoryAssumption
<1>22. TypeOK
  <2>1. calls \in [Callers -> Call]  BY <1>3, IdleIs
  <2>2. /\ worker \in [pc : {"collect", "insert"}, batch : Seq(HistoryRecord), seq : Nat]
        /\ Len(worker.batch) <= BatchSize
    BY <1>3, NoBatchIs
  <2>3. base \in Base  BY <1>3, NoBaseIs
  <2>4. begun \in 0..MaxCalls /\ faults \in 0..MaxFaults /\ late \subseteq Heads \X Nat /\ deleted \subseteq Heads
    BY <1>3, HistoryAssumption
  <2>5. QED  BY <1>10, <1>16, <1>20, <1>21, <2>1, <2>2, <2>3, <2>4 DEF TypeOK, Entry
<1>23. RecordsAreRight
  <2>1. \A p \in Callers : ToSet(Me(p).says) = {}  BY <1>3, IdleIs, OfNone DEF Me
  <2>2. ToSet(worker.batch) = {} /\ ToSet(base.batch) = {}  BY <1>3, NoBatchIs, NoBaseIs, OfNone
  <2>3. OnTheirWay = {}  BY <1>21, <2>1, <2>2 DEF OnTheirWay
  <2>4. QED  BY <1>15, <1>19, <2>3 DEF RecordsAreRight
<1>24. RestoredIsWhatWas
  <2>1. ASSUME NEW h \in Heads, NEW v \in 1..Version(h)
        PROVE  contents[h][v].from = 0 /\ v = 1
    BY <1>5, <1>11, <2>1
  <2>2. QED  BY <2>1 DEF RestoredIsWhatWas
<1>25. \A h \in Heads : Version(h) <= MaxVersions  BY <1>11, HistoryAssumption
<1>26. \A p \in Callers : WellCall(Me(p))  BY <1>3, IdleIs DEF Me, WellCall
<1>27. WellBase
  <2>1. PICK b : b = base  OBVIOUS
  <2>2. b.pc = "idle" /\ b.todo = {} /\ b.batch = <<>> /\ DOMAIN b.at = {}  BY <1>3, <2>1, NoBaseIs
  <2>3. QED  BY <2>1, <2>2 DEF WellBase
<1>28. deleted \subseteq Made  BY <1>3
<1>29. QED  BY <1>22, <1>23, <1>24, <1>25, <1>26, <1>27, <1>28 DEF IInv

LEMMA Nothing ==
  ASSUME IInv, UNCHANGED vars
  PROVE  IInv'
<1>1. UNCHANGED <<contents, deleted, calls, queue, worker, store, base, begun, faults, missed, late>>
  BY DEF vars
<1>2. /\ TypeOK /\ Grows /\ late \subseteq late' /\ late' \subseteq Heads \X Nat
      /\ begun' \in 0..MaxCalls /\ WellBase /\ base' \in Base /\ store' \in Seq(HistoryRecord)
  BY <1>1, NothingGrows DEF IInv, TypeOK
<1>3. UNCHANGED <<contents, deleted, server, faults, missed, late>>  BY <1>1 DEF server
<1>4. /\ ToSet(store') \subseteq ToSet(store) \cup ToSet(base.batch)
      /\ \A r \in ToSet(base'.batch) : r \in ToSet(base.batch) \/ Right(r)
  BY <1>1
<1>5. WellBase'  BY <1>1, <1>2, BaseKeeps
<1>6. QED  BY <1>2, <1>3, <1>4, <1>5, CommandKeeps

\* Whatever callers, the thread of the server and the command `baseline` do, and however
\* the server crashes and the store fails in between: records on their way and in the store
\* say what the heads were, and the command knows which heads it has dealt with.
THEOREM Invariance == Spec => []IInv
<1>1. Init => IInv  BY Initially
<1>2. IInv /\ [Next]_vars => IInv'
  <2> SUFFICES ASSUME IInv, [Next]_vars PROVE IInv'  OBVIOUS
  <2>1. ASSUME NEW p \in Callers, Serve(p) PROVE IInv'  BY <2>1, OnServe
  <2>2. QED  BY <2>1, OnTake, OnSelect, OnInsert, OnCrash, OnBaseline, OnBaselineLooks,
                OnBaselineReads, OnBaselineSelects, OnBaselineInserts, Nothing DEF Next
<1>3. QED  BY <1>1, <1>2, PTL DEF Spec

\* What a record says that a head was in a version, it was (HistoryRecord, of /versions): the
\* records in the store, on the queue, and those that callers have yet to announce.
THEOREM RecordsSayWhatWas == Spec => []RecordsAreRight
<1>1. IInv => RecordsAreRight  BY DEF IInv
<1>2. QED  BY <1>1, Invariance, PTL

\* A restore brings back what the head was in the version that was asked for (restore), though
\* others write, delete and undelete it between the reading of that version and the update.
THEOREM RestoresBringBack == Spec => []RestoredIsWhatWas
<1>1. IInv => RestoredIsWhatWas  BY DEF IInv
<1>2. QED  BY <1>1, Invariance, PTL

\* When `baseline` has ended well, each head there was when it began, and that it could read,
\* has a record of the version it had then or of a later one (make_baseline).
THEOREM ABaselineMends == Spec => []BaselineMends
<1>1. ASSUME IInv PROVE BaselineMends
  <2>1. SUFFICES ASSUME base.pc = "done", NEW h \in DOMAIN base.at
                 PROVE  LatestVersion(h) >= base.at[h]
    BY DEF BaselineMends
  <2>2. /\ base \in Base /\ WellBase /\ TypeOK  BY <1>1 DEF IInv, TypeOK
  <2>3. h \in Heads /\ base.at[h] \in Nat  BY <2>1, <2>2, BaseHas
  <2>4. DealtWith(h, ToSet(store) \cup ToSet(base.batch)) /\ base.batch = <<>>
    BY <2>1, <2>2 DEF WellBase
  <2>5. PICK r \in ToSet(store) : r.head = h /\ r.version >= base.at[h]
    BY <2>4, OfNone DEF DealtWith
  <2>6. r \in HistoryRecord /\ r.version \in Nat  BY <2>2, Elements, RecordHas DEF TypeOK
  <2>7. LatestVersion(h) \in Nat /\ LatestVersion(h) >= r.version  BY <1>1, <2>3, <2>5, LatestIs
  <2>8. QED  BY <2>3, <2>5, <2>6, <2>7
<1>2. QED  BY <1>1, Invariance, PTL
=============================================================================
