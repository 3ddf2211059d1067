----------------------------- MODULE UsersProofs -----------------------------
(***************************************************************************)
(* What the sessions of users promise (Users), for any users, tokens and    *)
(* requests at once.                                                        *)
(***************************************************************************)
EXTENDS Users, FiniteSetTheorems, TLAPS

-----------------------------------------------------------------------------
(* Requests *)

LEMMA IdleWell ==
  /\ Idle \in Call /\ Idle.pc = "idle" /\ Idle.kind = "login" /\ Idle.todo = {} /\ ~Idle.bad
  /\ WellCall(Idle)
<1>1. PICK u \in Names : TRUE  BY UsersAssumption DEF UsersAssumption
<1>2. FirstUsers[u].password \in Passwords  BY <1>1, UsersAssumption DEF UsersAssumption, Account
<1>3. (CHOOSE p \in Passwords : TRUE) \in Passwords  BY <1>2
<1>4. (CHOOSE v \in Names : TRUE) \in Names  BY <1>1
<1>5. Unseen \in Account  BY <1>3 DEF Unseen, Account
<1>6. Unseen.password \in Passwords  BY <1>5 DEF Account
<1>7. Idle \in Call  BY <1>4, <1>5, <1>6 DEF Idle, Call, Places, Kinds
<1>8. Idle.pc = "idle" /\ Idle.kind = "login" /\ Idle.todo = {} /\ ~Idle.bad  BY DEF Idle
<1>9. WellCall(Idle)  BY <1>8 DEF WellCall, Knows, Remembers, BadFound
<1>10. QED  BY <1>7, <1>8, <1>9

LEMMA Typed ==
  ASSUME IInv, NEW c \in Callers
  PROVE  /\ calls[c] \in Call /\ WellCall(calls[c])
         /\ calls[c].pc \in Places /\ calls[c].kind \in Kinds /\ calls[c].target \in Names
         /\ calls[c].by \in Token \cup {Nobody} /\ calls[c].seen \in Account
         /\ calls[c].password \in Passwords /\ calls[c].old \in Passwords
         /\ calls[c].flag \in BOOLEAN /\ calls[c].todo \subseteq Token /\ calls[c].bad \in BOOLEAN
<1>1. calls[c] \in Call /\ WellCall(calls[c])  BY DEF IInv, TypeOK
<1>2. QED  BY <1>1 DEF Call

-----------------------------------------------------------------------------
(* What no step undoes *)

\* Users, but those of whom an update was lost, go on to later generations, and their
\* password is another only of another generation.  Tokens are revoked until they expire.
Grown ==
  /\ tokens \subseteq tokens' /\ expired \subseteq expired' /\ lost \subseteq lost'
  /\ revoked \subseteq revoked' \cup expired'
  /\ \A t \in tokens : t.id \in kept' => t.id \in kept
  /\ \A u \in Names : users[u].made => users'[u].made
  /\ \A u \in Names \ lost' : users[u].made =>
       /\ users[u].generation <= users'[u].generation
       /\ users[u].generation = users'[u].generation => users[u].password = users'[u].password

LEMMA StillWell ==
  ASSUME TypeOK, TypeOK', TokensWell, Grown, NEW call \in Call, WellCall(call)
  PROVE  WellCall(call)'
<1>0. /\ \A u \in Names : users[u].generation \in Nat /\ users'[u].generation \in Nat
      /\ \A t \in tokens : t.user \in Names /\ t.generation \in Nat /\ users[t.user].made
      /\ call.target \in Names /\ call.seen.generation \in Nat
  BY DEF TypeOK, Account, Token, Call, TokensWell
<1>1. Knows(call)'  BY DEF WellCall, Knows, Grown
<1>2. Remembers(call)'
  <2>1. CASE call.target \in lost'
    BY <1>0, <2>1 DEF WellCall, Remembers, Grown
  <2>2. CASE call.target \notin lost' /\ call.pc \in {"rehash", "issue"} /\ call.kind = "login"
    <3>1. /\ users[call.target].made /\ call.target \notin lost /\ users'[call.target].made
          /\ call.seen.generation <= users[call.target].generation
          /\ users[call.target].generation <= users'[call.target].generation
          /\ users[call.target].generation = users'[call.target].generation =>
               users[call.target].password = users'[call.target].password
      BY <1>0, <2>2 DEF WellCall, Remembers, Grown
    <3>2. call.pc = "rehash" => call.seen.password = call.password
      BY <2>2 DEF WellCall, Remembers
    <3>3. call.seen.generation <= users'[call.target].generation  BY <1>0, <3>1
    <3>4. call.pc = "issue" /\ call.seen.generation = users'[call.target].generation =>
            call.password = users'[call.target].password
      <4>1. SUFFICES ASSUME call.pc = "issue", call.seen.generation = users'[call.target].generation
                     PROVE  call.password = users'[call.target].password
        OBVIOUS
      <4>2. call.seen.generation = users[call.target].generation  BY <1>0, <3>1, <4>1
      <4>3. QED  BY <2>2, <3>1, <4>1, <4>2 DEF WellCall, Remembers
    <3>5. QED  BY <2>2, <3>1, <3>2, <3>3, <3>4 DEF Remembers
  <2>3. CASE ~(call.pc \in {"rehash", "issue"} /\ call.kind = "login")
    BY <2>3 DEF WellCall, Remembers
  <2>4. QED  BY <2>1, <2>2, <2>3
<1>3. BadFound(call)'
  <2>1. SUFFICES ASSUME call.bad, ~(call.by.id \in expired' \/ call.by.user \in lost') PROVE BadFound(call)'
    BY DEF BadFound, Excused
  <2>2. call.by \in tokens /\ call.by.user \in Names \ lost' /\ users[call.by.user].made
    BY <1>0, <2>1 DEF WellCall, Knows
  <2>3. ~Excused(call)  BY <2>1 DEF Excused, Grown
  <2>4. CASE call.pc \in {"refresh", "auth", "auth_revoked"} /\ call.by.id \in revoked
    <3>1. call.by.id \in revoked'  BY <2>1, <2>4 DEF Grown
    <3>2. QED  BY <2>4, <3>1 DEF BadFound
  <2>5. CASE call.pc \in {"refresh", "auth"} /\ call.by.type = "personal" /\ call.by.id \notin kept
    <3>1. call.by.id \notin kept'  BY <2>2, <2>5 DEF Grown
    <3>2. QED  BY <2>5, <3>1 DEF BadFound
  <2>6. CASE call.pc \in {"refresh", "auth"} /\ Outlived(call.by, users[call.by.user])
    <3>1. users[call.by.user].generation <= users'[call.by.user].generation  BY <2>2 DEF Grown
    <3>2. Outlived(call.by, users'[call.by.user])  BY <1>0, <2>2, <2>6, <3>1 DEF Outlived
    <3>3. QED  BY <2>6, <3>2 DEF BadFound
  <2>7. QED  BY <2>1, <2>3, <2>4, <2>5, <2>6 DEF WellCall, BadFound
<1>4. QED  BY <1>1, <1>2, <1>3 DEF WellCall

LEMMA SessionsStay ==
  ASSUME TypeOK, TypeOK', TokensWell, NoLater, EndedAreDead, SessionsOfThePassword, Grown,
         UNCHANGED <<tokens, endedAt>>
  PROVE  /\ EndedAreDead' /\ SessionsOfThePassword'
         /\ \A t \in tokens' : t.type # "personal" /\ t.user \notin lost' => t.generation <= users'[t.user].generation
<1>1. ASSUME NEW t \in tokens, t.type # "personal", t.user \notin lost'
      PROVE  /\ t.generation <= users'[t.user].generation
             /\ t.id <= endedAt[t.user] => Outlived(t, users'[t.user])
             /\ ~Outlived(t, users'[t.user]) => t.with = users'[t.user].password
  <2>1. /\ t.user \in Names \ lost' /\ users[t.user].made /\ t.user \notin lost
        /\ t.generation \in Nat /\ users[t.user].generation \in Nat /\ users'[t.user].generation \in Nat
    BY <1>1 DEF TypeOK, Account, Token, TokensWell, Grown
  <2>2. /\ users[t.user].generation <= users'[t.user].generation
        /\ users[t.user].generation = users'[t.user].generation =>
             users[t.user].password = users'[t.user].password
    BY <2>1 DEF Grown
  <2>3. t.generation <= users[t.user].generation  BY <1>1, <2>1 DEF NoLater
  <2>4. t.id <= endedAt[t.user] => Outlived(t, users[t.user])  BY <1>1, <2>1 DEF EndedAreDead
  <2>5. ~Outlived(t, users[t.user]) => t.with = users[t.user].password
    BY <1>1, <2>1 DEF SessionsOfThePassword
  <2>6. QED  BY <1>1, <2>1, <2>2, <2>3, <2>4, <2>5 DEF Outlived
<1>2. QED  BY <1>1 DEF EndedAreDead, SessionsOfThePassword

LEMMA Stepped ==
  ASSUME IInv, NEW c \in Callers, NEW new \in Call, Become(c, new), WellCall(new)',
         TypeOK', TokensWell', NoLater', EndedAreDead', SessionsOfThePassword', Grown
  PROVE  IInv'
<1>1. ASSUME NEW d \in Callers PROVE WellCall(calls[d])'
  <2>1. CASE d = c
    <3>1. calls'[d] = new  BY <2>1 DEF Become, IInv, TypeOK
    <3>2. QED  BY <3>1 DEF WellCall, Knows, Remembers, BadFound, Excused
  <2>2. CASE d # c
    <3>1. PICK call \in Call : call = calls[d] /\ WellCall(call)  BY Typed
    <3>2. calls'[d] = call  BY <2>2, <3>1 DEF Become, IInv, TypeOK
    <3>3. WellCall(call)'  BY <3>1, StillWell DEF IInv
    <3>4. QED  BY <3>2, <3>3 DEF WellCall, Knows, Remembers, BadFound, Excused
  <2>3. QED  BY <2>1, <2>2
<1>2. QED  BY <1>1 DEF IInv

\* A request goes on, and nothing else.
LEMMA QuietStep ==
  ASSUME IInv, NEW c \in Callers, NEW new \in Call, Become(c, new), WellCall(new),
         UNCHANGED <<users, kept, revoked, tokens, issued, expired, workload, endedAt, lost>>
  PROVE  IInv'
<1>1. TypeOK'  BY DEF IInv, TypeOK, Become
<1>2. Grown  BY DEF Grown, IInv, TypeOK, Account
<1>3. WellCall(new)'  BY <1>1, <1>2, StillWell DEF IInv
<1>4. TokensWell' /\ NoLater' /\ EndedAreDead' /\ SessionsOfThePassword'
  BY DEF IInv, TokensWell, NoLater, EndedAreDead, SessionsOfThePassword, Outlived
<1>5. QED  BY <1>1, <1>2, <1>3, <1>4, Stepped

LEMMA AnswerStep ==
  ASSUME IInv, NEW c \in Callers, Answer(c),
         UNCHANGED <<users, kept, revoked, tokens, issued, expired, workload, endedAt, lost>>
  PROVE  IInv'
  BY IdleWell, QuietStep DEF Answer

\* A user is updated by a request, which is answered or goes on.
LEMMA UpdateStep ==
  ASSUME IInv, NEW c \in Callers, NEW new \in Call, Become(c, new), WellCall(new)',
         users' \in [Names -> Account], lost' \subseteq Names, Grown,
         \A u \in Names : users'[u].admin => users'[u].made,
         UNCHANGED <<kept, revoked, tokens, issued, expired, workload, endedAt>>
  PROVE  IInv'
<1>1. TypeOK'  BY DEF IInv, TypeOK, Become
<1>2. TokensWell'  BY DEF IInv, TokensWell, TypeOK, Token, Grown
<1>3. /\ EndedAreDead' /\ SessionsOfThePassword'
      /\ \A t \in tokens' : t.type # "personal" /\ t.user \notin lost' => t.generation <= users'[t.user].generation
  BY <1>1, SessionsStay DEF IInv
<1>4. NoLater'  BY <1>3 DEF NoLater
<1>5. QED  BY <1>1, <1>2, <1>3, <1>4, Stepped

-----------------------------------------------------------------------------
(* Steps *)

LEMMA BeganStep ==
  ASSUME IInv, NEW c \in Callers, NEW kind \in Kinds, NEW by \in Token \cup {Nobody},
         NEW target \in Names, NEW password \in Passwords, NEW old \in Passwords, NEW flag \in BOOLEAN,
         Began(c, kind, by, target, password, old, flag),
         kind # "logout", IF kind = "login" THEN by = Nobody ELSE by \in tokens,
         kind \in {"refresh", "create_token"} => target = by.user,
         kind = "refresh" => by.type = "refresh"
  PROVE  IInv'
<1> DEFINE place == CASE kind = "login" -> "verify"
                      [] kind = "refresh" -> "refresh"
                      [] OTHER -> "auth"
           bad == /\ by # Nobody
                  /\ \/ by.id \in revoked
                     \/ by.type = "personal" /\ by.id \notin kept
                     \/ Outlived(by, users[by.user])
           new == [Idle EXCEPT !.pc = place, !.kind = kind, !.by = by, !.target = target,
                               !.password = password, !.old = old, !.flag = flag, !.bad = bad]
<1>1. /\ place \in {"verify", "refresh", "auth"} /\ (place = "verify" <=> kind = "login")
      /\ (place = "refresh" <=> kind = "refresh") /\ bad \in BOOLEAN
  OBVIOUS
<1>2. Become(c, new) /\ UNCHANGED <<users, kept, revoked, tokens, issued, expired, workload, endedAt, lost>>
  BY Zenon DEF Began
<1>3. bad => by.id \in revoked \/ (by.type = "personal" /\ by.id \notin kept) \/ Outlived(by, users[by.user])
  OBVIOUS
<1>4. kind = "login" => ~bad  OBVIOUS
<1> HIDE DEF place, bad
<1>5. /\ new \in Call /\ new.pc = place /\ new.kind = kind /\ new.by = by /\ new.target = target
      /\ new.todo = {} /\ new.bad = bad
  BY <1>1, IdleWell DEF Call, Places
<1> HIDE DEF new
<1>6. Knows(new)  BY <1>1, <1>4, <1>5 DEF Knows
<1>7. Remembers(new)  BY <1>1, <1>5 DEF Remembers
<1>8. BadFound(new)  BY <1>1, <1>3, <1>4, <1>5 DEF BadFound
<1>9. QED  BY <1>2, <1>5, <1>6, <1>7, <1>8, QuietStep DEF WellCall

LEMMA RequestBegins ==
  ASSUME NEW c \in Callers, Request(c)
  PROVE  \E kind \in workload.kinds \ {"login", "refresh", "logout"}, t \in Held({"access", "personal"}),
            u \in workload.about, p \in Passwords, old \in Passwords, flag \in BOOLEAN :
           (kind \notin OfAdmins => u = t.user) /\ Began(c, kind, t, u, p, old, flag)
<1>1. PICK kind \in workload.kinds \ {"login", "refresh", "logout"} :
        \E t \in Held({"access", "personal"}), u \in workload.about,
           p \in Passwords, old \in Passwords, flag \in BOOLEAN :
          /\ kind \notin OfAdmins => u = t.user
          /\ kind \notin {"change_password", "set_password", "create_user"} => p = Idle.password
          /\ kind # "change_password" => old = Idle.password
          /\ kind \notin {"set_admin", "set_disabled", "create_user"} => ~flag
          /\ Began(c, kind, t, u, p, old, flag)
  BY Zenon DEF Request
<1>2. PICK t \in Held({"access", "personal"}), u \in workload.about,
           p \in Passwords, old \in Passwords, flag \in BOOLEAN :
        /\ kind \notin OfAdmins => u = t.user
        /\ kind \notin {"change_password", "set_password", "create_user"} => p = Idle.password
        /\ kind # "change_password" => old = Idle.password
        /\ kind \notin {"set_admin", "set_disabled", "create_user"} => ~flag
        /\ Began(c, kind, t, u, p, old, flag)
  BY <1>1, Zenon
<1>3. QED  BY <1>2, Zenon

LEMMA BeginSteps ==
  ASSUME IInv, NEW c \in Callers, Login(c) \/ Refresh(c) \/ Request(c) \/ Logout(c)
  PROVE  IInv'
<1>0. /\ Idle.password \in Passwords /\ workload.kinds \subseteq Kinds /\ workload.about \subseteq Names
      /\ tokens \subseteq Token
  BY IdleWell, UsersAssumption DEF UsersAssumption, Call, IInv, TypeOK
<1>1. CASE Login(c)
  <2>1. PICK u \in workload.about, p \in Passwords : Began(c, "login", Nobody, u, p, p, FALSE)
    BY <1>1 DEF Login
  <2>2. u \in Names /\ Nobody \in Token \cup {Nobody} /\ "login" \in Kinds /\ FALSE \in BOOLEAN
    BY <1>0, <2>1 DEF Kinds
  <2>3. QED  BY <2>1, <2>2, BeganStep
<1>2. CASE Refresh(c)
  <2>1. PICK t \in Held({"refresh"}) : Began(c, "refresh", t, t.user, Idle.password, Idle.password, FALSE)
    BY <1>2 DEF Refresh
  <2>2. /\ t \in tokens /\ t \in Token /\ t.type = "refresh" /\ t.user \in Names
        /\ "refresh" \in Kinds /\ FALSE \in BOOLEAN
    BY <1>0, <2>1 DEF Held, Token, Kinds
  <2>3. QED  BY <1>0, <2>1, <2>2, BeganStep
<1>3. CASE Request(c)
  <2>1. PICK kind \in workload.kinds \ {"login", "refresh", "logout"}, t \in Held({"access", "personal"}),
             u \in workload.about, p \in Passwords, old \in Passwords, flag \in BOOLEAN :
          (kind \notin OfAdmins => u = t.user) /\ Began(c, kind, t, u, p, old, flag)
    BY <1>3, RequestBegins, Zenon
  <2>2. /\ t \in tokens /\ t \in Token /\ u \in Names /\ kind \in Kinds
        /\ kind \notin {"login", "refresh", "logout"} /\ (kind = "create_token" => u = t.user)
    BY <1>0, <2>1 DEF Held, OfAdmins
  <2>3. QED  BY <2>1, <2>2, BeganStep
<1>4. CASE Logout(c)
  <2>1. PICK some \in SUBSET Held({"access", "refresh"}) :
          /\ Cardinality(some) \in 1..2
          /\ Become(c, [Idle EXCEPT !.pc = "revoke", !.kind = "logout", !.todo = some])
          /\ UNCHANGED <<users, kept, revoked, tokens, issued, expired, workload, endedAt, lost>>
    BY <1>4, Zenon DEF Logout
  <2> DEFINE new == [Idle EXCEPT !.pc = "revoke", !.kind = "logout", !.todo = some]
  <2>2. some # {} /\ some \subseteq {t \in tokens : t.type # "personal"} /\ some \subseteq Token
    BY <1>0, <2>1, FS_EmptySet DEF Held
  <2>3. /\ new \in Call /\ new.pc = "revoke" /\ new.kind = "logout" /\ new.todo = some /\ ~new.bad
    BY <2>2, IdleWell DEF Call, Places, Kinds
  <2>4. Become(c, new)  BY <2>1
  <2> HIDE DEF new
  <2>5. WellCall(new)  BY <2>2, <2>3 DEF WellCall, Knows, Remembers, BadFound
  <2>6. QED  BY <2>1, <2>3, <2>4, <2>5, QuietStep
<1>5. QED  BY <1>1, <1>2, <1>3, <1>4

\* What has been answered for: a request that goes where it acts knows what is needed there.
LEMMA AdmitStep ==
  ASSUME IInv, NEW c \in Callers, NEW account \in Account, Admit(c, account),
         NEW old \in Call, old = calls[c], old.kind \notin {"login", "logout"},
         old.bad => Excused(old),
         old.kind = "refresh" => account.generation <= old.by.generation,
         UNCHANGED <<users, kept, revoked, tokens, issued, expired, workload, endedAt, lost>>
  PROVE  IInv'
<1> DEFINE place == FirstPlace(old.kind)
           new == [old EXCEPT !.seen = account, !.pc = place]
<1>0. old.kind \in Kinds /\ WellCall(old)  BY Typed
<1>1. /\ place \in {"issue", "verify", "read", "create", "write"} /\ place \in Places
      /\ (place = "issue" <=> old.kind = "refresh")
      /\ (place = "verify" <=> old.kind = "change_password")
      /\ (place = "read" => old.kind \notin {"set_admin", "set_disabled"})
  BY <1>0 DEF FirstPlace, Kinds, Places
<1> HIDE DEF place
<1>2. CASE Authorised(old, account)
  <2>1. /\ new \in Call /\ new.pc = place /\ new.seen = account
        /\ new.kind = old.kind /\ new.by = old.by /\ new.target = old.target
        /\ new.todo = old.todo /\ new.bad = old.bad
    BY <1>1 DEF Call
  <2>2. Become(c, new)  BY <1>2 DEF Admit, place
  <2> HIDE DEF new
  <2>3. Knows(new)  BY <1>0, <1>1, <1>2, <2>1 DEF WellCall, Knows, Authorised
  <2>4. Remembers(new)  BY <1>0, <1>1, <2>1 DEF Remembers
  <2>5. BadFound(new)  BY <2>1 DEF BadFound, Excused
  <2>6. QED  BY <2>1, <2>2, <2>3, <2>4, <2>5, QuietStep DEF WellCall
<1>3. CASE ~Authorised(old, account)
  <2>1. Answer(c)  BY <1>3 DEF Admit
  <2>2. QED  BY <2>1, AnswerStep
<1>4. QED  BY <1>2, <1>3

\* The user that a token is of is read, then whether it is revoked.
LEMMA AuthSteps ==
  ASSUME IInv, NEW c \in Callers, ReadUser(c) \/ ReadRevoked(c) \/ ReadPersonal(c)
  PROVE  IInv'
<1>0. PICK old \in Call : old = calls[c]  BY Typed
<1>1. /\ WellCall(old) /\ tokens \subseteq Token /\ users \in [Names -> Account] /\ old.seen \in Account
      /\ UNCHANGED <<users, kept, revoked, tokens, issued, expired, workload, endedAt, lost>>
  BY <1>0, Typed DEF IInv, TypeOK, ReadUser, ReadRevoked, ReadPersonal
<1>2. old.kind \notin {"login", "logout"}
  BY <1>0, <1>1 DEF WellCall, Knows, ReadUser, ReadRevoked, ReadPersonal, At
<1>3. /\ old.by \in tokens /\ old.by \in Token /\ old.by.user \in Names
      /\ users[old.by.user] \in Account /\ users[old.by.user].generation \in Nat /\ old.by.generation \in Nat
  BY <1>1, <1>2 DEF WellCall, Knows, Token, Account
<1>4. old.by.type = "personal" => old.by.id \notin revoked
  BY <1>1, <1>3 DEF IInv, TokensWell
<1>5. CASE ReadUser(c)
  <2>1. old.pc \in {"refresh", "auth"}  BY <1>0, <1>5 DEF ReadUser
  <2>2. CASE old.by.type = "personal"
    <3>1. CASE old.by.id \in kept \ expired
      <4> DEFINE new == [old EXCEPT !.pc = "auth_user"]
      <4>1. /\ new \in Call /\ new.pc = "auth_user" /\ new.kind = old.kind /\ new.by = old.by
            /\ new.target = old.target /\ new.todo = old.todo /\ new.bad = old.bad
        BY DEF Call, Places
      <4>2. Become(c, new)  BY <1>0, <1>5, <2>2, <3>1 DEF ReadUser, Go
      <4> HIDE DEF new
      <4>3. Knows(new)  BY <1>1, <1>2, <2>1, <2>2, <4>1 DEF WellCall, Knows
      <4>4. Remembers(new)  BY <4>1 DEF Remembers
      <4>5. BadFound(new)
        BY <1>1, <1>4, <2>1, <2>2, <3>1, <4>1 DEF WellCall, BadFound, Excused, Outlived
      <4>6. QED  BY <1>1, <4>1, <4>2, <4>3, <4>4, <4>5, QuietStep DEF WellCall
    <3>2. CASE old.by.id \notin kept \ expired
      <4>1. Answer(c)  BY <1>0, <1>5, <2>2, <3>2 DEF ReadUser
      <4>2. QED  BY <1>1, <4>1, AnswerStep
    <3>3. QED  BY <3>1, <3>2
  <2>3. CASE old.by.type # "personal"
    <3> DEFINE u == users[old.by.user]
               new == [old EXCEPT !.seen = u, !.pc = "auth_revoked"]
    <3>1. CASE ~(Refused(u) \/ Outlived(old.by, u))
      <4>1. /\ new \in Call /\ new.pc = "auth_revoked" /\ new.seen = u /\ new.kind = old.kind
            /\ new.by = old.by /\ new.target = old.target /\ new.todo = old.todo /\ new.bad = old.bad
        BY <1>3 DEF Call, Places
      <4>2. Become(c, new)  BY <1>0, <1>5, <2>3, <3>1 DEF ReadUser
      <4>3. u.generation <= old.by.generation /\ ~Outlived(old.by, u)
        BY <1>3, <2>3, <3>1 DEF Outlived
      <4> HIDE DEF new
      <4>4. Knows(new)  BY <1>1, <1>2, <2>1, <2>3, <4>1 DEF WellCall, Knows
      <4>5. Remembers(new)  BY <4>1, <4>3 DEF Remembers
      <4>6. BadFound(new)  BY <1>1, <2>1, <2>3, <4>1, <4>3 DEF WellCall, BadFound, Excused
      <4>7. QED  BY <1>1, <4>1, <4>2, <4>4, <4>5, <4>6, QuietStep DEF WellCall
    <3>2. CASE Refused(u) \/ Outlived(old.by, u)
      <4>1. Answer(c)  BY <1>0, <1>5, <2>3, <3>2 DEF ReadUser
      <4>2. QED  BY <1>1, <4>1, AnswerStep
    <3>3. QED  BY <3>1, <3>2
  <2>4. QED  BY <2>2, <2>3
<1>6. CASE ReadRevoked(c)
  <2>1. CASE old.by.id \in revoked
    BY <1>0, <1>1, <1>6, <2>1, AnswerStep DEF ReadRevoked
  <2>2. CASE old.by.id \notin revoked
    <3>1. Admit(c, old.seen) /\ old.pc = "auth_revoked"
      BY <1>0, <1>6, <2>2 DEF ReadRevoked, At
    <3>2. old.bad => Excused(old)  BY <1>1, <2>2, <3>1 DEF WellCall, BadFound
    <3>3. old.seen.generation <= old.by.generation  BY <1>1, <3>1 DEF WellCall, Remembers
    <3>4. QED  BY <1>0, <1>1, <1>2, <3>1, <3>2, <3>3, AdmitStep
  <2>3. QED  BY <2>1, <2>2
<1>7. CASE ReadPersonal(c)
  <2> DEFINE u == users[old.by.user]
  <2>1. CASE Refused(u)
    BY <1>0, <1>1, <1>7, <2>1, AnswerStep DEF ReadPersonal
  <2>2. CASE ~Refused(u)
    <3>1. Admit(c, u) /\ old.pc = "auth_user"
      BY <1>0, <1>7, <2>2 DEF ReadPersonal, At
    <3>2. old.bad => Excused(old)  BY <1>1, <3>1 DEF WellCall, BadFound
    <3>3. old.kind # "refresh"  BY <1>1, <3>1 DEF WellCall, Knows
    <3>4. QED  BY <1>0, <1>1, <1>2, <1>3, <3>1, <3>2, <3>3, AdmitStep
  <2>3. QED  BY <2>1, <2>2
<1>8. QED  BY <1>5, <1>6, <1>7

LEMMA RevokeStep ==
  ASSUME IInv, NEW c \in Callers, Revoke(c)
  PROVE  IInv'
<1>0. PICK old \in Call : old = calls[c]  BY Typed
<1> DEFINE rest == old.todo
           refreshes == {t \in rest : t.type = "refresh"}
           t == CHOOSE t \in (IF refreshes # {} THEN refreshes ELSE rest) : TRUE
<1>1. /\ WellCall(old) /\ old.pc = "revoke" /\ rest # {}
      /\ rest \subseteq {s \in tokens : s.type # "personal"} /\ rest \subseteq Token
  BY <1>0, Typed DEF Revoke, At, WellCall, Knows, IInv, TypeOK
<1>2. t \in rest
  <2>1. (IF refreshes # {} THEN refreshes ELSE rest) # {}  BY <1>1
  <2>2. t \in (IF refreshes # {} THEN refreshes ELSE rest)  BY <2>1
  <2>3. QED  BY <2>2
<1>3. /\ revoked' = IF t.id \in expired THEN revoked ELSE Unforgotten \cup {t.id}
      /\ IF rest = {t} THEN Answer(c) ELSE Become(c, [old EXCEPT !.todo = rest \ {t}])
      /\ UNCHANGED <<users, kept, tokens, issued, expired, workload, endedAt, lost>>
  BY <1>0 DEF Revoke
<1> HIDE DEF t
<1>4. t.id \in Nat /\ t \in tokens /\ t.type # "personal"  BY <1>1, <1>2 DEF Token
<1>5. PICK new \in Call : Become(c, new) /\ WellCall(new)
  <2>1. CASE rest = {t}  BY <1>3, <2>1, IdleWell DEF Answer
  <2>2. CASE rest # {t}
    <3> DEFINE new == [old EXCEPT !.todo = rest \ {t}]
    <3>1. /\ new \in Call /\ new.pc = "revoke" /\ new.kind = old.kind /\ new.by = old.by
          /\ new.target = old.target /\ new.todo = rest \ {t} /\ new.bad = old.bad
      BY <1>1 DEF Call
    <3>2. Become(c, new)  BY <1>3, <2>2
    <3>3. rest \ {t} # {}  BY <1>2, <2>2
    <3> HIDE DEF new
    <3>4. WellCall(new)
      BY <1>1, <3>1, <3>3 DEF WellCall, Knows, Remembers, BadFound, Excused
    <3>5. QED  BY <3>1, <3>2, <3>4
  <2>3. QED  BY <2>1, <2>2
<1>6. revoked' \subseteq revoked \cup {t.id} /\ revoked \subseteq revoked' \cup expired
  BY <1>3 DEF Unforgotten
<1>7. TypeOK'  BY <1>3, <1>4, <1>5, <1>6 DEF IInv, TypeOK, Become
<1>8. Grown  BY <1>3, <1>6 DEF Grown, IInv, TypeOK, Account
<1>9. TokensWell'  BY <1>3, <1>4, <1>6 DEF IInv, TokensWell
<1>10. NoLater' /\ EndedAreDead' /\ SessionsOfThePassword'
  BY <1>3 DEF IInv, NoLater, EndedAreDead, SessionsOfThePassword, Outlived
<1>11. WellCall(new)'  BY <1>5, <1>7, <1>8, StillWell DEF IInv
<1>12. QED  BY <1>5, <1>7, <1>8, <1>9, <1>10, <1>11, Stepped

\* The password is verified, and hashed again.
LEMMA PasswordSteps ==
  ASSUME IInv, NEW c \in Callers, Verify(c) \/ Rehash(c)
  PROVE  IInv'
<1>0. PICK old \in Call : old = calls[c]  BY Typed
<1> DEFINE u == users[old.target]
           given == IF old.kind = "login" THEN old.password ELSE old.old
<1>1. /\ WellCall(old) /\ old.target \in Names /\ u \in Account /\ users \in [Names -> Account]
      /\ old.kind \in {"login", "change_password"} /\ old.pc \in {"verify", "rehash"}
      /\ given \in Passwords /\ u.generation \in Nat /\ old.seen \in Account /\ lost \subseteq Names
  BY <1>0, Typed DEF Verify, Rehash, At, WellCall, Knows, IInv, TypeOK, Call, Account
<1>2. CASE Verify(c)
  <2>1. CASE ~(u.made /\ u.password = given) \/ u.disabled
    BY <1>0, <1>2, <2>1, AnswerStep DEF Verify
  <2>2. CASE ~(~(u.made /\ u.password = given) \/ u.disabled)
    <3> DEFINE place == IF u.outdated THEN "rehash"
                        ELSE IF old.kind = "login" THEN "issue" ELSE "read"
               new == [old EXCEPT !.seen = u, !.pc = place]
    <3>1. /\ place \in {"rehash", "issue", "read"} /\ place \in Places
          /\ (place = "issue" => old.kind = "login")
      BY <1>1 DEF Places
    <3>2. Become(c, new) /\ UNCHANGED <<users, kept, revoked, tokens, issued, expired, workload, endedAt, lost>>
      BY <1>0, <1>2, <2>2 DEF Verify
    <3>3. old.pc = "verify"  BY <1>0, <1>2 DEF Verify, At
    <3> HIDE DEF place
    <3>4. /\ new \in Call /\ new.pc = place /\ new.seen = u
          /\ new.kind = old.kind /\ new.by = old.by /\ new.target = old.target
          /\ new.password = old.password /\ new.old = old.old
          /\ new.todo = old.todo /\ new.bad = old.bad
      BY <1>1, <3>1 DEF Call
    <3> HIDE DEF new
    <3>5. Knows(new)  BY <1>1, <3>1, <3>3, <3>4 DEF WellCall, Knows
    <3>6. Remembers(new)  BY <1>1, <2>2, <3>1, <3>4 DEF Remembers
    <3>7. BadFound(new)  BY <1>1, <3>1, <3>3, <3>4 DEF WellCall, BadFound, Excused
    <3>8. QED  BY <3>2, <3>4, <3>5, <3>6, <3>7, QuietStep DEF WellCall
  <2>3. QED  BY <2>1, <2>2
<1>3. CASE Rehash(c)
  <2> DEFINE place == IF old.kind = "login" THEN "issue" ELSE "read"
             new == [old EXCEPT !.pc = place]
             v == [u EXCEPT !.password = given, !.outdated = FALSE]
  <2>1. /\ users' = [users EXCEPT ![old.target] = v]
        /\ lost' = IF u.password = old.seen.password THEN lost ELSE lost \cup {old.target}
        /\ Become(c, new) /\ UNCHANGED <<kept, revoked, tokens, issued, expired, workload, endedAt>>
    BY <1>0, <1>1, <1>3 DEF Rehash, Go
  <2>2. /\ new \in Call /\ new.pc = place /\ new.seen = old.seen
        /\ new.kind = old.kind /\ new.by = old.by /\ new.target = old.target
        /\ new.password = old.password /\ new.old = old.old
        /\ new.todo = old.todo /\ new.bad = old.bad
    BY <1>1 DEF Call, Places
  <2>3. /\ v \in Account /\ v.made = u.made /\ v.admin = u.admin /\ v.generation = u.generation
        /\ v.password = given
    BY <1>1 DEF Account
  <2>4. old.pc = "rehash" /\ old.seen.password = given
    BY <1>0, <1>1, <1>3 DEF Rehash, At, WellCall, Remembers
  <2> HIDE DEF new, v
  <2>5. /\ users' \in [Names -> Account] /\ users'[old.target] = v
        /\ \A n \in Names : n # old.target => users'[n] = users[n]
        /\ lost' \subseteq Names /\ lost \subseteq lost'
        /\ old.target \notin lost' => u.password = given
    BY <1>1, <2>1, <2>3, <2>4
  <2>6. Grown
    <3>1. ASSUME NEW n \in Names \ lost', users[n].made
          PROVE  /\ users[n].generation <= users'[n].generation
                 /\ users[n].password = users'[n].password
      <4>1. CASE n = old.target  BY <1>1, <2>3, <2>5, <3>1, <4>1
      <4>2. CASE n # old.target  BY <1>1, <2>5, <4>2 DEF Account
      <4>3. QED  BY <4>1, <4>2
    <3>2. \A n \in Names : users[n].made => users'[n].made  BY <2>3, <2>5
    <3>3. QED  BY <2>1, <2>5, <3>1, <3>2 DEF Grown
  <2>7. \A n \in Names : users'[n].admin => users'[n].made
    BY <2>3, <2>5 DEF IInv, NoLater
  <2>8. WellCall(new)'
    <3>1. Knows(new)'  BY <1>1, <2>1, <2>2, <2>4 DEF WellCall, Knows
    <3>2. Remembers(new)'
      <4>1. CASE old.kind = "login"
        <5>1. /\ u.made /\ (old.target \notin lost => old.seen.generation <= u.generation)
          BY <1>1, <2>4, <4>1 DEF WellCall, Remembers
        <5>2. users'[old.target].made /\ users'[old.target].password = old.password
              /\ users'[old.target].generation = u.generation
          BY <2>3, <2>5, <4>1, <5>1
        <5>3. QED  BY <2>2, <2>5, <4>1, <5>1, <5>2 DEF Remembers
      <4>2. CASE old.kind # "login"
        BY <1>1, <2>2, <4>2 DEF Remembers
      <4>3. QED  BY <4>1, <4>2
    <3>3. BadFound(new)'  BY <1>1, <2>1, <2>2, <2>4, <2>5 DEF WellCall, BadFound, Excused
    <3>4. QED  BY <3>1, <3>2, <3>3 DEF WellCall
  <2>9. QED  BY <2>1, <2>2, <2>5, <2>6, <2>7, <2>8, UpdateStep
<1>4. QED  BY <1>2, <1>3

LEMMA ReadStep ==
  ASSUME IInv, NEW c \in Callers, Read(c)
  PROVE  IInv'
<1>0. PICK old \in Call : old = calls[c]  BY Typed
<1> DEFINE u == users[old.target]
<1>1. /\ WellCall(old) /\ u \in Account /\ old.pc = "read"
      /\ UNCHANGED <<users, kept, revoked, tokens, issued, expired, workload, endedAt, lost>>
  BY <1>0, Typed DEF Read, At, IInv, TypeOK
<1>2. CASE ~u.made
  BY <1>0, <1>1, <1>2, AnswerStep DEF Read
<1>3. CASE u.made
  <2> DEFINE place == IF old.kind = "create_token" THEN "create" ELSE "write"
             new == [old EXCEPT !.seen = u, !.pc = place]
  <2>1. Become(c, new)  BY <1>0, <1>3 DEF Read
  <2>2. /\ new \in Call /\ new.pc = place /\ new.seen = u
        /\ new.kind = old.kind /\ new.by = old.by /\ new.target = old.target
        /\ new.todo = old.todo /\ new.bad = old.bad
    BY <1>1 DEF Call, Places
  <2> HIDE DEF new
  <2>3. Knows(new)  BY <1>1, <2>2 DEF WellCall, Knows
  <2>4. Remembers(new)  BY <2>2 DEF Remembers
  <2>5. BadFound(new)  BY <1>1, <2>2 DEF WellCall, BadFound, Excused
  <2>6. QED  BY <1>1, <2>1, <2>2, <2>3, <2>4, <2>5, QuietStep DEF WellCall
<1>4. QED  BY <1>2, <1>3

\* set_admin and set_disabled, of a user as there is then; and a user who is made.
LEMMA SetSteps ==
  ASSUME IInv, NEW c \in Callers, Set(c) \/ CreateUser(c)
  PROVE  IInv'
<1>0. PICK old \in Call : old = calls[c]  BY Typed
<1> DEFINE u == users[old.target]
           v == users'[old.target]
<1>1. /\ u \in Account /\ users \in [Names -> Account] /\ old.target \in Names
      /\ old.flag \in BOOLEAN /\ old.password \in Passwords /\ lost \subseteq Names
      /\ u.admin => u.made
  BY <1>0, Typed DEF IInv, TypeOK, NoLater
<1>2. /\ Answer(c) /\ UNCHANGED <<kept, revoked, tokens, issued, expired, workload, endedAt, lost>>
  BY DEF Set, CreateUser
<1>3. /\ users' \in [Names -> Account]
      /\ \A n \in Names : n # old.target => users'[n] = users[n]
      /\ v.admin => v.made
      /\ u.made => v.made /\ v.generation = u.generation /\ v.password = u.password
  <2>1. CASE Set(c)
    <3> DEFINE w == IF ~u.made THEN u
                    ELSE IF old.kind = "set_admin" THEN [u EXCEPT !.admin = old.flag]
                    ELSE [u EXCEPT !.disabled = old.flag]
    <3>1. users' = [users EXCEPT ![old.target] = w]
      BY <1>0, <2>1 DEF Set
    <3>2. /\ w \in Account /\ (w.admin => w.made)
          /\ u.made => w.made /\ w.generation = u.generation /\ w.password = u.password
      <4>1. CASE ~u.made  BY <1>1, <4>1
      <4>2. CASE u.made /\ old.kind = "set_admin"  BY <1>1, <4>2 DEF Account
      <4>3. CASE u.made /\ old.kind # "set_admin"  BY <1>1, <4>3 DEF Account
      <4>4. QED  BY <4>1, <4>2, <4>3
    <3> HIDE DEF w
    <3>3. QED  BY <1>1, <3>1, <3>2
  <2>2. CASE CreateUser(c)
    <3> DEFINE w == IF u.made THEN u
                    ELSE [Unseen EXCEPT !.made = TRUE, !.admin = old.flag, !.password = old.password]
    <3>1. users' = [users EXCEPT ![old.target] = w]
      BY <1>0, <2>2 DEF CreateUser
    <3>2. Unseen \in Account  BY IdleWell DEF Idle, Call
    <3>3. /\ w \in Account /\ (w.admin => w.made)
          /\ u.made => w.made /\ w.generation = u.generation /\ w.password = u.password
      <4>1. CASE ~u.made  BY <1>1, <3>2, <4>1 DEF Account
      <4>2. CASE u.made  BY <1>1, <4>2
      <4>3. QED  BY <4>1, <4>2
    <3> HIDE DEF w
    <3>4. QED  BY <1>1, <3>1, <3>3
  <2>3. QED  BY <2>1, <2>2
<1>4. Grown
  <2>1. \A n \in Names : users[n].made =>
          users'[n].made /\ users'[n].generation = users[n].generation /\ users'[n].password = users[n].password
    BY <1>3
  <2>2. \A n \in Names : users[n].generation \in Nat  BY <1>1 DEF Account
  <2>3. QED  BY <1>2, <2>1, <2>2 DEF Grown
<1>5. \A n \in Names : users'[n].admin => users'[n].made
  BY <1>3 DEF IInv, NoLater
<1>6. WellCall(Idle)'  BY IdleWell DEF WellCall, Knows, Remembers, BadFound
<1>7. QED  BY <1>1, <1>2, <1>3, <1>4, <1>5, <1>6, IdleWell, UpdateStep DEF Answer

\* A user's sessions end: all their tokens are of an earlier generation, unless one was lost.
LEMMA EndStep ==
  ASSUME IInv, NEW c \in Callers, End(c)
  PROVE  IInv'
<1>0. PICK old \in Call : old = calls[c]  BY Typed
<1> DEFINE n == old.target
           u == users[n]
           ended == [u EXCEPT !.generation = Raised(old)]
           v == IF old.kind = "logout_all" THEN ended
                ELSE [ended EXCEPT !.password = old.password, !.outdated = FALSE]
<1>1. /\ u \in Account /\ users \in [Names -> Account] /\ n \in Names /\ old.seen.generation \in Nat
      /\ old.password \in Passwords /\ lost \subseteq Names /\ u.generation \in Nat
      /\ tokens \subseteq Token /\ endedAt \in [Names -> 0..issued] /\ issued \in Nat
      /\ \A t \in tokens : t.user \in Names /\ t.generation \in Nat
  BY <1>0, Typed DEF IInv, TypeOK, Account, Token
<1>2. /\ users' = [users EXCEPT ![n] = v] /\ endedAt' = [endedAt EXCEPT ![n] = issued]
      /\ lost' = IF u.generation = old.seen.generation THEN lost ELSE lost \cup {n}
      /\ Answer(c) /\ UNCHANGED <<kept, revoked, tokens, issued, expired, workload>>
  BY <1>0 DEF End
<1>3. /\ v \in Account /\ v.made = u.made /\ v.admin = u.admin
      /\ v.generation = old.seen.generation + 1
  <2>1. /\ ended \in Account /\ ended.made = u.made /\ ended.admin = u.admin
        /\ ended.generation = old.seen.generation + 1
    BY <1>1 DEF Account, Raised
  <2> HIDE DEF ended
  <2>2. QED  BY <1>1, <2>1 DEF Account
<1> HIDE DEF v
<1>4. /\ users' \in [Names -> Account] /\ users'[n] = v
      /\ \A m \in Names : m # n => users'[m] = users[m] /\ endedAt'[m] = endedAt[m]
      /\ endedAt' \in [Names -> 0..issued]
      /\ lost' \subseteq Names /\ lost \subseteq lost'
      /\ n \notin lost' => u.generation = old.seen.generation
  BY <1>1, <1>2, <1>3
<1>5. TypeOK'  BY <1>2, <1>4, IdleWell DEF IInv, TypeOK, Answer, Become
<1>6. Grown
  <2>1. ASSUME NEW m \in Names \ lost', users[m].made
        PROVE  /\ users[m].generation <= users'[m].generation
               /\ users[m].generation = users'[m].generation => users[m].password = users'[m].password
    <3>1. CASE m = n  BY <1>1, <1>3, <1>4, <2>1, <3>1
    <3>2. CASE m # n  BY <1>1, <1>4, <3>2 DEF Account
    <3>3. QED  BY <3>1, <3>2
  <2>2. \A m \in Names : users[m].made => users'[m].made  BY <1>3, <1>4
  <2>3. QED  BY <1>2, <1>4, <2>1, <2>2 DEF Grown
<1>7. TokensWell'  BY <1>1, <1>2, <1>6 DEF IInv, TokensWell, Grown
<1>8. ASSUME NEW t \in tokens, t.type # "personal", t.user \notin lost'
      PROVE  /\ t.generation <= users'[t.user].generation
             /\ t.id <= endedAt'[t.user] => Outlived(t, users'[t.user])
             /\ ~Outlived(t, users'[t.user]) => t.with = users'[t.user].password
  <2>1. CASE t.user = n
    <3>1. t.generation <= u.generation  BY <1>4, <1>8, <2>1 DEF IInv, NoLater
    <3>2. t.generation < users'[t.user].generation
      BY <1>1, <1>3, <1>4, <1>8, <2>1, <3>1
    <3>3. QED  BY <1>1, <1>3, <1>4, <1>8, <2>1, <3>2 DEF Outlived
  <2>2. CASE t.user # n
    BY <1>1, <1>4, <1>8, <2>2 DEF IInv, NoLater, EndedAreDead, SessionsOfThePassword
  <2>3. QED  BY <2>1, <2>2
<1>9. NoLater'
  <2>1. \A m \in Names : users'[m].admin => users'[m].made
    BY <1>3, <1>4 DEF IInv, NoLater
  <2>2. QED  BY <1>2, <1>8, <2>1 DEF NoLater
<1>10. EndedAreDead' /\ SessionsOfThePassword'
  BY <1>2, <1>8 DEF EndedAreDead, SessionsOfThePassword
<1>11. WellCall(Idle)'  BY IdleWell DEF WellCall, Knows, Remembers, BadFound
<1>12. QED  BY <1>2, <1>5, <1>6, <1>7, <1>9, <1>10, <1>11, IdleWell, Stepped DEF Answer

\* Tokens are made, by a request that is answered.
LEMMA MadeStep ==
  ASSUME IInv, NEW c \in Callers, Answer(c), NEW made \in SUBSET Token, tokens' = tokens \cup made,
         issued' \in Nat, issued <= issued',
         \A t \in made : t.id \in (issued + 1)..issued' /\ users[t.user].made,
         \A s, t \in made : s.id = t.id => s = t,
         kept' \subseteq kept \cup {t.id : t \in {t \in made : t.type = "personal"}},
         \A t \in made : t.type # "personal" /\ t.user \notin lost =>
           /\ t.generation <= users[t.user].generation
           /\ ~Outlived(t, users[t.user]) => t.with = users[t.user].password,
         UNCHANGED <<users, revoked, expired, workload, endedAt, lost>>
  PROVE  IInv'
<1>1. /\ issued \in Nat /\ endedAt \in [Names -> 0..issued] /\ tokens \subseteq Token
      /\ \A t \in tokens : t.id \in 1..issued
      /\ \A t \in made : t.user \in Names /\ t.id \in Nat /\ t.id > issued
  BY DEF IInv, TypeOK, TokensWell, Token
<1>2. TypeOK'
  <2>1. endedAt' \in [Names -> 0..issued']  BY <1>1
  <2>2. kept' \subseteq Nat  BY <1>1 DEF IInv, TypeOK
  <2>3. QED  BY <1>1, <2>1, <2>2, IdleWell DEF IInv, TypeOK, Answer, Become
<1>3. Grown
  <2>1. \A t \in tokens : t.id \in kept' => t.id \in kept  BY <1>1
  <2>2. QED  BY <2>1 DEF Grown, IInv, TypeOK, Account
<1>4. TokensWell'
  <2>1. \A t \in tokens' : t.id \in 1..issued' /\ users'[t.user].made
    BY <1>1 DEF IInv, TokensWell
  <2>2. \A s, t \in tokens' : s.id = t.id => s = t
    BY <1>1 DEF IInv, TokensWell
  <2>3. QED  BY <2>1, <2>2 DEF IInv, TokensWell
<1>5. NoLater'  BY DEF IInv, NoLater
<1>6. EndedAreDead'
  <2>1. \A t \in made : ~(t.id <= endedAt[t.user])  BY <1>1
  <2>2. QED  BY <2>1 DEF IInv, EndedAreDead
<1>7. SessionsOfThePassword'  BY DEF IInv, SessionsOfThePassword
<1>8. WellCall(Idle)'  BY IdleWell DEF WellCall, Knows, Remembers, BadFound
<1>9. QED  BY <1>2, <1>3, <1>4, <1>5, <1>6, <1>7, <1>8, IdleWell, Stepped DEF Answer

LEMMA IssueStep ==
  ASSUME IInv, NEW c \in Callers, Issue(c)
  PROVE  IInv'
<1>0. PICK old \in Call : old = calls[c]  BY Typed
<1> DEFINE token(id, type) ==
             [id |-> id, user |-> old.target, type |-> type, generation |-> GenerationRead(old),
              with |-> IF old.kind = "login" THEN old.password ELSE old.by.with]
           types == IF old.kind = "login" THEN <<"access", "refresh">> ELSE <<"access">>
           made == {token(issued + i, types[i]) : i \in 1..Len(types)}
           u == users[old.target]
<1>1. /\ WellCall(old) /\ old.pc = "issue" /\ old.kind \in {"login", "refresh"}
      /\ old.target \in Names /\ old.seen.generation \in Nat /\ old.password \in Passwords
      /\ issued \in Nat /\ tokens \subseteq Token /\ u \in Account /\ u.generation \in Nat
  BY <1>0, Typed DEF Issue, At, WellCall, Knows, IInv, TypeOK, Account
<1>2. /\ issued' = issued + Len(types) /\ tokens' = tokens \cup made
      /\ Answer(c) /\ UNCHANGED <<users, kept, revoked, expired, workload, endedAt, lost>>
  BY <1>0 DEF Issue
<1>3. /\ Len(types) \in 1..2 /\ \A i \in 1..Len(types) : types[i] \in {"access", "refresh"}
  OBVIOUS
<1> HIDE DEF types
<1> DEFINE with == IF old.kind = "login" THEN old.password ELSE old.by.with
<1>4. /\ with \in Passwords /\ u.made
      /\ old.target \notin lost =>
           /\ old.seen.generation <= u.generation
           /\ ~(old.seen.generation < u.generation) => with = u.password
  <2>1. CASE old.kind = "login"
    BY <1>1, <2>1 DEF WellCall, Remembers
  <2>2. CASE old.kind = "refresh"
    <3>1. /\ old.by \in tokens /\ old.by \in Token /\ old.target = old.by.user
          /\ old.by.type = "refresh" /\ old.seen.generation <= old.by.generation
      BY <1>1, <2>2 DEF WellCall, Knows, Remembers
    <3>2. old.by.generation \in Nat /\ old.by.with \in Passwords  BY <3>1 DEF Token
    <3>3. u.made  BY <3>1 DEF IInv, TokensWell
    <3>4. old.target \notin lost => old.by.generation <= u.generation
      BY <3>1 DEF IInv, NoLater
    <3>5. old.target \notin lost /\ ~(old.by.generation < u.generation) => old.by.with = u.password
      BY <3>1 DEF IInv, SessionsOfThePassword, Outlived
    <3>6. QED  BY <1>1, <2>2, <3>1, <3>2, <3>3, <3>4, <3>5
  <2>3. QED  BY <1>1, <2>1, <2>2
<1>5. ASSUME NEW i \in 1..Len(types)
      PROVE  LET t == token(issued + i, types[i])
             IN  /\ t \in Token /\ t.id = issued + i /\ t.user = old.target /\ t.type # "personal"
                 /\ t.generation = old.seen.generation /\ t.with = with
  <2>1. issued + i \in Nat /\ types[i] \in {"access", "refresh"}  BY <1>1, <1>3
  <2>2. QED  BY <1>1, <1>4, <2>1 DEF Token, GenerationRead
<1> DEFINE of(i) == token(issued + i, types[i])
<1> HIDE DEF with
<1>6. /\ made \in SUBSET Token
      /\ \A t \in made : /\ t.id \in (issued + 1)..issued' /\ t.user = old.target /\ t.type # "personal"
                         /\ t.generation = old.seen.generation /\ t.with = with
      /\ \A s, t \in made : s.id = t.id => s = t
  <2>1. ASSUME NEW t \in made
        PROVE  \E i \in 1..Len(types) :
                 /\ t \in Token /\ t.id = issued + i /\ t.user = old.target /\ t.type # "personal"
                 /\ t.generation = old.seen.generation /\ t.with = with /\ t = of(i)
    BY <1>5
  <2> HIDE DEF made, of
  <2>2. QED  BY <1>1, <1>2, <1>3, <2>1
<1> HIDE DEF made
<1>7. issued' \in Nat /\ issued <= issued'  BY <1>1, <1>2, <1>3
<1>8. \A t \in made : t.type # "personal" /\ t.user \notin lost =>
        /\ t.generation <= users[t.user].generation
        /\ ~Outlived(t, users[t.user]) => t.with = users[t.user].password
  BY <1>4, <1>6 DEF Outlived
<1>9. \A t \in made : users[t.user].made  BY <1>4, <1>6
<1>10. QED  BY <1>2, <1>6, <1>7, <1>8, <1>9, MadeStep

LEMMA PersonalSteps ==
  ASSUME IInv, NEW c \in Callers, RevokePersonal(c) \/ CreatePersonal(c)
  PROVE  IInv'
<1>1. CASE RevokePersonal(c)
  <2>1. /\ kept' \subseteq kept /\ Answer(c)
        /\ UNCHANGED <<users, revoked, tokens, issued, expired, workload, endedAt, lost>>
    BY <1>1 DEF RevokePersonal
  <2>2. /\ issued' \in Nat /\ issued <= issued' /\ tokens' = tokens \cup {} /\ {} \in SUBSET Token
        /\ kept' \subseteq kept \cup {t.id : t \in {t \in {} : t.type = "personal"}}
    BY <2>1 DEF IInv, TypeOK
  <2> DEFINE made == {}
  <2>3. made = {}  OBVIOUS
  <2> HIDE DEF made
  <2>4. /\ made \in SUBSET Token /\ tokens' = tokens \cup made
        /\ kept' \subseteq kept \cup {t.id : t \in {t \in made : t.type = "personal"}}
        /\ \A t \in made : FALSE
    BY <2>2, <2>3
  <2>5. QED  BY <2>1, <2>2, <2>4, MadeStep
<1>2. CASE CreatePersonal(c)
  <2>0. PICK old \in Call : old = calls[c]  BY Typed
  <2> DEFINE t == [id |-> issued + 1, user |-> old.target, type |-> "personal",
                   generation |-> 0, with |-> old.by.with]
  <2>1. /\ issued' = issued + 1 /\ tokens' = tokens \cup {t} /\ kept' = kept \cup {issued + 1}
        /\ Answer(c) /\ UNCHANGED <<users, revoked, expired, workload, endedAt, lost>>
        /\ old.kind = "create_token"
    BY <1>2, <2>0 DEF CreatePersonal
  <2>2. /\ WellCall(old) /\ issued \in Nat /\ old.target \in Names /\ tokens \subseteq Token
    BY <2>0, Typed DEF IInv, TypeOK
  <2>3. /\ old.by \in tokens /\ old.by \in Token /\ old.target = old.by.user
    BY <2>1, <2>2 DEF WellCall, Knows
  <2>4. old.by.with \in Passwords /\ users[old.target].made
    BY <2>3 DEF Token, IInv, TokensWell
  <2>5. t \in Token /\ t.id = issued + 1 /\ t.user = old.target /\ t.type = "personal"
    BY <2>2, <2>4 DEF Token
  <2> HIDE DEF t
  <2> DEFINE made == {t}
  <2>6. /\ made \in SUBSET Token /\ tokens' = tokens \cup made
        /\ \A s \in made : s.id = issued + 1 /\ s.user = old.target /\ s.type = "personal"
        /\ \A r, s \in made : r = s
        /\ kept' \subseteq kept \cup {s.id : s \in {s \in made : s.type = "personal"}}
    BY <2>1, <2>5
  <2> HIDE DEF made
  <2>7. issued' \in Nat /\ issued <= issued' /\ issued + 1 \in (issued + 1)..issued'  BY <2>1, <2>2
  <2>8. QED  BY <2>1, <2>4, <2>6, <2>7, MadeStep
<1>3. QED  BY <1>1, <1>2

LEMMA ExpireStep ==
  ASSUME IInv, NEW t \in tokens, Expire(t)
  PROVE  IInv'
<1>1. /\ t.id \in Nat /\ expired' = expired \cup {t.id}
      /\ UNCHANGED <<users, kept, revoked, tokens, issued, calls, workload, endedAt, lost>>
  BY DEF Expire, IInv, TypeOK, Token
<1>2. TypeOK'  BY <1>1 DEF IInv, TypeOK
<1>3. Grown  BY <1>1 DEF Grown, IInv, TypeOK, Account
<1>4. TokensWell' /\ NoLater' /\ EndedAreDead' /\ SessionsOfThePassword'
  BY <1>1 DEF IInv, TokensWell, NoLater, EndedAreDead, SessionsOfThePassword, Outlived
<1>5. ASSUME NEW d \in Callers PROVE WellCall(calls[d])'
  <2>1. PICK call \in Call : call = calls[d] /\ WellCall(call)  BY Typed
  <2>2. WellCall(call)'  BY <1>2, <1>3, <2>1, StillWell DEF IInv
  <2>3. calls'[d] = call  BY <1>1, <2>1
  <2>4. QED  BY <2>2, <2>3 DEF WellCall, Knows, Remembers, BadFound, Excused
<1>6. QED  BY <1>2, <1>4, <1>5 DEF IInv

-----------------------------------------------------------------------------
(* Theorems *)

LEMMA InitIInv == Init => IInv
<1> SUFFICES ASSUME Init PROVE IInv
  OBVIOUS
<1>1. /\ Cardinality(FirstTokens) \in Nat /\ FirstTokens \subseteq Token
      /\ \A t \in FirstTokens :
           /\ t.id \in 1..Cardinality(FirstTokens)
           /\ t.generation <= FirstUsers[t.user].generation
           /\ FirstUsers[t.user].made /\ t.with = FirstUsers[t.user].password
           /\ \A s \in FirstTokens : s.id = t.id => s = t
      /\ FirstUsers \in [Names -> Account]
      /\ \A u \in Names : ~FirstUsers[u].made => ~FirstUsers[u].admin
  BY UsersAssumption, FS_CardinalityType DEF UsersAssumption
<1>2. TypeOK
  <2>1. kept \subseteq Nat  BY <1>1 DEF Init
  <2>2. endedAt \in [Names -> 0..issued]  BY <1>1 DEF Init
  <2>3. QED  BY <1>1, <2>1, <2>2, IdleWell DEF Init, TypeOK
<1>3. TokensWell  BY <1>1 DEF Init, TokensWell
<1>4. NoLater  BY <1>1 DEF Init, NoLater
<1>5. EndedAreDead  BY <1>1 DEF Init, EndedAreDead, Token
<1>6. SessionsOfThePassword  BY <1>1 DEF Init, SessionsOfThePassword
<1>7. \A c \in Callers : WellCall(calls[c])  BY IdleWell DEF Init
<1>8. QED  BY <1>2, <1>3, <1>4, <1>5, <1>6, <1>7 DEF IInv

LEMMA NextIInv == IInv /\ [Next]_vars => IInv'
<1> SUFFICES ASSUME IInv, [Next]_vars PROVE IInv'
  OBVIOUS
<1>1. CASE UNCHANGED vars
  <2>1. UNCHANGED <<users, kept, revoked, tokens, issued, expired, calls, workload, endedAt, lost>>
    BY <1>1 DEF vars
  <2>2. \A c \in Callers : WellCall(calls[c])'
    BY <2>1 DEF IInv, WellCall, Knows, Remembers, BadFound, Excused, Outlived
  <2>3. TypeOK'  BY <2>1 DEF IInv, TypeOK
  <2>4. TokensWell' /\ NoLater' /\ EndedAreDead' /\ SessionsOfThePassword'
    BY <2>1 DEF IInv, TokensWell, NoLater, EndedAreDead, SessionsOfThePassword, Outlived
  <2>5. QED  BY <2>2, <2>3, <2>4 DEF IInv
<1>2. CASE \E c \in Callers : Serve(c)
  <2>1. PICK c \in Callers : Serve(c)  BY <1>2
  <2>2. CASE Login(c) \/ Refresh(c) \/ Request(c) \/ Logout(c)  BY <2>2, BeginSteps
  <2>3. CASE ReadUser(c) \/ ReadRevoked(c) \/ ReadPersonal(c)  BY <2>3, AuthSteps
  <2>4. CASE Verify(c) \/ Rehash(c)  BY <2>4, PasswordSteps
  <2>5. CASE Set(c) \/ CreateUser(c)  BY <2>5, SetSteps
  <2>6. CASE RevokePersonal(c) \/ CreatePersonal(c)  BY <2>6, PersonalSteps
  <2>7. QED
    BY <2>1, <2>2, <2>3, <2>4, <2>5, <2>6, RevokeStep, IssueStep, ReadStep, EndStep DEF Serve
<1>3. CASE \E t \in tokens : Expire(t)  BY <1>3, ExpireStep
<1>4. QED  BY <1>1, <1>2, <1>3 DEF Next

\* What every request knows, and what the tokens and users are, holds however many
\* requests are served at once.
THEOREM Invariance == Spec => []IInv
<1>1. IInv /\ [Next]_vars => IInv'  BY NextIInv
<1>2. QED  BY <1>1, InitIInv, PTL DEF Spec

\* end_sessions and set_password end every session there is, for good, unless one end
\* writes over another.
THEOREM SessionsEndForGood == Spec => []EndedAreDead
<1>1. IInv => EndedAreDead  BY DEF IInv
<1>2. QED  BY <1>1, Invariance, PTL

\* A session that is still good was begun with the password there is: no login that read
\* the password before it changed gets a token that lasts.
THEOREM SessionsEndWithThePassword == Spec => []SessionsOfThePassword
<1>1. IInv => SessionsOfThePassword  BY DEF IInv
<1>2. QED  BY <1>1, Invariance, PTL

\* A token that was revoked, or whose sessions were ended, before a request began does not
\* get it to where it acts, whatever else happens meanwhile, unless it expires.
THEOREM BadTokensAreRefused == Spec => []BadTokenRefused
<1>1. IInv => BadTokenRefused
  BY DEF IInv, BadTokenRefused, Acting, WellCall, BadFound, Excused
<1>2. QED  BY <1>1, Invariance, PTL

\* An admin cannot take the instance's last admin away but on behalf of somebody who was
\* no longer one.
THEOREM TheLastAdmin == Spec => LastAdminByTwo
<1>1. ASSUME IInv, [Next]_vars, AnAdmin(users), ~AnAdmin(users')
      PROVE  \E c \in Callers :
               /\ calls[c].kind \in {"set_admin", "set_disabled"}
               /\ calls[c].pc = "write" /\ calls'[c] = Idle
               /\ LET u == users[calls[c].by.user] IN ~u.admin \/ u.disabled
  <2>1. users' # users  BY <1>1
  <2>2. PICK c \in Callers : Rehash(c) \/ End(c) \/ Set(c) \/ CreateUser(c)
    <3>1. PICK c \in Callers : Serve(c)  BY <1>1, <2>1 DEF Next, vars, Expire
    <3>2. ~Login(c) /\ ~Refresh(c)  BY <2>1, Zenon DEF Login, Refresh, Began
    <3>3. ~Request(c) /\ ~Logout(c)
      <4>1. ~Request(c)  BY <2>1, RequestBegins, ZenonT(60) DEF Began
      <4>2. ~Logout(c)  BY <2>1, Zenon DEF Logout
      <4>3. QED  BY <4>1, <4>2
    <3>4. ~Revoke(c) /\ ~Verify(c) /\ ~ReadUser(c) /\ ~ReadRevoked(c) /\ ~ReadPersonal(c) /\ ~Read(c)
      BY <2>1, Zenon DEF Revoke, Verify, ReadUser, ReadRevoked, ReadPersonal, Read
    <3>5. ~Issue(c) /\ ~RevokePersonal(c) /\ ~CreatePersonal(c)
      BY <2>1, Zenon DEF Issue, RevokePersonal, CreatePersonal
    <3>6. QED  BY <3>1, <3>2, <3>3, <3>4, <3>5 DEF Serve
  <2>3. PICK old \in Call : old = calls[c] /\ WellCall(old)  BY <1>1, Typed
  <2> DEFINE n == old.target
  <2>4. n \in Names /\ users \in [Names -> Account]  BY <1>1, <2>3 DEF Call, IInv, TypeOK
  <2>5. PICK a \in Names : users[a].admin /\ ~users[a].disabled  BY <1>1 DEF AnAdmin
  <2>6. ~(users'[a].admin /\ ~users'[a].disabled)  BY <1>1 DEF AnAdmin
  <2>7. ~Rehash(c)
    <3>1. SUFFICES ASSUME Rehash(c) PROVE FALSE  OBVIOUS
    <3>2. \E p : users' = [users EXCEPT ![n].password = p, ![n].outdated = FALSE]
      BY <2>3, <3>1 DEF Rehash
    <3>3. users'[a].admin = users[a].admin /\ users'[a].disabled = users[a].disabled
      BY <2>4, <3>2 DEF Account
    <3>4. QED  BY <2>5, <2>6, <3>3
  <2>8. ~End(c)
    <3>1. SUFFICES ASSUME End(c) PROVE FALSE  OBVIOUS
    <3> DEFINE ended == [users[n] EXCEPT !.generation = Raised(old)]
               v == IF old.kind = "logout_all" THEN ended
                    ELSE [ended EXCEPT !.password = old.password, !.outdated = FALSE]
    <3>2. users' = [users EXCEPT ![n] = v]  BY <2>3, <3>1 DEF End
    <3>3. users'[a].admin = users[a].admin /\ users'[a].disabled = users[a].disabled
      <4>1. users[n] \in Account  BY <2>4
      <4>2. v.admin = users[n].admin /\ v.disabled = users[n].disabled  BY <4>1 DEF Account
      <4> HIDE DEF v
      <4>3. QED  BY <2>4, <3>2, <4>2
    <3>4. QED  BY <2>5, <2>6, <3>3
  <2>9. ~CreateUser(c)
    <3>1. SUFFICES ASSUME CreateUser(c) PROVE FALSE  OBVIOUS
    <3>2. users[n].made \/ a # n  BY <1>1, <2>5 DEF IInv, NoLater
    <3>3. users'[a] = users[a]  BY <2>3, <2>4, <3>1, <3>2 DEF CreateUser
    <3>4. QED  BY <2>5, <2>6, <3>3
  <2>10. /\ Set(c) /\ old.kind \in {"set_admin", "set_disabled"} /\ old.pc = "write"
         /\ calls'[c] = Idle
    <3>1. Set(c) /\ Answer(c)  BY <2>2, <2>7, <2>8, <2>9 DEF Set
    <3>2. QED  BY <1>1, <2>3, <3>1 DEF Set, At, Answer, Become, IInv, TypeOK
  <2>11. \A m \in Names : m # n => users'[m] = users[m]
    BY <2>3, <2>4, <2>10 DEF Set
  <2>12. /\ old.by \in tokens /\ old.by.user \in Names /\ n # old.by.user
    BY <1>1, <2>3, <2>10 DEF WellCall, Knows, IInv, TypeOK, Token
  <2>13. LET u == users[old.by.user] IN ~u.admin \/ u.disabled
    BY <1>1, <2>11, <2>12 DEF AnAdmin
  <2>14. QED  BY <2>3, <2>10, <2>13
<1>2. IInv /\ [Next]_vars =>
        [AnAdmin(users) /\ ~AnAdmin(users') =>
           \E c \in Callers :
             /\ calls[c].kind \in {"set_admin", "set_disabled"}
             /\ calls[c].pc = "write" /\ calls'[c] = Idle
             /\ LET u == users[calls[c].by.user] IN ~u.admin \/ u.disabled]_vars
  BY <1>1
<1>3. QED  BY <1>2, Invariance, PTL DEF Spec, LastAdminByTwo
=============================================================================
