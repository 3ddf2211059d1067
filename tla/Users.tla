-------------------------------- MODULE Users --------------------------------
(***************************************************************************)
(* Users and their sessions: pangloss_users.service over pangloss_cypher    *)
(* .users, as the routes of pangloss_api (routes/users, dependencies) call  *)
(* it.                                                                      *)
(*                                                                         *)
(* Each call of the service is one transaction or more, and other requests  *)
(* are served between two of them, by this process or another; a transaction *)
(* by itself is a step (the database runs again one that lost a conflict).  *)
(* The throttle of logins is left out.                                       *)
(***************************************************************************)
EXTENDS Integers, FiniteSets, Sequences

CONSTANTS
  Names,          \* the usernames
  Passwords,
  Callers,        \* the requests that are served at one time
  Nobody,         \* no user, no token
  FirstUsers,     \* the users there are at first: [Names -> Account]
  FirstTokens,    \* the tokens they hold then
  Workloads,      \* requests are of the kinds, and about the users, of one of them
  Short,          \* (bound) the tokens that expire before the end
  MaxTokens,      \* (bound) how many tokens are made
  MaxGeneration   \* (bound) of token_generation, for a call that raises it

Kinds ==
  {"login", "refresh", "logout", "logout_all", "change_password", "set_password",
   "set_admin", "set_disabled", "create_user", "create_token", "revoke_token"}
OfAdmins == {"set_password", "set_admin", "set_disabled", "create_user"}

\* outdated: the hash was made with parameters that are no longer used
Account ==
  [made : BOOLEAN, admin : BOOLEAN, disabled : BOOLEAN, password : Passwords,
   outdated : BOOLEAN, generation : Nat]

\* An access or a refresh token (a JWT; id is its jti) or a personal access
\* token (of scope "write").  with: the password its session was begun with (a
\* history value).
Token ==
  [id : Nat, user : Names, type : {"access", "refresh", "personal"}, generation : Nat,
   with : Passwords]

ASSUME UsersAssumption ==
  /\ Nobody \notin Names /\ Names # {}
  /\ FirstUsers \in [Names -> Account]
  /\ \A u \in Names : ~FirstUsers[u].made => ~FirstUsers[u].admin
  /\ FirstTokens \subseteq Token /\ IsFiniteSet(FirstTokens)
  /\ \A t \in FirstTokens :
       /\ t.id \in 1..Cardinality(FirstTokens)
       /\ t.generation <= FirstUsers[t.user].generation
       /\ FirstUsers[t.user].made /\ t.with = FirstUsers[t.user].password
       /\ \A s \in FirstTokens : s.id = t.id => s = t
  /\ Workloads \subseteq [kinds : SUBSET Kinds, about : SUBSET Names]
  /\ Short \subseteq 1..MaxTokens
  /\ MaxTokens \in Nat /\ MaxGeneration \in Nat

VARIABLES
  users,      \* the PGUser nodes
  kept,       \* the ids of the PGAccessToken nodes
  revoked,    \* the ids of the PGRevokedSession nodes
  tokens,     \* every token that was made
  issued,     \* how many they are
  expired,    \* the ids of those that have expired since
  calls,      \* the request that each caller is at
  workload,   \* what is asked for in this behaviour
  endedAt,    \* (history) the number of tokens when the user's sessions were last ended
  lost        \* (history) the users of whom an update has overwritten a later one

vars == <<users, kept, revoked, tokens, issued, expired, calls, workload, endedAt, lost>>

Places ==
  {"idle", "verify", "rehash", "issue", "refresh", "auth", "auth_revoked", "auth_user",
   "revoke", "read", "write", "create"}

\* by: the token it comes with; target: the user it is about; password: the one
\* given (old: of change_password, the old one); flag: admin, or disabled; seen:
\* the user as read; bad: whether, when it began, its token had already been
\* revoked, or made before an end of the sessions (a history value).
Call ==
  [pc : Places, kind : Kinds, by : Token \cup {Nobody}, target : Names,
   password : Passwords, old : Passwords, flag : BOOLEAN, seen : Account,
   todo : SUBSET Token, bad : BOOLEAN]

Unseen ==
  [made |-> FALSE, admin |-> FALSE, disabled |-> FALSE, outdated |-> FALSE,
   password |-> CHOOSE p \in Passwords : TRUE, generation |-> 0]
Idle ==
  [pc |-> "idle", kind |-> "login", by |-> Nobody, target |-> CHOOSE u \in Names : TRUE,
   password |-> Unseen.password, old |-> Unseen.password, flag |-> FALSE, seen |-> Unseen,
   todo |-> {}, bad |-> FALSE]

TypeOK ==
  /\ users \in [Names -> Account]
  /\ tokens \subseteq Token /\ issued \in Nat
  /\ kept \subseteq Nat /\ revoked \subseteq Nat /\ expired \subseteq Nat
  /\ calls \in [Callers -> Call]
  /\ workload \in Workloads
  /\ endedAt \in [Names -> 0..issued]
  /\ lost \subseteq Names

Init ==
  /\ users = FirstUsers
  /\ tokens = FirstTokens /\ issued = Cardinality(FirstTokens)
  /\ kept = {t.id : t \in {t \in FirstTokens : t.type = "personal"}}
  /\ revoked = {} /\ expired = {}
  /\ calls = [c \in Callers |-> Idle]
  /\ workload \in Workloads
  /\ endedAt = [u \in Names |-> 0]
  /\ lost = {}

-----------------------------------------------------------------------------
(* Steps of a request *)

Become(c, call) == calls' = [calls EXCEPT ![c] = call]
Go(c, place) == Become(c, [calls[c] EXCEPT !.pc = place])
Answer(c) == Become(c, Idle)
At(c, place) == calls[c].pc = place

\* (user is None, or disabled)
Refused(account) == ~account.made \/ account.disabled

\* Made before the user's sessions were ended, as the user was when read.
Outlived(t, account) == t.type # "personal" /\ t.generation < account.generation

\* A request begins: its token is decoded, which has not expired.
Began(c, kind, by, target, password, old, flag) ==
  /\ At(c, "idle")
  /\ kind \in workload.kinds /\ target \in workload.about
  /\ Become(c, [Idle EXCEPT
       !.pc = CASE kind = "login" -> "verify"
                [] kind = "refresh" -> "refresh"
                [] OTHER -> "auth",
       !.kind = kind, !.by = by, !.target = target, !.password = password,
       !.old = old, !.flag = flag,
       !.bad = /\ by # Nobody
               /\ \/ by.id \in revoked
                  \/ by.type = "personal" /\ by.id \notin kept
                  \/ Outlived(by, users[by.user])])
  /\ UNCHANGED <<users, kept, revoked, tokens, issued, expired, workload, endedAt, lost>>

Held(types) ==
  {t \in tokens : t.type \in types /\ t.user \in workload.about /\ t.id \notin expired}

Login(c) ==
  \E u \in workload.about, p \in Passwords : Began(c, "login", Nobody, u, p, p, FALSE)

Refresh(c) ==
  \E t \in Held({"refresh"}) :
    Began(c, "refresh", t, t.user, Idle.password, Idle.password, FALSE)

\* A request with the access token of a session, or with a personal one: about
\* oneself, or for an admin about another (`not_yourself`, before anything else
\* of the route but after `get_current_admin`, is in Authorised).
Request(c) ==
  \E kind \in workload.kinds \ {"login", "refresh", "logout"} :
  \E t \in Held({"access", "personal"}),
     u \in workload.about, p, old \in Passwords, flag \in BOOLEAN :
    /\ kind \notin OfAdmins => u = t.user
    /\ kind \notin {"change_password", "set_password", "create_user"} => p = Idle.password
    /\ kind # "change_password" => old = Idle.password
    /\ kind \notin {"set_admin", "set_disabled", "create_user"} => ~flag
    /\ Began(c, kind, t, u, p, old, flag)

\* DELETE /session, POST /token/revoke: the tokens given are revoked in turn.
Logout(c) ==
  \E some \in SUBSET Held({"access", "refresh"}) :
    /\ At(c, "idle") /\ "logout" \in workload.kinds
    /\ Cardinality(some) \in 1..2
    /\ \A s, t \in some : s.type = t.type => s = t
    /\ Become(c, [Idle EXCEPT !.pc = "revoke", !.kind = "logout", !.todo = some])
    /\ UNCHANGED <<users, kept, revoked, tokens, issued, expired, workload, endedAt, lost>>

\* (Mutant: the comparison is the wrong way round.)
ForgottenTooSoon == revoked \cap expired

\* What a revocation leaves of those before it.
Unforgotten == revoked \ expired

\* revoke_session: forgets those that have expired, and keeps this one.  `revoke`
\* does nothing for a token that has expired by now (decode_token).
Revoke(c) ==
  /\ At(c, "revoke")
  /\ LET rest == calls[c].todo
         refreshes == {t \in rest : t.type = "refresh"}
         t == CHOOSE t \in (IF refreshes # {} THEN refreshes ELSE rest) : TRUE
     IN /\ revoked' = IF t.id \in expired THEN revoked ELSE Unforgotten \cup {t.id}
        /\ IF rest = {t} THEN Answer(c) ELSE Become(c, [calls[c] EXCEPT !.todo = rest \ {t}])
  /\ UNCHANGED <<users, kept, tokens, issued, expired, workload, endedAt, lost>>

\* authenticate: the user is read, and the password verified.
Verify(c) ==
  /\ At(c, "verify")
  /\ LET call == calls[c]
         u == users[call.target]
         right == u.made /\ u.password = (IF call.kind = "login" THEN call.password ELSE call.old)
     IN IF ~right \/ u.disabled
        THEN Answer(c)
        ELSE Become(c, [call EXCEPT
               !.seen = u,
               !.pc = IF u.outdated THEN "rehash"
                      ELSE IF call.kind = "login" THEN "issue" ELSE "read"])
  /\ UNCHANGED <<users, kept, revoked, tokens, issued, expired, workload, endedAt, lost>>

\* The password that was given is hashed again and stored, whatever is there now.
Rehash(c) ==
  /\ At(c, "rehash")
  /\ LET call == calls[c]
         given == IF call.kind = "login" THEN call.password ELSE call.old
     IN /\ users' = [users EXCEPT ![call.target].password = given,
                                  ![call.target].outdated = FALSE]
        /\ lost' = IF users[call.target].password = call.seen.password THEN lost
                   ELSE lost \cup {call.target}
        /\ Go(c, IF call.kind = "login" THEN "issue" ELSE "read")
  /\ UNCHANGED <<kept, revoked, tokens, issued, expired, workload, endedAt>>

\* active_user_for_refresh: the user, and then whether the token is revoked.
\* user_for_token is the same for an access token.
ReadUser(c) ==
  /\ calls[c].pc \in {"refresh", "auth"}
  /\ LET call == calls[c]
         u == users[call.by.user]
     IN CASE call.by.type = "personal" ->     \* get_access_token_in_db_by_hash
               IF call.by.id \in kept \ expired THEN Go(c, "auth_user") ELSE Answer(c)
          [] OTHER ->
               IF Refused(u) \/ Outlived(call.by, u) THEN Answer(c)
               ELSE Become(c, [call EXCEPT !.seen = u, !.pc = "auth_revoked"])
  /\ UNCHANGED <<users, kept, revoked, tokens, issued, expired, workload, endedAt, lost>>

\* (Mutant: not_yourself is not asked.)
AuthorisedForAnybody(call, account) ==
  /\ call.kind \in OfAdmins => account.admin
  /\ call.kind = "create_token" => call.by.type # "personal"

\* Where a request goes once its user is known: get_current_admin, not_yourself,
\* and not_with_an_access_token.
Authorised(call, account) ==
  /\ call.kind \in OfAdmins => account.admin
  /\ call.kind \in {"set_admin", "set_disabled"} => call.target # call.by.user
  /\ call.kind = "create_token" => call.by.type # "personal"

FirstPlace(kind) ==
  CASE kind = "refresh" -> "issue"
    [] kind = "change_password" -> "verify"
    [] kind \in {"logout_all", "set_password", "create_token"} -> "read"
    [] kind = "create_user" -> "create"
    [] OTHER -> "write"

Admit(c, account) ==
  LET call == calls[c]
  IN IF Authorised(call, account)
     THEN Become(c, [call EXCEPT !.seen = account, !.pc = FirstPlace(call.kind)])
     ELSE Answer(c)

\* is_session_revoked
ReadRevoked(c) ==
  /\ At(c, "auth_revoked")
  /\ IF calls[c].by.id \in revoked THEN Answer(c) ELSE Admit(c, calls[c].seen)
  /\ UNCHANGED <<users, kept, revoked, tokens, issued, expired, workload, endedAt, lost>>

\* authenticate_access_token, after the token: its user
ReadPersonal(c) ==
  /\ At(c, "auth_user")
  /\ LET u == users[calls[c].by.user]
     IN IF Refused(u) THEN Answer(c) ELSE Admit(c, u)
  /\ UNCHANGED <<users, kept, revoked, tokens, issued, expired, workload, endedAt, lost>>

\* (Mutant: the user is read again for the tokens.)
GenerationNow(call) == users[call.target].generation

\* The generation that was read with the password, or for the refresh token.
GenerationRead(call) == call.seen.generation

\* The tokens of the answer.
Issue(c) ==
  /\ At(c, "issue")
  /\ LET call == calls[c]
         token(id, type) == [id |-> id, user |-> call.target, type |-> type,
                             generation |-> GenerationRead(call),
                             with |-> IF call.kind = "login" THEN call.password
                                      ELSE call.by.with]
         types == IF call.kind = "login" THEN <<"access", "refresh">> ELSE <<"access">>
     IN /\ issued + Len(types) <= MaxTokens
        /\ issued' = issued + Len(types)
        /\ tokens' = tokens \cup {token(issued + i, types[i]) : i \in 1..Len(types)}
  /\ Answer(c)
  /\ UNCHANGED <<users, kept, revoked, expired, workload, endedAt, lost>>

\* set_password, end_sessions, create_access_token: the user is read first.
Read(c) ==
  /\ At(c, "read")
  /\ LET call == calls[c]
         u == users[call.target]
     IN IF ~u.made THEN Answer(c)
        ELSE Become(c, [call EXCEPT
               !.seen = u,
               !.pc = IF call.kind = "create_token" THEN "create" ELSE "write"])
  /\ UNCHANGED <<users, kept, revoked, tokens, issued, expired, workload, endedAt, lost>>

\* (Mutant: the generation that was read is written back.)
Unraised(call) == call.seen.generation

\* (Mutant: one less.)
Lowered(call) == call.seen.generation - 1

\* token_generation: one more than was read, before this transaction.
Raised(call) == call.seen.generation + 1

\* _update of set_password and of end_sessions.
End(c) ==
  /\ At(c, "write")
  /\ calls[c].kind \in {"logout_all", "change_password", "set_password"}
  /\ LET call == calls[c]
         u == call.target
         ended == [users[u] EXCEPT !.generation = Raised(call)]
     IN /\ call.seen.generation < MaxGeneration
        /\ users' = [users EXCEPT ![u] =
             IF call.kind = "logout_all" THEN ended
             ELSE [ended EXCEPT !.password = call.password, !.outdated = FALSE]]
        /\ endedAt' = [endedAt EXCEPT ![u] = issued]
        /\ lost' = IF users[u].generation = call.seen.generation THEN lost
                   ELSE lost \cup {u}
  /\ Answer(c)
  /\ UNCHANGED <<kept, revoked, tokens, issued, expired, workload>>

\* _update of set_admin and set_disabled: whatever the user is now.
Set(c) ==
  /\ At(c, "write")
  /\ calls[c].kind \in {"set_admin", "set_disabled"}
  /\ LET call == calls[c]
         u == users[call.target]
     IN users' = [users EXCEPT ![call.target] =
          IF ~u.made THEN u              \* PanglossUserDoesNotExistError
          ELSE IF call.kind = "set_admin" THEN [u EXCEPT !.admin = call.flag]
          ELSE [u EXCEPT !.disabled = call.flag]]
  /\ Answer(c)
  /\ UNCHANGED <<kept, revoked, tokens, issued, expired, workload, endedAt, lost>>

\* delete_access_token: one of the user's own, if there is one
Personal(u) == {t \in tokens : t.type = "personal" /\ t.user = u}

RevokePersonal(c) ==
  /\ At(c, "write")
  /\ calls[c].kind = "revoke_token"
  /\ \E ids \in {{}} \cup {{t.id} : t \in Personal(calls[c].target)} : kept' = kept \ ids
  /\ Answer(c)
  /\ UNCHANGED <<users, revoked, tokens, issued, expired, workload, endedAt, lost>>

\* create_user: refused if the username is taken, which the database makes sure of
CreateUser(c) ==
  /\ At(c, "create") /\ calls[c].kind = "create_user"
  /\ LET call == calls[c]
         u == users[call.target]
     IN users' = [users EXCEPT ![call.target] =
          IF u.made THEN u
          ELSE [Unseen EXCEPT !.made = TRUE, !.admin = call.flag, !.password = call.password]]
  /\ Answer(c)
  /\ UNCHANGED <<kept, revoked, tokens, issued, expired, workload, endedAt, lost>>

CreatePersonal(c) ==
  /\ At(c, "create") /\ calls[c].kind = "create_token"
  /\ issued < MaxTokens
  /\ issued' = issued + 1
  /\ tokens' = tokens \cup {[id |-> issued', user |-> calls[c].target, type |-> "personal",
                             generation |-> 0, with |-> calls[c].by.with]}
  /\ kept' = kept \cup {issued'}
  /\ Answer(c)
  /\ UNCHANGED <<users, revoked, expired, workload, endedAt, lost>>

\* Time passes, until a token's exp (for a personal one, its expires_when).
Expire(t) ==
  /\ t.id \in Short \ expired
  /\ expired' = expired \cup {t.id}
  /\ UNCHANGED <<users, kept, revoked, tokens, issued, calls, workload, endedAt, lost>>

Serve(c) ==
  \/ Login(c) \/ Refresh(c) \/ Request(c) \/ Logout(c)
  \/ Revoke(c) \/ Verify(c) \/ Rehash(c) \/ ReadUser(c) \/ ReadRevoked(c)
  \/ ReadPersonal(c) \/ Issue(c) \/ Read(c) \/ End(c) \/ Set(c)
  \/ RevokePersonal(c) \/ CreateUser(c) \/ CreatePersonal(c)

Next ==
  \/ \E c \in Callers : Serve(c)
  \/ \E t \in tokens : Expire(t)

Spec == Init /\ [][Next]_vars

-----------------------------------------------------------------------------
(* What the sessions promise *)

\* Ending a user's sessions ends them for good: a token made before the last end
\* (end_sessions, set_password) committed is of a lower generation than the
\* user's, whatever logins, refreshes and other ends go on.  Unless an end has
\* written over another that it had not seen (`lost`): the generation is read in
\* one transaction and written in the next.
EndedAreDead ==
  \A t \in tokens :
    /\ t.type # "personal" /\ t.user \notin lost
    /\ t.id <= endedAt[t.user]
    => Outlived(t, users[t.user])

\* A session begun with a password lasts no longer than the password: every
\* session token that is still good was got (by its login, or the refreshes after
\* it) with the password the user has now.  Unless an update has overwritten one
\* that it had not seen: that of an end, or the hash of a login made again.
SessionsOfThePassword ==
  \A t \in tokens :
    /\ t.type # "personal" /\ t.user \notin lost
    /\ ~Outlived(t, users[t.user])
    => t.with = users[t.user].password

\* A request that comes with a token that was revoked, or ended, before it began
\* is refused before it does anything.  Unless the token expires while the request
\* is being served: a revocation is forgotten then, and `is_session_revoked` comes
\* after the token was decoded.
Acting(c) ==
  /\ calls[c].by # Nobody
  /\ calls[c].pc \in {"issue", "verify", "rehash", "read", "write", "create"}
BadTokenRefused ==
  \A c \in Callers :
    Acting(c) /\ calls[c].bad =>
      calls[c].by.id \in expired \/ calls[c].by.user \in lost

\* The instance is left without an admin who can log in only on behalf of somebody
\* who was no longer one: admins cannot change themselves, so that it takes two who
\* change each other, the second after being checked and before being changed.
AnAdmin(accounts) == \E u \in Names : accounts[u].admin /\ ~accounts[u].disabled
LastAdminByTwo ==
  [][AnAdmin(users) /\ ~AnAdmin(users') =>
       \E c \in Callers :
         /\ calls[c].kind \in {"set_admin", "set_disabled"}
         /\ calls[c].pc = "write" /\ calls'[c] = Idle
         /\ LET u == users[calls[c].by.user] IN ~u.admin \/ u.disabled]_vars

-----------------------------------------------------------------------------
(* Why they keep it *)

\* Every token has its own id, and a user; those revoked are of sessions, those kept personal.
TokensWell ==
  /\ \A t \in tokens : t.id \in 1..issued /\ users[t.user].made
  /\ \A s, t \in tokens : s.id = t.id => s = t
  /\ revoked \subseteq {t.id : t \in {t \in tokens : t.type # "personal"}}
  /\ kept \subseteq {t.id : t \in {t \in tokens : t.type = "personal"}}

\* No session has a later generation than its user, and only who is made is an admin.
NoLater ==
  /\ \A t \in tokens :
       t.type # "personal" /\ t.user \notin lost => t.generation <= users[t.user].generation
  /\ \A u \in Names : users[u].admin => users[u].made

\* What a request knows by the place where it is: who it is by and about.
Knows(call) ==
  /\ call.todo \subseteq {t \in tokens : t.type # "personal"} /\ (call.pc = "revoke" => call.todo # {})
  /\ IF call.kind \in {"login", "logout"} THEN ~call.bad ELSE call.by \in tokens
  /\ call.kind \in {"refresh", "create_token"} => call.target = call.by.user
  /\ call.kind = "refresh" => call.by.type = "refresh"
  /\ call.pc \in {"refresh", "auth", "auth_revoked", "auth_user"} => call.kind \notin {"login", "logout"}
  /\ call.pc = "auth_revoked" => call.by.type # "personal"
  /\ call.pc = "auth_user" => call.kind # "refresh"
  /\ call.pc \in {"verify", "rehash"} => call.kind \in {"login", "change_password"}
  /\ call.pc = "issue" => call.kind \in {"login", "refresh"}
  /\ call.pc = "read" => call.kind \notin {"set_admin", "set_disabled"}
  /\ call.pc = "write" /\ call.kind \in {"set_admin", "set_disabled"} => call.target # call.by.user

\* What it has read is no later than what is there, nor than its token; and of the same
\* generation it has the same password.
Remembers(call) ==
  /\ call.pc = "auth_revoked" \/ (call.pc = "issue" /\ call.kind = "refresh") =>
       call.seen.generation <= call.by.generation
  /\ call.pc = "rehash" =>
       call.seen.password = IF call.kind = "login" THEN call.password ELSE call.old
  /\ call.pc \in {"rehash", "issue"} /\ call.kind = "login" =>
       /\ users[call.target].made
       /\ call.target \notin lost => call.seen.generation <= users[call.target].generation
  /\ call.pc = "issue" /\ call.kind = "login" /\ call.target \notin lost
       /\ call.seen.generation = users[call.target].generation =>
       call.password = users[call.target].password

\* Why a token is no good is still there to be found, until it has been looked for.
Excused(call) == call.by.id \in expired \/ call.by.user \in lost
BadFound(call) ==
  call.bad =>
    \/ Excused(call)
    \/ call.pc \in {"refresh", "auth", "auth_revoked"} /\ call.by.id \in revoked
    \/ /\ call.pc \in {"refresh", "auth"}
       /\ \/ call.by.type = "personal" /\ call.by.id \notin kept
          \/ Outlived(call.by, users[call.by.user])

WellCall(call) == Knows(call) /\ Remembers(call) /\ BadFound(call)

IInv ==
  /\ TypeOK /\ TokensWell /\ NoLater
  /\ EndedAreDead /\ SessionsOfThePassword
  /\ \A c \in Callers : WellCall(calls[c])
=============================================================================
