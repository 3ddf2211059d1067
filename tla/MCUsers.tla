------------------------------ MODULE MCUsers ------------------------------
(* Two users, both admins at first, and one who is yet to be made. *)
EXTENDS Users, TLC

CONSTANTS ann, bob, cat, old, new

\* ann's hash is of parameters no longer used.
MCUser(there) ==
  [made |-> there, admin |-> there, disabled |-> FALSE, password |-> old,
   outdated |-> there, generation |-> 0]
MCFirstUsers == [u \in {ann, bob, cat} |-> MCUser(u # cat)]

MCToken(i, u, type) == [id |-> i, user |-> u, type |-> type, generation |-> 0, with |-> old]
MCFirstTokens == {MCToken(1, ann, "access"), MCToken(2, ann, "refresh"), MCToken(3, bob, "access")}

Of(kinds, about) == [kinds |-> kinds, about |-> about]
MCWorkloads ==
  {Of({"login", "refresh", "logout", "logout_all"}, {ann}),
   Of({"login", "change_password", "set_password"}, {ann}),
   Of({"set_admin", "set_disabled"}, {ann, bob}),
   Of({"login", "create_user"}, {ann, cat}),
   Of({"create_token", "revoke_token", "logout_all"}, {ann})}

Alike == Permutations(Callers)
=============================================================================
