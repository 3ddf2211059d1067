---------------------------- MODULE MCHeadWrites ----------------------------
(* The calls that TLC lets the processes make, some at a time. *)
EXTENDS HeadWrites, TLC

CONSTANTS d1, d2, d3, e1, e2, e3, e4, e5, e6, u1,
          createRef, create1, create3, update1, update1again, update3, update3again,
          name1, name2, refer1, refer2, delete1, deleteDoc,
          undelete1, undeleteDoc, relink1, relink2, refer6

MCDocs == {d1, d2, d3}
MCEntities == {e1, e2, e3, e4}
MCExisting == {d1, e1, e2}
MCInitialRefs == [h \in MCDocs \cup MCEntities |-> IF h = d1 THEN {e1} ELSE {}]
MCInitialUrls == [h \in MCDocs \cup MCEntities |-> {}]

\* With two entities that refer to the first, so that a relink locks them one by one.
LiveEntities == MCEntities \cup {e5, e6}
LiveExisting == MCExisting \cup {e5, e6}
LiveRefs == [h \in MCDocs \cup LiveEntities |-> IF h \in {d1, e5, e6} THEN {e1} ELSE {}]
LiveUrls == [h \in MCDocs \cup LiveEntities |-> {}]

No == [op |-> "create", head |-> d1, refs |-> {}, urls |-> {}, keepUrls |-> TRUE, expected |-> 0,
       key |-> Nothing, inline |-> Nothing, to |-> Nothing]

Alike == Permutations(Procs)

MCAsks == [r \in Requests |->
  CASE r = createRef -> [No EXCEPT !.head = d2, !.refs = {e1}]
    [] r = create1 -> [No EXCEPT !.head = d1]
    [] r = create3 -> [No EXCEPT !.head = d3, !.key = u1, !.inline = e3]
    [] r = update1 -> [No EXCEPT !.op = "update", !.expected = 1, !.refs = {e2}]
    [] r = update1again -> [No EXCEPT !.op = "update", !.expected = 1, !.refs = {e1},
                                      !.key = u1, !.inline = e4]
    [] r \in {update3, update3again} -> [No EXCEPT !.op = "update", !.head = d3, !.expected = 1]
    [] r = name1 -> [No EXCEPT !.op = "update", !.head = e1, !.urls = {u1},
                                !.keepUrls = FALSE]
    [] r = name2 -> [No EXCEPT !.op = "update", !.head = e2, !.urls = {u1},
                                !.keepUrls = FALSE]
    [] r = refer1 -> [No EXCEPT !.op = "update", !.head = e1, !.refs = {e2}]
    [] r = refer2 -> [No EXCEPT !.op = "update", !.head = e2, !.refs = {e1}]
    [] r = refer6 -> [No EXCEPT !.op = "update", !.head = e6, !.refs = {e5}]
    [] r = delete1 -> [No EXCEPT !.op = "delete", !.head = e1]
    [] r = deleteDoc -> [No EXCEPT !.op = "delete"]
    [] r = undelete1 -> [No EXCEPT !.op = "undelete", !.head = e1]
    [] r = undeleteDoc -> [No EXCEPT !.op = "undelete"]
    [] r = relink1 -> [No EXCEPT !.op = "relink", !.head = e1, !.to = e2]
    [] r = relink2 -> [No EXCEPT !.op = "relink", !.head = e2, !.to = e1]]
=============================================================================
