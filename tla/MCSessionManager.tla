-------------------------- MODULE MCSessionManager --------------------------
(* Instances of SessionManager for TLC.                                    *)
EXTENDS SessionManager, TLC

Item(n, t, d, v) == [name |-> n, type |-> t, dir |-> d, valid |-> v]

(* A batch of two entries, each with a directory of its own, behind one of *)
(* a type the manager does not handle and one that Validate refuses; and   *)
(* the second entry after its configuration moved it to the first one's    *)
(* directory.                                                              *)
MCSessions ==
  { <<Item("a", "smb", "/a", TRUE), Item("a", "s3", "/a", FALSE),
      Item("a", "s3", "/a", TRUE), Item("b", "webdav", "/b", TRUE)>>,
    <<Item("b", "s3", "/a", TRUE)>> }

MCOneEntry == { <<Item("a", "s3", "/a", TRUE)>> }

Symmetric == Permutations(SessionIds) \cup Permutations(Handlers)
=============================================================================
