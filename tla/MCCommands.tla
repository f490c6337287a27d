----------------------------- MODULE MCCommands -----------------------------
(* An instance of Commands for TLC: two local entries that share a         *)
(* directory, as one share reached in two ways, and a managed one.         *)
EXTENDS Commands, TLC

MCOrder == <<"a", "m", "b">>
MCDirOf == [e \in {"a", "b", "m"} |-> IF e = "m" THEN "y" ELSE "x"]

Line(op, args) == [op |-> op, args |-> args]
MCRequests ==
     "c1" :> { Line("mount", <<"m", "a">>), Line("mount", <<"a", "a">>),
               Line("mount", <<"b", "?">>), Line("unmount", <<"m", "a">>),
               Line("interactive", << >>), Line("list", << >>),
               Line("mkdir", << >>), Line("dryrun", <<"m">>) }
  @@ "c2" :> { Line("mount", <<"b">>), Line("unmount", <<"m", "m">>) }
MCInitialDirs == {[d \in {"x", "y"} |-> IF d = "x" THEN s ELSE "other"] : s \in {"absent", "file"}}
=============================================================================
