---------------------------- MODULE MCSSHTunnel -----------------------------
(* Instances of SSHTunnel for TLC.                                         *)
EXTENDS SSHTunnel, FiniteSets, TLC

CONSTANTS a, b, x1, x2

(* Entries are alike, and so are processes.                                *)
Symmetry == Permutations(Names) \cup Permutations(Procs)

(* What a process no longer reads tells no two states apart.               *)
Used(x) ==
  CASE pc[x] = "idle" -> <<>>
    [] pc[x] \in {"truncate", "write"} /\ ret[x] = "idle" -> <<view[x], ret[x]>>
    [] pc[x] \in {"truncate", "write"} -> <<name[x], port[x], pid[x], view[x], ret[x]>>
    [] pc[x] \in {"lookup", "find", "umount", "teardown", "delete"} -> <<name[x]>>
    [] pc[x] \in {"dial", "spawn", "creds", "mount", "killPort", "pidOf"} -> <<name[x], port[x]>>
    [] OTHER -> <<name[x], port[x], pid[x]>>
View == <<recs, file, ssh, plan, listener, via, alone, lost, pc, [x \in Procs |-> Used(x)]>>

(* Bounds: once commands have overlapped, two ssh processes are enough for *)
(* each to have started one, and until then two that get lost; failing     *)
(* saves matter most to commands that do not overlap.                      *)
FewAfterOverlap == alone \/ (lost = {} /\ \A p \in Pids : p > 2 => ssh[p] = "unborn")
FewLost == Cardinality(lost) <= 2
=============================================================================
