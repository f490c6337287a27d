--------------------------- MODULE ConfigContents ---------------------------
(***************************************************************************)
(* What loading a configuration promises, without the order in which the   *)
(* files are visited or how their entries are merged: files are added one  *)
(* by one, each of them at most once, the root first and then files that a *)
(* file already added includes; the load succeeds only when every included *)
(* file has been added and no name appears twice; sorting then only        *)
(* permutes the names.                                                     *)
(***************************************************************************)
EXTENDS Sequences, FiniteSets, Naturals

CONSTANTS Paths, Root, Unread
VARIABLES files,   \* what has been read of each file, or Unread
          names,   \* the names of the entries loaded so far
          status   \* "loading", "ok" or "failed"

vars == <<files, names, status>>

Added       == {p \in Paths : files[p] # Unread}
Includes(c) == UNION {{pattern[j] : j \in DOMAIN pattern} :
                        pattern \in {c.include[i] : i \in DOMAIN c.include}}

Init == files = [p \in Paths |-> Unread] /\ names = << >> /\ status = "loading"

Add(p) ==
  /\ status = "loading" /\ p \notin Added
  /\ p = Root \/ \E q \in Added : p \in Includes(files[q])
  /\ files'[p] # Unread
  /\ files' = [files EXCEPT ![p] = files'[p]]
  /\ names' = names \o [i \in DOMAIN files'[p].mounts |-> files'[p].mounts[i].name]
  /\ UNCHANGED status

Succeed ==
  /\ status = "loading" /\ status' = "ok"
  /\ Root \in Added
  /\ \A p \in Added : Includes(files[p]) \subseteq Added
  /\ \A i, j \in DOMAIN names : names[i] = names[j] => i = j
  /\ Len(names') = Len(names)
  /\ {names'[i] : i \in DOMAIN names'} = {names[i] : i \in DOMAIN names}
  /\ UNCHANGED files

(* A file that cannot be used may be read as the load fails.               *)
Fail ==
  /\ status = "loading" /\ status' = "failed"
  /\ names' = << >>
  /\ \A p \in Added : files'[p] = files[p]

Next == (\E p \in Paths : Add(p)) \/ Succeed \/ Fail
Spec == Init /\ [][Next]_vars
=============================================================================
