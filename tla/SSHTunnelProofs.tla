-------------------------- MODULE SSHTunnelProofs ---------------------------
(***************************************************************************)
(* Proofs about SSHTunnel for any entries, commands, ports and ssh         *)
(* processes.  The first part shows that the state is well formed, however *)
(* commands interleave.  The second follows one command at a time through  *)
(* its steps, while ssh processes connect and end at any moment: as long   *)
(* as commands have not overlapped, each ssh that lives is known to the    *)
(* record of its entry or to the command that just started it.             *)
(***************************************************************************)
EXTENDS SSHTunnel, TLAPS

-----------------------------------------------------------------------------
(* The state is well formed.                                               *)

(* The places at which a command has chosen a port.                        *)
PortGiven(x) ==
  \/ pc[x] \in {"dial", "spawn", "wait", "savePort", "pidOf", "saveName",
                "creds", "mount", "killPort"}
  \/ pc[x] \in {"truncate", "write"} /\ ret[x] \in {"pidOf", "creds"}

LocalsInv ==
  \A x \in Procs : /\ PortGiven(x) => port[x] \in Ports
                   /\ ret[x] \in {"idle", "pidOf", "creds"}

(* An ssh that was started has a plan, and one that listens does so on the *)
(* port of its plan.                                                       *)
SshInv ==
  /\ \A p \in Pids : ssh[p] # "unborn" => plan[p] # NoPlan
  /\ \A q \in Ports : listener[q] # 0 =>
       /\ plan[listener[q]] # NoPlan
       /\ plan[listener[q]].port = q
       /\ ssh[listener[q]] \in {"running", "dying"}

TInv == TypeOK /\ LocalsInv /\ SshInv

(* A record that is there is one (state.go:12-20).                         *)
LEMMA RecordTyped ==
  ASSUME TypeOK, NEW k \in Keys, Known(k)
  PROVE  recs[k] \in Record /\ recs[k].port \in Ports /\ recs[k].pid \in Pids \cup {0}
<1>1. recs[k] \in Record
  BY DEF TypeOK, Contents, Known
<1> QED
  BY <1>1 DEF Record

(* Saving prepares a well-formed file and goes on to truncate the old one  *)
(* (state.go:76-110).                                                      *)
LEMMA SaveTyped ==
  ASSUME TInv, NEW x \in Procs, NEW k \in Keys, NEW r \in Record \cup {NoRecord},
         NEW l \in {"idle", "pidOf", "creds"}, BeginSave(x, k, r, l),
         l # "idle" => port[x] \in Ports
  PROVE  TInv'
<1>1. [recs EXCEPT ![k] = r] \in Contents
  BY DEF TInv, TypeOK, Contents
<1>2. TypeOK'
  <2>1. view' \in [Procs -> Contents]
    BY <1>1 DEF BeginSave, TInv, TypeOK
  <2>2. ret' \in [Procs -> PCs] /\ pc' \in [Procs -> PCs]
    BY DEF BeginSave, TInv, TypeOK, Goto, PCs
  <2> QED
    BY <2>1, <2>2 DEF BeginSave, TInv, TypeOK, Contents, fileVars, sshVars, histVars
<1>3. LocalsInv'
  BY DEF BeginSave, TInv, TypeOK, LocalsInv, PortGiven, Goto
<1>4. SshInv'
  BY DEF BeginSave, TInv, SshInv, sshVars
<1> QED
  BY <1>2, <1>3, <1>4 DEF TInv

(* Giving up on a file that fails us leaves the state well formed.           *)
LEMMA FailsTyped ==
  ASSUME TInv, NEW x \in Procs, AccessFails(x) \/ SaveFails(x)
  PROVE  TInv'
<1>1. lost' \subseteq Pids /\ alone' \in BOOLEAN
  BY DEF AccessFails, SaveFails, Loses, TInv, TypeOK, histVars
<1>2. TypeOK'
  BY <1>1 DEF AccessFails, SaveFails, TInv, TypeOK, Contents, Goto, PCs, fileVars, sshVars,
              locals
<1>3. LocalsInv' /\ SshInv'
  BY DEF AccessFails, SaveFails, TInv, TypeOK, LocalsInv, SshInv, PortGiven, Goto, sshVars, locals
<1> QED
  BY <1>2, <1>3 DEF TInv

(* So does telling ssh processes to end (tunnel.go:139-153).               *)
LEMMA KillTyped ==
  ASSUME TInv, NEW x \in Procs, NEW S, Kill(S), NEW l \in {"idle", "delete"}, Goto(x, l),
         UNCHANGED <<fileVars, plan, listener, via, histVars, locals>>
  PROVE  TInv'
<1>1. TypeOK'
  BY DEF Kill, TInv, TypeOK, Contents, Goto, PCs, fileVars, histVars, locals
<1>2. LocalsInv'
  BY DEF TInv, TypeOK, LocalsInv, PortGiven, Goto, locals
<1>3. SshInv'
  <2>1. ASSUME NEW p \in Pids PROVE ssh'[p] = IF p \in S /\ Live(p) THEN "dying" ELSE ssh[p]
    BY DEF Kill
  <2>2. ASSUME NEW p \in Pids, ssh'[p] # "unborn" PROVE plan[p] # NoPlan
    BY <2>1, <2>2 DEF Live, TInv, SshInv
  <2>3. ASSUME NEW q \in Ports, listener[q] # 0
        PROVE  /\ plan[listener[q]] # NoPlan
               /\ plan[listener[q]].port = q
               /\ ssh'[listener[q]] \in {"running", "dying"}
    <3>1. listener[q] \in Pids
      BY <2>3 DEF TInv, TypeOK
    <3> QED
      BY <2>1, <2>3, <3>1 DEF TInv, SshInv
  <2> QED
    BY <2>2, <2>3 DEF SshInv
<1> QED
  BY <1>1, <1>2, <1>3 DEF TInv

(* Steps of a command that touch neither the file nor an ssh process.      *)
LEMMA WalkTyped ==
  ASSUME TInv, NEW x \in Procs, NEW l \in PCs, Goto(x, l),
         UNCHANGED <<fileVars, sshVars, name, view, ret>>,
         via' \in [Names -> Pids \cup {0}], alone' \in BOOLEAN, lost' \subseteq Pids,
         port' \in [Procs -> Ports \cup {0}], pid' \in [Procs -> Pids \cup {0}],
         \A y \in Procs : y # x => port'[y] = port[y],
         PortGiven(x)' => port'[x] \in Ports
  PROVE  TInv'
<1>1. TypeOK'
  BY DEF TInv, TypeOK, Contents, Goto, fileVars, sshVars
<1>2. LocalsInv'
  BY DEF TInv, TypeOK, LocalsInv, PortGiven, Goto
<1>3. SshInv'
  BY DEF TInv, SshInv, sshVars
<1> QED
  BY <1>1, <1>2, <1>3 DEF TInv

(* So does coming back from a command it ran, or from a look at the file.  *)
LEMMA ComesBackTyped ==
  ASSUME TInv, NEW x \in Procs, NEW l \in {"idle", "teardown"}, Goto(x, l),
         UNCHANGED <<fileVars, sshVars, histVars, locals>>,
         via' \in [Names -> Pids \cup {0}]
  PROVE  TInv'
<1>1. l \in PCs
  BY DEF PCs
<1>2. ~PortGiven(x)'
  <2>1. pc'[x] = l
    BY DEF Goto, TInv, TypeOK
  <2> QED
    BY <2>1 DEF PortGiven
<1>3. /\ alone' \in BOOLEAN /\ lost' \subseteq Pids
      /\ port' \in [Procs -> Ports \cup {0}] /\ pid' \in [Procs -> Pids \cup {0}]
      /\ \A y \in Procs : port'[y] = port[y]
      /\ UNCHANGED <<fileVars, sshVars, name, view, ret>>
  BY DEF TInv, TypeOK, histVars, locals
<1> QED
  BY <1>1, <1>2, <1>3, WalkTyped

(* The state stays well formed (state.go:12-27, tunnel.go:17-130).         *)
THEOREM TypeInvariance == Spec => []TInv
<1>1. Init => TInv
  <2> SUFFICES ASSUME Init PROVE TInv
    OBVIOUS
  <2>1. TypeOK
    BY DEF Init, TypeOK, Contents, Empty, PCs
  <2>2. LocalsInv
    BY DEF Init, LocalsInv, PortGiven
  <2>3. SshInv
    BY DEF Init, SshInv
  <2> QED
    BY <2>1, <2>2, <2>3 DEF TInv
<1>2. TInv /\ [Next]_vars => TInv'
  <2> SUFFICES ASSUME TInv, [Next]_vars PROVE TInv'
    OBVIOUS
  <2>0. Names \subseteq Keys /\ Ports \subseteq Keys
    BY DEF Keys
  <2>1. ASSUME NEW x \in Procs, Lookup(x) PROVE TInv'
    <3>1. CASE AccessFails(x)
      BY <3>1, FailsTyped
    <3>2. CASE ~AccessFails(x) /\ Known(name[x]) /\ file = "ok"
      <4>1. recs[name[x]].port \in Ports
        BY <2>0, <3>2, RecordTyped DEF TInv, TypeOK
      <4> QED
        BY <2>1, <3>2, <4>1, WalkTyped
        DEF Lookup, TInv, TypeOK, PCs, PortGiven, Goto, histVars, locals
    <3>3. CASE ~AccessFails(x) /\ ~Known(name[x]) /\ file = "ok"
      BY <2>1, <3>3, WalkTyped
      DEF Lookup, TInv, TypeOK, PCs, PortGiven, Goto, histVars, locals
    <3> QED
      BY <2>1, <3>1, <3>2, <3>3 DEF Lookup
  <2>2. ASSUME NEW x \in Procs, Dial(x) PROVE TInv'
    BY <2>2, WalkTyped DEF Dial, TInv, TypeOK, LocalsInv, PCs, PortGiven, Goto, histVars,
       locals
  <2>3. ASSUME NEW x \in Procs, FindFreePort(x) PROVE TInv'
    BY <2>3, WalkTyped
    DEF FindFreePort, FreePorts, TInv, TypeOK, LocalsInv, PCs, PortGiven, Goto, histVars,
       locals
  <2>4. ASSUME NEW x \in Procs, Spawn(x) PROVE TInv'
    <3>1. TypeOK'
      BY <2>4 DEF TInv, TypeOK, LocalsInv, PortGiven, Contents, PCs, Spawn, Goto,
                   fileVars, histVars
    <3>2. LocalsInv'
      BY <2>4 DEF TInv, TypeOK, LocalsInv, PortGiven, Spawn, Goto
    <3>3. SshInv'
      BY <2>4, NoPlanIsNone DEF TInv, TypeOK, LocalsInv, PortGiven, SshInv, Spawn
    <3> QED
      BY <3>1, <3>2, <3>3 DEF TInv
  <2>5. ASSUME NEW x \in Procs, WaitEnds(x) PROVE TInv'
    BY <2>5, WalkTyped DEF WaitEnds, TInv, TypeOK, LocalsInv, PCs, PortGiven, Goto, histVars,
       locals
  <2>6. ASSUME NEW x \in Procs, WaitExpires(x) PROVE TInv'
    BY <2>6, KillTyped DEF WaitExpires
  <2>7. ASSUME NEW x \in Procs, SavePort(x) PROVE TInv'
    <3>1. port[x] \in Ports /\ [port |-> port[x], pid |-> pid[x]] \in Record
      BY <2>7 DEF SavePort, TInv, TypeOK, LocalsInv, PortGiven, Record
    <3> QED
      BY <2>7, <2>0, <3>1, SaveTyped, FailsTyped DEF SavePort
  <2>8. ASSUME NEW x \in Procs, PidOf(x) PROVE TInv'
    <3>1. port[x] \in Ports
      BY <2>8 DEF PidOf, TInv, LocalsInv, PortGiven
    <3>2. Known(port[x]) => recs[port[x]].pid \in Pids \cup {0}
      BY <2>0, <3>1, RecordTyped DEF TInv
    <3>3. pid' \in [Procs -> Pids \cup {0}] /\ lost' \subseteq Pids
      BY <2>8, <3>2 DEF PidOf, Loses, TInv, TypeOK
    <3> QED
      BY <2>8, <3>1, <3>3, WalkTyped DEF PidOf, TInv, TypeOK, PCs, PortGiven, Goto
  <2>9. ASSUME NEW x \in Procs, SaveName(x) PROVE TInv'
    <3>1. /\ port[x] \in Ports /\ [port |-> port[x], pid |-> pid[x]] \in Record
          /\ name[x] \in Names
      BY <2>9 DEF SaveName, TInv, TypeOK, LocalsInv, PortGiven, Record
    <3> QED
      BY <2>9, <2>0, <3>1, SaveTyped, FailsTyped DEF SaveName
  <2>10. ASSUME NEW x \in Procs, Credentials(x) PROVE TInv'
    BY <2>10, WalkTyped DEF Credentials, TInv, TypeOK, LocalsInv, PCs, PortGiven, Goto, histVars,
       locals
  <2>11. ASSUME NEW x \in Procs, MountCommand(x) PROVE TInv'
    <3>1. port[x] \in Ports /\ name[x] \in Names
      BY <2>11 DEF MountCommand, TInv, TypeOK, LocalsInv, PortGiven
    <3>2. via' \in [Names -> Pids \cup {0}]
      BY <2>11, <3>1 DEF MountCommand, TInv, TypeOK
    <3>3. PICK l \in {"idle", "teardown"} : Goto(x, l)
      BY <2>11 DEF MountCommand
    <3> QED
      BY <2>11, <3>2, <3>3, ComesBackTyped DEF MountCommand
  <2>12. ASSUME NEW x \in Procs, UnmountCommand(x) PROVE TInv'
    <3>1. via' \in [Names -> Pids \cup {0}]
      BY <2>12 DEF UnmountCommand, TInv, TypeOK
    <3>2. PICK l \in {"idle", "teardown"} : Goto(x, l)
      BY <2>12 DEF UnmountCommand
    <3> QED
      BY <2>12, <3>1, <3>2, ComesBackTyped DEF UnmountCommand
  <2>13. ASSUME NEW x \in Procs, Teardown(x) PROVE TInv'
    <3>1. CASE AccessFails(x)
      BY <3>1, FailsTyped
    <3>2. CASE ~AccessFails(x) /\ file = "ok" /\ ~Known(name[x])
      <4>1. Goto(x, "idle") /\ UNCHANGED <<fileVars, sshVars, via, histVars, locals>>
        BY <2>13, <3>2 DEF Teardown
      <4>2. via' \in [Names -> Pids \cup {0}]
        BY <4>1 DEF TInv, TypeOK
      <4> QED
        BY <4>1, <4>2, ComesBackTyped
    <3>3. CASE ~AccessFails(x) /\ file = "ok" /\ Known(name[x]) /\ recs[name[x]].pid # 0
      BY <2>13, <3>3, KillTyped DEF Teardown
    <3>4. CASE ~AccessFails(x) /\ file = "ok" /\ Known(name[x]) /\ recs[name[x]].pid = 0
      <4>1. recs[name[x]].port \in Ports
        BY <2>0, <3>4, RecordTyped DEF TInv, TypeOK
      <4> QED
        BY <2>13, <3>4, <4>1, WalkTyped
        DEF Teardown, TInv, TypeOK, PCs, PortGiven, Goto, histVars, locals
    <3> QED
      BY <2>13, <3>1, <3>2, <3>3, <3>4 DEF Teardown
  <2>14. ASSUME NEW x \in Procs, KillPort(x) PROVE TInv'
    BY <2>14, KillTyped DEF KillPort
  <2>15. ASSUME NEW x \in Procs, Delete(x) PROVE TInv'
    <3>1. name[x] \in Names
      BY DEF TInv, TypeOK
    <3> QED
      BY <2>15, <2>0, <3>1, SaveTyped, FailsTyped DEF Delete
  <2>16. ASSUME NEW x \in Procs, Truncate(x) PROVE TInv'
    <3>1. TypeOK'
      BY <2>16 DEF Truncate, TInv, TypeOK, Contents, PCs, Goto, sshVars, histVars, locals
    <3>2. LocalsInv' /\ SshInv'
      BY <2>16 DEF Truncate, TInv, TypeOK, LocalsInv, SshInv, PortGiven, Goto, sshVars, locals
    <3> QED
      BY <3>1, <3>2 DEF TInv
  <2>17. ASSUME NEW x \in Procs, Write(x) \/ WriteFails(x) PROVE TInv'
    <3>1. lost' \subseteq Pids /\ alone' \in BOOLEAN
      BY <2>17 DEF Write, WriteFails, Loses, TInv, TypeOK, histVars
    <3>2. TypeOK'
      <4>1. PICK l \in PCs : Goto(x, l)
        BY <2>17 DEF Write, WriteFails, TInv, TypeOK, PCs
      <4>2. recs' = view[x] /\ file' \in {"ok", "corrupt"} /\ UNCHANGED <<sshVars, via, locals>>
        BY <2>17 DEF Write, WriteFails
      <4> QED
        BY <3>1, <4>1, <4>2 DEF TInv, TypeOK, Contents, Goto, sshVars, locals
    <3>3. LocalsInv' /\ SshInv'
      BY <2>17 DEF Write, WriteFails, TInv, TypeOK, LocalsInv, SshInv, PortGiven, Goto,
                   sshVars, locals
    <3> QED
      BY <3>2, <3>3 DEF TInv
  <2>18. ASSUME NEW x \in Procs, NEW n \in Names, RunMount(x, n) \/ RunUnmount(x, n)
         PROVE  TInv'
    <3>1. TypeOK'
      <4>1. /\ name' \in [Procs -> Names] /\ pc' \in [Procs -> PCs]
            /\ alone' \in BOOLEAN /\ lost' \subseteq Pids
        BY <2>18 DEF RunMount, RunUnmount, Begin, TInv, TypeOK, PCs, Goto
      <4>2. UNCHANGED <<fileVars, sshVars, via, port, pid, view, ret>>
        BY <2>18 DEF RunMount, RunUnmount, Begin
      <4> QED
        BY <4>1, <4>2 DEF TInv, TypeOK, Contents, fileVars, sshVars
    <3>2. LocalsInv' /\ SshInv'
      BY <2>18 DEF RunMount, RunUnmount, Begin, TInv, TypeOK, LocalsInv, SshInv, PortGiven, Goto, sshVars
    <3> QED
      BY <3>1, <3>2 DEF TInv
  <2>19. ASSUME NEW p \in Pids, SshConnects(p) PROVE TInv'
    <3>1. plan[p] # NoPlan /\ p # 0
      BY <2>19, PidsAreNat DEF SshConnects, TInv, SshInv
    <3>2. plan[p].port \in Ports
      BY <3>1 DEF TInv, TypeOK
    <3>3. TypeOK'
      BY <2>19, <3>2 DEF SshConnects, TInv, TypeOK, Contents, fileVars, histVars, locals
    <3>4. LocalsInv'
      BY <2>19 DEF SshConnects, TInv, LocalsInv, PortGiven, locals
    <3>5. SshInv'
      BY <2>19, <3>1, <3>2 DEF SshConnects, TInv, TypeOK, SshInv
    <3> QED
      BY <3>3, <3>4, <3>5 DEF TInv
  <2>20. ASSUME NEW p \in Pids, SshEnds(p) PROVE TInv'
    <3>1. TypeOK'
      BY <2>20 DEF SshEnds, TInv, TypeOK, Contents, fileVars, histVars, locals
    <3>2. LocalsInv'
      BY <2>20 DEF SshEnds, TInv, LocalsInv, PortGiven, locals
    <3>3. SshInv'
      BY <2>20 DEF SshEnds, TInv, TypeOK, SshInv
    <3> QED
      BY <3>1, <3>2, <3>3 DEF TInv
  <2>21. ASSUME NEW n \in Names, ExternalUnmount(n) PROVE TInv'
    <3>1. TypeOK'
      BY <2>21 DEF ExternalUnmount, TInv, TypeOK, Contents, fileVars, sshVars, histVars, locals
    <3>2. LocalsInv' /\ SshInv'
      BY <2>21 DEF ExternalUnmount, TInv, LocalsInv, SshInv, PortGiven, sshVars, locals
    <3> QED
      BY <3>1, <3>2 DEF TInv
  <2>22. CASE UNCHANGED vars
    BY <2>22 DEF vars, TInv, TypeOK, Contents, LocalsInv, SshInv, PortGiven
  <2> QED
    BY <2>1, <2>2, <2>3, <2>4, <2>5, <2>6, <2>7, <2>8, <2>9, <2>10, <2>11, <2>12, <2>13,
       <2>14, <2>15, <2>16, <2>17, <2>18, <2>19, <2>20, <2>21, <2>22 DEF Next, Step
<1> QED
  BY <1>1, <1>2, PTL DEF Spec

(* Every file, ssh process and local variable has its type.                *)
THEOREM TypeCorrect == Spec => []TypeOK
<1>1. TInv => TypeOK
  BY DEF TInv
<1> QED
  BY <1>1, TypeInvariance, PTL

-----------------------------------------------------------------------------
(* One command at a time.                                                  *)

(* A command that has started the ssh pid[x] and not recorded it under the *)
(* entry's name yet.  It knows the pid until it reads it back.             *)
Pending(x) ==
  \/ pc[x] \in {"wait", "savePort", "pidOf"}
  \/ pc[x] \in {"truncate", "write"} /\ ret[x] = "pidOf"
Starting(x) ==
  \/ Pending(x) \/ pc[x] = "saveName"
  \/ pc[x] \in {"truncate", "write"} /\ ret[x] = "creds"

(* A command at a point where no ssh may live for its entry but a lost     *)
(* one: it is about to start one, or to drop the record of one that it     *)
(* ended.                                                                  *)
Clear(x) ==
  \/ pc[x] \in {"find", "spawn", "killPort", "delete"}
  \/ pc[x] \in {"truncate", "write"} /\ ret[x] = "idle"

Held(p) == Live(p) /\ p \notin lost

Own(x) == [port |-> port[x], pid |-> pid[x]]

(* The pid of an ssh that was started for the entry on this port, or none  *)
(* for one that was lost.                                                  *)
Identifies(q, n, p) ==
  IF p # 0 THEN plan[p] = [port |-> q, name |-> n] ELSE LostFor(q, n)

(* The contents that a command is about to write.                          *)
ViewOf(x) ==
  /\ ret[x] = "pidOf" => view[x] = [recs EXCEPT ![port[x]] = Own(x)]
  /\ ret[x] = "creds" => view[x] = [recs EXCEPT ![name[x]] = Own(x)]
  /\ ret[x] = "idle"  => view[x] = [recs EXCEPT ![name[x]] = NoRecord]

(* What a command knows at each of its steps.                              *)
Stage(x) ==
  /\ Pending(x)  => pid[x] # 0
  /\ Starting(x) => /\ Identifies(port[x], name[x], pid[x])
                    /\ \A p \in Pids : Held(p) /\ plan[p].name = name[x] => p = pid[x]
  /\ Clear(x) => \A p \in Pids : Held(p) => plan[p].name # name[x]
  /\ pc[x] = "spawn" => listener[port[x]] = 0
  /\ pc[x] \in {"dial", "creds", "mount"} => Known(name[x]) /\ recs[name[x]].port = port[x]
  /\ pc[x] = "pidOf" => recs[port[x]] = Own(x)
  /\ pc[x] \in {"truncate", "write"} => ViewOf(x)
  /\ pc[x] = "killPort" => LostFor(port[x], name[x])

OneAtATime == \A x, y \in Procs : pc[x] # "idle" /\ pc[y] # "idle" => x = y

(* Only a write leaves the file torn, and nothing gets past a file that a  *)
(* failed one has left corrupt.                                            *)
Outside == {"idle", "lookup", "umount", "teardown"}
FileWhole == /\ file = "corrupt" => \A x \in Procs : pc[x] \in Outside
             /\ file = "torn" => \E x \in Procs : pc[x] = "write"
             /\ \A x \in Procs : pc[x] = "write" => file = "torn"

(* An entry's record names an ssh that was started for it.                 *)
RecordsOwn ==
  \A n \in Names : Known(n) => Identifies(recs[n].port, n, recs[n].pid)

Fresh == \A p \in Pids : ssh[p] = "unborn" => plan[p] = NoPlan /\ p \notin lost

Serving == \A p \in Pids : ssh[p] = "running" => listener[plan[p].port] = p

(* Only the ssh that a command waits for is still connecting, and nobody   *)
(* listens on its port.                                                    *)
Connecting ==
  \A p \in Pids : ssh[p] = "connecting" =>
    /\ listener[plan[p].port] = 0
    /\ \E x \in Procs : pc[x] = "wait" /\ pid[x] = p

Recorded ==
  \A p \in Pids : Held(p) =>
    \/ Known(plan[p].name) /\ recs[plan[p].name].pid = p
    \/ \E x \in Procs : Starting(x) /\ pid[x] = p

AInv ==
  /\ OneAtATime /\ FileWhole /\ RecordsOwn /\ Fresh
  /\ Serving /\ Connecting /\ Recorded
  /\ \A x \in Procs : Stage(x)

AloneInv == alone => AInv

(* Nothing is asked of a command that does not run.                        *)
LEMMA IdleStage ==
  ASSUME NEW x \in Procs, pc'[x] = "idle"
  PROVE  Stage(x)' /\ ~Starting(x)'
  BY DEF Stage, Pending, Starting, Clear

(* While one command runs the file is whole for it, unless it is writing   *)
(* or has yet to look at it.                                               *)
LEMMA Readable ==
  ASSUME AInv, NEW x \in Procs, pc[x] \notin {"idle", "write"}
  PROVE  /\ file # "torn"
         /\ pc[x] \notin Outside => file # "corrupt"
         /\ \A y \in Procs : y # x => pc[y] = "idle"
  BY DEF AInv, OneAtATime, FileWhole

(* While a command is not waiting for its ssh, none is connecting.         *)
LEMMA NoneConnects ==
  ASSUME AInv, NEW x \in Procs, pc[x] \notin {"idle", "wait"}
  PROVE  \A p \in Pids : ssh[p] # "connecting"
  BY DEF AInv, OneAtATime, Connecting

(* While a command has not started one, each ssh that lives is recorded or *)
(* lost.                                                                   *)
LEMMA LiveRecorded ==
  ASSUME AInv, NEW x \in Procs, pc[x] # "idle", ~Starting(x)
  PROVE  \A p \in Pids : Held(p) => Known(plan[p].name) /\ recs[plan[p].name].pid = p
<1>1. \A y \in Procs : ~Starting(y)
  BY DEF AInv, OneAtATime, Pending, Starting
<1> QED
  BY <1>1 DEF AInv, Recorded

(* Steps by which more ssh processes are lost keep what is known of them.  *)
LEMMA IdentifiesKept ==
  ASSUME UNCHANGED plan, lost \subseteq lost', NEW q, NEW n, NEW p, Identifies(q, n, p)
  PROVE  Identifies(q, n, p)'
  BY DEF Identifies, LostFor

(* A step of the command x that changes neither the file nor an ssh: what  *)
(* remains to be shown is what x knows after it, and that it does not lose *)
(* the ssh that it started unless it goes among the lost.                  *)
LEMMA WalkStep ==
  ASSUME TInv, AInv, NEW x \in Procs, pc[x] \notin {"idle", "write"},
         NEW l, l # "write", Goto(x, l), pc[x] \in Outside => l \in Outside \/ file # "corrupt",
         UNCHANGED <<fileVars, sshVars>>, lost \subseteq lost', lost' \subseteq lost \cup {pid[x]},
         pc[x] = "wait" => \A p \in Pids : ssh[p] # "connecting",
         Starting(x) => (Starting(x)' /\ pid'[x] = pid[x]) \/ pid[x] \in lost' \cup {0},
         pid[x] \notin lost => pid[x] \notin lost' \/ ssh[pid[x]] # "unborn",
         Stage(x)'
  PROVE  AInv'
<1>1. pc' = [pc EXCEPT ![x] = l] /\ pc \in [Procs -> PCs]
  BY DEF Goto, TInv, TypeOK
<1>2. \A y \in Procs : y # x => pc[y] = "idle"
  BY Readable
<1>3. /\ pc'[x] = l
      /\ \A y \in Procs : y # x => pc'[y] = "idle"
  BY <1>1, <1>2
<1>4. OneAtATime'
  BY <1>3 DEF OneAtATime
<1>5. FileWhole'
  <2>1. file # "torn" /\ (file = "corrupt" => l \in Outside)
    BY Readable
  <2> QED
    BY <1>3, <2>1 DEF FileWhole, fileVars, Outside
<1>6. RecordsOwn'
  BY IdentifiesKept DEF AInv, RecordsOwn, Known, fileVars, sshVars
<1>66. Fresh' /\ Serving'
  BY DEF AInv, Fresh, Serving, sshVars
<1>7. Connecting'
  BY NoneConnects DEF Connecting, sshVars
<1>8. Recorded'
  <2> SUFFICES ASSUME NEW p \in Pids, Held(p)'
               PROVE  \/ Known(plan[p].name)' /\ recs'[plan'[p].name].pid = p
                      \/ \E y \in Procs : Starting(y)' /\ pid'[y] = p
    BY DEF Recorded
  <2>1. Held(p) /\ p \notin lost' /\ p # 0
    BY PidsAreNat DEF Held, Live, sshVars
  <2>2. CASE Known(plan[p].name) /\ recs[plan[p].name].pid = p
    BY <2>2 DEF Known, fileVars, sshVars
  <2>3. CASE \E y \in Procs : Starting(y) /\ pid[y] = p
    <3>1. Starting(x) /\ pid[x] = p
      BY <1>2, <2>3 DEF Pending, Starting
    <3> QED
      BY <2>1, <3>1
  <2> QED
    BY <2>1, <2>2, <2>3 DEF AInv, Recorded
<1>9. ASSUME NEW y \in Procs PROVE Stage(y)'
  BY <1>3, IdleStage
<1> QED
  BY <1>4, <1>5, <1>6, <1>66, <1>7, <1>8, <1>9 DEF AInv

(* A command that knows the pid of an ssh has started it, for its entry    *)
(* and on its port.                                                        *)
LEMMA OwnStarted ==
  ASSUME TInv, AInv, NEW x \in Procs, Starting(x), pid[x] # 0
  PROVE  /\ pid[x] \in Pids /\ ssh[pid[x]] # "unborn"
         /\ plan[pid[x]] = [port |-> port[x], name |-> name[x]]
<1>1. pid[x] \in Pids /\ name[x] \in Names /\ port[x] \in Ports
  BY DEF TInv, TypeOK, LocalsInv, PortGiven, Pending, Starting
<1>2. plan[pid[x]] = [port |-> port[x], name |-> name[x]] /\ Fresh
  BY DEF AInv, Stage, Identifies
<1>3. [port |-> port[x], name |-> name[x]] # NoPlan
  BY <1>1, NoPlanIsNone
<1> QED
  BY <1>1, <1>2, <1>3 DEF Fresh

(* A command that gives up, on the file or on saving its ssh.              *)
LEMMA FailsAlone ==
  ASSUME TInv, AInv, NEW x \in Procs,
         \/ AccessFails(x) /\ pc[x] \in {"lookup", "teardown", "delete"}
         \/ SaveFails(x) /\ pc[x] \in {"savePort", "saveName"}
  PROVE  AInv'
<1>1. Goto(x, "idle") /\ UNCHANGED <<fileVars, sshVars, pid>>
  BY DEF AccessFails, SaveFails, locals
<1>2. pc'[x] = "idle"
  BY <1>1 DEF Goto, TInv, TypeOK
<1>3. CASE AccessFails(x) /\ pc[x] \in {"lookup", "teardown", "delete"}
  <2>1. lost' = lost /\ ~Starting(x)
    BY <1>3 DEF AccessFails, histVars, Pending, Starting
  <2> QED
    BY <1>1, <1>2, <1>3, <2>1, IdleStage, WalkStep DEF Outside
<1>4. CASE SaveFails(x) /\ pc[x] \in {"savePort", "saveName"}
  <2>1. lost' = lost \cup ({pid[x]} \ {0}) /\ Starting(x)
    BY <1>4 DEF SaveFails, Loses, Pending, Starting
  <2>3. pid[x] \notin lost => pid[x] \notin lost' \/ ssh[pid[x]] # "unborn"
    BY <2>1, OwnStarted
  <2> QED
    BY <1>1, <1>2, <1>4, <2>1, <2>3, IdleStage, WalkStep DEF Outside
<1> QED
  BY <1>3, <1>4

(* Each step of a command that neither writes nor starts or ends an ssh    *)
(* (tunnel.go:17-130, smb/driver.go:70-140).                               *)
LEMMA WalkAlone ==
  ASSUME TInv, AInv, NEW x \in Procs,
         \/ Lookup(x) \/ Dial(x) \/ FindFreePort(x) \/ WaitEnds(x) \/ SavePort(x)
         \/ PidOf(x) \/ SaveName(x) \/ Credentials(x) \/ MountCommand(x)
         \/ UnmountCommand(x) \/ Delete(x)
  PROVE  AInv'
<1>0. /\ Stage(x)
      /\ pc \in [Procs -> PCs] /\ name \in [Procs -> Names]
      /\ port \in [Procs -> Ports \cup {0}] /\ pid \in [Procs -> Pids \cup {0}]
      /\ view \in [Procs -> Contents] /\ ret \in [Procs -> PCs]
  BY DEF AInv, TInv, TypeOK
<1>00. ASSUME pc[x] \notin Outside \cup {"write"} PROVE file = "ok"
  BY <1>00, Readable DEF TInv, TypeOK, Outside
<1>1. CASE Lookup(x) /\ ~AccessFails(x)
  <2>1. /\ pc[x] = "lookup" /\ file = "ok"
        /\ UNCHANGED <<recs, file, ssh, plan, listener, lost, name, pid, ret>>
    BY <1>1 DEF Lookup, fileVars, sshVars, histVars, locals
  <2>2. CASE Known(name[x])
    <3>1. Goto(x, "dial") /\ port'[x] = recs[name[x]].port
      BY <1>0, <1>1, <2>1, <2>2 DEF Lookup
    <3>2. pc'[x] = "dial"
      BY <1>0, <3>1 DEF Goto
    <3>3. Stage(x)'
      BY <2>1, <2>2, <3>1, <3>2 DEF Stage, Pending, Starting, Clear, Known
    <3> QED
      BY <2>1, <3>1, <3>3, WalkStep DEF Pending, Starting, Outside, fileVars, sshVars
  <2>3. CASE ~Known(name[x])
    <3>1. Goto(x, "find")
      BY <1>1, <2>1, <2>3 DEF Lookup
    <3>2. pc'[x] = "find"
      BY <1>0, <3>1 DEF Goto
    <3>3. \A p \in Pids : Held(p) => plan[p].name # name[x]
      BY <2>1, <2>3, LiveRecorded DEF Pending, Starting
    <3>4. Stage(x)'
      BY <2>1, <3>2, <3>3 DEF Stage, Pending, Starting, Clear, Held, Live
    <3> QED
      BY <2>1, <3>1, <3>4, WalkStep DEF Pending, Starting, Outside, fileVars, sshVars
  <2> QED
    BY <2>2, <2>3
<1>2. CASE Dial(x)
  <2>1. /\ pc[x] = "dial"
        /\ UNCHANGED <<recs, file, ssh, plan, listener, lost, name, port, pid, ret>>
    BY <1>2 DEF Dial, fileVars, sshVars, histVars, locals
  <2>2. Known(name[x]) /\ recs[name[x]].port = port[x]
    BY <1>0, <2>1 DEF Stage
  <2>3. CASE listener[port[x]] # 0
    <3>1. Goto(x, "creds")
      BY <1>2, <2>3 DEF Dial
    <3>2. pc'[x] = "creds"
      BY <1>0, <3>1 DEF Goto
    <3>3. Stage(x)'
      BY <2>1, <2>2, <3>2 DEF Stage, Pending, Starting, Clear, Known
    <3> QED
      BY <2>1, <3>1, <3>3, WalkStep DEF Pending, Starting, Outside, fileVars, sshVars
  <2>4. CASE listener[port[x]] = 0
    <3>1. Goto(x, "find")
      BY <1>2, <2>4 DEF Dial
    <3>2. pc'[x] = "find"
      BY <1>0, <3>1 DEF Goto
    <3>3. ASSUME NEW p \in Pids, Held(p), plan[p].name = name[x] PROVE FALSE
      <4>1. recs[name[x]].pid = p /\ p # 0
        BY <2>1, <3>3, LiveRecorded, PidsAreNat DEF Pending, Starting
      <4>2. plan[p].port = port[x]
        <5>1. name[x] \in Names /\ RecordsOwn
          BY <1>0 DEF AInv
        <5>2. plan[p] = [port |-> recs[name[x]].port, name |-> name[x]]
          BY <2>2, <4>1, <5>1 DEF RecordsOwn, Identifies
        <5> QED
          BY <2>2, <5>2
      <4>3. ssh[p] = "running"
        BY <2>1, <3>3, NoneConnects DEF Held, Live
      <4>4. listener[port[x]] = p
        BY <4>2, <4>3 DEF AInv, Serving
      <4> QED
        BY <2>4, <4>4, PidsAreNat
    <3>4. Stage(x)'
      BY <2>1, <3>2, <3>3 DEF Stage, Pending, Starting, Clear, Held, Live
    <3> QED
      BY <2>1, <3>1, <3>4, WalkStep DEF Pending, Starting, Outside, fileVars, sshVars
  <2> QED
    BY <2>3, <2>4
<1>3. CASE FindFreePort(x)
  <2>1. /\ pc[x] = "find"
        /\ UNCHANGED <<recs, file, ssh, plan, listener, lost, name, pid, ret>>
    BY <1>3 DEF FindFreePort, fileVars, sshVars, histVars
  <2>2. \A p \in Pids : Held(p) => plan[p].name # name[x]
    BY <1>0, <2>1 DEF Stage, Clear
  <2>3. CASE Goto(x, "spawn") /\ \E q \in FreePorts : port' = [port EXCEPT ![x] = q]
    <3>1. pc'[x] = "spawn" /\ listener[port'[x]] = 0
      BY <1>0, <2>3 DEF Goto, FreePorts
    <3>2. Stage(x)'
      BY <2>1, <2>2, <3>1 DEF Stage, Pending, Starting, Clear, Held, Live
    <3> QED
      BY <2>1, <2>3, <3>2, WalkStep DEF Pending, Starting, Outside, fileVars, sshVars
  <2>4. CASE Goto(x, "idle")
    <3>1. pc'[x] = "idle"
      BY <1>0, <2>4 DEF Goto
    <3> QED
      BY <2>1, <2>4, <3>1, IdleStage, WalkStep DEF Pending, Starting, Outside, fileVars, sshVars
  <2> QED
    BY <1>3, <2>3, <2>4 DEF FindFreePort
<1>4. CASE WaitEnds(x)
  <2>1. /\ pc[x] = "wait" /\ listener[port[x]] # 0 /\ Goto(x, "savePort")
        /\ UNCHANGED <<recs, file, ssh, plan, listener, lost, name, port, pid, ret>>
    BY <1>4 DEF WaitEnds, fileVars, sshVars, histVars, locals
  <2>2. pc'[x] = "savePort"
    BY <1>0, <2>1 DEF Goto
  <2>3. ASSUME NEW p \in Pids, ssh[p] = "connecting" PROVE FALSE
    <3>1. pid[x] = p /\ listener[plan[p].port] = 0
      BY <2>1, <2>3 DEF AInv, OneAtATime, Connecting
    <3>2. plan[p].port = port[x]
      BY <1>0, <2>1, <3>1 DEF Stage, Pending, Starting, Identifies
    <3> QED
      BY <2>1, <3>1, <3>2
  <2>4. Starting(x) /\ Starting(x)'
    BY <2>1, <2>2 DEF Pending, Starting
  <2>5. Stage(x)'
    BY <1>0, <2>1, <2>2, <2>4 DEF Stage, Pending, Clear, Held, Live, Identifies, LostFor
  <2> QED
    BY <2>1, <2>3, <2>4, <2>5, WalkStep DEF Outside, fileVars, sshVars
<1>5. ASSUME NEW k, NEW r, NEW l \in {"pidOf", "creds", "idle"},
             BeginSave(x, k, r, l), pc[x] \in {"savePort", "saveName", "delete"},
             l = "pidOf" => k = port[x] /\ r = Own(x),
             l = "creds" => k = name[x] /\ r = Own(x),
             l = "idle"  => k = name[x] /\ r = NoRecord,
             pc[x] = "savePort" <=> l = "pidOf", pc[x] = "delete" <=> l = "idle"
      PROVE  AInv'
  <2>1. /\ pc'[x] = "truncate" /\ ret'[x] = l /\ view'[x] = [recs EXCEPT ![k] = r]
        /\ UNCHANGED <<recs, file, ssh, plan, listener, lost, name, port, pid>>
    BY <1>0, <1>5 DEF BeginSave, Goto, fileVars, sshVars, histVars
  <2>2. ViewOf(x)'
    BY <1>5, <2>1 DEF ViewOf, Own
  <2>3. /\ Pending(x)' <=> Pending(x)
        /\ Starting(x)' <=> Starting(x)
        /\ Clear(x)' <=> Clear(x)
    BY <1>5, <2>1 DEF Pending, Starting, Clear
  <2>4. Stage(x)'
    BY <1>0, <2>1, <2>2, <2>3 DEF Stage, Held, Live, Identifies, LostFor
  <2>5. Goto(x, "truncate") /\ UNCHANGED <<fileVars, sshVars>>
    BY <1>5 DEF BeginSave
  <2> QED
    BY <1>5, <2>1, <2>3, <2>4, <2>5, WalkStep DEF Outside
<1>6. CASE SavePort(x)
  <2>1. pc[x] = "savePort"
    BY <1>6 DEF SavePort
  <2>2. BeginSave(x, port[x], Own(x), "pidOf") \/ SaveFails(x)
    BY <1>6 DEF SavePort, Own
  <2> QED
    BY <1>5, <2>1, <2>2, FailsAlone
<1>7. CASE PidOf(x)
  <2>1. /\ pc[x] = "pidOf" /\ Goto(x, "saveName") /\ Starting(x) /\ pid[x] # 0
        /\ UNCHANGED <<recs, file, ssh, plan, listener, name, port, ret>>
    BY <1>0, <1>7 DEF PidOf, Stage, Pending, Starting, fileVars, sshVars
  <2>2. pc'[x] = "saveName" /\ Starting(x)'
    BY <1>0, <2>1 DEF Goto, Starting
  <2>3. /\ pid[x] \in Pids /\ ssh[pid[x]] # "unborn"
        /\ plan[pid[x]] = [port |-> port[x], name |-> name[x]]
    BY <2>1, OwnStarted
  <2>4. CASE pid' = [pid EXCEPT ![x] = recs[port[x]].pid] /\ lost' = lost
    <3>1. recs[port[x]] = Own(x)
      BY <1>0, <2>1 DEF Stage
    <3>2. pid'[x] = pid[x]
      BY <1>0, <2>4, <3>1 DEF Own
    <3>3. Stage(x)'
      BY <1>0, <2>1, <2>2, <2>4, <3>2
      DEF Stage, Pending, Clear, Held, Live, Identifies, LostFor
    <3> QED
      BY <2>1, <2>2, <2>4, <3>2, <3>3, WalkStep DEF Outside, fileVars, sshVars
  <2>5. CASE pid' = [pid EXCEPT ![x] = 0] /\ Loses(x)
    <3>1. pid'[x] = 0 /\ lost' = lost \cup {pid[x]}
      BY <1>0, <2>1, <2>5 DEF Loses
    <3>2. LostFor(port[x], name[x])'
      BY <2>1, <2>3, <3>1 DEF LostFor
    <3>3. \A p \in Pids : Held(p)' => plan[p].name # name[x]
      BY <1>0, <2>1, <3>1 DEF Stage, Held, Live
    <3>4. Stage(x)'
      BY <2>1, <2>2, <3>1, <3>2, <3>3 DEF Stage, Pending, Clear, Identifies, LostFor
    <3> QED
      BY <2>1, <2>3, <3>1, <3>4, WalkStep DEF Outside, fileVars, sshVars
  <2> QED
    BY <1>7, <2>4, <2>5 DEF PidOf
<1>8. CASE SaveName(x)
  <2>1. pc[x] = "saveName"
    BY <1>8 DEF SaveName
  <2>2. BeginSave(x, name[x], Own(x), "creds") \/ SaveFails(x)
    BY <1>8 DEF SaveName, Own
  <2> QED
    BY <1>5, <2>1, <2>2, FailsAlone
<1>9. CASE Credentials(x)
  <2>1. /\ pc[x] = "creds"
        /\ UNCHANGED <<recs, file, ssh, plan, listener, lost, name, port, pid, ret>>
    BY <1>9 DEF Credentials, fileVars, sshVars, histVars, locals
  <2>2. PICK l \in {"mount", "idle"} : Goto(x, l)
    BY <1>9 DEF Credentials
  <2>3. pc'[x] = l
    BY <1>0, <2>2 DEF Goto
  <2>4. Stage(x)'
    BY <1>0, <2>1, <2>2, <2>3 DEF Stage, Pending, Starting, Clear, Known
  <2> QED
    BY <2>1, <2>2, <2>4, WalkStep DEF Pending, Starting, Outside, fileVars, sshVars
<1>10. CASE MountCommand(x)
  <2>1. pc[x] = "mount" /\ UNCHANGED <<recs, file, ssh, plan, listener, lost>>
    BY <1>10 DEF MountCommand, fileVars, sshVars, histVars
  <2>2. PICK l \in {"teardown", "idle"} : Goto(x, l)
    BY <1>10 DEF MountCommand
  <2>3. pc'[x] = l
    BY <1>0, <2>2 DEF Goto
  <2>4. Stage(x)'
    BY <2>2, <2>3 DEF Stage, Pending, Starting, Clear
  <2> QED
    BY <2>1, <2>2, <2>4, WalkStep DEF Pending, Starting, Outside, fileVars, sshVars
<1>11. CASE UnmountCommand(x)
  <2>1. pc[x] = "umount" /\ UNCHANGED <<recs, file, ssh, plan, listener, lost>>
    BY <1>11 DEF UnmountCommand, fileVars, sshVars, histVars
  <2>2. PICK l \in {"teardown", "idle"} : Goto(x, l)
    BY <1>11 DEF UnmountCommand
  <2>3. pc'[x] = l
    BY <1>0, <2>2 DEF Goto
  <2>4. Stage(x)'
    BY <2>2, <2>3 DEF Stage, Pending, Starting, Clear
  <2> QED
    BY <2>1, <2>2, <2>4, WalkStep DEF Pending, Starting, Outside, fileVars, sshVars
<1>12. CASE Delete(x)
  <2>1. pc[x] = "delete"
    BY <1>12 DEF Delete
  <2>2. BeginSave(x, name[x], NoRecord, "idle") \/ AccessFails(x)
    BY <1>12 DEF Delete
  <2> QED
    BY <1>5, <2>1, <2>2, FailsAlone
<1>13. CASE Lookup(x) /\ AccessFails(x)
  BY <1>13, FailsAlone DEF Lookup
<1> QED
  BY <1>1, <1>2, <1>3, <1>4, <1>6, <1>7, <1>8, <1>9, <1>10, <1>11, <1>12, <1>13

(* An ssh is told to end, by its command or by the one that ends another:  *)
(* no other lives for the entry but a lost one (tunnel.go:48-50, 99-106,   *)
(* 139-153).                                                               *)
LEMMA KillAlone ==
  ASSUME TInv, AInv, NEW x \in Procs, pc[x] \in {"wait", "teardown", "killPort"},
         file = "ok", NEW q \in Pids \cup {0}, Kill({q}),
         NEW l \in {"idle", "delete"}, Goto(x, l),
         UNCHANGED <<fileVars, plan, listener, lost, name, pid, ret>>,
         pc[x] = "wait" => pid[x] = q,
         \A p \in Pids : Held(p) /\ plan[p].name = name[x] => p = q
  PROVE  AInv'
<1>1. /\ pc'[x] = l
      /\ \A y \in Procs : y # x => pc[y] = "idle" /\ pc'[y] = "idle"
  BY Readable DEF Goto, TInv, TypeOK
<1>2. \A p \in Pids : /\ ssh'[p] = IF p \in {q} /\ Live(p) THEN "dying" ELSE ssh[p]
                      /\ Held(p)' <=> Held(p) /\ p # q
  BY DEF Kill, Live, Held
<1>3. UNCHANGED <<recs, file, plan, listener>>
  BY DEF fileVars
<1>4. OneAtATime' /\ FileWhole'
  BY <1>1, <1>3 DEF OneAtATime, FileWhole
<1>5. RecordsOwn'
  BY <1>3 DEF AInv, RecordsOwn, Known, Identifies, LostFor
<1>6. Fresh' /\ Serving'
  BY <1>2, <1>3 DEF AInv, Fresh, Serving, Live
<1>7. \A p \in Pids : ssh'[p] # "connecting"
  BY <1>1, <1>2 DEF AInv, Connecting, Live
<1>8. Connecting'
  BY <1>7 DEF Connecting
<1>9. Recorded'
  <2> SUFFICES ASSUME NEW p \in Pids, Held(p)'
               PROVE  Known(plan[p].name)' /\ recs'[plan'[p].name].pid = p
    BY DEF Recorded
  <2>1. Held(p) /\ p # q
    BY <1>2
  <2>2. \A y \in Procs : Starting(y) => pid[y] # p
    BY <1>1, <2>1 DEF Pending, Starting
  <2> QED
    BY <1>3, <2>1, <2>2 DEF AInv, Recorded, Known
<1>10. Stage(x)'
  <2>1. CASE l = "idle"
    BY <1>1, <2>1, IdleStage
  <2>2. CASE l = "delete"
    BY <1>1, <1>2, <1>3, <2>2 DEF Stage, Pending, Starting, Clear
  <2> QED
    BY <2>1, <2>2
<1>11. \A y \in Procs : Stage(y)'
  BY <1>1, <1>10, IdleStage
<1> QED
  BY <1>4, <1>5, <1>6, <1>8, <1>9, <1>11 DEF AInv

(* A command that ends an ssh, or finds that there is none to end, or that *)
(* only the port may tell which (tunnel.go:48-50, 92-106, 139-153).        *)
LEMMA EndingAlone ==
  ASSUME TInv, AInv, NEW x \in Procs, WaitExpires(x) \/ Teardown(x) \/ KillPort(x)
  PROVE  AInv'
<1>0. name[x] \in Names /\ Stage(x) /\ RecordsOwn
  BY DEF TInv, TypeOK, AInv
<1>1. CASE WaitExpires(x)
  <2>1. pc[x] = "wait" /\ file = "ok"
    BY <1>1, Readable DEF WaitExpires, TInv, TypeOK, Outside
  <2>2. /\ pid[x] \in Pids
        /\ \A p \in Pids : Held(p) /\ plan[p].name = name[x] => p = pid[x]
    BY <1>0, <2>1, OwnStarted DEF Stage, Pending, Starting
  <2> QED
    BY <1>1, <2>1, <2>2, KillAlone DEF WaitExpires, locals, histVars
<1>2. CASE Teardown(x) /\ AccessFails(x)
  BY <1>2, FailsAlone DEF Teardown
<1>3. CASE Teardown(x) /\ ~AccessFails(x)
  <2>1. pc[x] = "teardown" /\ file = "ok" /\ ~Starting(x)
    BY <1>3 DEF Teardown, Pending, Starting
  <2>2. \A p \in Pids : Held(p) => Known(plan[p].name) /\ recs[plan[p].name].pid = p
    BY <2>1, LiveRecorded
  <2>3. CASE ~Known(name[x])
    <3>1. Goto(x, "idle") /\ UNCHANGED <<fileVars, sshVars, lost>>
      BY <1>3, <2>1, <2>3 DEF Teardown, histVars
    <3>2. pc'[x] = "idle"
      BY <3>1 DEF Goto, TInv, TypeOK
    <3> QED
      BY <2>1, <3>1, <3>2, IdleStage, WalkStep DEF Outside
  <2>4. CASE Known(name[x]) /\ recs[name[x]].pid # 0
    <3>1. recs[name[x]].pid \in Pids
      BY <1>0, <2>4, RecordTyped DEF TInv, Keys
    <3>2. \A p \in Pids : Held(p) /\ plan[p].name = name[x] => p = recs[name[x]].pid
      BY <2>2
    <3>3. /\ Kill({recs[name[x]].pid}) /\ Goto(x, "delete")
          /\ UNCHANGED <<fileVars, plan, listener, lost, name, pid, ret>>
      BY <1>3, <2>1, <2>4 DEF Teardown, locals, histVars
    <3> QED
      BY <2>1, <3>1, <3>2, <3>3, KillAlone
  <2>5. CASE Known(name[x]) /\ recs[name[x]].pid = 0
    <3>1. /\ port' = [port EXCEPT ![x] = recs[name[x]].port] /\ Goto(x, "killPort")
          /\ UNCHANGED <<fileVars, sshVars, lost, name, pid, ret>>
      BY <1>3, <2>1, <2>5 DEF Teardown, histVars
    <3>2. pc'[x] = "killPort" /\ port'[x] = recs[name[x]].port
      BY <3>1 DEF Goto, TInv, TypeOK
    <3>3. \A p \in Pids : Held(p) => plan[p].name # name[x]
      BY <2>2, <2>5, PidsAreNat
    <3>4. LostFor(recs[name[x]].port, name[x])
      BY <1>0, <2>5 DEF RecordsOwn, Identifies
    <3>5. Stage(x)'
      BY <3>1, <3>2, <3>3, <3>4
      DEF Stage, Pending, Starting, Clear, Held, Live, LostFor, sshVars
    <3> QED
      BY <2>1, <3>1, <3>5, WalkStep DEF Outside
  <2> QED
    BY <2>3, <2>4, <2>5
<1>4. CASE KillPort(x)
  <2>1. pc[x] = "killPort" /\ file = "ok" /\ port[x] \in Ports
    BY <1>4, Readable DEF KillPort, TInv, TypeOK, LocalsInv, PortGiven, Outside
  <2>2. \A p \in Pids : Held(p) => plan[p].name # name[x]
    BY <1>0, <2>1 DEF Stage, Clear
  <2>3. PICK q \in {0, listener[port[x]]}
                     \cup (IF file = "ok" /\ Known(port[x]) THEN {recs[port[x]].pid} ELSE {}) :
               Kill({q})
    BY <1>4 DEF KillPort
  <2>4. q \in Pids \cup {0}
    <3>1. Known(port[x]) => recs[port[x]].pid \in Pids \cup {0}
      BY <2>1, RecordTyped DEF TInv, Keys
    <3> QED
      BY <2>1, <2>3, <3>1 DEF TInv, TypeOK
  <2> QED
    BY <1>4, <2>1, <2>2, <2>3, <2>4, KillAlone DEF KillPort, locals, histVars
<1> QED
  BY <1>1, <1>2, <1>3, <1>4

(* A new ssh is the first for its entry and its port (tunnel.go:30-47).    *)
LEMMA SpawnAlone ==
  ASSUME TInv, AInv, NEW x \in Procs, Spawn(x)
  PROVE  AInv'
<1>1. PICK q \in Pids :
        /\ ssh[q] = "unborn" /\ ssh' = [ssh EXCEPT ![q] = "connecting"]
        /\ plan' = [plan EXCEPT ![q] = [port |-> port[x], name |-> name[x]]]
        /\ pid' = [pid EXCEPT ![x] = q]
  BY DEF Spawn
<1>2. /\ pc[x] = "spawn" /\ Goto(x, "wait")
      /\ UNCHANGED <<recs, file, listener, lost, name, port, ret>>
  BY DEF Spawn, fileVars, histVars
<1>3. /\ pc'[x] = "wait" /\ pid'[x] = q
      /\ \A y \in Procs : y # x => pc[y] = "idle" /\ pc'[y] = "idle"
  BY <1>1, <1>2, Readable DEF Goto, TInv, TypeOK
<1>4. /\ ssh'[q] = "connecting" /\ plan'[q] = [port |-> port[x], name |-> name[x]]
      /\ \A p \in Pids : p # q => ssh'[p] = ssh[p] /\ plan'[p] = plan[p]
  BY <1>1 DEF TInv, TypeOK
<1>5. file = "ok" /\ q # 0 /\ plan[q] = NoPlan /\ q \notin lost
  BY <1>1, <1>2, Readable, PidsAreNat DEF AInv, Fresh, TInv, TypeOK, Outside
<1>6. OneAtATime' /\ FileWhole'
  BY <1>2, <1>3, <1>5 DEF OneAtATime, FileWhole
<1>7. RecordsOwn'
  <2> SUFFICES ASSUME NEW n \in Names, Known(n)
               PROVE  Identifies(recs[n].port, n, recs[n].pid)'
    BY <1>2 DEF RecordsOwn, Known, Identifies, LostFor
  <2>1. Identifies(recs[n].port, n, recs[n].pid)
    BY DEF AInv, RecordsOwn
  <2>2. recs[n].port \in Ports /\ recs[n].pid \in Pids \cup {0}
    BY RecordTyped DEF TInv, Keys
  <2>3. [port |-> recs[n].port, name |-> n] # NoPlan
    BY <2>2, NoPlanIsNone
  <2>4. CASE recs[n].pid # 0
    BY <1>2, <1>4, <1>5, <2>1, <2>2, <2>3, <2>4 DEF Identifies
  <2>5. CASE recs[n].pid = 0
    <3>1. PICK o \in lost : plan[o] = [port |-> recs[n].port, name |-> n]
      BY <2>1, <2>5 DEF Identifies, LostFor
    <3>2. o \in Pids /\ o # q
      BY <1>5 DEF TInv, TypeOK
    <3> QED
      BY <1>2, <1>4, <2>5, <3>1, <3>2 DEF Identifies, LostFor
  <2> QED
    BY <2>4, <2>5
<1>8. Fresh'
  BY <1>2, <1>4 DEF AInv, Fresh
<1>9. Serving'
  BY <1>2, <1>4 DEF AInv, Serving
<1>10. Connecting'
  <2>1. listener[port[x]] = 0
    BY <1>2 DEF AInv, Stage
  <2>2. \A p \in Pids : ssh[p] # "connecting"
    BY <1>2, NoneConnects
  <2> QED
    BY <1>2, <1>3, <1>4, <2>1, <2>2 DEF Connecting
<1>11. Recorded'
  <2>1. Starting(x)'
    BY <1>3 DEF Pending, Starting
  <2>2. ASSUME NEW p \in Pids, Held(p)', p # q
        PROVE  Known(plan[p].name)' /\ recs'[plan[p].name].pid = p
    BY <1>2, <1>4, <2>2, LiveRecorded DEF Held, Live, Pending, Starting, Known
  <2> QED
    BY <1>3, <1>4, <2>1, <2>2 DEF Recorded
<1>12. Stage(x)'
  <2>1. \A p \in Pids : Held(p) => plan[p].name # name[x]
    BY <1>2 DEF AInv, Stage, Clear
  <2>2. \A p \in Pids : Held(p)' /\ plan'[p].name = name[x] => p = q
    BY <1>2, <1>4, <2>1 DEF Held, Live
  <2> QED
    BY <1>2, <1>3, <1>4, <1>5, <2>2 DEF Stage, Pending, Clear, Starting, Identifies
<1>13. \A y \in Procs : Stage(y)'
  BY <1>3, <1>12, IdleStage
<1> QED
  BY <1>6, <1>7, <1>8, <1>9, <1>10, <1>11, <1>13 DEF AInv

(* The two steps of writing the file (state.go:62-74, os.WriteFile).       *)
LEMMA TruncateAlone ==
  ASSUME TInv, AInv, NEW x \in Procs, Truncate(x)
  PROVE  AInv'
<1>1. /\ pc[x] = "truncate" /\ file' = "torn" /\ pc' = [pc EXCEPT ![x] = "write"]
      /\ UNCHANGED <<recs, ssh, plan, listener, lost, name, port, pid, view, ret>>
      /\ pc \in [Procs -> PCs]
  BY DEF Truncate, Goto, sshVars, histVars, locals, TInv, TypeOK
<1>2. /\ pc'[x] = "write"
      /\ \A y \in Procs : y # x => pc[y] = "idle" /\ pc'[y] = "idle"
  BY <1>1, Readable
<1>3. OneAtATime' /\ FileWhole'
  BY <1>1, <1>2 DEF OneAtATime, FileWhole
<1>4. RecordsOwn' /\ Fresh' /\ Serving'
  BY <1>1 DEF AInv, RecordsOwn, Fresh, Serving, Known, Identifies, LostFor
<1>5. Connecting'
  BY <1>1, NoneConnects DEF Connecting
<1>6. \A y \in Procs : /\ Pending(y)' <=> Pending(y)
                       /\ Starting(y)' <=> Starting(y)
  BY <1>1, <1>2 DEF Pending, Starting
<1>7. Recorded'
  BY <1>1, <1>6 DEF AInv, Recorded, Held, Live, Known
<1>8. Stage(x)'
  <2>1. Clear(x)' <=> Clear(x)
    BY <1>1, <1>2 DEF Clear
  <2>2. Stage(x) /\ ViewOf(x)
    BY <1>1 DEF AInv, Stage
  <2> QED
    BY <1>1, <1>2, <1>6, <2>1, <2>2
    DEF Stage, ViewOf, Own, Held, Live, Identifies, LostFor
<1> QED
  BY <1>2, <1>3, <1>4, <1>5, <1>7, <1>8, IdleStage DEF AInv

(* What a command has written: each entry's record names an ssh of its     *)
(* own, and each ssh is on record but the one that it just started.        *)
LEMMA RecordsWritten ==
  ASSUME TInv, AInv, NEW x \in Procs, pc[x] = "write", recs' = view[x],
         UNCHANGED <<ssh, plan, name>>, lost \subseteq lost'
  PROVE  /\ RecordsOwn'
         /\ \A p \in Pids : Held(p)' =>
              \/ Known(plan[p].name)' /\ recs'[plan[p].name].pid = p
              \/ ret[x] = "pidOf" /\ pid[x] = p
         /\ ret[x] = "pidOf" => recs'[port[x]] = Own(x)
         /\ ret[x] = "creds" => Known(name[x])' /\ recs'[name[x]].port = port[x]
<1>1. /\ name[x] \in Names /\ recs \in [Keys -> Record \cup {NoRecord}]
      /\ ret[x] \in {"idle", "pidOf", "creds"}
      /\ Names \subseteq Keys /\ Ports \subseteq Keys
  BY DEF TInv, TypeOK, LocalsInv, Contents, Keys
<1>2. Stage(x) /\ ViewOf(x) /\ RecordsOwn
  BY DEF AInv, Stage
<1>3. \A p \in Pids : Held(p)' => Held(p) /\ plan[p].name \in Names
  BY DEF Held, Live, TInv, TypeOK, SshInv
<1>4. \A y \in Procs : y # x => pc[y] = "idle"
  BY DEF AInv, OneAtATime
<1>5. ret[x] \in {"pidOf", "creds"} =>
        /\ Starting(x) /\ port[x] \in Ports /\ Own(x) \in Record /\ Own(x) # NoRecord
        /\ Identifies(port[x], name[x], pid[x])
        /\ \A p \in Pids : Held(p) /\ plan[p].name = name[x] => p = pid[x]
  <2> SUFFICES ASSUME ret[x] \in {"pidOf", "creds"}
               PROVE  /\ Starting(x) /\ port[x] \in Ports
                      /\ Own(x) \in Record /\ Own(x) # NoRecord
                      /\ Identifies(port[x], name[x], pid[x])
                      /\ \A p \in Pids : Held(p) /\ plan[p].name = name[x] => p = pid[x]
    OBVIOUS
  <2>1. Starting(x) /\ port[x] \in Ports /\ pid[x] \in Pids \cup {0}
    BY <1>1 DEF Pending, Starting, TInv, TypeOK, LocalsInv, PortGiven
  <2>2. Own(x) \in Record /\ Own(x) # NoRecord
    BY <2>1, NoRecordIsNone DEF Own, Record
  <2> QED
    BY <1>2, <2>1, <2>2 DEF Stage
<1>6. CASE ret[x] = "pidOf"
  <2>1. /\ recs'[port[x]] = Own(x)
        /\ \A n \in Names : recs'[n] = recs[n]
    BY <1>1, <1>2, <1>5, <1>6, NamesAreNoPorts DEF ViewOf
  <2>2. RecordsOwn'
    BY <1>2, <2>1, IdentifiesKept DEF RecordsOwn, Known
  <2>3. ASSUME NEW p \in Pids, Held(p)'
        PROVE  \/ Known(plan[p].name)' /\ recs'[plan[p].name].pid = p
               \/ pid[x] = p
    BY <1>3, <1>4, <2>1, <2>3 DEF AInv, Recorded, Known, Pending, Starting
  <2> QED
    BY <1>6, <2>1, <2>2, <2>3
<1>7. CASE ret[x] = "creds"
  <2>1. /\ recs'[name[x]] = Own(x)
        /\ \A n \in Names : n # name[x] => recs'[n] = recs[n]
    BY <1>1, <1>2, <1>7 DEF ViewOf
  <2>2. Known(name[x])' /\ recs'[name[x]].port = port[x] /\ recs'[name[x]].pid = pid[x]
    BY <1>5, <1>7, <2>1 DEF Known, Own
  <2>3. RecordsOwn'
    <3> SUFFICES ASSUME NEW n \in Names, Known(n)'
                 PROVE  Identifies(recs[n].port, n, recs[n].pid)'
      BY DEF RecordsOwn
    <3>1. CASE n = name[x]
      <4>1. Identifies(port[x], name[x], pid[x])
        BY <1>5, <1>7
      <4> QED
        BY <2>1, <3>1, <4>1 DEF Identifies, LostFor, Own
    <3>2. CASE n # name[x]
      <4>1. Identifies(recs[n].port, n, recs[n].pid)
        BY <1>2, <2>1, <3>2 DEF RecordsOwn, Known
      <4> QED
        BY <2>1, <3>2, <4>1 DEF Identifies, LostFor
    <3> QED
      BY <3>1, <3>2
  <2>4. ASSUME NEW p \in Pids, Held(p)'
        PROVE  Known(plan[p].name)' /\ recs'[plan[p].name].pid = p
    <3>1. CASE plan[p].name = name[x]
      BY <1>3, <1>5, <1>7, <2>2, <2>4, <3>1
    <3>2. CASE plan[p].name # name[x]
      <4>1. p # pid[x]
        BY <1>5, <1>7, <2>4, <3>2, PidsAreNat DEF Identifies
      <4>2. Known(plan[p].name) /\ recs[plan[p].name].pid = p
        BY <1>3, <1>4, <2>4, <4>1 DEF AInv, Recorded, Pending, Starting
      <4> QED
        BY <1>3, <2>1, <2>4, <3>2, <4>2 DEF Known
    <3> QED
      BY <3>1, <3>2
  <2> QED
    BY <1>7, <2>2, <2>3, <2>4
<1>8. CASE ret[x] = "idle"
  <2>1. /\ recs'[name[x]] = NoRecord
        /\ \A n \in Names : n # name[x] => recs'[n] = recs[n]
    BY <1>1, <1>2, <1>8 DEF ViewOf
  <2>2. RecordsOwn'
    <3> SUFFICES ASSUME NEW n \in Names, Known(n)'
                 PROVE  Identifies(recs[n].port, n, recs[n].pid)' /\ recs'[n] = recs[n]
      BY DEF RecordsOwn, Identifies, LostFor
    <3>1. n # name[x] /\ recs'[n] = recs[n]
      BY <2>1 DEF Known
    <3>2. Identifies(recs[n].port, n, recs[n].pid)
      BY <1>2, <3>1 DEF RecordsOwn, Known
    <3> QED
      BY <3>1, <3>2 DEF Identifies, LostFor
  <2>3. ~Starting(x) /\ Clear(x)
    BY <1>8 DEF Pending, Starting, Clear
  <2>4. ASSUME NEW p \in Pids, Held(p)'
        PROVE  Known(plan[p].name)' /\ recs'[plan[p].name].pid = p
    <3>1. plan[p].name # name[x]
      BY <1>2, <1>3, <2>3, <2>4 DEF Stage
    <3>2. Known(plan[p].name) /\ recs[plan[p].name].pid = p
      BY <1>3, <2>3, <2>4, LiveRecorded
    <3> QED
      BY <1>3, <2>1, <2>4, <3>1, <3>2 DEF Known
  <2> QED
    BY <1>8, <2>2, <2>4
<1> QED
  BY <1>1, <1>6, <1>7, <1>8

LEMMA WriteAlone ==
  ASSUME TInv, AInv, NEW x \in Procs, Write(x) \/ WriteFails(x)
  PROVE  AInv'
<1>1. /\ pc[x] = "write" /\ recs' = view[x]
      /\ UNCHANGED <<ssh, plan, listener, name, port, pid, ret>>
      /\ pc \in [Procs -> PCs] /\ ret[x] \in {"idle", "pidOf", "creds"}
  BY DEF Write, WriteFails, Goto, sshVars, locals, TInv, TypeOK, LocalsInv
<1>2. PICK l \in {"idle", "pidOf", "creds"} : Goto(x, l)
  BY <1>1 DEF Write, WriteFails
<1>3. /\ pc'[x] = l
      /\ \A y \in Procs : y # x => pc[y] = "idle" /\ pc'[y] = "idle"
  BY <1>1, <1>2 DEF AInv, OneAtATime, Goto
<1>4. /\ file' # "torn" /\ (file' = "corrupt" => l = "idle")
      /\ lost \subseteq lost' /\ lost' \subseteq lost \cup ({pid[x]} \ {0})
      /\ l # ret[x] => l = "idle" /\ pid[x] \in lost' \cup {0}
      /\ l = ret[x] \/ ret[x] # "idle"
      /\ lost' # lost => ret[x] # "idle"
  <2>1. CASE Write(x)
    <3>1. file = "torn"
      BY <1>1 DEF AInv, FileWhole
    <3>2. pc'[x] = ret[x]
      BY <1>1, <2>1 DEF Write, Goto
    <3> QED
      BY <1>3, <2>1, <3>1, <3>2 DEF Write, histVars
  <2>2. CASE WriteFails(x)
    <3>1. pc'[x] = "idle"
      BY <1>1, <2>2 DEF WriteFails, Goto
    <3> QED
      BY <1>1, <1>3, <2>2, <3>1 DEF WriteFails, Loses
  <2> QED
    BY <2>1, <2>2
<1>5. Stage(x)
  BY DEF AInv
<1>6. OneAtATime' /\ FileWhole'
  BY <1>3, <1>4 DEF OneAtATime, FileWhole, Outside
<1>7. Fresh'
  <2>1. lost' # lost => Starting(x)
    BY <1>1, <1>4 DEF Pending, Starting
  <2> QED
    BY <1>1, <1>4, <2>1, OwnStarted DEF AInv, Fresh
<1>8. Serving'
  BY <1>1 DEF AInv, Serving
<1>9. Connecting'
  BY <1>1, NoneConnects DEF Connecting
<1>10. /\ RecordsOwn'
       /\ \A p \in Pids : Held(p)' =>
            \/ Known(plan[p].name)' /\ recs'[plan[p].name].pid = p
            \/ ret[x] = "pidOf" /\ pid[x] = p
       /\ ret[x] = "pidOf" => recs'[port[x]] = Own(x)
       /\ ret[x] = "creds" => Known(name[x])' /\ recs'[name[x]].port = port[x]
  BY <1>1, <1>4, RecordsWritten
<1>11. Recorded'
  <2> SUFFICES ASSUME NEW p \in Pids, Held(p)', ret[x] = "pidOf", pid[x] = p
               PROVE  \E y \in Procs : Starting(y)' /\ pid'[y] = p
    BY <1>1, <1>10 DEF Recorded, Known
  <2>1. l = "pidOf"
    BY <1>4, PidsAreNat DEF Held
  <2> QED
    BY <1>1, <1>3, <2>1 DEF Pending, Starting
<1>12. Stage(x)'
  <2>1. CASE l = "idle"
    BY <1>3, <2>1, IdleStage
  <2>2. CASE l = "creds"
    BY <1>1, <1>3, <1>4, <1>10, <2>2 DEF Stage, Pending, Starting, Clear, Known
  <2>3. CASE l = "pidOf"
    <3>1. ret[x] = "pidOf" /\ Pending(x) /\ Starting(x)
      BY <1>1, <1>4, <2>3 DEF Pending, Starting
    <3>2. pid[x] # 0 /\ Identifies(port[x], name[x], pid[x])
      BY <1>5, <3>1 DEF Stage
    <3>3. \A p \in Pids : Held(p)' /\ plan[p].name = name[x] => p = pid[x]
      BY <1>1, <1>4, <1>5, <3>1 DEF Stage, Held, Live
    <3> QED
      BY <1>1, <1>3, <1>10, <2>3, <3>1, <3>2, <3>3
      DEF Stage, Pending, Starting, Clear, Own, Identifies
  <2> QED
    BY <2>1, <2>2, <2>3
<1> QED
  BY <1>3, <1>6, <1>7, <1>8, <1>9, <1>10, <1>11, <1>12, IdleStage DEF AInv

(* What remains when only ssh processes do a step and none comes to life.  *)
LEMMA RecordedKept ==
  ASSUME Recorded, UNCHANGED <<recs, plan, lost, pc, pid, ret>>,
         \A p \in Pids : ssh'[p] \in {"connecting", "running"} =>
                           ssh[p] \in {"connecting", "running"}
  PROVE  Recorded'
<1> SUFFICES ASSUME NEW p \in Pids, Held(p)'
             PROVE  \/ Known(plan[p].name)' /\ recs'[plan'[p].name].pid = p
                    \/ \E x \in Procs : Starting(x)' /\ pid'[x] = p
  BY DEF Recorded
<1>1. \A x \in Procs : Starting(x)' <=> Starting(x)
  BY DEF Pending, Starting
<1>2. Held(p)
  BY DEF Held, Live
<1>3. CASE Known(plan[p].name) /\ recs[plan[p].name].pid = p
  BY <1>3 DEF Known
<1>4. CASE \E x \in Procs : Starting(x) /\ pid[x] = p
  BY <1>1, <1>4
<1> QED
  BY <1>2, <1>3, <1>4 DEF Recorded

LEMMA StageKept ==
  ASSUME NEW x \in Procs, Stage(x),
         UNCHANGED <<recs, plan, lost, pc, name, port, pid, view, ret>>,
         pc[x] = "spawn" => listener'[port[x]] = 0,
         \A p \in Pids : ssh'[p] \in {"connecting", "running"} =>
                           ssh[p] \in {"connecting", "running"}
  PROVE  Stage(x)'
<1>1. /\ Pending(x)' <=> Pending(x)
      /\ Starting(x)' <=> Starting(x)
      /\ Clear(x)' <=> Clear(x)
      /\ ViewOf(x)' <=> ViewOf(x)
      /\ Own(x)' = Own(x)
      /\ Known(name[x])' <=> Known(name[x])
  BY DEF Pending, Starting, Clear, ViewOf, Own, Known
<1>2. \A p \in Pids : Held(p)' => Held(p)
  BY DEF Held, Live
<1> QED
  BY <1>1, <1>2 DEF Stage, Identifies, LostFor

(* An ssh that connects is the one that the running command waits for.     *)
LEMMA ConnectsAlone ==
  ASSUME TInv, AInv, NEW q \in Pids, SshConnects(q)
  PROVE  AInv'
<1>1. /\ ssh[q] = "connecting" /\ ssh' = [ssh EXCEPT ![q] = "running"]
      /\ listener' = [listener EXCEPT ![plan[q].port] = IF @ = 0 THEN q ELSE @]
      /\ UNCHANGED <<recs, file, plan, lost, pc, name, port, pid, view, ret>>
  BY DEF SshConnects, fileVars, histVars, locals
<1>2. listener[plan[q].port] = 0 /\ plan[q].port \in Ports
  BY <1>1 DEF AInv, Connecting, TInv, TypeOK, SshInv
<1>3. /\ listener'[plan[q].port] = q
      /\ \A o \in Ports : o # plan[q].port => listener'[o] = listener[o]
  BY <1>1, <1>2 DEF TInv, TypeOK
<1>4. ssh'[q] = "running" /\ \A p \in Pids : p # q => ssh'[p] = ssh[p]
  BY <1>1 DEF TInv, TypeOK
<1>5. OneAtATime' /\ FileWhole' /\ RecordsOwn'
  BY <1>1 DEF AInv, OneAtATime, FileWhole, RecordsOwn, Known, Identifies, LostFor
<1>6. Fresh'
  BY <1>1, <1>4 DEF AInv, Fresh
<1>7. Serving'
  <2> SUFFICES ASSUME NEW p \in Pids, ssh'[p] = "running"
               PROVE  listener'[plan[p].port] = p
    BY <1>1 DEF Serving
  <2>1. CASE p # q
    <3>1. Serving /\ ssh[p] = "running"
      BY <1>4, <2>1 DEF AInv
    <3>2. listener[plan[p].port] = p /\ p # 0
      BY <3>1, PidsAreNat DEF Serving
    <3>3. plan[p].port # plan[q].port /\ plan[p].port \in Ports
      BY <1>2, <3>1, <3>2 DEF TInv, TypeOK, SshInv
    <3> QED
      BY <1>3, <3>2, <3>3
  <2> QED
    BY <1>3, <2>1
<1>8. PICK x \in Procs : pc[x] = "wait" /\ pid[x] = q
  BY <1>1 DEF AInv, Connecting
<1>9. ASSUME NEW p \in Pids, ssh'[p] = "connecting" PROVE FALSE
  <2>1. p # q /\ ssh[p] = "connecting"
    BY <1>4, <1>9
  <2>2. PICK y \in Procs : pc[y] = "wait" /\ pid[y] = p
    BY <2>1 DEF AInv, Connecting
  <2> QED
    BY <1>8, <2>1, <2>2 DEF AInv, OneAtATime
<1>10. Connecting'
  BY <1>9 DEF Connecting
<1>11. Recorded'
  BY <1>1, <1>4, RecordedKept DEF AInv
<1>12. ASSUME NEW y \in Procs PROVE Stage(y)'
  <2>1. pc[y] # "spawn"
    BY <1>8 DEF AInv, OneAtATime
  <2> QED
    BY <1>1, <1>4, <2>1, StageKept DEF AInv
<1> QED
  BY <1>5, <1>6, <1>7, <1>10, <1>11, <1>12 DEF AInv

LEMMA EndsAlone ==
  ASSUME TInv, AInv, NEW q \in Pids, SshEnds(q)
  PROVE  AInv'
<1>1. /\ ssh' = [ssh EXCEPT ![q] = "dead"] /\ ssh[q] # "unborn"
      /\ listener' = [o \in Ports |-> IF listener[o] = q THEN 0 ELSE listener[o]]
      /\ UNCHANGED <<recs, file, plan, lost, pc, name, port, pid, view, ret>>
  BY DEF SshEnds, fileVars, histVars, locals
<1>2. ssh'[q] = "dead" /\ \A p \in Pids : p # q => ssh'[p] = ssh[p]
  BY <1>1 DEF TInv, TypeOK
<1>3. OneAtATime' /\ FileWhole' /\ RecordsOwn'
  BY <1>1 DEF AInv, OneAtATime, FileWhole, RecordsOwn, Known, Identifies, LostFor
<1>4. Fresh'
  BY <1>1, <1>2 DEF AInv, Fresh
<1>5. \A p \in Pids : ssh[p] # "unborn" => plan[p].port \in Ports
  BY DEF TInv, TypeOK, SshInv
<1>6. Serving'
  BY <1>1, <1>2, <1>5 DEF AInv, Serving
<1>7. Connecting'
  BY <1>1, <1>2, <1>5 DEF AInv, Connecting
<1>8. Recorded'
  BY <1>1, <1>2, RecordedKept DEF AInv
<1>9. ASSUME NEW y \in Procs PROVE Stage(y)'
  <2>1. pc[y] = "spawn" => listener'[port[y]] = 0
    BY <1>1 DEF AInv, Stage, TInv, LocalsInv, PortGiven
  <2> QED
    BY <1>1, <1>2, <2>1, StageKept DEF AInv
<1> QED
  BY <1>3, <1>4, <1>6, <1>7, <1>8, <1>9 DEF AInv

(* A command that begins while none runs.                                  *)
LEMMA BeginAlone ==
  ASSUME TInv, AInv, NEW x \in Procs, NEW n \in Names, RunMount(x, n) \/ RunUnmount(x, n),
         \A y \in Procs : pc[y] = "idle"
  PROVE  AInv'
<1>1. PICK l \in {"lookup", "umount"} : Goto(x, l)
  BY DEF RunMount, RunUnmount, Begin
<1>2. UNCHANGED <<recs, file, ssh, plan, listener, lost, port, pid, view, ret>>
  BY DEF RunMount, RunUnmount, fileVars, sshVars
<1>3. pc'[x] = l /\ \A y \in Procs : y # x => pc'[y] = "idle"
  BY <1>1 DEF Goto, TInv, TypeOK
<1>4. OneAtATime' /\ FileWhole'
  BY <1>1, <1>2, <1>3 DEF AInv, OneAtATime, FileWhole, Outside
<1>5. RecordsOwn' /\ Fresh' /\ Serving'
  BY <1>2 DEF AInv, RecordsOwn, Fresh, Serving, Known, Identifies, LostFor
<1>6. Connecting'
  BY <1>2 DEF AInv, Connecting
<1>7. Recorded'
  BY <1>2 DEF AInv, Recorded, Held, Live, Known, Pending, Starting
<1>8. Stage(x)'
  BY <1>1, <1>3 DEF Stage, Pending, Starting, Clear
<1> QED
  BY <1>3, <1>4, <1>5, <1>6, <1>7, <1>8, IdleStage DEF AInv

(* As long as commands have not overlapped, every ssh that lives is known  *)
(* to its entry's record or to the command that started it                 *)
(* (tunnel.go:17-130, state.go:76-110).                                    *)
THEOREM AloneInvariance == Spec => []AloneInv
<1>1. Init => AloneInv
  <2> SUFFICES ASSUME Init PROVE AInv
    BY DEF AloneInv
  <2>1. \A k \in Keys : ~Known(k)
    BY DEF Init, Empty, Known
  <2>2. RecordsOwn
    BY <2>1 DEF RecordsOwn, Keys
  <2>3. OneAtATime /\ FileWhole /\ Fresh /\ Serving /\ Connecting /\ Recorded
    BY DEF Init, OneAtATime, FileWhole, Fresh, Serving, Connecting, Recorded, Held, Live
  <2>4. \A x \in Procs : Stage(x)
    BY DEF Init, Stage, Pending, Starting, Clear
  <2> QED
    BY <2>2, <2>3, <2>4 DEF AInv
<1>2. TInv /\ AloneInv /\ [Next]_vars => AloneInv'
  <2> SUFFICES ASSUME TInv, AloneInv, [Next]_vars, alone' PROVE AInv'
    BY DEF AloneInv
  <2>1. ASSUME NEW x \in Procs, NEW n \in Names, RunMount(x, n) \/ RunUnmount(x, n)
        PROVE  AInv'
    <3>1. alone /\ \A y \in Procs : pc[y] = "idle"
      BY <2>1 DEF RunMount, RunUnmount, Begin
    <3> QED
      BY <2>1, <3>1, BeginAlone DEF AloneInv
  <2>2. ASSUME NEW x \in Procs, Step(x) PROVE AInv'
    <3>1. alone
      BY <2>2 DEF Step, Lookup, Dial, FindFreePort, Spawn, WaitEnds, WaitExpires, SavePort,
           PidOf, SaveName, Credentials, MountCommand, UnmountCommand, Teardown, KillPort,
           Delete, Truncate, Write, WriteFails, BeginSave, AccessFails, SaveFails, histVars
    <3>2. AInv
      BY <3>1 DEF AloneInv
    <3>3. CASE \/ Lookup(x) \/ Dial(x) \/ FindFreePort(x) \/ WaitEnds(x) \/ SavePort(x)
               \/ PidOf(x) \/ SaveName(x) \/ Credentials(x) \/ MountCommand(x)
               \/ UnmountCommand(x) \/ Delete(x)
      BY <3>2, <3>3, WalkAlone
    <3>4. CASE Spawn(x)
      BY <3>2, <3>4, SpawnAlone
    <3>5. CASE Truncate(x) \/ Write(x) \/ WriteFails(x)
      BY <3>2, <3>5, TruncateAlone, WriteAlone
    <3>6. CASE WaitExpires(x) \/ Teardown(x) \/ KillPort(x)
      BY <3>2, <3>6, EndingAlone
    <3> QED
      BY <2>2, <3>3, <3>4, <3>5, <3>6 DEF Step
  <2>3. ASSUME NEW p \in Pids, SshConnects(p) \/ SshEnds(p) PROVE AInv'
    <3>1. alone
      BY <2>3 DEF SshConnects, SshEnds, histVars
    <3> QED
      BY <2>3, <3>1, ConnectsAlone, EndsAlone DEF AloneInv
  <2>4. CASE (\E n \in Names : ExternalUnmount(n)) \/ UNCHANGED vars
    <3>1. /\ alone
          /\ UNCHANGED <<recs, file, ssh, plan, listener, lost, pc, name, port, pid, view, ret>>
      BY <2>4 DEF ExternalUnmount, fileVars, sshVars, histVars, locals, vars
    <3>2. /\ OneAtATime /\ FileWhole /\ RecordsOwn /\ Fresh /\ Serving /\ Connecting
          /\ Recorded /\ \A x \in Procs : Stage(x)
      BY <3>1 DEF AloneInv, AInv
    <3>3. (OneAtATime /\ FileWhole /\ RecordsOwn /\ Fresh /\ Serving /\ Connecting)'
      BY <3>1, <3>2 DEF OneAtATime, FileWhole, RecordsOwn, Fresh, Serving, Connecting, Known,
           Identifies, LostFor
    <3>4. Recorded'
      BY <3>1, <3>2, RecordedKept
    <3>5. ASSUME NEW x \in Procs PROVE Stage(x)'
      <4>1. pc[x] = "spawn" => listener'[port[x]] = 0
        BY <3>1, <3>2 DEF Stage
      <4> QED
        BY <3>1, <3>2, <4>1, StageKept
    <3> QED
      BY <3>3, <3>4, <3>5 DEF AInv
  <2> QED
    BY <2>1, <2>2, <2>3, <2>4 DEF Next
<1> QED
  BY <1>1, <1>2, TypeInvariance, PTL DEF Spec

(* Between commands that did not overlap each ssh that lives is the one    *)
(* its entry's record names, or one that the file failed to keep           *)
(* (tunnel.go:48-62, 80-89; driver.go:70-106; state.go:43-74).             *)
THEOREM NoStrayCorrect == Spec => []NoStrayTunnel
<1>1. AloneInv => NoStrayTunnel
  BY DEF AloneInv, AInv, Recorded, Held, Pending, Starting, NoStrayTunnel
<1> QED
  BY <1>1, AloneInvariance, PTL

(* Only the own tunnel is killed, over any sequence of commands that do    *)
(* not overlap, unless the file did not keep the pid of one that had the   *)
(* port (tunnel.go:49, 84, 101-105, 139-153).                              *)
THEOREM KillsCorrect == Spec => KillsOwnTunnel
<1>1. TInv /\ AloneInv /\ [Next]_vars =>
        [\A p \in Pids : alone /\ Live(p) /\ ssh'[p] = "dying" =>
           \E x \in Procs :
             \/ pc[x] \in {"wait", "teardown"} /\ plan[p].name = name[x]
             \/ pc[x] = "killPort" /\ LostFor(port[x], name[x])]_vars
  <2> SUFFICES ASSUME TInv, AloneInv, Next, NEW p \in Pids, alone, Live(p), ssh'[p] = "dying"
               PROVE  \E x \in Procs :
                        \/ pc[x] \in {"wait", "teardown"} /\ plan[p].name = name[x]
                        \/ pc[x] = "killPort" /\ LostFor(port[x], name[x])
    OBVIOUS
  <2>1. AInv
    BY DEF AloneInv
  <2>2. ssh'[p] # ssh[p]
    BY DEF Live
  <2>3. \E x \in Procs : Spawn(x) \/ WaitExpires(x) \/ Teardown(x) \/ KillPort(x)
    <3>1. \A o \in Pids : ~SshConnects(o) /\ ~SshEnds(o)
      BY <2>2 DEF SshConnects, SshEnds, TInv, TypeOK
    <3>2. \A x \in Procs : Step(x) => Spawn(x) \/ WaitExpires(x) \/ Teardown(x) \/ KillPort(x)
      BY <2>2 DEF Step, Lookup, Dial, FindFreePort, WaitEnds, SavePort, PidOf, SaveName,
           Credentials, MountCommand, UnmountCommand, Delete, Truncate, Write, WriteFails,
           BeginSave, AccessFails, SaveFails, sshVars
    <3>3. \A n \in Names : /\ ~ExternalUnmount(n)
                           /\ \A x \in Procs : ~RunMount(x, n) /\ ~RunUnmount(x, n)
      BY <2>2 DEF RunMount, RunUnmount, ExternalUnmount, sshVars
    <3> QED
      BY <2>2, <3>1, <3>2, <3>3 DEF Next
  <2>4. PICK x \in Procs : Spawn(x) \/ WaitExpires(x) \/ Teardown(x) \/ KillPort(x)
    BY <2>3
  <2>5. CASE Spawn(x)
    BY <2>2, <2>5 DEF Spawn, TInv, TypeOK
  <2>6. CASE WaitExpires(x)
    <3>1. pc[x] = "wait" /\ p = pid[x] /\ p # 0
      BY <2>2, <2>6, PidsAreNat DEF WaitExpires, Kill
    <3>2. plan[pid[x]] = [port |-> port[x], name |-> name[x]]
      BY <2>1, <3>1, OwnStarted DEF Pending, Starting
    <3> QED
      BY <3>1, <3>2
  <2>7. CASE Teardown(x)
    <3>1. pc[x] = "teardown" /\ Known(name[x]) /\ p = recs[name[x]].pid /\ p # 0
      BY <2>2, <2>7, PidsAreNat DEF Teardown, Kill, AccessFails, sshVars
    <3>2. name[x] \in Names /\ RecordsOwn
      BY <2>1 DEF AInv, TInv, TypeOK
    <3>3. plan[p] = [port |-> recs[name[x]].port, name |-> name[x]]
      BY <3>1, <3>2 DEF RecordsOwn, Identifies
    <3> QED
      BY <3>1, <3>3
  <2>8. CASE KillPort(x)
    BY <2>1, <2>8 DEF KillPort, AInv, Stage
  <2> QED
    BY <2>4, <2>5, <2>6, <2>7, <2>8
<1> QED
  BY <1>1, TypeInvariance, AloneInvariance, PTL DEF Spec, KillsOwnTunnel

(* An entry is mounted through its own tunnel, unless its record outlived  *)
(* its ssh or was saved without its pid (tunnel.go:67-73, 84-89;           *)
(* driver.go:84-104).                                                      *)
THEOREM MountsCorrect == Spec => MountsThroughOwn
<1>1. TInv /\ AloneInv /\ [Next]_vars =>
        [\A n \in Names : alone /\ via[n] = 0 /\ via'[n] # 0 =>
           \/ plan[via'[n]].name = n
           \/ /\ Known(n)
              /\ IF recs[n].pid = 0 THEN LostFor(recs[n].port, n)
                                    ELSE ~Live(recs[n].pid)]_vars
  <2> SUFFICES ASSUME TInv, AloneInv, Next, NEW n \in Names, alone, via[n] = 0, via'[n] # 0
               PROVE  \/ plan[via'[n]].name = n
                      \/ /\ Known(n)
                         /\ IF recs[n].pid = 0 THEN LostFor(recs[n].port, n)
                                               ELSE ~Live(recs[n].pid)
    OBVIOUS
  <2>1. AInv
    BY DEF AloneInv
  <2>2. PICK x \in Procs : MountCommand(x)
    <3>1. \A o \in Pids : ~SshConnects(o) /\ ~SshEnds(o)
      BY DEF SshConnects, SshEnds
    <3>2. \A x \in Procs : Step(x) => MountCommand(x) \/ UnmountCommand(x)
      BY DEF Step, Lookup, Dial, FindFreePort, Spawn, WaitEnds, WaitExpires, SavePort, PidOf,
           SaveName, Credentials, Teardown, KillPort, Delete, Truncate, Write, WriteFails,
           BeginSave, AccessFails, SaveFails
    <3>3. \A x \in Procs : ~UnmountCommand(x)
      BY DEF UnmountCommand, TInv, TypeOK
    <3>4. \A o \in Names : /\ ~ExternalUnmount(o)
                           /\ \A x \in Procs : ~RunMount(x, o) /\ ~RunUnmount(x, o)
      BY DEF RunMount, RunUnmount, ExternalUnmount, TInv, TypeOK
    <3> QED
      BY <3>1, <3>2, <3>3, <3>4 DEF Next
  <2>3. /\ pc[x] = "mount" /\ name[x] = n /\ listener[port[x]] # 0
        /\ via'[n] = listener[port[x]]
    BY <2>2 DEF MountCommand, TInv, TypeOK
  <2>4. Known(n) /\ recs[n].port = port[x]
    BY <2>1, <2>3 DEF AInv, Stage
  <2>5. Identifies(port[x], n, recs[n].pid)
    BY <2>1, <2>4 DEF AInv, RecordsOwn
  <2>6. CASE recs[n].pid = 0
    BY <2>4, <2>5, <2>6 DEF Identifies
  <2>7. CASE recs[n].pid # 0 /\ Live(recs[n].pid)
    <3>1. recs[n].pid \in Pids
      BY <2>4, <2>7, RecordTyped DEF TInv, Keys
    <3>2. ssh[recs[n].pid] = "running"
      BY <2>1, <2>3, <2>7, <3>1, NoneConnects DEF Live
    <3>3. plan[recs[n].pid] = [port |-> port[x], name |-> n]
      BY <2>5, <2>7 DEF Identifies
    <3>4. listener[plan[recs[n].pid].port] = recs[n].pid
      BY <2>1, <3>1, <3>2 DEF AInv, Serving
    <3>5. plan[recs[n].pid].port = port[x] /\ plan[recs[n].pid].name = n
      BY <3>3
    <3> QED
      BY <2>3, <3>4, <3>5
  <2> QED
    BY <2>4, <2>6, <2>7
<1> QED
  BY <1>1, TypeInvariance, AloneInvariance, PTL DEF Spec, MountsThroughOwn
=============================================================================
