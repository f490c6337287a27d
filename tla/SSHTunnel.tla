----------------------------- MODULE SSHTunnel ------------------------------
(***************************************************************************)
(* SMB entries that are mounted through an ssh tunnel: Mount and Unmount   *)
(* of internal/drivers/smb/driver.go, with Establish, EstablishForMount    *)
(* and Teardown of internal/sshtunnel/tunnel.go and the file tunnels.json  *)
(* of state.go.                                                            *)
(*                                                                         *)
(* A gomount process runs one command and is gone; the ssh process it      *)
(* started and the file stay.  stateMu orders the goroutines of a process, *)
(* which has only one here, so each access to the file is a step of its    *)
(* own: reading it, truncating it, writing it.  Pids are not used twice.   *)
(***************************************************************************)
EXTENDS Integers

CONSTANTS
  Names,     \* entries mounted through a tunnel
  Procs,     \* gomount processes: the bound on commands at the same time
  Ports,     \* local ports that findFreePort tries, from the lowest up
  Pids,      \* ssh processes that may be started: the bound on starts
  Flaky,     \* whether an established ssh connection may break
  NoRecord,  \* no record under a key
  NoPlan     \* an ssh process not started yet

ASSUME PortsAreNat      == Ports \subseteq Nat \ {0}
ASSUME PidsAreNat       == Pids \subseteq Nat \ {0}
ASSUME NamesAreNoPorts  == Names \cap Ports = {}
ASSUME FlakyIsBoolean   == Flaky \in BOOLEAN

(* Keys of tunnels.json: an entry's name, or the port p of "_tunnel_<p>".  *)
(* Pid 0 stands for none, as in the code.                                  *)
Keys    == Names \cup Ports
Record  == [port : Ports, pid : Pids \cup {0}]
ASSUME NoRecordIsNone == NoRecord \notin Record
ASSUME NoPlanIsNone   == NoPlan \notin [port : Ports, name : Names]

VARIABLES
  recs,      \* the records in tunnels.json
  file,      \* "ok", "torn" between truncation and write, or "corrupt"
  ssh,       \* each ssh: "unborn", "connecting", "running", "dying", "dead"
  plan,      \* the port and the entry each was started for
  listener,  \* the ssh that listens on each port, or 0
  via,       \* the ssh that each entry is mounted through, or 0
  alone,     \* history: no two commands have overlapped so far
  lost,      \* history: ssh whose saving, or reading back, has failed
  pc, name, port, pid,   \* a process: where it is, and its locals
  view,      \* the records it is about to write
  ret        \* where it goes on after writing

fileVars == <<recs, file>>
histVars == <<alone, lost>>
sshVars  == <<ssh, plan, listener>>
locals   == <<name, port, pid, view, ret>>
vars     == <<recs, file, ssh, plan, listener, via, alone, lost, pc, name, port, pid, view, ret>>

PCs == {"idle", "lookup", "dial", "find", "spawn", "wait", "savePort", "pidOf",
        "saveName", "creds", "mount", "umount", "teardown", "killPort", "delete",
        "truncate", "write"}

Empty == [k \in Keys |-> NoRecord]

Init ==
  /\ recs = Empty
  /\ file = "ok"
  /\ ssh = [p \in Pids |-> "unborn"]
  /\ plan = [p \in Pids |-> NoPlan]
  /\ listener = [q \in Ports |-> 0]
  /\ via = [n \in Names |-> 0]
  /\ alone = TRUE
  /\ lost = {}
  /\ pc = [x \in Procs |-> "idle"]
  /\ name \in [Procs -> Names]
  /\ port = [x \in Procs |-> 0]
  /\ pid = [x \in Procs |-> 0]
  /\ view = [x \in Procs |-> Empty]
  /\ ret = [x \in Procs |-> "idle"]

Goto(x, l) == pc' = [pc EXCEPT ![x] = l]

(* A command begins, by itself or not.                                     *)
Begin(x, l) == Goto(x, l) /\ alone' = (alone /\ \A y \in Procs : pc[y] = "idle")

Live(p)    == ssh[p] \in {"connecting", "running"}
Kill(S)    == ssh' = [p \in Pids |-> IF p \in S /\ Live(p) THEN "dying" ELSE ssh[p]]
Known(k)   == recs[k] # NoRecord

-----------------------------------------------------------------------------
(* tunnels.json.  A torn or corrupt file does not parse, and any access    *)
(* may fail: the directory, the disk, the rights.  The command gives up.   *)

AccessFails(x) ==
  /\ Goto(x, "idle")
  /\ UNCHANGED <<fileVars, sshVars, via, histVars, locals>>

(* The ssh that the command has started, 0 if it does not know its pid.    *)
Loses(x) == lost' = lost \cup ({pid[x]} \ {0})

(* loadState, then the change to the map that was read.                    *)
BeginSave(x, k, r, next) ==
  /\ file = "ok"
  /\ view' = [view EXCEPT ![x] = [recs EXCEPT ![k] = r]]
  /\ ret' = [ret EXCEPT ![x] = next]
  /\ Goto(x, "truncate")
  /\ UNCHANGED <<fileVars, sshVars, via, histVars, name, port, pid>>

(* os.WriteFile opens the file truncated and writes it.                    *)
Truncate(x) ==
  /\ pc[x] = "truncate"
  /\ file' = "torn"
  /\ Goto(x, "write")
  /\ UNCHANGED <<recs, sshVars, via, histVars, locals>>

(* Over what another process wrote since, the rest of a longer text stays. *)
Write(x) ==
  /\ pc[x] = "write"
  /\ recs' = view[x]
  /\ file' \in IF file = "torn" THEN {"ok"} ELSE {"ok", "corrupt"}
  /\ Goto(x, ret[x])
  /\ UNCHANGED <<sshVars, via, histVars, locals>>

(* WriteFile returns an error: the disk is full, and the file is left cut  *)
(* short, or the text is there and closing the file failed.                *)
WriteFails(x) ==
  /\ pc[x] = "write"
  /\ recs' = view[x]
  /\ file' \in {"ok", "corrupt"}
  /\ Goto(x, "idle")
  /\ IF ret[x] = "idle" THEN UNCHANGED lost ELSE Loses(x)
  /\ UNCHANGED <<sshVars, via, alone, locals>>

-----------------------------------------------------------------------------
(* Mount.                                                                  *)

(* Mount refuses an entry that is already mounted.                         *)
RunMount(x, n) ==
  /\ pc[x] = "idle" /\ via[n] = 0
  /\ name' = [name EXCEPT ![x] = n]
  /\ Begin(x, "lookup")
  /\ UNCHANGED <<fileVars, sshVars, via, lost, port, pid, view, ret>>

(* EstablishForMount: the record of an earlier mount of the entry.         *)
Lookup(x) ==
  /\ pc[x] = "lookup"
  /\ \/ AccessFails(x)
     \/ /\ file = "ok" /\ Known(name[x])
        /\ port' = [port EXCEPT ![x] = recs[name[x]].port]
        /\ Goto(x, "dial")
        /\ UNCHANGED <<fileVars, sshVars, via, histVars, name, pid, view, ret>>
     \/ /\ file = "ok" /\ ~Known(name[x])
        /\ Goto(x, "find")
        /\ UNCHANGED <<fileVars, sshVars, via, histVars, locals>>

(* isPortAlive: whoever listens there, the port is used again.             *)
Dial(x) ==
  /\ pc[x] = "dial"
  /\ Goto(x, IF listener[port[x]] # 0 THEN "creds" ELSE "find")
  /\ UNCHANGED <<fileVars, sshVars, via, histVars, locals>>

(* Variants, such as the next one, are plausible mistakes kept to show     *)
(* which property they break; no specification uses them.                  *)
FirstPort(x) ==
  /\ pc[x] = "find"
  /\ \E q \in Ports :
       /\ \A r \in Ports : r >= q
       /\ port' = [port EXCEPT ![x] = q]
  /\ Goto(x, "spawn")
  /\ UNCHANGED <<fileVars, sshVars, via, histVars, name, pid, view, ret>>

FreePorts == {q \in Ports : listener[q] = 0}

PortUnchecked(x) ==
  /\ pc[x] = "find"
  /\ \/ \E q \in FreePorts :
          /\ \A r \in FreePorts : r >= q
          /\ port' = [port EXCEPT ![x] = q]
     \/ FreePorts = {} /\ port' = [port EXCEPT ![x] = 0]
  /\ Goto(x, "spawn")
  /\ UNCHANGED <<fileVars, sshVars, via, histVars, name, pid, view, ret>>

(* findFreePort: the lowest port that nobody listens on, which it does not *)
(* keep.                                                                   *)
FindFreePort(x) ==
  /\ pc[x] = "find"
  /\ \/ \E q \in FreePorts :
          /\ \A r \in FreePorts : r >= q
          /\ port' = [port EXCEPT ![x] = q]
          /\ Goto(x, "spawn")
     \/ FreePorts = {} /\ Goto(x, "idle") /\ UNCHANGED port
  /\ UNCHANGED <<fileVars, sshVars, via, histVars, name, pid, view, ret>>

(* Establish starts ssh -NL.                                               *)
Spawn(x) ==
  /\ pc[x] = "spawn"
  /\ \E p \in Pids :
       /\ ssh[p] = "unborn"
       /\ \A o \in Pids : o < p => ssh[o] # "unborn"
       /\ ssh' = [ssh EXCEPT ![p] = "connecting"]
       /\ plan' = [plan EXCEPT ![p] = [port |-> port[x], name |-> name[x]]]
       /\ pid' = [pid EXCEPT ![x] = p]
  /\ Goto(x, "wait")
  /\ UNCHANGED <<fileVars, listener, via, histVars, name, port, view, ret>>

WaitExpiresKeeps(x) ==
  /\ pc[x] = "wait" /\ listener[port[x]] = 0
  /\ Goto(x, "idle")
  /\ UNCHANGED <<fileVars, sshVars, via, histVars, locals>>

(* waitForPort: any listener will do; after 15 s without one the ssh is    *)
(* killed.                                                                 *)
WaitEnds(x) ==
  /\ pc[x] = "wait" /\ listener[port[x]] # 0
  /\ Goto(x, "savePort")
  /\ UNCHANGED <<fileVars, sshVars, via, histVars, locals>>

WaitExpires(x) ==
  /\ pc[x] = "wait" /\ listener[port[x]] = 0
  /\ Kill({pid[x]})
  /\ Goto(x, "idle")
  /\ UNCHANGED <<fileVars, plan, listener, via, histVars, locals>>

(* An error of saveRecord before anything is written: the command fails    *)
(* and the ssh goes on.                                                    *)
SaveFails(x) ==
  /\ Goto(x, "idle")
  /\ Loses(x)
  /\ UNCHANGED <<fileVars, sshVars, via, alone, locals>>

(* The tunnel is recorded under its port.                                  *)
SavePort(x) ==
  /\ pc[x] = "savePort"
  /\ \/ BeginSave(x, port[x], [port |-> port[x], pid |-> pid[x]], "pidOf")
     \/ SaveFails(x)

(* localRecordPID: read back from the file, 0 when that fails.             *)
PidOf(x) ==
  /\ pc[x] = "pidOf"
  /\ \/ /\ file = "ok" /\ Known(port[x])
        /\ pid' = [pid EXCEPT ![x] = recs[port[x]].pid]
        /\ UNCHANGED lost
     \/ pid' = [pid EXCEPT ![x] = 0] /\ Loses(x)
  /\ Goto(x, "saveName")
  /\ UNCHANGED <<fileVars, sshVars, via, alone, name, port, view, ret>>

SaveName(x) ==
  /\ pc[x] = "saveName"
  /\ \/ BeginSave(x, name[x], [port |-> port[x], pid |-> pid[x]], "creds")
     \/ SaveFails(x)

(* createCredentialFile and WrapWithSudo; their errors leave the tunnel.   *)
Credentials(x) ==
  /\ pc[x] = "creds"
  /\ Goto(x, "mount") \/ Goto(x, "idle")
  /\ UNCHANGED <<fileVars, sshVars, via, histVars, locals>>

(* mount.cifs connects to the port, or fails and the tunnel is torn down.  *)
MountCommand(x) ==
  /\ pc[x] = "mount"
  /\ \/ /\ listener[port[x]] # 0
        /\ via' = [via EXCEPT ![name[x]] = listener[port[x]]]
        /\ Goto(x, "idle")
     \/ Goto(x, "teardown") /\ UNCHANGED via
  /\ UNCHANGED <<fileVars, sshVars, histVars, locals>>

-----------------------------------------------------------------------------
(* Unmount and Teardown.                                                   *)

(* umount fails when nothing is mounted or the mount is busy.              *)
RunUnmount(x, n) ==
  /\ pc[x] = "idle" /\ via[n] # 0
  /\ name' = [name EXCEPT ![x] = n]
  /\ Begin(x, "umount")
  /\ UNCHANGED <<fileVars, sshVars, via, lost, port, pid, view, ret>>

UnmountCommand(x) ==
  /\ pc[x] = "umount"
  /\ \/ via[name[x]] # 0 /\ via' = [via EXCEPT ![name[x]] = 0] /\ Goto(x, "teardown")
     \/ UNCHANGED via /\ Goto(x, "idle")
  /\ UNCHANGED <<fileVars, sshVars, histVars, locals>>

TeardownByPort(x) ==
  /\ pc[x] = "teardown"
  /\ \/ /\ file = "ok" /\ Known(name[x])
        /\ Kill({listener[recs[name[x]].port]})
        /\ Goto(x, "delete")
        /\ UNCHANGED <<fileVars, plan, listener, via, histVars, locals>>
     \/ /\ ~Known(name[x]) \/ file # "ok"
        /\ Goto(x, "idle")
        /\ UNCHANGED <<fileVars, sshVars, via, histVars, locals>>

(* The recorded process is told to end, or else what holds the port.       *)
Teardown(x) ==
  /\ pc[x] = "teardown"
  /\ \/ AccessFails(x)
     \/ /\ file = "ok" /\ ~Known(name[x])
        /\ Goto(x, "idle")
        /\ UNCHANGED <<fileVars, sshVars, via, histVars, locals>>
     \/ /\ file = "ok" /\ Known(name[x]) /\ recs[name[x]].pid # 0
        /\ Kill({recs[name[x]].pid})
        /\ Goto(x, "delete")
        /\ UNCHANGED <<fileVars, plan, listener, via, histVars, locals>>
     \/ /\ file = "ok" /\ Known(name[x]) /\ recs[name[x]].pid = 0
        /\ port' = [port EXCEPT ![x] = recs[name[x]].port]
        /\ Goto(x, "killPort")
        /\ UNCHANGED <<fileVars, sshVars, via, histVars, name, pid, view, ret>>

(* killByPort: the pid in the record of the port, or else whom lsof shows  *)
(* there, if it can.                                                       *)
KillPort(x) ==
  /\ pc[x] = "killPort"
  /\ \E p \in {0, listener[port[x]]}
                \cup (IF file = "ok" /\ Known(port[x]) THEN {recs[port[x]].pid} ELSE {}) :
       Kill({p})
  /\ Goto(x, "delete")
  /\ UNCHANGED <<fileVars, plan, listener, via, histVars, locals>>

Delete(x) ==
  /\ pc[x] = "delete"
  /\ BeginSave(x, name[x], NoRecord, "idle") \/ AccessFails(x)

-----------------------------------------------------------------------------
(* The ssh processes, and what others do.                                  *)

(* Once connected ssh listens on its port; when the port is taken it warns *)
(* and runs without.                                                       *)
SshConnects(p) ==
  /\ ssh[p] = "connecting"
  /\ ssh' = [ssh EXCEPT ![p] = "running"]
  /\ listener' = [listener EXCEPT ![plan[p].port] = IF @ = 0 THEN p ELSE @]
  /\ UNCHANGED <<fileVars, plan, via, histVars, pc, locals>>

(* It ends when it was told to, cannot connect, or loses its connection.   *)
SshEnds(p) ==
  /\ ssh[p] \in {"connecting", "dying"} \/ (Flaky /\ ssh[p] = "running")
  /\ ssh' = [ssh EXCEPT ![p] = "dead"]
  /\ listener' = [q \in Ports |-> IF listener[q] = p THEN 0 ELSE listener[q]]
  /\ UNCHANGED <<fileVars, plan, via, histVars, pc, locals>>

(* Somebody unmounts the share without gomount.                            *)
ExternalUnmount(n) ==
  /\ via[n] # 0
  /\ via' = [via EXCEPT ![n] = 0]
  /\ UNCHANGED <<fileVars, sshVars, histVars, pc, locals>>

Step(x) ==
  \/ Lookup(x) \/ Dial(x) \/ FindFreePort(x) \/ Spawn(x)
  \/ WaitEnds(x) \/ WaitExpires(x) \/ SavePort(x) \/ PidOf(x) \/ SaveName(x)
  \/ Credentials(x) \/ MountCommand(x)
  \/ UnmountCommand(x) \/ Teardown(x) \/ KillPort(x) \/ Delete(x)
  \/ Truncate(x) \/ Write(x) \/ WriteFails(x)

Next ==
  \/ \E x \in Procs : Step(x) \/ \E n \in Names : RunMount(x, n) \/ RunUnmount(x, n)
  \/ \E p \in Pids : SshConnects(p) \/ SshEnds(p)
  \/ \E n \in Names : ExternalUnmount(n)

Spec == Init /\ [][Next]_vars

-----------------------------------------------------------------------------
(* Properties.                                                             *)

Contents == [Keys -> Record \cup {NoRecord}]

TypeOK ==
  /\ recs \in Contents
  /\ file \in {"ok", "torn", "corrupt"}
  /\ ssh \in [Pids -> {"unborn", "connecting", "running", "dying", "dead"}]
  /\ plan \in [Pids -> [port : Ports, name : Names] \cup {NoPlan}]
  /\ listener \in [Ports -> Pids \cup {0}]
  /\ via \in [Names -> Pids \cup {0}]
  /\ alone \in BOOLEAN
  /\ lost \subseteq Pids
  /\ pc \in [Procs -> PCs]
  /\ name \in [Procs -> Names]
  /\ port \in [Procs -> Ports \cup {0}]
  /\ pid \in [Procs -> Pids \cup {0}]
  /\ view \in [Procs -> Contents]
  /\ ret \in [Procs -> PCs]

(* Between commands every ssh that lives is the one its entry's record     *)
(* names, so that unmounting the entry will end it, and an entry has one:  *)
(* whatever step of a mount or an unmount fails, an ssh that nothing finds *)
(* is one whose record could not be written or read back, or tunnels.json  *)
(* is left unreadable (tunnel.go:48-62, 80-89; driver.go:70-106).          *)
NoStrayTunnel ==
  alone /\ file = "ok" /\ (\A x \in Procs : pc[x] = "idle") =>
    \A p \in Pids : Live(p) /\ p \notin lost =>
      Known(plan[p].name) /\ recs[plan[p].name].pid = p

(* An ssh that was started for the entry on this port, and is among them.  *)
LostFor(q, n) == \E o \in lost : plan[o] = [port |-> q, name |-> n]

(* An entry is mounted through a tunnel that leads to its own server,      *)
(* unless its record outlived its ssh, or does not know it, and another    *)
(* entry's tunnel has taken the port since: the record's address is not    *)
(* compared (tunnel.go:67-73).                                             *)
MountsThroughOwn ==
  [][\A n \in Names : alone /\ via[n] = 0 /\ via'[n] # 0 =>
       \/ plan[via'[n]].name = n
       \/ /\ Known(n)
          /\ IF recs[n].pid = 0 THEN LostFor(recs[n].port, n) ELSE ~Live(recs[n].pid)]_vars

(* Without the exception it does not hold, even if commands never overlap. *)
ReachesOwnServer ==
  [][\A n \in Names : alone /\ via[n] = 0 /\ via'[n] # 0 => plan[via'[n]].name = n]_vars

(* A command never kills the tunnel of an entry other than its own, except *)
(* by the port that an ssh of its own had, when the pid of that ssh could  *)
(* not be read back for its record (tunnel.go:49, 84, 101-105, 139-153).   *)
KillsOwnTunnel ==
  [][\A p \in Pids : alone /\ Live(p) /\ ssh'[p] = "dying" =>
       \E x \in Procs :
         \/ pc[x] \in {"wait", "teardown"} /\ plan[p].name = name[x]
         \/ pc[x] = "killPort" /\ LostFor(port[x], name[x])]_vars
=============================================================================
