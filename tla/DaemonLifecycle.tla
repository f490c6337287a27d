-------------------------- MODULE DaemonLifecycle ---------------------------
(***************************************************************************)
(* How gomount processes find, start and stop the daemon: daemon.Run in    *)
(* internal/daemon/run.go, the client of client.go with its timeout, and   *)
(* ensureDaemonClient and "d down" in cmd/gomount/main.go.  Everything     *)
(* meets at one path, the unix socket: a listener takes the path when it   *)
(* is free and whoever removes it makes the listener unreachable without   *)
(* stopping it.                                                            *)
(*                                                                         *)
(* The session manager is reduced to what matters here: a Mount that is    *)
(* running keeps every other request of that daemon waiting for its mutex, *)
(* health included, and a granted shutdown empties the daemon.             *)
(***************************************************************************)
EXTENDS Integers, FiniteSets

CONSTANTS
  Daemons,     \* daemon processes that may be started: the bound on starts
  CLIs,        \* command line processes that run one command at a time
  NoOne,       \* no daemon owns the socket path, no connection, no request
  Ghost,       \* a daemon killed earlier, whose socket file is still there
  BatchOps,    \* which of "mount" and "unmount" the commands perform
  Leftover,    \* whether the first command may meet such a file
  Slow,        \* whether a mount may outlast the client's 30 s timeout, and
               \* a start the 5 s that ensureDaemonClient waits for it
  MaxCrashes,  \* bound on killed daemons
  MaxDowns     \* bound on "d down" commands

ASSUME BatchOpsKnown     == BatchOps \subseteq {"mount", "unmount"}
ASSUME LeftoverIsBoolean == Leftover \in BOOLEAN
ASSUME SlowIsBoolean     == Slow \in BOOLEAN
ASSUME BoundsAreNat      == MaxCrashes \in Nat /\ MaxDowns \in Nat
ASSUME ProcessesDiffer   == /\ Daemons \cap CLIs = {}
                            /\ NoOne \notin Daemons \cup CLIs
                            /\ Ghost \notin Daemons \cup CLIs \cup {NoOne}

VARIABLES
  sock,     \* whose listener the socket path leads to, or NoOne
  dpc,      \* where each daemon is in Run
  busy,     \* the command whose request holds the daemon's mutex
  pending,  \* commands whose request a daemon has received and not treated
  holds,    \* commands whose entry a daemon has mounted
  cpc,      \* where each command is
  cmd,      \* "mount", "unmount" or "down"
  conn,     \* the daemon a process is connected to, or NoOne
  crashes, downs,
  raced     \* history: daemons that met another one while they took the path

vars == <<sock, dpc, busy, pending, holds, cpc, cmd, conn, crashes, downs, raced>>
daemonVars == <<busy, pending, holds>>
counters == <<crashes, downs>>
auxVars == <<counters, raced>>

Starting  == {"listen", "probe", "probing", "remove", "relisten",
              "binding", "bound", "giveup"}
DaemonPCs == {"off", "serving", "cancelled", "closed", "exited"} \cup Starting
CLIPCs    == {"idle", "health", "await", "start", "nostart", "poll",
              "pollAwait", "send", "reply", "ok", "failed"}

Init ==
  /\ sock \in IF Leftover THEN {NoOne, Ghost} ELSE {NoOne}
  /\ dpc = [d \in Daemons |-> "off"]
  /\ busy = [d \in Daemons |-> NoOne]
  /\ pending = [d \in Daemons |-> {}]
  /\ holds = [d \in Daemons |-> {}]
  /\ cpc = [c \in CLIs |-> "idle"]
  /\ cmd = [c \in CLIs |-> "mount"]
  /\ conn = [x \in CLIs \cup Daemons |-> NoOne]
  /\ crashes = 0
  /\ downs = 0
  /\ raced = {}

(* Not while it is "binding": bind created the file, and until listen a    *)
(* dial is refused.                                                        *)
Listening(d) ==
  d \in Daemons /\ dpc[d] \in {"bound", "giveup", "serving", "cancelled"}
CLIAt(c, l)  == cpc' = [cpc EXCEPT ![c] = l]
DaemonAt(d, l) == dpc' = [dpc EXCEPT ![d] = l]

-----------------------------------------------------------------------------
(* Client.Health, used by commands and by a starting daemon.  Dialling     *)
(* reaches the listener behind the path, even one that does not accept     *)
(* yet; the connection outlives the path.                                  *)

(* Variants like the next one are not part of the model: they are bugs a   *)
(* change to the code could bring in, kept to show that the properties     *)
(* notice them.                                                            *)
DialAnything(x) == sock # NoOne /\ conn' = [conn EXCEPT ![x] = sock]

DialOk(x)   == Listening(sock) /\ conn' = [conn EXCEPT ![x] = sock]
DialFails   == ~Listening(sock)
HangUp(x)   == conn' = [conn EXCEPT ![x] = NoOne]

(* Health takes the session manager's mutex.                               *)
Answered(x) == dpc[conn[x]] \in {"serving", "cancelled"} /\ busy[conn[x]] = NoOne
Broken(x)   == ~Listening(conn[x])
TimedOut(x) == Slow /\ ~Broken(x) /\ busy[conn[x]] # NoOne

-----------------------------------------------------------------------------
(* Run.                                                                    *)

(* net.Listen is bind, which fails when the path exists, and then listen.  *)
(* A daemon in one of the Harmless places cannot take the path from the    *)
(* one that binds it now: it has yet to try, finds it taken, or is gone.   *)
Harmless == {"off", "listen", "probe", "relisten", "exited"}
Bind(d) ==
  /\ sock = NoOne
  /\ sock' = d
  /\ DaemonAt(d, "binding")
  /\ raced' = IF \E e \in Daemons : dpc[e] \notin Harmless THEN raced \cup {d} ELSE raced

Listen(d) ==
  /\ dpc[d] = "listen"
  /\ \/ Bind(d)
     \/ sock # NoOne /\ DaemonAt(d, "probe") /\ UNCHANGED <<sock, raced>>
  /\ UNCHANGED <<daemonVars, cpc, cmd, conn, counters>>

Accept(d) ==
  /\ dpc[d] = "binding"
  /\ DaemonAt(d, "bound")
  /\ UNCHANGED <<sock, daemonVars, cpc, cmd, conn, auxVars>>

ProbeSkipped(d) ==
  /\ dpc[d] = "probe"
  /\ DaemonAt(d, "remove")
  /\ UNCHANGED <<sock, daemonVars, cpc, cmd, conn, auxVars>>

ProbeInsists(d) ==
  /\ dpc[d] = "probe"
  /\ DialOk(d) /\ DaemonAt(d, "probing")
  /\ UNCHANGED <<sock, daemonVars, cpc, cmd, auxVars>>

Probe(d) ==
  /\ dpc[d] = "probe"
  /\ \/ DialOk(d) /\ DaemonAt(d, "probing") /\ UNCHANGED raced
     \/ /\ DialFails /\ DaemonAt(d, "remove") /\ UNCHANGED conn
        /\ raced' = raced \cup {e \in Daemons : sock = e /\ dpc[e] = "binding"}
  /\ UNCHANGED <<sock, daemonVars, cpc, cmd, counters>>

(* An answer means "daemon is already running"; anything else means that   *)
(* the file is taken for a leftover.                                       *)
Probed(d) ==
  /\ dpc[d] = "probing"
  /\ \/ Answered(d) /\ DaemonAt(d, "exited") /\ UNCHANGED raced
     \/ Broken(d) /\ DaemonAt(d, "remove") /\ UNCHANGED raced
     \/ TimedOut(d) /\ DaemonAt(d, "remove") /\ raced' = raced \cup {conn[d]}
  /\ HangUp(d)
  /\ UNCHANGED <<sock, daemonVars, cpc, cmd, counters>>

RemoveNothing(d) ==
  /\ dpc[d] = "remove"
  /\ DaemonAt(d, "relisten")
  /\ UNCHANGED <<sock, daemonVars, cpc, cmd, conn, auxVars>>

RemoveOld(d) ==
  /\ dpc[d] = "remove"
  /\ sock' = NoOne
  /\ DaemonAt(d, "relisten")
  /\ UNCHANGED <<daemonVars, cpc, cmd, conn, auxVars>>

Relisten(d) ==
  /\ dpc[d] = "relisten"
  /\ \/ Bind(d)
     \/ sock # NoOne /\ DaemonAt(d, "exited") /\ UNCHANGED <<sock, raced>>
  /\ UNCHANGED <<daemonVars, cpc, cmd, conn, counters>>

(* Chmod works on the path: it fails when somebody removed it.             *)
Chmod(d) ==
  /\ dpc[d] = "bound"
  /\ DaemonAt(d, IF sock # NoOne THEN "serving" ELSE "giveup")
  /\ UNCHANGED <<sock, daemonVars, cpc, cmd, conn, auxVars>>

(* ln.Close after it removes the path once more, whoever has it by now.    *)
GiveUp(d) ==
  /\ dpc[d] = "giveup"
  /\ DaemonAt(d, "exited")
  /\ sock' = NoOne
  /\ pending' = [pending EXCEPT ![d] = {}]
  /\ UNCHANGED <<busy, holds, cpc, cmd, conn, auxVars>>

CloseKeepsPath(d) ==
  /\ dpc[d] = "cancelled"
  /\ DaemonAt(d, "closed")
  /\ UNCHANGED <<sock, daemonVars, cpc, cmd, conn, auxVars>>

(* httpServer.Close: a Go unix listener unlinks its path when it closes,   *)
(* and every connection breaks.                                            *)
Close(d) ==
  /\ dpc[d] = "cancelled"
  /\ DaemonAt(d, "closed")
  /\ sock' = NoOne
  /\ UNCHANGED <<daemonVars, cpc, cmd, conn, auxVars>>

(* Serve returns, the deferred os.Remove runs, the process ends.           *)
Leave(d) ==
  /\ dpc[d] = "closed"
  /\ DaemonAt(d, "exited")
  /\ sock' = NoOne
  /\ busy' = [busy EXCEPT ![d] = NoOne]
  /\ pending' = [pending EXCEPT ![d] = {}]
  /\ UNCHANGED <<holds, cpc, cmd, conn, auxVars>>

(* The process is killed: nothing is cleaned up, the socket file included. *)
Crash(d) ==
  /\ dpc[d] \notin {"off", "exited"}
  /\ crashes < MaxCrashes
  /\ crashes' = crashes + 1
  /\ DaemonAt(d, "exited")
  /\ HangUp(d)
  /\ busy' = [busy EXCEPT ![d] = NoOne]
  /\ pending' = [pending EXCEPT ![d] = {}]
  /\ UNCHANGED <<sock, holds, cpc, cmd, downs, raced>>

-----------------------------------------------------------------------------
(* Requests inside a daemon.                                               *)

Running(d) == dpc[d] \in {"serving", "cancelled", "closed"}
Waits(c, d) == cpc[c] = "reply" /\ conn[c] = d /\ Listening(d)

BeginRequest(d, c) ==
  /\ Running(d) /\ busy[d] = NoOne
  /\ c \in pending[d] /\ cmd[c] # "down"
  /\ busy' = [busy EXCEPT ![d] = c]
  /\ pending' = [pending EXCEPT ![d] = @ \ {c}]
  /\ UNCHANGED <<sock, dpc, holds, cpc, cmd, conn, auxVars>>

(* The mounter returns; the command learns of it if it still listens.      *)
AfterRequest(c, H) == IF cmd[c] = "mount" THEN H \cup {c} ELSE H \ {c}
EndRequest(d, done) ==
  /\ Running(d) /\ busy[d] # NoOne
  /\ busy' = [busy EXCEPT ![d] = NoOne]
  /\ holds' = [holds EXCEPT ![d] = IF done THEN AfterRequest(busy[d], @) ELSE @]
  /\ IF Waits(busy[d], d)
       THEN CLIAt(busy[d], IF done THEN "ok" ELSE "failed") /\ HangUp(busy[d])
       ELSE UNCHANGED <<cpc, conn>>
  /\ UNCHANGED <<sock, dpc, pending, cmd, auxVars>>

(* UnmountAll succeeded: the answer is buffered and the context cancelled; *)
(* or it failed and the daemon goes on.                                    *)
GrantShutdown(d, c) ==
  /\ Running(d) /\ busy[d] = NoOne
  /\ c \in pending[d] /\ cmd[c] = "down"
  /\ pending' = [pending EXCEPT ![d] = @ \ {c}]
  /\ holds' = [holds EXCEPT ![d] = {}]
  /\ DaemonAt(d, IF dpc[d] = "serving" THEN "cancelled" ELSE dpc[d])
  /\ UNCHANGED <<sock, busy, cpc, cmd, conn, auxVars>>

DenyShutdown(d, c) ==
  /\ Running(d) /\ busy[d] = NoOne /\ holds[d] # {}
  /\ c \in pending[d] /\ cmd[c] = "down"
  /\ pending' = [pending EXCEPT ![d] = @ \ {c}]
  /\ IF Waits(c, d) THEN CLIAt(c, "failed") /\ HangUp(c)
                    ELSE UNCHANGED <<cpc, conn>>
  /\ UNCHANGED <<sock, dpc, busy, holds, cmd, auxVars>>

(* The handler returned: the buffered answer is flushed, unless the        *)
(* connection was closed before.                                           *)
FlushShutdown(d, c) ==
  /\ dpc[d] = "cancelled" /\ cmd[c] = "down"
  /\ Waits(c, d) /\ c \notin pending[d]
  /\ CLIAt(c, "ok")
  /\ HangUp(c)
  /\ UNCHANGED <<sock, dpc, daemonVars, cmd, auxVars>>

-----------------------------------------------------------------------------
(* Commands.                                                               *)

(* A command is a new process; its name is taken again only when no daemon *)
(* is still occupied with the request of the one that had it before.       *)
Forgotten(c) == \A d \in Daemons : c \notin pending[d] /\ busy[d] # c

(* "gomount m" or "gomount u" of an entry that the daemon manages; u too   *)
(* starts a daemon when none answers.                                      *)
RunBatch(c, o) ==
  /\ cpc[c] = "idle" /\ Forgotten(c)
  /\ CLIAt(c, "health")
  /\ cmd' = [cmd EXCEPT ![c] = o]
  /\ UNCHANGED <<sock, dpc, daemonVars, conn, auxVars>>

RunDown(c) ==
  /\ cpc[c] = "idle" /\ Forgotten(c)
  /\ downs < MaxDowns
  /\ downs' = downs + 1
  /\ CLIAt(c, "health")
  /\ cmd' = [cmd EXCEPT ![c] = "down"]
  /\ UNCHANGED <<sock, dpc, daemonVars, conn, crashes, raced>>

(* Without an answer a batch starts a daemon and "d down" reports that     *)
(* none is running.                                                        *)
Unanswered(c) == CLIAt(c, IF cmd[c] = "down" THEN "ok" ELSE "start")

Health(c) ==
  /\ cpc[c] = "health"
  /\ \/ DialOk(c) /\ CLIAt(c, "await")
     \/ DialFails /\ Unanswered(c) /\ UNCHANGED conn
  /\ UNCHANGED <<sock, dpc, daemonVars, cmd, auxVars>>

HealthEnds(c) ==
  /\ cpc[c] = "await"
  /\ \/ Answered(c) /\ CLIAt(c, "send") /\ UNCHANGED conn
     \/ (Broken(c) \/ TimedOut(c)) /\ Unanswered(c) /\ HangUp(c)
  /\ UNCHANGED <<sock, dpc, daemonVars, cmd, auxVars>>

(* startDaemonProcess does not wait for the process it starts.             *)
Start(c) ==
  /\ cpc[c] = "start"
  /\ \E d \in Daemons : dpc[d] = "off" /\ DaemonAt(d, "listen")
  /\ CLIAt(c, "poll")
  /\ UNCHANGED <<sock, daemonVars, cmd, conn, auxVars>>

(* The executable, the log file or the process cannot be had.              *)
StartFails(c) ==
  /\ cpc[c] = "start"
  /\ CLIAt(c, "nostart")
  /\ UNCHANGED <<sock, dpc, daemonVars, cmd, conn, auxVars>>

(* The polling loop: a failed attempt changes nothing and is left out.     *)
Poll(c) ==
  /\ cpc[c] = "poll"
  /\ DialOk(c)
  /\ CLIAt(c, "pollAwait")
  /\ UNCHANGED <<sock, dpc, daemonVars, cmd, auxVars>>

PollEnds(c) ==
  /\ cpc[c] = "pollAwait"
  /\ \/ Answered(c) /\ CLIAt(c, "send") /\ UNCHANGED conn
     \/ (Broken(c) \/ TimedOut(c)) /\ CLIAt(c, "poll") /\ HangUp(c)
  /\ UNCHANGED <<sock, dpc, daemonVars, cmd, auxVars>>

(* Five seconds pass without an answer.  Unless things may be slow this    *)
(* happens only if no daemon is on its way.                                *)
Expected == \E d \in Daemons : dpc[d] \in Starting \/ (Listening(d) /\ sock = d)
PollForever(c) ==
  /\ cpc[c] = "poll"
  /\ FALSE
  /\ UNCHANGED vars

PollExpires(c) ==
  /\ cpc[c] = "poll"
  /\ Slow \/ ~Expected
  /\ CLIAt(c, "failed")
  /\ UNCHANGED <<sock, dpc, daemonVars, cmd, conn, auxVars>>

(* The request goes over the connection that answered Health or, when that *)
(* one is broken, over a new one.                                          *)
Send(c) ==
  /\ cpc[c] = "send"
  /\ \E d \in Daemons :
       /\ d = IF Broken(c) THEN sock ELSE conn[c]
       /\ Listening(d)
       /\ conn' = [conn EXCEPT ![c] = d]
       /\ pending' = [pending EXCEPT ![d] = @ \cup {c}]
  /\ CLIAt(c, "reply")
  /\ UNCHANGED <<sock, dpc, busy, holds, cmd, auxVars>>

SendFails(c) ==
  /\ cpc[c] = "send"
  /\ Broken(c) /\ ~Listening(sock)
  /\ CLIAt(c, "failed")
  /\ HangUp(c)
  /\ UNCHANGED <<sock, dpc, daemonVars, cmd, auxVars>>

(* No reply: the connection breaks, or the client's timeout passes while   *)
(* the daemon goes on with the request.                                    *)
ReplyLost(c) ==
  /\ cpc[c] = "reply"
  /\ Broken(c) \/ TimedOut(c)
  /\ CLIAt(c, "failed")
  /\ HangUp(c)
  /\ UNCHANGED <<sock, dpc, daemonVars, cmd, auxVars>>

Finish(c) ==
  /\ cpc[c] \in {"ok", "failed", "nostart"}
  /\ CLIAt(c, "idle")
  /\ UNCHANGED <<sock, dpc, daemonVars, cmd, conn, auxVars>>

-----------------------------------------------------------------------------
Serve(d, c) == BeginRequest(d, c) \/ GrantShutdown(d, c) \/ DenyShutdown(d, c)
RunStep(d) ==
  \/ Listen(d) \/ Accept(d) \/ Probe(d) \/ Probed(d) \/ RemoveOld(d) \/ Relisten(d)
  \/ Chmod(d) \/ GiveUp(d) \/ Close(d) \/ Leave(d)
Respond(d) ==
  \/ \E c \in CLIs : FlushShutdown(d, c)
  \/ \E done \in BOOLEAN : EndRequest(d, done)
DaemonStep(d) == RunStep(d) \/ Respond(d) \/ \E c \in CLIs : Serve(d, c)

CLIStep(c) ==
  \/ Health(c) \/ HealthEnds(c) \/ Start(c) \/ StartFails(c) \/ Poll(c) \/ PollEnds(c)
  \/ PollExpires(c) \/ Send(c) \/ SendFails(c) \/ ReplyLost(c) \/ Finish(c)

Next ==
  \/ \E d \in Daemons : DaemonStep(d) \/ Crash(d)
  \/ \E c \in CLIs : (\E o \in BatchOps : RunBatch(c, o)) \/ RunDown(c) \/ CLIStep(c)

Spec == Init /\ [][Next]_vars

(* Every process runs and so does every goroutine: Run is not held up by   *)
(* the requests it serves.  The kernel answers a client that dials,        *)
(* mounter calls return, and the polling deadline passes.  What waits for  *)
(* the session manager's mutex gets it though others compete, as a Go      *)
(* mutex hands over to a waiter that starves: so health answers and        *)
(* requests are strongly fair.  Nothing forces a new command or a crash.   *)
FairSpec ==
  /\ Spec
  /\ \A d \in Daemons : SF_vars(RunStep(d)) /\ WF_vars(Respond(d))
  /\ \A c \in CLIs : /\ SF_vars(\E d \in Daemons : Serve(d, c))
                     /\ SF_vars(CLIStep(c)) /\ SF_vars(PollExpires(c))

-----------------------------------------------------------------------------
(* Properties.                                                             *)

TypeOK ==
  /\ sock \in Daemons \cup {NoOne, Ghost}
  /\ dpc \in [Daemons -> DaemonPCs]
  /\ busy \in [Daemons -> CLIs \cup {NoOne}]
  /\ pending \in [Daemons -> SUBSET CLIs]
  /\ holds \in [Daemons -> SUBSET CLIs]
  /\ cpc \in [CLIs -> CLIPCs]
  /\ cmd \in [CLIs -> {"mount", "unmount", "down"}]
  /\ conn \in [CLIs \cup Daemons -> Daemons \cup {NoOne}]
  /\ crashes \in 0..MaxCrashes
  /\ downs \in 0..MaxDowns
  /\ raced \subseteq Daemons

(* README.md:214 and 218: a running daemon is the one that later commands  *)
(* use.  So a daemon that serves is the one behind the socket path.        *)
ServingReachable == \A d \in Daemons : dpc[d] = "serving" => sock = d

(* What holds of it: a daemon that serves and is no longer behind the path *)
(* lost it to one of three races, and to nothing else, whatever daemons    *)
(* are started, killed and told to stop.  Either another daemon was alive  *)
(* and past probing when it bound the path: it was about to remove what it *)
(* had taken for a leftover, or had lost the path and removes it when it   *)
(* stops (run.go:19, 26, 29).  Or another one dialled it between its bind  *)
(* and its listen, or waited for its health in vain (run.go:13-19).        *)
AloneReachable ==
  \A d \in Daemons : dpc[d] = "serving" /\ d \notin raced => sock = d

(* There is one daemon: commands that find none at the same time and start *)
(* one each end up with one (run.go:12-20).                                *)
OneServing == \A d, e \in Daemons :
                dpc[d] = "serving" /\ dpc[e] = "serving" => d = e

(* The mounts of a daemon that has not been told to stop can be seen and   *)
(* unmounted by later commands (README.md:214: the command line hands its  *)
(* requests to the daemon that is already running).                        *)
MountsReachable ==
  \A d \in Daemons : dpc[d] = "serving" /\ holds[d] # {} => sock = d

(* Only a killed daemon leaves a socket file that leads to no process:     *)
(* every other way out of Run removes it (run.go:19-29).                   *)
StaleOnlyByCrash ==
  sock \in Daemons => Listening(sock) \/ dpc[sock] = "binding" \/ crashes > 0

(* Every command ends, whatever daemons crash or fight for the path: who   *)
(* waits for a daemon that never comes, or for an answer of one that is    *)
(* gone, gives up (main.go:464-483).                                       *)
CommandsEnd == \A c \in CLIs : cpc[c] # "idle" ~> cpc[c] = "idle"

(* Every daemon that is started soon serves or gives up (run.go:12-36).    *)
DaemonsSettle ==
  \A d \in Daemons : dpc[d] \in Starting ~> dpc[d] \notin Starting

(* A command that starts a daemon gets to use one, whatever file an        *)
(* earlier crash left at the path: Run recognises the leftover and         *)
(* replaces it (run.go:13-21).  Exempt is a process that cannot be started *)
(* and, while the command waits, a daemon that crashes or is told to stop, *)
(* or two that are alive and may be after the same path.                   *)
Interfering(d) ==
  \/ dpc[d] = "cancelled"
  \/ \E e \in Daemons \ {d} : {dpc[d], dpc[e]} \cap {"off", "exited"} = {}
StartRecovers ==
  \A c \in CLIs, k \in 0..MaxCrashes :
    cpc[c] = "start" /\ crashes = k
      ~> \/ cpc[c] \in {"send", "nostart"}
         \/ crashes > k
         \/ \E d \in Daemons : Interfering(d)

(* README.md:249: when "d down" reports an error the daemon goes on        *)
(* running.                                                                *)
DownErrorMeansRunning ==
  [][\A c \in CLIs, d \in Daemons :
       cmd[c] = "down" /\ cpc[c] = "reply" /\ cpc'[c] = "failed" /\ conn[c] = d
         => dpc'[d] = "serving"]_vars

(* README.md:224: the commands tell whether the daemon is running: "d      *)
(* down" says "daemon: not running" (main.go:255-257) only if none is.     *)
NotRunningIsTrue ==
  [][\A c \in CLIs :
       cmd[c] = "down" /\ cpc[c] \in {"health", "await"} /\ cpc'[c] = "ok"
         => ~ \E d \in Daemons : dpc[d] = "serving" /\ sock = d]_vars
=============================================================================
