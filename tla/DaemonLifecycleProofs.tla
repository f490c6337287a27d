------------------------ MODULE DaemonLifecycleProofs -----------------------
(***************************************************************************)
(* Proofs about DaemonLifecycle for any number of daemons and commands:    *)
(* type correctness; that only a killed daemon leaves its socket file      *)
(* behind; and that a serving daemon is hidden only by one of three races. *)
(***************************************************************************)
EXTENDS DaemonLifecycle, TLAPS

(* No definition of the actions leaves the sets the variables range over.  *)
THEOREM TypeCorrect == Spec => []TypeOK
<1>1. Init => TypeOK
  BY BoundsAreNat DEF Init, TypeOK, DaemonPCs, CLIPCs
<1>2. TypeOK /\ [Next]_vars => TypeOK'
  <2> SUFFICES ASSUME TypeOK, [Next]_vars PROVE TypeOK'
    OBVIOUS
  <2> USE DEF TypeOK, daemonVars, counters, auxVars, DaemonAt, CLIAt
  <2>1. ASSUME NEW d \in Daemons, DaemonStep(d) PROVE TypeOK'
    <3>1. CASE Listen(d)
      BY <3>1 DEF Listen, Bind, DaemonPCs, Starting
    <3>2. CASE Probe(d)
      <4>1. raced' \subseteq Daemons
        BY <3>2 DEF Probe
      <4> QED
        BY <3>2, <4>1 DEF Probe, DialOk, Listening, DaemonPCs, Starting
    <3>3. CASE Probed(d)
      <4>1. TimedOut(d) => conn[d] \in Daemons
        BY DEF TimedOut, Broken, Listening
      <4> QED
        BY <3>3, <4>1 DEF Probed, HangUp, DaemonPCs, Starting
    <3>4. CASE RemoveOld(d)
      BY <3>4 DEF RemoveOld, DaemonPCs, Starting
    <3>5. CASE Relisten(d)
      BY <3>5 DEF Relisten, Bind, DaemonPCs, Starting
    <3>6. CASE Chmod(d)
      BY <3>6 DEF Chmod, DaemonPCs, Starting
    <3>7. CASE Close(d)
      BY <3>7 DEF Close, DaemonPCs, Starting
    <3>8. CASE Leave(d)
      BY <3>8 DEF Leave, DaemonPCs, Starting
    <3>14. CASE Accept(d)
      BY <3>14 DEF Accept, DaemonPCs, Starting
    <3>15. CASE GiveUp(d)
      BY <3>15 DEF GiveUp, DaemonPCs, Starting
    <3>9. ASSUME NEW c \in CLIs, BeginRequest(d, c) PROVE TypeOK'
      BY <3>9 DEF BeginRequest
    <3>10. ASSUME NEW c \in CLIs, GrantShutdown(d, c) PROVE TypeOK'
      BY <3>10 DEF GrantShutdown, DaemonPCs, Starting
    <3>11. ASSUME NEW c \in CLIs, DenyShutdown(d, c) PROVE TypeOK'
      BY <3>11 DEF DenyShutdown, HangUp, CLIPCs
    <3>12. ASSUME NEW c \in CLIs, FlushShutdown(d, c) PROVE TypeOK'
      BY <3>12 DEF FlushShutdown, HangUp, CLIPCs
    <3>13. ASSUME NEW done \in BOOLEAN, EndRequest(d, done) PROVE TypeOK'
      <4>1. busy[d] \in CLIs /\ AfterRequest(busy[d], holds[d]) \in SUBSET CLIs
        BY <3>13 DEF EndRequest, AfterRequest
      <4> QED
        BY <3>13, <4>1 DEF EndRequest, HangUp, CLIPCs
    <3> QED
      BY <2>1, <3>1, <3>2, <3>3, <3>4, <3>5, <3>6, <3>7, <3>8, <3>9, <3>10,
         <3>11, <3>12, <3>13, <3>14, <3>15 DEF DaemonStep, RunStep, Respond, Serve
  <2>2. ASSUME NEW d \in Daemons, Crash(d) PROVE TypeOK'
    BY <2>2, BoundsAreNat DEF Crash, HangUp, DaemonPCs
  <2>3. ASSUME NEW c \in CLIs, CLIStep(c) PROVE TypeOK'
    <3>1. CASE Health(c)
      BY <3>1 DEF Health, DialOk, Listening, Unanswered, CLIPCs
    <3>2. CASE HealthEnds(c)
      BY <3>2 DEF HealthEnds, HangUp, Unanswered, CLIPCs
    <3>3. CASE Start(c)
      BY <3>3 DEF Start, DaemonPCs, Starting, CLIPCs
    <3>11. CASE StartFails(c)
      BY <3>11 DEF StartFails, CLIPCs
    <3>4. CASE Poll(c)
      BY <3>4 DEF Poll, DialOk, Listening, CLIPCs
    <3>5. CASE PollEnds(c)
      BY <3>5 DEF PollEnds, HangUp, CLIPCs
    <3>6. CASE PollExpires(c)
      BY <3>6 DEF PollExpires, CLIPCs
    <3>7. CASE Send(c)
      BY <3>7 DEF Send, CLIPCs
    <3>8. CASE SendFails(c)
      BY <3>8 DEF SendFails, HangUp, CLIPCs
    <3>9. CASE ReplyLost(c)
      BY <3>9 DEF ReplyLost, HangUp, CLIPCs
    <3>10. CASE Finish(c)
      BY <3>10 DEF Finish, CLIPCs
    <3> QED
      BY <2>3, <3>1, <3>2, <3>3, <3>4, <3>5, <3>6, <3>7, <3>8, <3>9, <3>10, <3>11
         DEF CLIStep
  <2>4. ASSUME NEW c \in CLIs, NEW o \in BatchOps, RunBatch(c, o) PROVE TypeOK'
    BY <2>4, BatchOpsKnown DEF RunBatch, CLIPCs
  <2>5. ASSUME NEW c \in CLIs, RunDown(c) PROVE TypeOK'
    BY <2>5, BoundsAreNat DEF RunDown, CLIPCs
  <2>6. CASE UNCHANGED vars
    BY <2>6 DEF vars
  <2> QED
    BY <2>1, <2>2, <2>3, <2>4, <2>5, <2>6 DEF Next
<1> QED
  BY <1>1, <1>2, PTL DEF Spec

-----------------------------------------------------------------------------
(* A step of a daemon other than being killed takes the path only for      *)
(* itself and gives up listening only together with the path.              *)
LEMMA DaemonLeavesNoStale ==
  ASSUME TypeOK, StaleOnlyByCrash, NEW d \in Daemons, DaemonStep(d)
  PROVE  StaleOnlyByCrash'
<1> USE DEF TypeOK, StaleOnlyByCrash, Listening, daemonVars, counters, auxVars, DaemonAt, CLIAt
<1>0. NoOne \notin Daemons
  BY ProcessesDiffer
<1>1. CASE Listen(d) \/ Relisten(d)
  BY <1>0, <1>1 DEF Listen, Relisten, Bind
<1>2. CASE Probe(d)
  BY <1>2 DEF Probe, DialOk
<1>3. CASE Probed(d)
  BY <1>3 DEF Probed, HangUp
<1>4. CASE RemoveOld(d) \/ GiveUp(d) \/ Close(d) \/ Leave(d)
  BY <1>0, <1>4 DEF RemoveOld, GiveUp, Close, Leave
<1>5. CASE Accept(d) \/ Chmod(d)
  BY <1>0, <1>5 DEF Accept, Chmod
<1>6. CASE \E c \in CLIs : GrantShutdown(d, c)
  BY <1>6 DEF GrantShutdown
<1>7. CASE \E c \in CLIs : BeginRequest(d, c) \/ DenyShutdown(d, c) \/ FlushShutdown(d, c)
  BY <1>7 DEF BeginRequest, DenyShutdown, FlushShutdown, HangUp
<1>8. CASE \E done \in BOOLEAN : EndRequest(d, done)
  BY <1>8 DEF EndRequest
<1> QED
  BY <1>1, <1>2, <1>3, <1>4, <1>5, <1>6, <1>7, <1>8 DEF DaemonStep, RunStep, Respond, Serve

(* However many daemons probe, remove, take and close the one path, and    *)
(* whenever, it leads to a daemon that does not listen only after one was  *)
(* killed (run.go:12-36).                                                  *)
THEOREM StaleCorrect == Spec => []StaleOnlyByCrash
<1>1. Init => StaleOnlyByCrash
  BY ProcessesDiffer DEF Init, StaleOnlyByCrash
<1>2. TypeOK /\ StaleOnlyByCrash /\ [Next]_vars => StaleOnlyByCrash'
  <2> SUFFICES ASSUME TypeOK, StaleOnlyByCrash, [Next]_vars PROVE StaleOnlyByCrash'
    OBVIOUS
  <2>1. CASE \E d \in Daemons : DaemonStep(d)
    BY <2>1, DaemonLeavesNoStale
  <2>2. CASE \E d \in Daemons : Crash(d)
    BY <2>2 DEF Crash, TypeOK, StaleOnlyByCrash
  <2>3. CASE \E c \in CLIs : Start(c)
    <3>1. /\ sock' = sock /\ crashes' = crashes
          /\ \A d \in Daemons : /\ Listening(d) => Listening(d)'
                                /\ dpc[d] = "binding" => dpc'[d] = "binding"
      BY <2>3 DEF Start, TypeOK, Listening, DaemonAt, auxVars, counters
    <3> QED
      BY <3>1 DEF StaleOnlyByCrash
  <2>4. CASE \E c \in CLIs : \/ \E o \in BatchOps : RunBatch(c, o)
                             \/ RunDown(c) \/ (CLIStep(c) /\ ~Start(c))
    <3>1. sock' = sock /\ crashes' = crashes /\ dpc' = dpc
      BY <2>4 DEF RunBatch, RunDown, CLIStep, Health, HealthEnds, Poll, PollEnds, StartFails,
                  PollExpires, Send, SendFails, ReplyLost, Finish, auxVars, counters
    <3> QED
      BY <3>1 DEF StaleOnlyByCrash, Listening
  <2>5. CASE UNCHANGED vars
    BY <2>5 DEF vars, StaleOnlyByCrash, Listening
  <2> QED
    BY <2>1, <2>2, <2>3, <2>4, <2>5 DEF Next, CLIStep
<1> QED
  BY <1>1, <1>2, TypeCorrect, PTL DEF Spec

-----------------------------------------------------------------------------
(* A daemon that has taken the path without meeting another one keeps it:  *)
(* every other daemon has yet to look at the path, is bound to find it     *)
(* taken, or waits for the health of this one.                             *)
Holding(d) == dpc[d] \in {"binding", "bound", "serving"} /\ d \notin raced
Waiting(e, d) == dpc[e] = "probing" /\ conn[e] = d /\ dpc[d] # "binding"

AloneInv ==
  \A d \in Daemons : Holding(d) =>
    /\ sock = d
    /\ \A e \in Daemons \ {d} : dpc[e] \in Harmless \/ Waiting(e, d)

(* Commands neither stop a daemon nor touch the path; they may start one.  *)
LEMMA CLIKeepsAlone ==
  ASSUME TypeOK, AloneInv, NEW c \in CLIs,
         CLIStep(c) \/ RunDown(c) \/ \E o \in BatchOps : RunBatch(c, o)
  PROVE  AloneInv'
<1> USE DEF TypeOK, daemonVars, counters, auxVars, DaemonAt, CLIAt
<1>0. \A d \in Daemons : d # c
  BY ProcessesDiffer
<1>1. CASE Start(c)
  <2>1. UNCHANGED <<sock, conn, raced>>
    BY <1>1 DEF Start
  <2>2. PICK d \in Daemons : dpc[d] = "off" /\ dpc' = [dpc EXCEPT ![d] = "listen"]
    BY <1>1 DEF Start
  <2>3. \A e \in Daemons : /\ e # d => dpc'[e] = dpc[e]
                           /\ dpc[d] = "off" /\ dpc'[d] = "listen"
    BY <2>2
  <2> QED
    BY <2>1, <2>3 DEF AloneInv, Holding, Waiting, Harmless
<1>2. CASE ~Start(c)
  <2>1. /\ UNCHANGED <<sock, dpc, raced>>
        /\ conn' = conn \/ \E v : conn' = [conn EXCEPT ![c] = v]
    BY <1>2 DEF CLIStep, RunDown, RunBatch, Health, HealthEnds, StartFails, Poll,
                PollEnds, PollExpires, Send, SendFails, ReplyLost, Finish, DialOk, HangUp
  <2>2. \A d \in Daemons : conn'[d] = conn[d]
    BY <1>0, <2>1
  <2> QED
    BY <2>1, <2>2 DEF AloneInv, Holding, Waiting
<1> QED
  BY <1>1, <1>2

(* A daemon in a place where it may remove the path is not alive together  *)
(* with one that holds it.                                                 *)
LEMMA NobodyHolds ==
  ASSUME AloneInv, NEW d \in Daemons, dpc[d] \notin Harmless, dpc[d] # "probing"
  PROVE  \A e \in Daemons \ {d} : ~Holding(e)
BY DEF AloneInv, Waiting

(* Requests leave the path and the places of the daemons alone, but for    *)
(* the one that is told to stop and holds nothing from then on.            *)
LEMMA RequestKeepsAlone ==
  ASSUME TypeOK, AloneInv, NEW d \in Daemons,
         \/ \E c \in CLIs : Serve(d, c) \/ FlushShutdown(d, c)
         \/ \E done \in BOOLEAN : EndRequest(d, done)
  PROVE  AloneInv'
<1> USE DEF TypeOK, daemonVars, counters, auxVars, DaemonAt, CLIAt
<1>1. ASSUME NEW c \in CLIs, GrantShutdown(d, c), dpc[d] = "serving" PROVE AloneInv'
  <2>1. UNCHANGED <<sock, conn, raced>> /\ dpc' = [dpc EXCEPT ![d] = "cancelled"]
    BY <1>1 DEF GrantShutdown
  <2>2. \A e \in Daemons \ {d} : ~Holding(e)
    BY <1>1, NobodyHolds DEF Harmless
  <2>3. \A e \in Daemons : ~Holding(e)'
    BY <2>1, <2>2 DEF Holding
  <2> QED
    BY <2>3 DEF AloneInv
<1>2. CASE ~ \E c \in CLIs : GrantShutdown(d, c) /\ dpc[d] = "serving"
  <2>1. UNCHANGED <<sock, dpc, raced>>
    <3>1. ASSUME NEW c \in CLIs, GrantShutdown(d, c) PROVE UNCHANGED <<sock, dpc, raced>>
      <4>1. dpc' = [dpc EXCEPT ![d] = dpc[d]]
        BY <1>2, <3>1 DEF GrantShutdown
      <4> QED
        BY <3>1, <4>1 DEF GrantShutdown
    <3> QED
      BY <3>1 DEF Serve, BeginRequest, DenyShutdown, FlushShutdown, EndRequest
  <2>2. \A e \in Daemons : conn'[e] = conn[e]
    <3>1. busy[d] # NoOne => busy[d] \in CLIs
      OBVIOUS
    <3>2. conn' = conn \/ \E c \in CLIs : conn' = [conn EXCEPT ![c] = NoOne]
      BY <3>1 DEF Serve, BeginRequest, GrantShutdown, DenyShutdown, FlushShutdown,
                  EndRequest, HangUp
    <3> QED
      BY <3>2, ProcessesDiffer
  <2> QED
    BY <2>1, <2>2 DEF AloneInv, Holding, Waiting
<1> QED
  BY <1>1, <1>2

(* Binding needs a free path, so nobody holds it, and who binds it beside  *)
(* a daemon that may still remove it has raced.                            *)
LEMMA BindKeepsAlone ==
  ASSUME TypeOK, AloneInv, NEW d \in Daemons, dpc[d] \in {"listen", "relisten"},
         Bind(d), UNCHANGED conn
  PROVE  AloneInv'
<1>1. \A e \in Daemons : ~Holding(e)
  BY ProcessesDiffer DEF Bind, AloneInv
<1>2. \A e \in Daemons : dpc'[e] = IF e = d THEN "binding" ELSE dpc[e]
  BY DEF Bind, DaemonAt, TypeOK
<1>3. sock' = d /\ raced \subseteq raced'
  BY DEF Bind
<1>4. \A e \in Daemons \ {d} : ~Holding(e)'
  BY <1>1, <1>2, <1>3 DEF Holding
<1>5. Holding(d)' => \A e \in Daemons \ {d} : dpc'[e] \in Harmless
  BY <1>2 DEF Bind, Holding
<1> QED
  BY <1>3, <1>4, <1>5 DEF AloneInv

(* A probe that is refused met the daemon between its bind and its listen. *)
LEMMA ProbeKeepsAlone ==
  ASSUME TypeOK, AloneInv, NEW d \in Daemons, Probe(d)
  PROVE  AloneInv'
<1> USE DEF TypeOK, daemonVars, counters, auxVars, DaemonAt
<1>1. dpc[d] = "probe" /\ UNCHANGED sock
  BY DEF Probe
<1>2. CASE DialOk(d) /\ dpc' = [dpc EXCEPT ![d] = "probing"] /\ UNCHANGED raced
  <2>1. /\ \A e \in Daemons : dpc'[e] = IF e = d THEN "probing" ELSE dpc[e]
        /\ \A e \in Daemons : conn'[e] = IF e = d THEN sock ELSE conn[e]
        /\ Listening(sock)
    BY <1>2 DEF DialOk
  <2>2. ASSUME NEW e \in Daemons, Holding(e)' PROVE Holding(e) /\ e # d /\ dpc[e] # "binding"
    <3>1. Holding(e) /\ e # d
      BY <1>1, <1>2, <2>1, <2>2 DEF Holding
    <3>2. sock = e
      BY <3>1 DEF AloneInv
    <3> QED
      BY <2>1, <3>1, <3>2 DEF Listening
  <2>3. ASSUME NEW e \in Daemons, Holding(e)', NEW f \in Daemons \ {e}
        PROVE  dpc'[f] \in Harmless \/ Waiting(f, e)'
    BY <1>1, <1>2, <2>1, <2>2, <2>3 DEF AloneInv, Waiting
  <2> QED
    BY <1>1, <2>2, <2>3 DEF AloneInv
<1>3. CASE DialFails /\ dpc' = [dpc EXCEPT ![d] = "remove"]
           /\ raced' = raced \cup {e \in Daemons : sock = e /\ dpc[e] = "binding"}
  <2>1. ASSUME NEW e \in Daemons, Holding(e)' PROVE FALSE
    <3>1. Holding(e)
      BY <1>1, <1>3, <2>1 DEF Holding
    <3>2. sock = e
      BY <3>1 DEF AloneInv
    <3> QED
      BY <1>1, <1>3, <2>1, <3>1, <3>2 DEF DialFails, Listening, Holding
  <2> QED
    BY <2>1 DEF AloneInv
<1> QED
  BY <1>2, <1>3 DEF Probe

(* Health that is not answered in time is the other way to race.           *)
LEMMA ProbedKeepsAlone ==
  ASSUME TypeOK, AloneInv, NEW d \in Daemons, Probed(d)
  PROVE  AloneInv'
<1> USE DEF TypeOK, daemonVars, counters, auxVars, DaemonAt
<1>1. /\ dpc[d] = "probing" /\ UNCHANGED sock
      /\ \A e \in Daemons \ {d} : dpc'[e] = dpc[e] /\ conn'[e] = conn[e]
      /\ dpc'[d] \in {"exited", "remove"}
      /\ raced \subseteq raced'
  BY DEF Probed, HangUp
<1>2. ASSUME NEW e \in Daemons, Holding(e)' PROVE Holding(e) /\ e # d /\ Waiting(d, e)
  <2>1. Holding(e) /\ e # d
    BY <1>1, <1>2 DEF Holding
  <2> QED
    BY <1>1, <2>1 DEF AloneInv, Harmless
<1>3. ASSUME NEW e \in Daemons, Holding(e)' PROVE dpc'[d] = "exited"
  <2>1. Listening(conn[d])
    BY <1>2, <1>3 DEF Holding, Waiting, Listening
  <2>2. ~(TimedOut(d) /\ raced' = raced \cup {conn[d]})
    BY <1>2, <1>3 DEF Holding, Waiting
  <2> QED
    BY <1>1, <2>1, <2>2 DEF Probed, Broken
<1> QED
  BY <1>1, <1>2, <1>3 DEF AloneInv, Waiting, Harmless

(* The remaining steps of Run, a killed daemon included.                   *)
LEMMA RunKeepsAlone ==
  ASSUME TypeOK, AloneInv, NEW d \in Daemons,
         \/ Accept(d) \/ RemoveOld(d) \/ Chmod(d) \/ GiveUp(d)
         \/ Close(d) \/ Leave(d) \/ Crash(d)
  PROVE  AloneInv'
<1> USE DEF TypeOK, daemonVars, counters, auxVars, DaemonAt
<1>1. /\ raced' = raced
      /\ \A e \in Daemons \ {d} : dpc'[e] = dpc[e] /\ conn'[e] = conn[e]
  BY DEF Accept, RemoveOld, Chmod, GiveUp, Close, Leave, Crash, HangUp
<1>2. CASE Crash(d)
  <2>1. dpc'[d] = "exited" /\ sock' = sock
    BY <1>2 DEF Crash
  <2> QED
    BY <1>1, <2>1 DEF AloneInv, Holding, Waiting, Harmless
<1>3. CASE ~Crash(d)
  <2>1. \A e \in Daemons \ {d} : ~Holding(e)
    <3>1. dpc[d] \in {"binding", "remove", "bound", "giveup", "cancelled", "closed"}
      BY <1>3 DEF Accept, RemoveOld, Chmod, GiveUp, Close, Leave
    <3> QED
      BY <3>1, NobodyHolds DEF Harmless
  <2>2. ASSUME Holding(d)' PROVE Holding(d) /\ sock' = sock /\ dpc[d] \in {"binding", "bound"}
    BY <1>1, <1>3, <2>2 DEF Holding, Accept, RemoveOld, Chmod, GiveUp, Close, Leave
  <2>3. ASSUME Holding(d)', NEW e \in Daemons \ {d}, Waiting(e, d) PROVE Waiting(e, d)'
    <3>1. dpc'[d] # "binding"
      BY <1>3, <2>2, <2>3 DEF Accept, Chmod, RemoveOld, GiveUp, Close, Leave
    <3> QED
      BY <1>1, <2>3, <3>1 DEF Waiting
  <2>4. \A e \in Daemons \ {d} : ~Holding(e)'
    BY <1>1, <2>1 DEF Holding
  <2> QED
    BY <1>1, <2>2, <2>3, <2>4 DEF AloneInv
<1> QED
  BY <1>2, <1>3

(* README.md:214 and 218 as far as they hold: however many daemons are     *)
(* started, killed and told to stop, one that serves is the one later      *)
(* commands reach, unless another was alive beside it when it took the     *)
(* path, dialled it before it listened or found its health too slow        *)
(* (run.go:12-29).                                                         *)
THEOREM AloneCorrect == Spec => []AloneReachable
<1>1. Init => AloneInv
  BY DEF Init, AloneInv, Holding
<1>2. TypeOK /\ AloneInv /\ [Next]_vars => AloneInv'
  <2> SUFFICES ASSUME TypeOK, AloneInv, [Next]_vars PROVE AloneInv'
    OBVIOUS
  <2>1. ASSUME NEW d \in Daemons, Listen(d) \/ Relisten(d) PROVE AloneInv'
    <3>1. dpc[d] \in {"listen", "relisten"} /\ UNCHANGED conn
      BY <2>1 DEF Listen, Relisten
    <3>2. CASE Bind(d)
      BY <3>1, <3>2, BindKeepsAlone
    <3>3. CASE ~Bind(d)
      <4>1. /\ UNCHANGED <<sock, raced>>
            /\ \A e \in Daemons \ {d} : dpc'[e] = dpc[e]
            /\ dpc'[d] \in {"probe", "exited"}
        BY <2>1, <3>3 DEF Listen, Relisten, DaemonAt, TypeOK
      <4> QED
        BY <3>1, <4>1 DEF AloneInv, Holding, Waiting, Harmless
    <3> QED
      BY <3>2, <3>3
  <2>2. ASSUME NEW d \in Daemons, DaemonStep(d) \/ Crash(d) PROVE AloneInv'
    BY <2>1, <2>2, ProbeKeepsAlone, ProbedKeepsAlone, RunKeepsAlone, RequestKeepsAlone
       DEF DaemonStep, RunStep, Respond
  <2>3. CASE \E c \in CLIs : (\E o \in BatchOps : RunBatch(c, o)) \/ RunDown(c) \/ CLIStep(c)
    BY <2>3, CLIKeepsAlone
  <2>4. CASE UNCHANGED vars
    BY <2>4 DEF vars, AloneInv, Holding, Waiting
  <2> QED
    BY <2>2, <2>3, <2>4 DEF Next
<1>3. AloneInv => AloneReachable
  BY DEF AloneInv, Holding, AloneReachable
<1> QED
  BY <1>1, <1>2, <1>3, TypeCorrect, PTL DEF Spec
=============================================================================
