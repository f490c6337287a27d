--------------------------- MODULE SessionManager ---------------------------
(***************************************************************************)
(* The core of the gomount daemon: internal/daemon/backend.go (the session *)
(* manager), the handlers of server.go that drive it, and the part of      *)
(* run.go that ends the process once a shutdown was granted.               *)
(*                                                                         *)
(* Go runs every request in a goroutine of its own and every session has a *)
(* watcher goroutine; all of them meet at SessionManager.mu.  A step of    *)
(* the model is what one goroutine does between two points where another   *)
(* one can interfere: a whole critical section, or, where the section      *)
(* calls the mounter, its two halves with mu held in between.              *)
(***************************************************************************)
EXTENDS Integers, Sequences, FiniteSets

CONSTANTS
  Names,         \* entry names
  Types,         \* entry types a request may carry
  ManagedTypes,  \* those the manager handles (webdav and s3 in the code)
  Dirs,          \* mount directories
  SessionIds,    \* sessions the mounter can make: the bound on mounts
  Handlers,      \* request goroutines: the bound on concurrent requests
  Batches,       \* the entry lists a request may carry
  CleanupCap,    \* capacity of cleanupSignals (16 in the code)
  NoSession,     \* no entry in the session map
  NoEntry,       \* a session not made yet
  NoName,        \* no name
  Free           \* mu is not held

(* valid: whether EntrySnapshot.Validate accepts the entry for a mount.    *)
Entries == [name : Names, type : Types, dir : Dirs, valid : BOOLEAN]

ASSUME ManagedTypesAreTypes == ManagedTypes \subseteq Types
ASSUME BatchesAreEntryLists == Batches \subseteq Seq(Entries)
ASSUME CleanupCapPositive   == CleanupCap \in Nat \ {0}
ASSUME NoSessionIsNoId      == NoSession \notin SessionIds
ASSUME NoEntryIsNoEntry     == NoEntry \notin Entries
ASSUME NoNameIsNoName       == NoName \notin Names
ASSUME FreeIsNoHandler      == Free \notin Handlers

VARIABLES
  \* the manager
  mu,        \* who holds SessionManager.mu across a call into the mounter
  sessions,  \* the session map
  signals,   \* how many signals sit in cleanupSignals
  \* the sessions and what the kernel knows of them
  serve,     \* "unborn", "live", "gone", "ended" or "stranded"
  made,      \* the entry a session was mounted for
  watcher,   \* the goroutine of watchSession: "none", "waiting", "woken",
             \* "signalling", "exited"
  \* the process
  phase,     \* "running", "cancelled", "closed", "exited"
  \* the request handlers
  pc,        \* where the handler is
  op,        \* the operation it serves
  batch,     \* the entries it has still to treat
  snap,      \* UnmountAll's copy of the session map
  todo,      \* names of that copy it has still to visit
  cur,       \* the name it has unmounted and not yet deleted
  failed     \* an Unmount of this sweep returned an error

managerVars == <<mu, sessions, signals>>
sessionVars == <<serve, made, watcher>>
sweepVars   == <<snap, todo, cur, failed>>
handlerVars == <<pc, op, batch, snap, todo, cur, failed>>
vars == <<mu, sessions, signals, serve, made, watcher, phase,
          pc, op, batch, snap, todo, cur, failed>>

Ops    == {"none", "mount", "unmount", "status", "health", "shutdown"}
Phases == {"running", "cancelled", "closed", "exited"}
PCs    == {"idle", "entry", "locking", "mounting", "unmounting",
           "types", "count", "snapshot", "sweeping", "dropping"}

NoMap == [n \in Names |-> NoSession]

-----------------------------------------------------------------------------
(* The kernel's mount table.  A session is one FUSE mount: live while it   *)
(* is in the table, gone once it has been removed from it, ended once its  *)
(* server has reported that to the session's Done channel, stranded when   *)
(* the process exited and left it in the table.                            *)

LiveAt(d) == {s \in SessionIds : serve[s] = "live" /\ made[s].dir = d}

(* MountSession.Unmount removes the mount by its path, whoever made it,    *)
(* and fails when nothing is mounted there.                                *)
TakesDown(s) == LiveAt(made[s].dir) # {}
AfterUnmount(s) ==
  [r \in SessionIds |-> IF r \in LiveAt(made[s].dir) THEN "gone" ELSE serve[r]]

-----------------------------------------------------------------------------
(* Requests.                                                               *)

Init ==
  /\ mu = Free
  /\ sessions = NoMap
  /\ signals = 0
  /\ serve = [s \in SessionIds |-> "unborn"]
  /\ made = [s \in SessionIds |-> NoEntry]
  /\ watcher = [s \in SessionIds |-> "none"]
  /\ phase = "running"
  /\ pc = [h \in Handlers |-> "idle"]
  /\ op = [h \in Handlers |-> "none"]
  /\ batch = [h \in Handlers |-> << >>]
  /\ snap = [h \in Handlers |-> NoMap]
  /\ todo = [h \in Handlers |-> {}]
  /\ cur = [h \in Handlers |-> NoName]
  /\ failed = [h \in Handlers |-> FALSE]

Alive == phase # "exited"
Goto(h, l) == pc' = [pc EXCEPT ![h] = l]

(* The listener accepts until httpServer.Close.  A request refused for its *)
(* method or its JSON never reaches the manager and is left out.           *)
Accepts(h) == pc[h] = "idle" /\ phase \in {"running", "cancelled"}

ReceiveBatch(h, o, b) ==
  /\ Accepts(h)
  /\ Goto(h, "entry")
  /\ op' = [op EXCEPT ![h] = o]
  /\ batch' = [batch EXCEPT ![h] = b]
  /\ UNCHANGED <<managerVars, sessionVars, sweepVars, phase>>

ReceiveHealth(h) ==
  /\ Accepts(h)
  /\ Goto(h, "types")
  /\ op' = [op EXCEPT ![h] = "health"]
  /\ UNCHANGED <<managerVars, sessionVars, sweepVars, phase, batch>>

ReceiveShutdown(h) ==
  /\ Accepts(h)
  /\ Goto(h, "snapshot")
  /\ op' = [op EXCEPT ![h] = "shutdown"]
  /\ UNCHANGED <<managerVars, sessionVars, sweepVars, phase, batch>>

(* A handler that returns forgets its locals.                              *)
Finish(h) ==
  /\ Goto(h, "idle")
  /\ op' = [op EXCEPT ![h] = "none"]

(* handleHealth takes mu twice, for the types and for the count.           *)
ReadTypes(h) ==
  /\ Alive /\ pc[h] = "types" /\ mu = Free
  /\ Goto(h, "count")
  /\ UNCHANGED <<managerVars, sessionVars, sweepVars, phase, op, batch>>

ReadCount(h) ==
  /\ Alive /\ pc[h] = "count" /\ mu = Free
  /\ Finish(h)
  /\ UNCHANGED <<managerVars, sessionVars, sweepVars, phase, batch>>

-----------------------------------------------------------------------------
(* Mount, Unmount and Status, one entry of the batch after the other.      *)

Entry(h) == Head(batch[h])

(* The result of the entry is appended and the loop goes on.               *)
Advance(h) ==
  /\ Goto(h, "entry")
  /\ batch' = [batch EXCEPT ![h] = Tail(@)]

Accepted(h) == /\ Entry(h).type \in ManagedTypes
               /\ op[h] = "mount" => Entry(h).valid

(* isManaged takes mu for itself; Mount validates after it, without mu.    *)
Dismiss(h) ==
  /\ Alive /\ pc[h] = "entry" /\ batch[h] # << >> /\ mu = Free
  /\ ~Accepted(h)
  /\ Advance(h)
  /\ UNCHANGED <<managerVars, sessionVars, sweepVars, phase, op>>

Admit(h) ==
  /\ Alive /\ pc[h] = "entry" /\ batch[h] # << >> /\ mu = Free
  /\ Accepted(h)
  /\ Goto(h, "locking")
  /\ UNCHANGED <<managerVars, sessionVars, sweepVars, phase, op, batch>>

Respond(h) ==
  /\ Alive /\ pc[h] = "entry" /\ batch[h] = << >>
  /\ Finish(h)
  /\ UNCHANGED <<managerVars, sessionVars, sweepVars, phase, batch>>

(* Variants named after what they get wrong, such as the next one, are not *)
(* part of the model: they are bugs a change to the code could bring in,   *)
(* kept to show that the properties notice them.                           *)
LockMountUnchecked(h) ==
  /\ Alive /\ pc[h] = "locking" /\ op[h] = "mount" /\ mu = Free
  /\ Goto(h, "mounting")
  /\ mu' = h
  /\ UNCHANGED <<batch, sessions, signals, sessionVars, sweepVars, phase, op>>

(* A recorded name is answered with "already mounted"; otherwise mu is     *)
(* kept while the mounter works.                                           *)
LockMount(h) ==
  /\ Alive /\ pc[h] = "locking" /\ op[h] = "mount" /\ mu = Free
  /\ \/ /\ sessions[Entry(h).name] # NoSession
        /\ Advance(h)
        /\ UNCHANGED mu
     \/ /\ sessions[Entry(h).name] = NoSession
        /\ Goto(h, "mounting")
        /\ mu' = h
        /\ UNCHANGED batch
  /\ UNCHANGED <<sessions, signals, sessionVars, sweepVars, phase, op>>

MountSucceedsUnwatched(h, s) ==
  /\ Alive /\ pc[h] = "mounting"
  /\ serve[s] = "unborn"
  /\ LiveAt(Entry(h).dir) = {}
  /\ serve' = [serve EXCEPT ![s] = "live"]
  /\ made' = [made EXCEPT ![s] = Entry(h)]
  /\ sessions' = [sessions EXCEPT ![Entry(h).name] = s]
  /\ mu' = Free
  /\ Advance(h)
  /\ UNCHANGED <<signals, watcher, sweepVars, phase, op>>

(* The mounter refuses a directory that already carries a mount.  The      *)
(* session it returns is stored and watched before mu is released.         *)
MountSucceeds(h, s) ==
  /\ Alive /\ pc[h] = "mounting"
  /\ serve[s] = "unborn"
  /\ LiveAt(Entry(h).dir) = {}
  /\ serve' = [serve EXCEPT ![s] = "live"]
  /\ made' = [made EXCEPT ![s] = Entry(h)]
  /\ watcher' = [watcher EXCEPT ![s] = "waiting"]
  /\ sessions' = [sessions EXCEPT ![Entry(h).name] = s]
  /\ mu' = Free
  /\ Advance(h)
  /\ UNCHANGED <<signals, sweepVars, phase, op>>

MountFailsLocked(h) ==
  /\ Alive /\ pc[h] = "mounting"
  /\ Advance(h)
  /\ UNCHANGED <<mu, sessions, signals, sessionVars, sweepVars, phase, op>>

MountFails(h) ==
  /\ Alive /\ pc[h] = "mounting"
  /\ mu' = Free
  /\ Advance(h)
  /\ UNCHANGED <<sessions, signals, sessionVars, sweepVars, phase, op>>

LockUnmount(h) ==
  /\ Alive /\ pc[h] = "locking" /\ op[h] = "unmount" /\ mu = Free
  /\ \/ /\ sessions[Entry(h).name] = NoSession
        /\ Advance(h)
        /\ UNCHANGED mu
     \/ /\ sessions[Entry(h).name] # NoSession
        /\ Goto(h, "unmounting")
        /\ mu' = h
        /\ UNCHANGED batch
  /\ UNCHANGED <<sessions, signals, sessionVars, sweepVars, phase, op>>

UnmountSucceeds(h) ==
  /\ Alive /\ pc[h] = "unmounting"
  /\ TakesDown(sessions[Entry(h).name])
  /\ serve' = AfterUnmount(sessions[Entry(h).name])
  /\ sessions' = [sessions EXCEPT ![Entry(h).name] = NoSession]
  /\ mu' = Free
  /\ Advance(h)
  /\ UNCHANGED <<signals, made, watcher, sweepVars, phase, op>>

UnmountFailsForgets(h) ==
  /\ Alive /\ pc[h] = "unmounting"
  /\ mu' = Free
  /\ sessions' = [sessions EXCEPT ![Entry(h).name] = NoSession]
  /\ Advance(h)
  /\ UNCHANGED <<signals, sessionVars, sweepVars, phase, op>>

UnmountFails(h) ==
  /\ Alive /\ pc[h] = "unmounting"
  /\ mu' = Free
  /\ Advance(h)
  /\ UNCHANGED <<sessions, signals, sessionVars, sweepVars, phase, op>>

ReadStatus(h) ==
  /\ Alive /\ pc[h] = "locking" /\ op[h] = "status" /\ mu = Free
  /\ Advance(h)
  /\ UNCHANGED <<managerVars, sessionVars, sweepVars, phase, op>>

-----------------------------------------------------------------------------
(* Shutdown: UnmountAll works on a copy of the map and holds mu only to    *)
(* take the copy and to delete a name.                                     *)

TakeSnapshot(h) ==
  /\ Alive /\ pc[h] = "snapshot" /\ mu = Free
  /\ snap' = [snap EXCEPT ![h] = sessions]
  /\ todo' = [todo EXCEPT ![h] = {n \in Names : sessions[n] # NoSession}]
  /\ Goto(h, "sweeping")
  /\ UNCHANGED <<managerVars, sessionVars, phase, op, batch, cur, failed>>

SweepUnmount(h, n) ==
  /\ Alive /\ pc[h] = "sweeping" /\ n \in todo[h]
  /\ TakesDown(snap[h][n])
  /\ serve' = AfterUnmount(snap[h][n])
  /\ todo' = [todo EXCEPT ![h] = @ \ {n}]
  /\ cur' = [cur EXCEPT ![h] = n]
  /\ Goto(h, "dropping")
  /\ UNCHANGED <<managerVars, made, watcher, phase, op, batch, snap, failed>>

SweepFailsUncounted(h, n) ==
  /\ Alive /\ pc[h] = "sweeping" /\ n \in todo[h]
  /\ todo' = [todo EXCEPT ![h] = @ \ {n}]
  /\ UNCHANGED <<managerVars, sessionVars, phase, pc, op, batch, snap, cur, failed>>

SweepFails(h, n) ==
  /\ Alive /\ pc[h] = "sweeping" /\ n \in todo[h]
  /\ todo' = [todo EXCEPT ![h] = @ \ {n}]
  /\ failed' = [failed EXCEPT ![h] = TRUE]
  /\ UNCHANGED <<managerVars, sessionVars, phase, pc, op, batch, snap, cur>>

SweepDelete(h) ==
  /\ Alive /\ pc[h] = "dropping" /\ mu = Free
  /\ sessions' = [sessions EXCEPT ![cur[h]] = NoSession]
  /\ cur' = [cur EXCEPT ![h] = NoName]
  /\ Goto(h, "sweeping")
  /\ UNCHANGED <<mu, signals, sessionVars, phase, op, batch, snap, todo, failed>>

(* handleShutdown: the response is written and, when no unmount failed,    *)
(* the daemon's context is cancelled.                                      *)
SweepEnd(h) ==
  /\ Alive /\ pc[h] = "sweeping" /\ todo[h] = {}
  /\ phase' = IF ~failed[h] /\ phase = "running" THEN "cancelled" ELSE phase
  /\ Finish(h)
  /\ snap' = [snap EXCEPT ![h] = NoMap]
  /\ failed' = [failed EXCEPT ![h] = FALSE]
  /\ UNCHANGED <<managerVars, sessionVars, batch, todo, cur>>

(* Run: the goroutine that waits for the context closes the server, Serve  *)
(* returns and the process ends, whatever its other goroutines are doing.  *)
CloseServer ==
  /\ phase = "cancelled"
  /\ phase' = "closed"
  /\ UNCHANGED <<managerVars, sessionVars, handlerVars>>

Exit ==
  /\ phase = "closed"
  /\ phase' = "exited"
  /\ serve' = [s \in SessionIds |->
                 IF serve[s] = "live" THEN "stranded" ELSE serve[s]]
  /\ UNCHANGED <<managerVars, made, watcher, handlerVars>>

-----------------------------------------------------------------------------
(* Sessions that end, and the watchers that notice.                        *)

(* Somebody unmounts the directory from outside the daemon.                *)
ExternalUnmount(s) ==
  /\ Alive /\ serve[s] = "live"
  /\ serve' = [serve EXCEPT ![s] = "gone"]
  /\ UNCHANGED <<managerVars, made, watcher, phase, handlerVars>>

(* The session's FUSE server returns and puts its error into ErrChan.      *)
ServerEnds(s) ==
  /\ Alive /\ serve[s] = "gone"
  /\ serve' = [serve EXCEPT ![s] = "ended"]
  /\ UNCHANGED <<managerVars, made, watcher, phase, handlerVars>>

WatcherWakes(s) ==
  /\ Alive /\ watcher[s] = "waiting" /\ serve[s] = "ended"
  /\ watcher' = [watcher EXCEPT ![s] = "woken"]
  /\ UNCHANGED <<managerVars, serve, made, phase, handlerVars>>

WatcherKeepsRecord(s) ==
  /\ Alive /\ watcher[s] = "woken" /\ mu = Free
  /\ watcher' = [watcher EXCEPT ![s] = "signalling"]
  /\ UNCHANGED <<managerVars, serve, made, phase, handlerVars>>

(* The watcher deletes by the name it was started with.                    *)
WatcherDeletes(s) ==
  /\ Alive /\ watcher[s] = "woken" /\ mu = Free
  /\ sessions' = [sessions EXCEPT ![made[s].name] = NoSession]
  /\ watcher' = [watcher EXCEPT ![s] = "signalling"]
  /\ UNCHANGED <<mu, signals, serve, made, phase, handlerVars>>

WatcherOverfills(s) ==
  /\ Alive /\ watcher[s] = "signalling"
  /\ signals' = signals + 1
  /\ watcher' = [watcher EXCEPT ![s] = "exited"]
  /\ UNCHANGED <<mu, sessions, serve, made, phase, handlerVars>>

(* The send never blocks: a full channel drops the signal.                 *)
WatcherSignals(s) ==
  /\ Alive /\ watcher[s] = "signalling"
  /\ signals' = IF signals < CleanupCap THEN signals + 1 ELSE signals
  /\ watcher' = [watcher EXCEPT ![s] = "exited"]
  /\ UNCHANGED <<mu, sessions, serve, made, phase, handlerVars>>

-----------------------------------------------------------------------------
(* A process that has exited stays that way.                               *)
Terminated == ~Alive /\ UNCHANGED vars

HandlerStep(h) ==
  \/ ReadTypes(h) \/ ReadCount(h)
  \/ Dismiss(h) \/ Admit(h) \/ Respond(h)
  \/ LockMount(h) \/ MountFails(h)
  \/ \E s \in SessionIds : MountSucceeds(h, s)
  \/ LockUnmount(h) \/ UnmountSucceeds(h) \/ UnmountFails(h)
  \/ ReadStatus(h)
  \/ TakeSnapshot(h) \/ SweepDelete(h) \/ SweepEnd(h)
  \/ \E n \in Names : SweepUnmount(h, n) \/ SweepFails(h, n)

Receive(h) ==
  \/ \E o \in {"mount", "unmount", "status"}, b \in Batches : ReceiveBatch(h, o, b)
  \/ ReceiveHealth(h)
  \/ ReceiveShutdown(h)

SessionStep(s) ==
  \/ ServerEnds(s) \/ WatcherWakes(s) \/ WatcherDeletes(s) \/ WatcherSignals(s)

Next ==
  \/ \E h \in Handlers : Receive(h) \/ HandlerStep(h)
  \/ \E s \in SessionIds : SessionStep(s) \/ ExternalUnmount(s)
  \/ CloseServer \/ Exit \/ Terminated

Spec == Init /\ [][Next]_vars

(* Every goroutine runs; one that waits for mu gets it even if others take *)
(* it again and again, because a Go mutex hands over to a waiter that has  *)
(* starved for a millisecond.  The mounter's calls return.  Requests and   *)
(* unmounts from outside are free to happen or not.                        *)
FairSpec ==
  /\ Spec
  /\ \A h \in Handlers : SF_vars(HandlerStep(h))
  /\ \A s \in SessionIds : SF_vars(SessionStep(s))
  /\ WF_vars(CloseServer \/ Exit)

-----------------------------------------------------------------------------
(* Properties.                                                             *)

TypeOK ==
  /\ mu \in Handlers \cup {Free}
  /\ sessions \in [Names -> SessionIds \cup {NoSession}]
  /\ signals \in 0..CleanupCap
  /\ serve \in [SessionIds -> {"unborn", "live", "gone", "ended", "stranded"}]
  /\ made \in [SessionIds -> Entries \cup {NoEntry}]
  /\ watcher \in [SessionIds -> {"none", "waiting", "woken", "signalling", "exited"}]
  /\ phase \in Phases
  /\ pc \in [Handlers -> PCs]
  /\ op \in [Handlers -> Ops]
  /\ batch \in [Handlers -> Seq(Entries)]
  /\ snap \in [Handlers -> [Names -> SessionIds \cup {NoSession}]]
  /\ todo \in [Handlers -> SUBSET Names]
  /\ cur \in [Handlers -> Names \cup {NoName}]
  /\ failed \in [Handlers -> BOOLEAN]
(* Every name in the map leads to a session that was mounted under that    *)
(* name and whose watcher has not done its deletion yet, so the entry of a *)
(* mount that ends is never left behind: nothing else would remove it, and *)
(* Unmount of a dead session fails for ever (backend.go:132-133, 243-244). *)
RecordedAreWatched ==
  \A n \in Names : sessions[n] # NoSession =>
    /\ serve[sessions[n]] # "unborn"
    /\ made[sessions[n]].name = n
    /\ watcher[sessions[n]] \in {"waiting", "woken"}

Recorded(s) == \E n \in Names : sessions[n] = s
Over(s)     == serve[s] \in {"gone", "ended"}

(* A live mount drops out of the map only if an earlier session of the     *)
(* same entry has ended: the deletions by name of a watcher and of         *)
(* UnmountAll are the one way to lose a live mount, and the first mount of *)
(* an entry is never lost (backend.go:78-80, 243-245).                     *)
LiveUnlessSuperseded ==
  \A s \in SessionIds : serve[s] = "live" /\ ~Recorded(s) =>
    \E r \in SessionIds \ {s} : Over(r) /\ made[r].name = made[s].name

(* The daemon agrees to stop only for a handler whose whole copy of the    *)
(* map is unmounted: an Unmount that failed in the middle of the sweep, or *)
(* a second shutdown running beside it, never lets the daemon stop over a  *)
(* session that the sweep was to end (backend.go:73-83, server.go:54-59).  *)
Swept(h) == \A n \in Names : snap[h][n] # NoSession => serve[snap[h][n]] # "live"
StopsOnlySwept ==
  [][phase = "running" /\ phase' = "cancelled" =>
       \E h \in Handlers : pc[h] = "sweeping" /\ pc'[h] = "idle" /\ Swept(h)]_vars

(* The manager implements the session registry: no request, sweep or       *)
(* watcher ever overwrites a registered session or registers one twice.    *)
LifeOf == [s \in SessionIds |-> CASE serve[s] = "unborn" -> "new"
                                  [] serve[s] = "live"   -> "up"
                                  [] OTHER               -> "down"]
Registry == INSTANCE SessionRegistry WITH reg <- sessions, life <- LifeOf
RefinesRegistry == Registry!Spec

-----------------------------------------------------------------------------
(* The inductive invariant behind the safety properties.                   *)

(* A session is unborn, unmade and unwatched together; its watcher goes on *)
(* only once it has ended.                                                 *)
Lifecycle ==
  \A s \in SessionIds :
    /\ serve[s] = "unborn" <=> made[s] = NoEntry
    /\ serve[s] = "unborn" <=> watcher[s] = "none"
    /\ watcher[s] \in {"woken", "signalling", "exited"} => serve[s] = "ended"

(* mu is held exactly by the handler that is inside a mounter call.        *)
Mutex == \A h \in Handlers : mu = h <=> pc[h] \in {"mounting", "unmounting"}

(* What a handler knows of its entry at each point.                        *)
EntryKnown ==
  \A h \in Handlers :
    /\ pc[h] \in {"locking", "mounting", "unmounting"} => batch[h] # << >>
    /\ pc[h] = "mounting" => sessions[Entry(h).name] = NoSession
    /\ pc[h] = "unmounting" => sessions[Entry(h).name] # NoSession

(* The mounter lets no two live mounts share a directory.                  *)
OneLivePerDir ==
  \A s, r \in SessionIds :
    serve[s] = "live" /\ serve[r] = "live" /\ made[s].dir = made[r].dir => s = r

(* A sweep's copy holds sessions under their own names; it visits only     *)
(* those, and the one it is about to delete is no longer live.             *)
SweepKnown ==
  \A h \in Handlers :
    /\ \A n \in Names : snap[h][n] # NoSession =>
         serve[snap[h][n]] # "unborn" /\ made[snap[h][n]].name = n
    /\ \A n \in todo[h] : snap[h][n] # NoSession
    /\ pc[h] = "dropping" =>
         /\ cur[h] \in Names
         /\ snap[h][cur[h]] # NoSession
         /\ serve[snap[h][cur[h]]] # "live"

(* Without a failure, what the sweep has visited is no longer live.        *)
SweepSoFar ==
  \A h \in Handlers : ~failed[h] =>
    \A n \in Names \ todo[h] : snap[h][n] # NoSession => serve[snap[h][n]] # "live"

(* Nothing is stranded before the exit, and nothing is live after it.      *)
ExitStrands ==
  \A s \in SessionIds : /\ serve[s] = "stranded" => ~Alive
                        /\ serve[s] = "live" => Alive

IInv == /\ TypeOK
        /\ Lifecycle
        /\ Mutex
        /\ EntryKnown
        /\ OneLivePerDir
        /\ RecordedAreWatched
        /\ SweepKnown
        /\ SweepSoFar
        /\ ExitStrands
        /\ LiveUnlessSuperseded

-----------------------------------------------------------------------------
(* Liveness, and what the documentation says of the daemon.                *)

(* Every request is answered while the daemon lives: no early return keeps *)
(* mu and no goroutine waits for another in a circle.                      *)
RequestsAnswered ==
  \A h \in Handlers : pc[h] # "idle" ~> pc[h] = "idle" \/ ~Alive

(* A mount that ended, also one that nobody unmounted through the daemon,  *)
(* is forgotten by the map, and its watcher terminates although nobody in  *)
(* the daemon ever receives from cleanupSignals (backend.go:236-251).      *)
EndedSessionsCleared ==
  \A s \in SessionIds :
    Over(s) ~> (~Recorded(s) /\ watcher[s] = "exited") \/ ~Alive

(* README.md:208: the daemon exists to "维持挂载、处理文件读写并记录挂载状态", *)
(* to maintain the mounts and record their state: every live mount of a    *)
(* running daemon is in its map.                                           *)
LiveMountsRecorded ==
  phase = "running" => \A s \in SessionIds : serve[s] = "live" => Recorded(s)

(* README.md:247: on "d down" gomount first unmounts every mount that the  *)
(* daemon manages and then stops the process, so that a daemon which       *)
(* stopped leaves no mount behind.                                         *)
NoMountLeftBehind ==
  phase = "exited" => \A s \in SessionIds : serve[s] # "stranded"
=============================================================================
