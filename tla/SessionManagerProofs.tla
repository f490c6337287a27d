------------------------ MODULE SessionManagerProofs ------------------------
(* Machine-checked proofs about SessionManager, for every value of its     *)
(* constants.                                                              *)
EXTENDS SessionManager, TLAPS

(* The head of a batch that is not exhausted is an entry, and what is left *)
(* of it is a batch.                                                       *)
LEMMA EntryTyped ==
  ASSUME TypeOK, NEW h \in Handlers, batch[h] # << >>
  PROVE  /\ Entry(h) \in Entries
         /\ Tail(batch[h]) \in Seq(Entries)
  <1>1. batch[h] \in Seq(Entries)
    BY DEF TypeOK
  <1> QED
    BY <1>1 DEF Entry

(* The fields of an entry have the types the records of Entries give them. *)
LEMMA EntryFields ==
  ASSUME NEW e \in Entries
  PROVE  e.name \in Names /\ e.dir \in Dirs
  BY DEF Entries

(* The initial state has the types of TypeOK.                              *)
LEMMA TypeInit == Init => TypeOK
  <1> SUFFICES ASSUME Init PROVE TypeOK
    OBVIOUS
  <1>1. << >> \in Seq(Entries)
    OBVIOUS
  <1>2. 0 \in 0..CleanupCap
    BY CleanupCapPositive
  <1> QED
    BY <1>1, <1>2 DEF Init, TypeOK, NoMap, PCs, Ops, Phases

(* Every step of a handler keeps the types.                                *)
LEMMA TypeHandler ==
  ASSUME TypeOK, EntryKnown, NEW h \in Handlers, HandlerStep(h) \/ Receive(h)
  PROVE  TypeOK'
  <1> USE DEF TypeOK, PCs, Ops, Phases, Finish, Goto, Advance, managerVars,
              sessionVars, sweepVars
  <1>1. CASE Receive(h)
    <2>1. ASSUME NEW o \in {"mount", "unmount", "status"}, NEW b \in Batches,
                 ReceiveBatch(h, o, b)
          PROVE  TypeOK'
      BY <2>1, BatchesAreEntryLists DEF ReceiveBatch
    <2>2. CASE ReceiveHealth(h)
      BY <2>2 DEF ReceiveHealth
    <2>3. CASE ReceiveShutdown(h)
      BY <2>3 DEF ReceiveShutdown
    <2> QED
      BY <1>1, <2>1, <2>2, <2>3 DEF Receive
  <1>2. CASE ReadTypes(h)
    BY <1>2 DEF ReadTypes
  <1>3. CASE ReadCount(h)
    BY <1>3 DEF ReadCount
  <1>4. CASE Dismiss(h)
    BY <1>4, EntryTyped DEF Dismiss
  <1>5. CASE Admit(h)
    BY <1>5 DEF Admit
  <1>6. CASE Respond(h)
    BY <1>6 DEF Respond
  <1>7. CASE LockMount(h)
    BY <1>7, EntryTyped DEF LockMount, EntryKnown
  <1>8. CASE MountFails(h)
    BY <1>8, EntryTyped DEF MountFails, EntryKnown
  <1>9. ASSUME NEW s \in SessionIds, MountSucceeds(h, s) PROVE TypeOK'
    BY <1>9, EntryTyped DEF MountSucceeds, EntryKnown
  <1>10. CASE LockUnmount(h)
    BY <1>10, EntryTyped DEF LockUnmount, EntryKnown
  <1>11. CASE UnmountSucceeds(h)
    BY <1>11, EntryTyped DEF UnmountSucceeds, AfterUnmount, EntryKnown
  <1>12. CASE UnmountFails(h)
    BY <1>12, EntryTyped DEF UnmountFails, EntryKnown
  <1>13. CASE ReadStatus(h)
    BY <1>13, EntryTyped DEF ReadStatus, EntryKnown
  <1>14. CASE TakeSnapshot(h)
    BY <1>14 DEF TakeSnapshot
  <1>15. CASE SweepDelete(h)
    BY <1>15 DEF SweepDelete
  <1>16. CASE SweepEnd(h)
    BY <1>16 DEF SweepEnd, NoMap
  <1>17. ASSUME NEW n \in Names, SweepUnmount(h, n) PROVE TypeOK'
    BY <1>17 DEF SweepUnmount, AfterUnmount
  <1>18. ASSUME NEW n \in Names, SweepFails(h, n) PROVE TypeOK'
    BY <1>18 DEF SweepFails
  <1> QED
    BY <1>1, <1>2, <1>3, <1>4, <1>5, <1>6, <1>7, <1>8, <1>9, <1>10, <1>11,
       <1>12, <1>13, <1>14, <1>15, <1>16, <1>17, <1>18 DEF HandlerStep
(* So do the steps of sessions, watchers and the process.                  *)
LEMMA TypeNext ==
  ASSUME TypeOK, EntryKnown, [Next]_vars
  PROVE  TypeOK'
  <1> USE DEF TypeOK, Phases, managerVars, handlerVars
  <1>1. ASSUME NEW h \in Handlers, Receive(h) \/ HandlerStep(h) PROVE TypeOK'
    BY <1>1, TypeHandler
  <1>2. ASSUME NEW s \in SessionIds, ServerEnds(s) PROVE TypeOK'
    BY <1>2 DEF ServerEnds
  <1>3. ASSUME NEW s \in SessionIds, WatcherWakes(s) PROVE TypeOK'
    BY <1>3 DEF WatcherWakes
  <1>4. ASSUME NEW s \in SessionIds, WatcherDeletes(s) PROVE TypeOK'
    BY <1>4 DEF WatcherDeletes
  <1>5. ASSUME NEW s \in SessionIds, WatcherSignals(s) PROVE TypeOK'
    <2>1. signals' \in 0..CleanupCap
      BY <1>5, CleanupCapPositive DEF WatcherSignals
    <2> QED
      BY <1>5, <2>1 DEF WatcherSignals
  <1>6. ASSUME NEW s \in SessionIds, ExternalUnmount(s) PROVE TypeOK'
    BY <1>6 DEF ExternalUnmount
  <1>7. CASE CloseServer
    BY <1>7 DEF CloseServer, sessionVars
  <1>8. CASE Exit
    BY <1>8 DEF Exit
  <1>9. CASE UNCHANGED vars
    BY <1>9 DEF vars
  <1> QED
    BY <1>1, <1>2, <1>3, <1>4, <1>5, <1>6, <1>7, <1>8, <1>9
       DEF Next, SessionStep, Terminated

-----------------------------------------------------------------------------
(* Most steps leave the map, the sessions and their watchers alone; these  *)
(* are the ones that do not.                                               *)
LEMMA StepsOnSessions ==
  ASSUME [Next]_vars
  PROVE  \/ UNCHANGED <<sessions, serve, made, watcher>>
         \/ \E h \in Handlers :
              \/ \E s \in SessionIds : MountSucceeds(h, s)
              \/ UnmountSucceeds(h)
              \/ \E n \in Names : SweepUnmount(h, n)
              \/ SweepDelete(h)
         \/ \E s \in SessionIds : SessionStep(s) \/ ExternalUnmount(s)
         \/ Exit
  <1> USE DEF managerVars, sessionVars
  <1>1. ASSUME NEW h \in Handlers, Receive(h)
        PROVE  UNCHANGED <<sessions, serve, made, watcher>>
    BY <1>1 DEF Receive, ReceiveBatch, ReceiveHealth, ReceiveShutdown
  <1>2. ASSUME NEW h \in Handlers,
               \/ ReadTypes(h) \/ ReadCount(h) \/ Dismiss(h) \/ Admit(h)
               \/ Respond(h) \/ LockMount(h) \/ MountFails(h) \/ LockUnmount(h)
               \/ UnmountFails(h) \/ ReadStatus(h) \/ TakeSnapshot(h) \/ SweepEnd(h)
               \/ \E n \in Names : SweepFails(h, n)
        PROVE  UNCHANGED <<sessions, serve, made, watcher>>
    BY <1>2 DEF ReadTypes, ReadCount, Dismiss, Admit, Respond, LockMount,
       MountFails, LockUnmount, UnmountFails, ReadStatus, TakeSnapshot,
       SweepEnd, SweepFails
  <1>3. CASE CloseServer
    BY <1>3 DEF CloseServer
  <1>4. CASE UNCHANGED vars
    BY <1>4 DEF vars
  <1> QED
    BY <1>1, <1>2, <1>3, <1>4 DEF Next, HandlerStep, Terminated

(* What an unmount by path changes: some live sessions are gone.           *)
LEMMA UnmountEffect ==
  ASSUME TypeOK, NEW s \in SessionIds
  PROVE  \A r \in SessionIds :
           /\ AfterUnmount(s)[r] = "gone" \/ AfterUnmount(s)[r] = serve[r]
           /\ AfterUnmount(s)[r] # serve[r] => serve[r] = "live"
           /\ r = s => AfterUnmount(s)[r] # "live"
  BY DEF TypeOK, AfterUnmount, LiveAt

(* Every step keeps life cycle, entry and watcher of a session in step     *)
(* (backend.go:132-133, 236-251).                                          *)
LEMMA LifecycleNext ==
  ASSUME TypeOK, Lifecycle, EntryKnown, SweepKnown, [Next]_vars
  PROVE  Lifecycle'
  <1> USE DEF TypeOK, Lifecycle
  <1>1. CASE UNCHANGED <<sessions, serve, made, watcher>>
    BY <1>1
  <1>2. ASSUME NEW h \in Handlers, NEW s \in SessionIds, MountSucceeds(h, s)
        PROVE  Lifecycle'
    <2>1. Entry(h) \in Entries
      BY <1>2, EntryTyped DEF MountSucceeds, EntryKnown
    <2> QED
      BY <1>2, <2>1, NoEntryIsNoEntry DEF MountSucceeds
  <1>3. ASSUME NEW h \in Handlers, UnmountSucceeds(h) PROVE Lifecycle'
    <2>1. sessions[Entry(h).name] \in SessionIds
      BY <1>3, EntryTyped, EntryFields DEF UnmountSucceeds, EntryKnown
    <2> QED
      BY <1>3, <2>1, UnmountEffect DEF UnmountSucceeds
  <1>4. ASSUME NEW h \in Handlers, NEW n \in Names, SweepUnmount(h, n)
        PROVE  Lifecycle'
    <2>1. snap[h][n] \in SessionIds
      BY <1>4 DEF SweepUnmount, SweepKnown
    <2> QED
      BY <1>4, <2>1, UnmountEffect DEF SweepUnmount
  <1>5. ASSUME NEW h \in Handlers, SweepDelete(h) PROVE Lifecycle'
    BY <1>5 DEF SweepDelete, sessionVars
  <1>6. ASSUME NEW s \in SessionIds, SessionStep(s) \/ ExternalUnmount(s)
        PROVE  Lifecycle'
    BY <1>6 DEF SessionStep, ServerEnds, WatcherWakes, WatcherDeletes,
       WatcherSignals, ExternalUnmount
  <1>7. CASE Exit
    BY <1>7 DEF Exit
  <1> QED
    BY <1>1, <1>2, <1>3, <1>4, <1>5, <1>6, <1>7, StepsOnSessions
(* No step lets two live mounts share a directory.                         *)
LEMMA OneLivePerDirNext ==
  ASSUME TypeOK, EntryKnown, SweepKnown, OneLivePerDir, [Next]_vars
  PROVE  OneLivePerDir'
  <1> USE DEF TypeOK, OneLivePerDir
  <1>1. CASE UNCHANGED <<sessions, serve, made, watcher>>
    BY <1>1
  <1>2. ASSUME NEW h \in Handlers, NEW s \in SessionIds, MountSucceeds(h, s)
        PROVE  OneLivePerDir'
    BY <1>2 DEF MountSucceeds, LiveAt
  <1>3. ASSUME NEW h \in Handlers, UnmountSucceeds(h) PROVE OneLivePerDir'
    <2>1. sessions[Entry(h).name] \in SessionIds
      BY <1>3, EntryTyped, EntryFields DEF UnmountSucceeds, EntryKnown
    <2> QED
      BY <1>3, <2>1, UnmountEffect DEF UnmountSucceeds
  <1>4. ASSUME NEW h \in Handlers, NEW n \in Names, SweepUnmount(h, n)
        PROVE  OneLivePerDir'
    <2>1. snap[h][n] \in SessionIds
      BY <1>4 DEF SweepUnmount, SweepKnown
    <2> QED
      BY <1>4, <2>1, UnmountEffect DEF SweepUnmount
  <1>5. ASSUME NEW h \in Handlers, SweepDelete(h) PROVE OneLivePerDir'
    BY <1>5 DEF SweepDelete, sessionVars
  <1>6. ASSUME NEW s \in SessionIds, SessionStep(s) \/ ExternalUnmount(s)
        PROVE  OneLivePerDir'
    BY <1>6 DEF SessionStep, ServerEnds, WatcherWakes, WatcherDeletes,
       WatcherSignals, ExternalUnmount
  <1>7. CASE Exit
    BY <1>7 DEF Exit
  <1> QED
    BY <1>1, <1>2, <1>3, <1>4, <1>5, <1>6, <1>7, StepsOnSessions

(* Every step keeps the map's names on watched sessions of their own: a    *)
(* mount stores and watches in one critical section, and a watcher deletes *)
(* before it goes on (backend.go:132-133, 242-245).                        *)
LEMMA RecordedNext ==
  ASSUME TypeOK, Lifecycle, EntryKnown, SweepKnown, RecordedAreWatched, [Next]_vars
  PROVE  RecordedAreWatched'
  <1> USE DEF TypeOK, RecordedAreWatched
  <1>1. CASE UNCHANGED <<sessions, serve, made, watcher>>
    BY <1>1
  <1>2. ASSUME NEW h \in Handlers, NEW s \in SessionIds, MountSucceeds(h, s)
        PROVE  RecordedAreWatched'
    <2>1. Entry(h).name \in Names
      BY <1>2, EntryTyped, EntryFields DEF MountSucceeds, EntryKnown
    <2>2. ASSUME NEW n \in Names, sessions'[n] # NoSession
          PROVE  /\ serve'[sessions'[n]] # "unborn"
                 /\ made'[sessions'[n]].name = n
                 /\ watcher'[sessions'[n]] \in {"waiting", "woken"}
      <3>1. CASE n = Entry(h).name
        BY <1>2, <2>1, <3>1 DEF MountSucceeds
      <3>2. CASE n # Entry(h).name
        BY <1>2, <2>1, <2>2, <3>2 DEF MountSucceeds
      <3> QED
        BY <3>1, <3>2
    <2> QED
      BY <2>2
  <1>3. ASSUME NEW h \in Handlers, UnmountSucceeds(h) PROVE RecordedAreWatched'
    <2>1. sessions[Entry(h).name] \in SessionIds
      BY <1>3, EntryTyped, EntryFields DEF UnmountSucceeds, EntryKnown
    <2> QED
      BY <1>3, <2>1, UnmountEffect DEF UnmountSucceeds
  <1>4. ASSUME NEW h \in Handlers, NEW n \in Names, SweepUnmount(h, n)
        PROVE  RecordedAreWatched'
    <2>1. snap[h][n] \in SessionIds
      BY <1>4 DEF SweepUnmount, SweepKnown
    <2> QED
      BY <1>4, <2>1, UnmountEffect DEF SweepUnmount, managerVars
  <1>5. ASSUME NEW h \in Handlers, SweepDelete(h) PROVE RecordedAreWatched'
    BY <1>5 DEF SweepDelete, sessionVars
  <1>6. ASSUME NEW s \in SessionIds, WatcherDeletes(s) PROVE RecordedAreWatched'
    BY <1>6 DEF WatcherDeletes
  <1>7. ASSUME NEW s \in SessionIds,
               \/ ServerEnds(s) \/ WatcherWakes(s) \/ WatcherSignals(s)
               \/ ExternalUnmount(s)
        PROVE  RecordedAreWatched'
    BY <1>7 DEF ServerEnds, WatcherWakes, WatcherSignals, ExternalUnmount, managerVars
  <1>8. CASE Exit
    BY <1>8 DEF Exit, managerVars
  <1> QED
    BY <1>1, <1>2, <1>3, <1>4, <1>5, <1>6, <1>7, <1>8, StepsOnSessions
       DEF SessionStep

(* Only the end of the process strands mounts, and it leaves none live.    *)
LEMMA ExitStrandsNext ==
  ASSUME TypeOK, EntryKnown, SweepKnown, ExitStrands, [Next]_vars
  PROVE  ExitStrands'
  <1> USE DEF TypeOK, ExitStrands, Alive
  <1>1. ~Exit => (Alive <=> Alive')
    <2>1. ASSUME NEW h \in Handlers, Receive(h) PROVE UNCHANGED phase
      BY <2>1 DEF Receive, ReceiveBatch, ReceiveHealth, ReceiveShutdown
    <2>2. ASSUME NEW h \in Handlers, HandlerStep(h), ~SweepEnd(h)
          PROVE  UNCHANGED phase
      BY <2>2 DEF HandlerStep, ReadTypes, ReadCount, Dismiss, Admit, Respond,
         LockMount, MountFails, MountSucceeds, LockUnmount, UnmountSucceeds,
         UnmountFails, ReadStatus, TakeSnapshot, SweepDelete, SweepUnmount,
         SweepFails
    <2>3. ASSUME NEW h \in Handlers, SweepEnd(h) PROVE Alive /\ Alive'
      BY <2>3 DEF SweepEnd
    <2>4. ASSUME NEW s \in SessionIds, SessionStep(s) \/ ExternalUnmount(s)
          PROVE  UNCHANGED phase
      BY <2>4 DEF SessionStep, ServerEnds, WatcherWakes, WatcherDeletes,
         WatcherSignals, ExternalUnmount
    <2>5. CloseServer => Alive /\ Alive'
      BY DEF CloseServer
    <2> QED
      BY <2>1, <2>2, <2>3, <2>4, <2>5 DEF Next, Terminated, vars
  <1>2. CASE UNCHANGED <<sessions, serve, made, watcher>> /\ ~Exit
    BY <1>1, <1>2
  <1>3. ASSUME NEW h \in Handlers, NEW s \in SessionIds, MountSucceeds(h, s)
        PROVE  ExitStrands'
    BY <1>3 DEF MountSucceeds
  <1>4. ASSUME NEW h \in Handlers, UnmountSucceeds(h) PROVE ExitStrands'
    <2>1. sessions[Entry(h).name] \in SessionIds
      BY <1>4, EntryTyped, EntryFields DEF UnmountSucceeds, EntryKnown
    <2> QED
      BY <1>4, <2>1, UnmountEffect DEF UnmountSucceeds
  <1>5. ASSUME NEW h \in Handlers, NEW n \in Names, SweepUnmount(h, n)
        PROVE  ExitStrands'
    <2>1. snap[h][n] \in SessionIds
      BY <1>5 DEF SweepUnmount, SweepKnown
    <2> QED
      BY <1>5, <2>1, UnmountEffect DEF SweepUnmount
  <1>6. ASSUME NEW h \in Handlers, SweepDelete(h) PROVE ExitStrands'
    BY <1>6 DEF SweepDelete, sessionVars
  <1>7. ASSUME NEW s \in SessionIds, SessionStep(s) \/ ExternalUnmount(s)
        PROVE  ExitStrands'
    BY <1>7 DEF SessionStep, ServerEnds, WatcherWakes, WatcherDeletes,
       WatcherSignals, ExternalUnmount
  <1>8. CASE Exit
    BY <1>8 DEF Exit
  <1> QED
    BY <1>2, <1>3, <1>4, <1>5, <1>6, <1>7, <1>8, StepsOnSessions
-----------------------------------------------------------------------------
(* The steps that are not a handler's leave the handlers and mu alone, and *)
(* delete from the map only while mu is free.                              *)
LEMMA OtherSteps ==
  ASSUME [Next]_vars, ~ \E h \in Handlers : Receive(h) \/ HandlerStep(h)
  PROVE  /\ UNCHANGED <<mu, pc, op, batch, snap, todo, cur, failed>>
         /\ UNCHANGED sessions \/ mu = Free
  <1>1. CASE \E s \in SessionIds : SessionStep(s) \/ ExternalUnmount(s)
    BY <1>1 DEF SessionStep, ServerEnds, WatcherWakes, WatcherDeletes,
       WatcherSignals, ExternalUnmount, managerVars, handlerVars
  <1>2. CASE CloseServer \/ Exit \/ Terminated
    BY <1>2 DEF CloseServer, Exit, Terminated, managerVars, handlerVars, vars
  <1>3. CASE UNCHANGED vars
    BY <1>3 DEF vars
  <1> QED
    BY <1>1, <1>2, <1>3 DEF Next

(* mu stays with the handler inside a mounter call and with no other       *)
(* (backend.go:94-95, 152-153).                                            *)
LEMMA MutexNext ==
  ASSUME TypeOK, Mutex, [Next]_vars
  PROVE  Mutex'
  <1> USE FreeIsNoHandler DEF TypeOK, Mutex, Goto, Finish, Advance, managerVars
  <1>1. ASSUME NEW h \in Handlers, NEW l \in PCs \ {"mounting", "unmounting"},
               pc[h] \notin {"mounting", "unmounting"}, Goto(h, l), UNCHANGED mu
        PROVE  Mutex'
    BY <1>1
  <1>2. ASSUME NEW h \in Handlers, NEW l \in PCs \ {"mounting", "unmounting"},
               pc[h] \in {"mounting", "unmounting"}, Goto(h, l), mu' = Free
        PROVE  Mutex'
    BY <1>2
  <1>3. ASSUME NEW h \in Handlers, NEW l \in {"mounting", "unmounting"},
               mu = Free, Goto(h, l), mu' = h
        PROVE  Mutex'
    BY <1>3
  <1>4. ASSUME NEW h \in Handlers, Receive(h) PROVE Mutex'
    BY <1>1, <1>4 DEF Receive, ReceiveBatch, ReceiveHealth, ReceiveShutdown, Accepts, PCs
  <1>5. ASSUME NEW h \in Handlers,
               \/ ReadTypes(h) \/ ReadCount(h) \/ Dismiss(h) \/ Admit(h)
               \/ Respond(h) \/ ReadStatus(h)
        PROVE  Mutex'
    BY <1>1, <1>5 DEF ReadTypes, ReadCount, Dismiss, Admit, Respond, ReadStatus, PCs
  <1>6. ASSUME NEW h \in Handlers, LockMount(h) \/ LockUnmount(h) PROVE Mutex'
    BY <1>1, <1>3, <1>6 DEF LockMount, LockUnmount, PCs
  <1>7. ASSUME NEW h \in Handlers,
               \/ MountFails(h) \/ UnmountSucceeds(h) \/ UnmountFails(h)
               \/ \E s \in SessionIds : MountSucceeds(h, s)
        PROVE  Mutex'
    BY <1>2, <1>7 DEF MountFails, UnmountSucceeds, UnmountFails, MountSucceeds, PCs
  <1>8. ASSUME NEW h \in Handlers,
               \/ TakeSnapshot(h) \/ SweepDelete(h) \/ SweepEnd(h)
               \/ \E n \in Names : SweepUnmount(h, n)
        PROVE  Mutex'
    BY <1>1, <1>8 DEF TakeSnapshot, SweepDelete, SweepEnd, SweepUnmount, PCs
  <1>9. ASSUME NEW h \in Handlers, NEW n \in Names, SweepFails(h, n) PROVE Mutex'
    BY <1>9 DEF SweepFails
  <1>10. CASE ~ \E h \in Handlers : Receive(h) \/ HandlerStep(h)
    BY <1>10, OtherSteps
  <1> QED
    BY <1>4, <1>5, <1>6, <1>7, <1>8, <1>9, <1>10 DEF HandlerStep

(* Only the holder of mu is inside the mounter.                            *)
LEMMA FreeMeansNobodyInside ==
  ASSUME Mutex, mu = Free, NEW h \in Handlers
  PROVE  pc[h] \notin {"mounting", "unmounting"}
  BY FreeIsNoHandler DEF Mutex

(* What a handler found in the map under mu is still so when the mounter   *)
(* returns: nobody changes the map while mu is held.                       *)
LEMMA EntryKnownNext ==
  ASSUME TypeOK, Mutex, EntryKnown, [Next]_vars
  PROVE  EntryKnown'
  <1> USE DEF TypeOK, EntryKnown, Entry, Goto, Finish, Advance, managerVars
  <1>1. ASSUME NEW h \in Handlers, Receive(h) PROVE EntryKnown'
    BY <1>1 DEF Receive, ReceiveBatch, ReceiveHealth, ReceiveShutdown, Accepts
  <1>2. ASSUME NEW h \in Handlers,
               \/ ReadTypes(h) \/ ReadCount(h) \/ Dismiss(h) \/ Admit(h)
               \/ Respond(h) \/ ReadStatus(h)
        PROVE  EntryKnown'
    BY <1>2 DEF ReadTypes, ReadCount, Dismiss, Admit, Respond, ReadStatus
  <1>3. ASSUME NEW h \in Handlers, LockMount(h) \/ LockUnmount(h) PROVE EntryKnown'
    BY <1>3 DEF LockMount, LockUnmount
  <1>4. ASSUME NEW h \in Handlers, MountFails(h) \/ UnmountFails(h) PROVE EntryKnown'
    BY <1>4 DEF MountFails, UnmountFails
  <1>5. ASSUME NEW h \in Handlers,
               UnmountSucceeds(h) \/ \E s \in SessionIds : MountSucceeds(h, s)
        PROVE  EntryKnown'
    <2>1. \A k \in Handlers \ {h} : pc[k] \notin {"mounting", "unmounting"}
      BY <1>5 DEF Mutex, UnmountSucceeds, MountSucceeds
    <2> QED
      BY <1>5, <2>1 DEF UnmountSucceeds, MountSucceeds
  <1>6. ASSUME NEW h \in Handlers,
               TakeSnapshot(h) \/ SweepEnd(h)
               \/ \E n \in Names : SweepUnmount(h, n) \/ SweepFails(h, n)
        PROVE  EntryKnown'
    BY <1>6 DEF TakeSnapshot, SweepEnd, SweepUnmount, SweepFails
  <1>7. ASSUME NEW h \in Handlers, SweepDelete(h) PROVE EntryKnown'
    BY <1>7, FreeMeansNobodyInside DEF SweepDelete
  <1>8. CASE ~ \E h \in Handlers : Receive(h) \/ HandlerStep(h)
    BY <1>8, OtherSteps, FreeMeansNobodyInside
  <1> QED
    BY <1>1, <1>2, <1>3, <1>4, <1>5, <1>6, <1>7, <1>8 DEF HandlerStep
(* A session that was made keeps its entry, and one that is not live never *)
(* becomes live again: what a sweep knows of its copy stays true.          *)
LEMMA SessionsStay ==
  ASSUME TypeOK, Lifecycle, EntryKnown, SweepKnown, [Next]_vars,
         NEW s \in SessionIds, serve[s] # "unborn"
  PROVE  /\ serve'[s] # "unborn"
         /\ made'[s] = made[s]
         /\ serve[s] # "live" => serve'[s] # "live"
  <1> USE DEF TypeOK
  <1>1. CASE UNCHANGED <<sessions, serve, made, watcher>>
    BY <1>1
  <1>2. ASSUME NEW h \in Handlers, NEW r \in SessionIds, MountSucceeds(h, r)
        PROVE  /\ serve'[s] # "unborn"
               /\ made'[s] = made[s]
               /\ serve[s] # "live" => serve'[s] # "live"
    BY <1>2 DEF MountSucceeds
  <1>3. ASSUME NEW h \in Handlers, UnmountSucceeds(h)
        PROVE  /\ serve'[s] # "unborn"
               /\ made'[s] = made[s]
               /\ serve[s] # "live" => serve'[s] # "live"
    BY <1>3 DEF UnmountSucceeds, AfterUnmount, LiveAt
  <1>4. ASSUME NEW h \in Handlers, NEW n \in Names, SweepUnmount(h, n)
        PROVE  /\ serve'[s] # "unborn"
               /\ made'[s] = made[s]
               /\ serve[s] # "live" => serve'[s] # "live"
    BY <1>4 DEF SweepUnmount, AfterUnmount, LiveAt
  <1>5. ASSUME NEW h \in Handlers, SweepDelete(h)
        PROVE  UNCHANGED <<serve, made>>
    BY <1>5 DEF SweepDelete, sessionVars
  <1>6. ASSUME NEW r \in SessionIds, SessionStep(r) \/ ExternalUnmount(r)
        PROVE  /\ serve'[s] # "unborn"
               /\ made'[s] = made[s]
               /\ serve[s] # "live" => serve'[s] # "live"
    BY <1>6 DEF SessionStep, ServerEnds, WatcherWakes, WatcherDeletes,
       WatcherSignals, ExternalUnmount
  <1>7. CASE Exit
    BY <1>7 DEF Exit
  <1> QED
    BY <1>1, <1>2, <1>3, <1>4, <1>5, <1>6, <1>7, StepsOnSessions

(* The steps that change what a sweep remembers.                           *)
LEMMA SweepSteps ==
  ASSUME TypeOK, [Next]_vars
  PROVE  \/ /\ UNCHANGED <<snap, todo, cur, failed>>
            /\ \A k \in Handlers : pc'[k] = "dropping" => pc[k] = "dropping"
         \/ \E h \in Handlers :
              \/ TakeSnapshot(h) \/ SweepDelete(h) \/ SweepEnd(h)
              \/ \E n \in Names : SweepUnmount(h, n) \/ SweepFails(h, n)
  <1> USE DEF TypeOK, Goto, Finish, Advance, sweepVars
  <1>1. ASSUME NEW h \in Handlers,
               \/ Receive(h) \/ ReadTypes(h) \/ ReadCount(h) \/ Dismiss(h) \/ Admit(h)
               \/ Respond(h) \/ LockMount(h) \/ MountFails(h)
               \/ \E s \in SessionIds : MountSucceeds(h, s)
               \/ LockUnmount(h) \/ UnmountSucceeds(h) \/ UnmountFails(h)
               \/ ReadStatus(h)
        PROVE  /\ UNCHANGED <<snap, todo, cur, failed>>
               /\ \A k \in Handlers : pc'[k] = "dropping" => pc[k] = "dropping"
    BY <1>1 DEF Receive, ReceiveBatch, ReceiveHealth, ReceiveShutdown, ReadTypes,
       ReadCount, Dismiss, Admit, Respond, LockMount, MountFails, MountSucceeds,
       LockUnmount, UnmountSucceeds, UnmountFails, ReadStatus
  <1>2. CASE ~ \E h \in Handlers : Receive(h) \/ HandlerStep(h)
    BY <1>2, OtherSteps
  <1> QED
    BY <1>1, <1>2 DEF HandlerStep

(* A sweep's copy keeps naming sessions that were mounted under those      *)
(* names, whatever the map became since (backend.go:64-69).                *)
LEMMA SweepKnownNext ==
  ASSUME TypeOK, Lifecycle, EntryKnown, RecordedAreWatched, SweepKnown, [Next]_vars
  PROVE  SweepKnown'
  <1> DEFINE Known(k) ==
        /\ \A n \in Names : snap[k][n] # NoSession =>
             serve[snap[k][n]] # "unborn" /\ made[snap[k][n]].name = n
        /\ \A n \in todo[k] : snap[k][n] # NoSession
        /\ pc[k] = "dropping" =>
             /\ cur[k] \in Names
             /\ snap[k][cur[k]] # NoSession
             /\ serve[snap[k][cur[k]]] # "live"
  <1>1. \A k \in Handlers : Known(k)
    BY DEF SweepKnown
  <1>2. ASSUME NEW k \in Handlers, NEW n \in Names, snap[k][n] # NoSession
        PROVE  /\ serve'[snap[k][n]] # "unborn"
               /\ made'[snap[k][n]].name = n
               /\ serve[snap[k][n]] # "live" => serve'[snap[k][n]] # "live"
    BY <1>1, <1>2, SessionsStay DEF TypeOK
  <1>3. ASSUME NEW k \in Handlers,
               snap'[k] = snap[k], todo'[k] \subseteq todo[k],
               \/ cur'[k] = cur[k] /\ (pc'[k] = "dropping" => pc[k] = "dropping")
               \/ pc'[k] # "dropping"
        PROVE  Known(k)'
    BY <1>1, <1>2, <1>3 DEF TypeOK
  <1>4. CASE /\ UNCHANGED <<snap, todo, cur, failed>>
             /\ \A k \in Handlers : pc'[k] = "dropping" => pc[k] = "dropping"
    BY <1>3, <1>4 DEF SweepKnown
  <1>5. ASSUME NEW h \in Handlers, TakeSnapshot(h) PROVE SweepKnown'
    <2>1. Known(h)'
      BY <1>5 DEF TakeSnapshot, Goto, TypeOK, RecordedAreWatched, sessionVars
    <2>2. ASSUME NEW k \in Handlers \ {h} PROVE Known(k)'
      BY <1>3, <1>5 DEF TakeSnapshot, Goto, TypeOK
    <2> QED
      BY <2>1, <2>2 DEF SweepKnown
  <1>6. ASSUME NEW h \in Handlers, SweepDelete(h) PROVE SweepKnown'
    <2>1. ASSUME NEW k \in Handlers PROVE Known(k)'
      BY <1>3, <1>6 DEF SweepDelete, Goto, TypeOK
    <2> QED
      BY <2>1 DEF SweepKnown
  <1>7. ASSUME NEW h \in Handlers, SweepEnd(h) PROVE SweepKnown'
    <2>1. Known(h)'
      BY <1>7 DEF SweepEnd, Finish, Goto, NoMap, TypeOK
    <2>2. ASSUME NEW k \in Handlers \ {h} PROVE Known(k)'
      BY <1>3, <1>7 DEF SweepEnd, Finish, Goto, TypeOK
    <2> QED
      BY <2>1, <2>2 DEF SweepKnown
  <1>8. ASSUME NEW h \in Handlers, NEW n \in Names, SweepUnmount(h, n)
        PROVE  SweepKnown'
    <2>1. n \in todo[h] /\ snap[h][n] \in SessionIds
      BY <1>1, <1>8 DEF SweepUnmount, TypeOK
    <2>2. serve'[snap[h][n]] # "live"
      BY <1>8, <2>1, UnmountEffect DEF SweepUnmount
    <2>3. Known(h)'
      BY <1>1, <1>2, <1>8, <2>1, <2>2 DEF SweepUnmount, Goto, TypeOK
    <2>4. ASSUME NEW k \in Handlers \ {h} PROVE Known(k)'
      BY <1>3, <1>8 DEF SweepUnmount, Goto, TypeOK
    <2> QED
      BY <2>3, <2>4 DEF SweepKnown
  <1>9. ASSUME NEW h \in Handlers, NEW n \in Names, SweepFails(h, n)
        PROVE  SweepKnown'
    <2>1. ASSUME NEW k \in Handlers PROVE Known(k)'
      BY <1>3, <1>9 DEF SweepFails, TypeOK
    <2> QED
      BY <2>1 DEF SweepKnown
  <1> QED
    BY <1>4, <1>5, <1>6, <1>7, <1>8, <1>9, SweepSteps

(* Without a failed Unmount the visited part of the copy stays unmounted   *)
(* (backend.go:73-82).                                                     *)
LEMMA SweepSoFarNext ==
  ASSUME TypeOK, Lifecycle, EntryKnown, SweepKnown, SweepSoFar, [Next]_vars
  PROVE  SweepSoFar'
  <1> DEFINE SoFar(k) == ~failed[k] =>
        \A n \in Names \ todo[k] : snap[k][n] # NoSession => serve[snap[k][n]] # "live"
  <1>1. \A k \in Handlers : SoFar(k)
    BY DEF SweepSoFar
  <1>2. ASSUME NEW k \in Handlers, NEW n \in Names, snap[k][n] # NoSession,
               serve[snap[k][n]] # "live"
        PROVE  serve'[snap[k][n]] # "live"
    BY <1>2, SessionsStay DEF TypeOK, SweepKnown
  <1>3. ASSUME NEW k \in Handlers, snap'[k] = snap[k], todo'[k] = todo[k],
               failed'[k] = failed[k]
        PROVE  SoFar(k)'
    BY <1>1, <1>2, <1>3
  <1>4. CASE UNCHANGED <<snap, todo, cur, failed>>
    BY <1>3, <1>4 DEF SweepSoFar
  <1>5. ASSUME NEW h \in Handlers, TakeSnapshot(h) PROVE SweepSoFar'
    <2>1. SoFar(h)'
      BY <1>5 DEF TakeSnapshot, TypeOK
    <2>2. ASSUME NEW k \in Handlers \ {h} PROVE SoFar(k)'
      BY <1>3, <1>5 DEF TakeSnapshot, TypeOK
    <2> QED
      BY <2>1, <2>2 DEF SweepSoFar
  <1>6. ASSUME NEW h \in Handlers, SweepDelete(h) PROVE SweepSoFar'
    <2>1. ASSUME NEW k \in Handlers PROVE SoFar(k)'
      BY <1>3, <1>6 DEF SweepDelete
    <2> QED
      BY <2>1 DEF SweepSoFar
  <1>7. ASSUME NEW h \in Handlers, SweepEnd(h) PROVE SweepSoFar'
    <2>1. SoFar(h)'
      BY <1>7 DEF SweepEnd, NoMap, TypeOK
    <2>2. ASSUME NEW k \in Handlers \ {h} PROVE SoFar(k)'
      BY <1>3, <1>7 DEF SweepEnd, TypeOK
    <2> QED
      BY <2>1, <2>2 DEF SweepSoFar
  <1>8. ASSUME NEW h \in Handlers, NEW n \in Names, SweepUnmount(h, n)
        PROVE  SweepSoFar'
    <2>1. n \in todo[h] /\ snap[h][n] \in SessionIds
      BY <1>8 DEF SweepUnmount, SweepKnown, TypeOK
    <2>2. serve'[snap[h][n]] # "live"
      BY <1>8, <2>1, UnmountEffect DEF SweepUnmount
    <2>3. SoFar(h)'
      BY <1>1, <1>2, <1>8, <2>1, <2>2 DEF SweepUnmount, TypeOK
    <2>4. ASSUME NEW k \in Handlers \ {h} PROVE SoFar(k)'
      BY <1>3, <1>8 DEF SweepUnmount, TypeOK
    <2> QED
      BY <2>3, <2>4 DEF SweepSoFar
  <1>9. ASSUME NEW h \in Handlers, NEW n \in Names, SweepFails(h, n)
        PROVE  SweepSoFar'
    <2>1. failed'[h]
      BY <1>9 DEF SweepFails, TypeOK
    <2>2. ASSUME NEW k \in Handlers \ {h} PROVE SoFar(k)'
      BY <1>3, <1>9 DEF SweepFails, TypeOK
    <2> QED
      BY <2>1, <2>2 DEF SweepSoFar
  <1> QED
    BY <1>4, <1>5, <1>6, <1>7, <1>8, <1>9, SweepSteps
(* A session that is over stays so: it can only be superseded once.        *)
LEMMA SupersededNext ==
  ASSUME TypeOK, Lifecycle, EntryKnown, RecordedAreWatched, SweepKnown, ExitStrands,
         LiveUnlessSuperseded, [Next]_vars
  PROVE  LiveUnlessSuperseded'
  <1> USE DEF TypeOK
  <1> DEFINE Superseded(s) ==
        \E r \in SessionIds \ {s} : Over(r) /\ made[r].name = made[s].name
  <1>1. ASSUME NEW s \in SessionIds, serve[s] = "live", ~Recorded(s)
        PROVE  Superseded(s)
    BY <1>1 DEF LiveUnlessSuperseded
  <1>2. ASSUME NEW s \in SessionIds, serve[s] = "live", Superseded(s),
               UNCHANGED made,
               \A r \in SessionIds : Over(r) => Over(r)'
        PROVE  Superseded(s)'
    BY <1>2
  <1>3. CASE UNCHANGED <<sessions, serve, made, watcher>>
    BY <1>3, <1>1 DEF LiveUnlessSuperseded, Recorded, Over
  <1>4. ASSUME NEW h \in Handlers, NEW s \in SessionIds, MountSucceeds(h, s)
        PROVE  LiveUnlessSuperseded'
    <2>1. /\ Entry(h).name \in Names
          /\ sessions[Entry(h).name] = NoSession
          /\ serve[s] = "unborn"
      BY <1>4, EntryTyped, EntryFields DEF MountSucceeds, EntryKnown
    <2>2. Recorded(s)'
      BY <1>4, <2>1 DEF MountSucceeds, Recorded
    <2>3. ASSUME NEW q \in SessionIds \ {s}, serve'[q] = "live", ~Recorded(q)'
          PROVE  Superseded(q)'
      <3>1. serve[q] = "live" /\ ~Recorded(q)
        BY <1>4, <2>1, <2>3, NoSessionIsNoId DEF MountSucceeds, Recorded
      <3>2. PICK r \in SessionIds \ {q} : Over(r) /\ made[r].name = made[q].name
        BY <1>1, <3>1
      <3>3. r # s
        BY <2>1, <3>2 DEF Over
      <3> QED
        BY <1>4, <3>2, <3>3 DEF MountSucceeds, Over
    <2> QED
      BY <2>2, <2>3 DEF LiveUnlessSuperseded
  <1>5. ASSUME NEW h \in Handlers, UnmountSucceeds(h) PROVE LiveUnlessSuperseded'
    <2> DEFINE n == Entry(h).name
    <2>1. n \in Names /\ sessions[n] \in SessionIds
      BY <1>5, EntryTyped, EntryFields DEF UnmountSucceeds, EntryKnown
    <2>2. /\ serve'[sessions[n]] # "live"
          /\ \A r \in SessionIds : Over(r) => Over(r)'
          /\ \A r \in SessionIds : serve'[r] = "live" => serve[r] = "live"
      BY <1>5, <2>1, UnmountEffect DEF UnmountSucceeds, Over
    <2>3. ASSUME NEW q \in SessionIds, serve'[q] = "live", ~Recorded(q)'
          PROVE  Superseded(q)'
      <3>1. ~Recorded(q)
        BY <1>5, <2>1, <2>2, <2>3 DEF UnmountSucceeds, Recorded
      <3> QED
        BY <1>1, <1>2, <1>5, <2>2, <2>3, <3>1 DEF UnmountSucceeds
    <2> QED
      BY <2>3 DEF LiveUnlessSuperseded
  <1>6. ASSUME NEW h \in Handlers, NEW n \in Names, SweepUnmount(h, n)
        PROVE  LiveUnlessSuperseded'
    <2>1. snap[h][n] \in SessionIds
      BY <1>6 DEF SweepUnmount, SweepKnown
    <2>2. /\ \A r \in SessionIds : Over(r) => Over(r)'
          /\ \A r \in SessionIds : serve'[r] = "live" => serve[r] = "live"
      BY <1>6, <2>1, UnmountEffect DEF SweepUnmount, Over
    <2>3. \A q \in SessionIds : Recorded(q)' <=> Recorded(q)
      BY <1>6 DEF SweepUnmount, managerVars, Recorded
    <2>4. ASSUME NEW q \in SessionIds, serve'[q] = "live", ~Recorded(q)'
          PROVE  Superseded(q)'
      BY <1>1, <1>2, <1>6, <2>2, <2>3, <2>4 DEF SweepUnmount
    <2> QED
      BY <2>4 DEF LiveUnlessSuperseded
  <1>7. ASSUME NEW h \in Handlers, SweepDelete(h) PROVE LiveUnlessSuperseded'
    <2> DEFINE d == snap[h][cur[h]]
    <2>1. /\ d \in SessionIds /\ cur[h] \in Names
          /\ serve[d] \notin {"live", "unborn"}
          /\ made[d].name = cur[h]
      BY <1>7 DEF SweepDelete, SweepKnown
    <2>2. Over(d)
      BY <1>7, <2>1 DEF SweepDelete, ExitStrands, Over
    <2>3. ASSUME NEW q \in SessionIds, serve'[q] = "live", ~Recorded(q)'
          PROVE  Superseded(q)'
      <3>1. serve[q] = "live" /\ UNCHANGED <<serve, made>>
        BY <1>7, <2>3 DEF SweepDelete, sessionVars
      <3>2. CASE sessions[cur[h]] = q
        BY <2>1, <2>2, <3>1, <3>2, NoSessionIsNoId DEF RecordedAreWatched, Over
      <3>3. CASE sessions[cur[h]] # q
        <4>1. ~Recorded(q)
          BY <1>7, <2>3, <3>3 DEF SweepDelete, Recorded
        <4> QED
          BY <1>1, <3>1, <4>1 DEF Over
      <3> QED
        BY <3>2, <3>3
    <2> QED
      BY <2>3 DEF LiveUnlessSuperseded
  <1>8. ASSUME NEW s \in SessionIds, WatcherDeletes(s) PROVE LiveUnlessSuperseded'
    <2>1. Over(s)
      BY <1>8 DEF WatcherDeletes, Lifecycle, Over
    <2>2. ASSUME NEW q \in SessionIds, serve'[q] = "live", ~Recorded(q)'
          PROVE  Superseded(q)'
      <3>1. serve[q] = "live" /\ UNCHANGED <<serve, made>>
        BY <1>8, <2>2 DEF WatcherDeletes
      <3>2. CASE \E n \in Names : sessions[n] = q /\ n = made[s].name
        BY <2>1, <3>1, <3>2, NoSessionIsNoId DEF RecordedAreWatched, Over
      <3>3. CASE ~ \E n \in Names : sessions[n] = q /\ n = made[s].name
        <4>1. ~Recorded(q)
          BY <1>8, <2>2, <3>3 DEF WatcherDeletes, Recorded
        <4> QED
          BY <1>1, <3>1, <4>1 DEF Over
      <3> QED
        BY <3>2, <3>3
    <2> QED
      BY <2>2 DEF LiveUnlessSuperseded
  <1>9. ASSUME NEW s \in SessionIds,
               \/ ServerEnds(s) \/ WatcherWakes(s) \/ WatcherSignals(s)
               \/ ExternalUnmount(s)
        PROVE  LiveUnlessSuperseded'
    <2>1. /\ UNCHANGED <<sessions, made>>
          /\ \A r \in SessionIds : Over(r) => Over(r)'
          /\ \A r \in SessionIds : serve'[r] = "live" => serve[r] = "live"
      BY <1>9 DEF ServerEnds, WatcherWakes, WatcherSignals, ExternalUnmount,
         managerVars, Over
    <2>2. ASSUME NEW q \in SessionIds, serve'[q] = "live", ~Recorded(q)'
          PROVE  Superseded(q)'
      <3>1. ~Recorded(q)
        BY <2>1, <2>2 DEF Recorded
      <3> QED
        BY <1>1, <1>2, <2>1, <2>2, <3>1
    <2> QED
      BY <2>2 DEF LiveUnlessSuperseded
  <1>10. CASE Exit
    BY <1>10 DEF Exit, LiveUnlessSuperseded
  <1> QED
    BY <1>3, <1>4, <1>5, <1>6, <1>7, <1>8, <1>9, <1>10, StepsOnSessions DEF SessionStep

-----------------------------------------------------------------------------
(* The inductive invariant.                                                *)

(* A daemon that has just started satisfies the inductive invariant.       *)
LEMMA InitIInv == Init => IInv
  <1> SUFFICES ASSUME Init PROVE IInv
    OBVIOUS
  <1>1. TypeOK
    BY TypeInit
  <1>2. Lifecycle /\ Mutex /\ EntryKnown
    BY FreeIsNoHandler DEF Init, Lifecycle, Mutex, EntryKnown
  <1>3. OneLivePerDir /\ RecordedAreWatched /\ ExitStrands /\ LiveUnlessSuperseded
    BY DEF Init, OneLivePerDir, RecordedAreWatched, ExitStrands, Alive,
       LiveUnlessSuperseded, NoMap
  <1>4. SweepKnown /\ SweepSoFar
    BY DEF Init, SweepKnown, SweepSoFar, NoMap
  <1> QED
    BY <1>1, <1>2, <1>3, <1>4 DEF IInv

(* Every step preserves it: one lemma per conjunct.                        *)
LEMMA NextIInv == IInv /\ [Next]_vars => IInv'
  BY TypeNext, LifecycleNext, MutexNext, EntryKnownNext, OneLivePerDirNext,
     RecordedNext, SweepKnownNext, SweepSoFarNext, ExitStrandsNext, SupersededNext
     DEF IInv

(* IInv holds in every reachable state: the types, the mutual exclusion of *)
(* the mounter calls, and what sweeps and watchers may rely on.            *)
THEOREM Invariance == Spec => []IInv
  BY InitIInv, NextIInv, PTL DEF Spec

(* The variables keep their types, for any number of names, sessions and   *)
(* concurrent requests.                                                    *)
THEOREM TypeCorrect == Spec => []TypeOK
  <1>1. IInv => TypeOK
    BY DEF IInv
  <1> QED
    BY <1>1, Invariance, PTL

(* Whatever Mount, Unmount, shutdown sweeps and watchers do at the same    *)
(* time, a name in the session map belongs to a session of that name whose *)
(* watcher will still delete it (backend.go:132-133, 243-244).             *)
THEOREM RecordedCorrect == Spec => []RecordedAreWatched
  <1>1. IInv => RecordedAreWatched
    BY DEF IInv
  <1> QED
    BY <1>1, Invariance, PTL

(* The deletions by name lose a live mount only when an older session of   *)
(* the same entry has ended (backend.go:78-80, 243-245).                   *)
THEOREM SupersededCorrect == Spec => []LiveUnlessSuperseded
  <1>1. IInv => LiveUnlessSuperseded
    BY DEF IInv
  <1> QED
    BY <1>1, Invariance, PTL

(* The daemon stops only for a handler whose copy of the map is unmounted  *)
(* (backend.go:73-83, server.go:54-59).                                    *)
THEOREM StopsSweptCorrect == Spec => StopsOnlySwept
  <1> DEFINE Stops == phase = "running" /\ phase' = "cancelled"
             ByASweep == \E h \in Handlers :
                           pc[h] = "sweeping" /\ pc'[h] = "idle" /\ Swept(h)
  <1>1. ASSUME IInv, Next PROVE Stops => ByASweep
    <2> SUFFICES ASSUME Stops PROVE ByASweep
      OBVIOUS
    <2>1. ASSUME NEW h \in Handlers, Receive(h) PROVE FALSE
      BY <2>1 DEF Receive, ReceiveBatch, ReceiveHealth, ReceiveShutdown
    <2>2. ASSUME NEW h \in Handlers, HandlerStep(h) PROVE SweepEnd(h)
      BY <2>2 DEF HandlerStep, ReadTypes, ReadCount, Dismiss, Admit, Respond,
         LockMount, MountFails, MountSucceeds, LockUnmount, UnmountSucceeds,
         UnmountFails, ReadStatus, TakeSnapshot, SweepDelete, SweepUnmount,
         SweepFails
    <2>3. ASSUME NEW s \in SessionIds, SessionStep(s) \/ ExternalUnmount(s)
          PROVE  FALSE
      BY <2>3 DEF SessionStep, ServerEnds, WatcherWakes, WatcherDeletes,
         WatcherSignals, ExternalUnmount
    <2>4. ~CloseServer /\ ~Exit /\ ~Terminated
      BY DEF CloseServer, Exit, Terminated, vars
    <2>5. PICK h \in Handlers : SweepEnd(h)
      BY <2>1, <2>2, <2>3, <2>4, <1>1 DEF Next
    <2>6. pc[h] = "sweeping" /\ pc'[h] = "idle" /\ todo[h] = {} /\ ~failed[h]
      BY <2>5, <1>1 DEF SweepEnd, Finish, Goto, IInv, TypeOK
    <2>7. Swept(h)
      BY <2>6, <1>1 DEF IInv, SweepSoFar, Swept
    <2> QED
      BY <2>6, <2>7
  <1>2. IInv /\ [Next]_vars => [Stops => ByASweep]_vars
    BY <1>1
  <1> QED
    BY <1>2, Invariance, PTL DEF Spec, StopsOnlySwept
-----------------------------------------------------------------------------
(* Refinement of the session registry.                                     *)

(* The value of the abstract life of a session.                            *)
LEMMA LifeValue ==
  ASSUME TypeOK, NEW s \in SessionIds
  PROVE  /\ LifeOf[s] = "new" <=> serve[s] = "unborn"
         /\ LifeOf[s] = "up" <=> serve[s] = "live"
         /\ LifeOf[s] = "down" <=> serve[s] \in {"gone", "ended", "stranded"}
         /\ LifeOf[s] \in {"new", "up", "down"}
  BY DEF TypeOK, LifeOf

(* An unmount by path takes at most one session down.                      *)
LEMMA OneFalls ==
  ASSUME IInv, NEW s \in SessionIds, TakesDown(s), TypeOK', serve' = AfterUnmount(s)
  PROVE  \E r \in SessionIds : LifeOf[r] = "up" /\ LifeOf' = [LifeOf EXCEPT ![r] = "down"]
  <1>1. PICK r \in SessionIds : serve[r] = "live" /\ made[r].dir = made[s].dir
    BY DEF TakesDown, LiveAt
  <1>2. LiveAt(made[s].dir) = {r}
    BY <1>1 DEF LiveAt, IInv, OneLivePerDir
  <1>3. serve' = [serve EXCEPT ![r] = "gone"]
    BY <1>1, <1>2 DEF AfterUnmount, IInv, TypeOK
  <1>4. LifeOf[r] = "up"
    BY <1>1 DEF LifeOf
  <1>5. LifeOf' = [LifeOf EXCEPT ![r] = "down"]
    BY <1>1, <1>3 DEF LifeOf, IInv, TypeOK
  <1> QED
    BY <1>4, <1>5

(* Every step of the manager is a step of the registry or a stutter.       *)
LEMMA RegistryStep ==
  ASSUME IInv, [Next]_vars
  PROVE  [Registry!Next]_(Registry!vars)
  <1> USE DEF Registry!vars
  <1>0. TypeOK /\ TypeOK'
    BY NextIInv DEF IInv
  <1>1. CASE UNCHANGED <<sessions, serve, made, watcher>>
    BY <1>1 DEF LifeOf
  <1>2. ASSUME NEW h \in Handlers, NEW s \in SessionIds, MountSucceeds(h, s)
        PROVE  Registry!Next
    <2>1. Entry(h).name \in Names /\ sessions[Entry(h).name] = NoSession
      BY <1>0, <1>2, EntryTyped, EntryFields DEF MountSucceeds, EntryKnown, IInv
    <2>2. LifeOf[s] = "new" /\ LifeOf' = [LifeOf EXCEPT ![s] = "up"]
      BY <1>0, <1>2 DEF MountSucceeds, LifeOf, TypeOK
    <2>3. Registry!Open(Entry(h).name, s)
      BY <1>2, <2>1, <2>2 DEF MountSucceeds, Registry!Open
    <2> QED
      BY <2>1, <2>3 DEF Registry!Next
  <1>3. ASSUME NEW h \in Handlers, UnmountSucceeds(h) PROVE Registry!Next
    <2>1. Entry(h).name \in Names /\ sessions[Entry(h).name] \in SessionIds
      BY <1>0, <1>3, EntryTyped, EntryFields DEF UnmountSucceeds, EntryKnown, IInv, TypeOK
    <2>2. PICK r \in SessionIds :
            LifeOf[r] = "up" /\ LifeOf' = [LifeOf EXCEPT ![r] = "down"]
      BY <1>0, <1>3, <2>1, OneFalls DEF UnmountSucceeds
    <2>3. Registry!FallAndClose(Entry(h).name, r)
      BY <1>3, <2>1, <2>2, NoSessionIsNoId DEF UnmountSucceeds, Registry!FallAndClose
    <2> QED
      BY <2>1, <2>3 DEF Registry!Next
  <1>4. ASSUME NEW h \in Handlers, NEW n \in Names, SweepUnmount(h, n)
        PROVE  Registry!Next
    <2>1. snap[h][n] \in SessionIds
      BY <1>4 DEF SweepUnmount, SweepKnown, IInv, TypeOK
    <2>2. PICK r \in SessionIds :
            LifeOf[r] = "up" /\ LifeOf' = [LifeOf EXCEPT ![r] = "down"]
      BY <1>0, <1>4, <2>1, OneFalls DEF SweepUnmount
    <2>3. Registry!Fall(r)
      BY <1>4, <2>2 DEF SweepUnmount, managerVars, Registry!Fall
    <2> QED
      BY <2>3 DEF Registry!Next
  <1>5. ASSUME NEW n \in Names, sessions' = [sessions EXCEPT ![n] = NoSession],
               UNCHANGED serve
        PROVE  [Registry!Next]_(Registry!vars)
    <2>1. UNCHANGED LifeOf
      BY <1>5 DEF LifeOf
    <2>2. CASE sessions[n] = NoSession
      BY <1>0, <1>5, <2>1, <2>2 DEF TypeOK
    <2>3. CASE sessions[n] # NoSession
      BY <1>5, <2>1, <2>3 DEF Registry!Close, Registry!Next
    <2> QED
      BY <2>2, <2>3
  <1>6. ASSUME NEW h \in Handlers, SweepDelete(h)
        PROVE  [Registry!Next]_(Registry!vars)
    BY <1>5, <1>6 DEF SweepDelete, sessionVars, SweepKnown, IInv
  <1>7. ASSUME NEW s \in SessionIds, WatcherDeletes(s)
        PROVE  [Registry!Next]_(Registry!vars)
    <2>1. made[s].name \in Names
      BY <1>0, <1>7, EntryFields DEF WatcherDeletes, Lifecycle, IInv, TypeOK
    <2> QED
      BY <1>5, <1>7, <2>1 DEF WatcherDeletes
  <1>8. ASSUME NEW s \in SessionIds, ExternalUnmount(s) PROVE Registry!Next
    <2>1. LifeOf[s] = "up" /\ LifeOf' = [LifeOf EXCEPT ![s] = "down"]
      BY <1>0, <1>8 DEF ExternalUnmount, LifeOf, TypeOK
    <2> QED
      BY <1>8, <2>1 DEF ExternalUnmount, managerVars, Registry!Fall, Registry!Next
  <1>9. ASSUME NEW s \in SessionIds,
               ServerEnds(s) \/ WatcherWakes(s) \/ WatcherSignals(s)
        PROVE  UNCHANGED <<sessions, LifeOf>>
    BY <1>0, <1>9 DEF ServerEnds, WatcherWakes, WatcherSignals, managerVars, LifeOf, TypeOK
  <1>10. CASE Exit
    <2>1. LifeOf' = [s \in SessionIds |-> IF LifeOf[s] = "up" THEN "down" ELSE LifeOf[s]]
      BY <1>0, <1>10 DEF Exit, LifeOf, TypeOK
    <2> QED
      BY <1>10, <2>1 DEF Exit, managerVars, Registry!Stop, Registry!Next
  <1> QED
    BY <1>1, <1>2, <1>3, <1>4, <1>6, <1>7, <1>8, <1>9, <1>10, StepsOnSessions
       DEF SessionStep

(* The manager with its mutex, watchers and sweeps implements the session  *)
(* registry: a registered session is never overwritten and a session that  *)
(* left the map never returns (backend.go:63-202, 236-251).                *)
THEOREM Refinement == Spec => RefinesRegistry
  <1>1. Init => Registry!Init
    BY DEF Init, NoMap, LifeOf, Registry!Init
  <1> QED
    BY <1>1, RegistryStep, Invariance, PTL DEF Spec, RefinesRegistry, Registry!Spec
=============================================================================
