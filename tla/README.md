# Verification of gomount in TLA+

gomount mounts network storage by name. Entries of type `smb` and `sshfs` are mounted by
drivers that run system commands in the calling process; entries of type `webdav` and `s3`
are mounted by a background daemon, which holds the FUSE servers, behind a unix socket.
This directory has TLA+ models of the parts in which order, failure and concurrency matter,
TLC configurations that check them on small instances, and proofs, checked by TLAPS, that
hold for every size.

    tlc -config SessionManager_sessions.cfg MCSessionManager.tla    # model checking
    tlapm SessionManagerProofs.tla                                  # proofs

`PROJECT.json` maps every definition that models code to the lines it stands for, and
lists the runs, the hazards, the mutants (a plausible mistake for each property, which
breaks it) and the theorems.

## 1. The system

| Component | State it keeps | Operations | Model |
|---|---|---|---|
| Session manager, `internal/daemon/backend.go`, `server.go` | `sessions` map under `mu`, `cleanupSignals`, one watcher goroutine per session | Mount, Unmount, Status, UnmountAll, ManagedTypes, MountedSessionCount, watchSession; the HTTP handlers | `SessionManager`, `SessionRegistry` |
| Daemon life cycle, `run.go`, `client.go`, daemon commands of `cmd/gomount/main.go` | the socket path, the processes | Run (listen, probe, replace, serve, close), ensureDaemonClient, `d down` | `DaemonLifecycle` |
| Interactive selector, `internal/tui/selector.go` | cursor, scroll position, height, boxes | Update for keys and sizes; SelectMountAction, SelectEntry, SelectUnmountEntry | `Selector` |
| SMB through ssh tunnels, `internal/drivers/smb/driver.go`, `internal/sshtunnel` | `tunnels.json`, ssh processes | Mount, Unmount, EstablishForMount, Teardown | `SSHTunnel` |
| Command line, `cmd/gomount/main.go` | `IsMounted` of entries, read once; what a command has printed | mount, umount, list, interactive, mkdir | `Commands` |
| Configuration, `internal/config` | none after loading | LoadConfig: includes, name conflicts, sorting, validation, normalisation | `ConfigLoad`, `ConfigContents`, `Entries` |
| API types, `internal/daemonapi` | none | FromMountEntry, Validate | `Entries` |
| rclone mounter, `backend_rclone.go` | a FUSE server per mount | Mount, Unmount, Wait | effects in `SessionManager`, options in `Entries` |
| Driver manager, sshfs driver, mount status, file operations | none that lasts | Mount, Unmount, Status, Validate, MkdirAll, Chown | in `Commands` and `Entries` |
| Texts of commands and errors, list, styles, logging | none | layout | not modelled |

How they interact: a command loads the configuration, asks drivers and daemon for the state
of each entry, and hands entries to drivers (calls) or to the daemon (one HTTP request with a
list of entries). The daemon's handlers, one goroutine per request, call the session manager;
the session manager calls the mounter while it holds `mu`; FUSE servers report their end on a
channel to watchers, which take `mu` too. A granted shutdown cancels the context that `Run`
waits for. Commands and daemons meet only at the socket path, commands that use tunnels
only at `tunnels.json`, the ports and the ssh processes, and all commands in the mount table and
the directories of the system.

What is hard, and what makes each component correct:

* Session manager: any interleaving of requests, watchers, unmounts from outside and a
  shutdown. Correct when every record belongs to a session that will still remove it, a name
  has one session, live mounts stay recorded, requests end, and the daemon stops only when
  nothing it manages is mounted.
* Life cycle: several commands start daemons at the same moment; a daemon may be killed, slow
  or stopping; the path is taken and removed without a lock. Correct when the daemon that
  serves is the one behind the path, which the code does not always achieve, a leftover file does not
  prevent a start, and commands end.
* Selector: long sequences of keys with resizes in between. Correct when the cursor is in the
  list and on the screen and the outcome is what was displayed.
* Tunnels: every step can fail and processes outlive the command. Correct when each ssh that was
  recorded can be found again, none is killed for another entry, and an entry is mounted from its own server.
* Configuration: files include each other in circles; three places decide what a valid entry is.
  Correct when a load that succeeds is complete, ordered as asked and holds only entries that can be
  mounted, and one that fails has a cause in the files.
* Commands: states are read first and acted on later, entries fail one by one, other commands, the
  daemon and the rest of the system change everything meanwhile. Correct when what is printed was
  true, every entry is reported, and nothing is mounted or unmounted that nobody asked for.

## 2. Modules

### SessionRegistry and SessionManager

`SessionRegistry` is what the session map promises: a name is bound only when free, to a
session that is new, and a session that ended never comes back. `SessionManager` is the code:

* `mu` is the holder of `SessionManager.mu` *across a call into the mounter*. A critical
  section without such a call is one step, enabled while `mu = Free`; Mount and Unmount take
  two steps, `LockMount` / `MountSucceeds` or `MountFails`, with `mu` held between them.
  `UnmountAll` copies the map in one section (`TakeSnapshot`), unmounts each session outside
  `mu` (`SweepUnmount`, `SweepFails`) and deletes each in a section of its own (`SweepDelete`).
* `serve` is the kernel's side of a session: live, gone (removed from the mount table), ended
  (reported to the session's channel), stranded (left behind by the process). An unmount works
  by path, as in `rcloneMountSession.Unmount`: it removes whatever is mounted there.
* `watcher` is `watchSession`: woken by the end, deletion by name under `mu`, then the send
  to `cleanupSignals`, which is dropped when the channel is full.
* `phase` is the process: the context is cancelled when a shutdown was granted, the HTTP server
  is closed, the process exits with handlers possibly still running.
* `batch` is what is left of a request's list. An entry of a type the manager does not handle and one
  that `Validate` refuses are answered without touching the map.

### DaemonLifecycle

`dpc` is a daemon's place in `Run`: `net.Listen`, which is two system calls, `Bind`, whereupon the path
exists, and `Accept`, until which a dial is refused; on failure dial and health-check what is there
(`Probe`, `Probed`), remove the path, listen again; chmod, and if that fails close (`GiveUp`); serve; after
cancellation close, which unlinks the path, and at last the deferred `os.Remove`. `sock` is whose listener the path
leads to; taking it requires it to be free, removing it does not ask whose it is. A command
(`cpc`) makes a health request, starts a daemon when nobody answers, unless that fails (`StartFails`), polls for it,
sends its request and ends. A mount holds the daemon's mutex (`busy`), so health waits for it; `Slow`
says whether that can exceed the client's timeout. `Ghost` owns a file left by a daemon killed
before. `raced` is a history variable: the daemons that met another one at a moment at which the code cannot tell
the two apart. A daemon enters it when it binds while another is past its first probe, when another dials it
between bind and listen, or when another has waited for its health in vain.

### Selector

The model of Bubble Tea's Update: `Up`, `Down`, `Home`, `End`, `Space`, `Enter`, `Cancel`, `Resize`,
with `AdjustScroll` inside the actions of keys, where the code calls it, and not in `Resize`,
where it does not. A row's box is what `checkboxText` displays; `ToMount` and `ToUnmount` are what
`SelectMountAction` returns. Enter and the keys that cancel only ask Bubble Tea to quit: keys that are already waiting are
treated before `Quit` ends the program. `odd` is a history variable: the rows toggled an odd number of times.

### SSHTunnel

One process runs one command, step by step: look the entry's record up, dial the recorded
port, find a free port, spawn ssh, wait for the port, save under the port, read the pid back,
save under the name, credentials, mount; or umount, kill, delete the record. An access to
`tunnels.json` is a read, a truncation and a write, because `stateMu` does not order processes; a
torn or corrupt file cannot be read, and any access may fail for a reason of its own (`AccessFails`, `SaveFails`,
`WriteFails`): the command then returns, and an ssh it has started goes on. An ssh is connecting, running or dying, and may find its port
taken, which it only warns of. `alone` and `lost` are history variables: no two commands have overlapped; the ssh processes for which
saving a record, or reading the pid back, has failed.

### Entries

Operators for one entry on its way from the file to the process that mounts it: `StructValid` (the validator's
tags), `ValidateDriverConfig`, `DriverValid` (the drivers), `FromMountEntry` and `Snapshot` (what is sent to the
daemon, with or without secrets), `SnapshotValid` (what the daemon asks), `S3Values` and `WebDAVValues`
(rclone's options). A text is told apart from the empty one and from the few that the code names;
rclone's obscuring of a password is undone by rclone and left out.

### ConfigContents and ConfigLoad

`ConfigContents` promises that files are added one by one, each at most once, and that a load succeeds only
with every included file and without a name twice. `ConfigLoad` is the code: `stack` holds the calls
of `loadRecursive` that have not returned, with what is left of their include patterns; `Revisit`,
`Open`, `OpenFails`, `NextPattern`, `Return` and `ReturnFails` are its steps, `Finish` and `FinishFails` are
`doLoad` after it. What a file holds is chosen when it is read. A pattern is the sequence of files it
matches. A path is what `filepath.Abs` makes of it, so a file reached through a symbolic link is another
file, as for the code (which then reports its names as duplicates).

### Commands

Each of `Commands` is a process that runs one command line. `mounts` is the mount table, the topmost mount on a
directory last, each alive or dead (its server has gone); `dir` is what is below. `view` is `entry.IsMounted` as
`refreshAllStatus` found it, `todo` what the command has left to do in order, `reports` what it printed. Local entries take
the drivers' two steps, `LocalCheck` (look, make the directory) and `LocalMount` (run the command); managed ones go in one
request (`Ensure`, `Send`, `Reply` or `ReplyLost`) that the daemon serves entry by entry (`ServeMount`, `ServeUnmount`)
whether anybody waits or not. The daemon is a set of recorded entries, `rec`, beside the mount table: a mount of the daemon that goes
wakes its watcher (`Wake`), which runs at any time later and deletes the record of that name, whichever session it is
of by then (`Watch`; `late` counts the watchers to come). So the records can be wrong in both directions here, and what a command
prints is judged by the mounts, not by them. More of what can go wrong inside is `SessionManager`'s subject. `Stat`, `Make`, `OwnMade`, `Fix`, `ConfirmFix` and `Own` are mkdir. The history
variables: `seen`, which entries had which state since a command started; `robbed`, which live mounts of the daemon have lost their record;
`peak`, how many commands have run at the same time at most. mkdir's `*` and its confirmed default are the list of all names.

### Proof modules

`SessionManagerProofs`, `DaemonLifecycleProofs`, `SelectorProofs`, `SSHTunnelProofs`, `EntriesProofs`, `ConfigLoadProofs` and
`CommandsProofs` hold the theorems about the module they are named after, `Ranking` the lemmas on lists that
the last two share (section 5).

Definitions marked as variants (`MountFailsLocked`, `ProbeSkipped`, `FirstPort`, ...) are
plausible mistakes, kept beside what they vary to show which property they break; no
specification uses them.

## 3. Runs

| Run | Checks | Bounds, and why they are enough |
|---|---|---|
| sessions | types, `IInv`, `RecordedAreWatched`, `LiveUnlessSuperseded`, `StopsOnlySwept`, refinement of the registry | 2 requests, 2 sessions, 2 names, batches of up to 4 entries, the second entry also in the directory of the first: a sweep of two sessions beside any other request, unmounts by path that hit another session, every error path |
| live | requests answered; an ended mount forgotten and its watcher ended | 2 requests, 2 sessions of one entry, `cleanupSignals` of capacity 1 (16 in the code), so that it is full after one session |
| recorded | expects `LiveMountsRecorded` to fail | see below |
| shutdown | expects `NoMountLeftBehind` to fail | see below |
| coldstart | expects `ServingReachable` to fail | see below |
| races | types, `StaleOnlyByCrash`, `AloneReachable` | 2 commands and 3 daemons, one kill, one `d down`, slowness, a leftover file: two that race, and a third that comes while they do or while one of them stops (the deferred removal) |
| contention | `CommandsEnd`, `StartRecovers`, `DaemonsSettle` | 2 commands that may start a daemon each, one kill, a leftover file: they compete for the path and for a start; one after the other, they meet the file left from before and the one of the kill. Slowness and `d down` are left to `races`, they make liveness checking too long |
| busy | expects `MountsReachable` to fail | see below |
| screen | types, cursor, screen, boxes, `ActionsAsToggled` | up to 4 entries, terminals that show 1, 2, 3 or all rows: top, middle and end of the window differ |
| tunnels | types, `NoStrayTunnel`, `MountsThroughOwn`, `KillsOwnTunnel` | 2 entries, 2 ports, 3 ssh processes, so that a port is used again after its ssh died; 2 commands, and once they have overlapped only 2 ssh processes are followed, without further failures of `tunnels.json` that lose one; until then 2 may get lost. `VIEW` merges states that differ in locals no longer read |
| config | types, `Complete`, `FailsForCause`, `OrderAsAsked`, `LoadedUsable`, refinement of `ConfigContents`, `LoadEnds` | 3 files, each with up to two entries out of every type and every reason to refuse one, patterns with no, one and two files: self-inclusion, circles through the root and beside it, diamonds; sorting by name, descending, by an unknown field |
| commands | types, `ReportsTrue`, `AllReported`, `ExitTells`, `StacksBounded`, `MkdirPrepares`, `OnlyAsked` | 2 commands with 8 and 2 command lines, so that a mount, an unmount and a command of every other kind meet, 2 local entries that share a directory and a managed one, one event from outside (a kill, a stop, an unmount, a server that dies): enough for a state to become stale at every step of the other command, and for a late watcher to take the record of a later mount |

Deadlock is checked except in `tunnels`, where the bound on ssh processes stops the system.
Runs with `SYMMETRY` check no liveness.

Four runs show where code and documentation disagree:

* `recorded` (`backend.go:244`). Unmount removes a record and a new Mount of the same entry is
  stored before the old session's watcher runs; the watcher deletes by name and takes the new
  record. The mount works on, but status says it is not mounted, Unmount says so too, and a
  shutdown leaves it. `LiveUnlessSuperseded` is what the code does keep: an earlier session of the same
  entry is the only way to lose one.
* `shutdown` (`backend.go:69`). A Mount served while the sweep is under way is not in its copy; the
  process ends with it, though README.md:247 promises that everything is unmounted first.
* `coldstart` (`run.go:12`). Two commands start a daemon each. The second one's listen fails, since the first has bound the
  path, its dial is refused, since the first does not listen yet, and it removes the path and binds it again. Both serve,
  without a leftover file, a kill or slowness, and no later command uses the first (README.md:218 says that the existing process is used).
  `AloneReachable` is what the code does keep: this race, the one in which both start over a leftover file and the one of `busy` below are the
  only ways in which a daemon that serves loses the path, a stopping predecessor's deferred removal included.
* `busy` (`run.go:15`). A health check waits behind a mount longer than 30 s; the daemon is taken for
  dead, a second one removes its socket, and the first one's mounts can no longer be reached.

Configurations that a reader can run besides, each ending in a counterexample:
`DaemonLifecycle_leftover` (two daemons serve after both found a leftover file: the second
removal hits the first one's new socket), `DaemonLifecycle_successor` (the deferred removal
of a stopping daemon hits its successor's socket), `DaemonLifecycle_lostreply` (`d down` reports
an error, the daemon stops nevertheless), `DaemonLifecycle_notrunning` (`d down` says that no
daemon runs while a busy one does), `Selector_resize` (after a resize the cursor may be off
the screen until the next key), `Selector_multiselect` (`SelectUnmountEntry` returns one entry whatever
was ticked), `SSHTunnel_ownserver` (an entry whose ssh died is mounted through the port that
another entry's tunnel has taken since).

What the runs found that is no disagreement with a text of the repository, but that a reader should know:
a mount state that cannot be read counts as unmounted, so `unmount` of a dead mount says "Already unmounted"
(`ReportsTrue` says so); a `Mount` or `Unmount` of an entry whose record a late watcher has taken, or whose mount has gone unnoticed, answers by the
record, so that `unmount` can end without an error though the entry stays mounted throughout (the two exceptions that `ReportsTrue` and `ExitTells`
name); saving a tunnel's record can fail while its ssh goes on (`NoStrayTunnel` names it); after a daemon was killed its dead mounts block new ones in the same way; naming a local
entry twice in one `mount` reports the second as a failure; mkdir lists an entry it failed to make among those
that exist, after an error message; `tui.entryAddr` displays the first block an entry has, while everything else
goes by its type.

## 4. Fairness

* `SessionManager!FairSpec`: every goroutine goes on, the mounter's calls return, and one that
  waits for `mu` gets it (strong fairness), since a Go mutex hands over to a waiter that has
  starved for a millisecond. Requests and unmounts from outside may never come.
* `DaemonLifecycle!FairSpec`: processes run, `Run` beside the requests it serves as they are goroutines of their own, the kernel answers who dials, and the polling deadline
  passes. Strong fairness where a request waits for the session manager's mutex, for the same reason, and where one of several
  processes takes a step that another may disable for a moment. Nothing forces a command or a kill.
* `ConfigLoad!FairSpec`: the load is one goroutine that waits for nothing, so it takes its next step.
* `Selector`, `SSHTunnel` and `Commands` have safety properties only: a command ends when the external programs
  it runs do, and the interesting waits, for the daemon, are `CommandsEnd`'s.

## 5. Proofs

* `SessionManagerProofs`: `Invariance`, that `IInv` is inductive; from it `TypeCorrect`,
  `RecordedCorrect`, `SupersededCorrect`, `StopsSweptCorrect` and `Refinement`, for any numbers of
  names, sessions and requests, any batches and any capacity. None of the properties is
  inductive alone: that a record is watched needs the life cycle of sessions (`Lifecycle`) and that
  a mount in progress has its name still free (`EntryKnown`), which needs that `mu` is held by who is
  inside the mounter and nobody else (`Mutex`). That a granted shutdown has unmounted its copy needs what
  a sweep knows of it (`SweepKnown`: sessions under their own names) and that what it visited
  without an error is down (`SweepSoFar`), which rests on sessions never coming back to life. One lemma
  per conjunct shows that every step keeps it.
* `DaemonLifecycleProofs`: `TypeCorrect`, `StaleCorrect` and `AloneCorrect`, for any number of commands and daemons, with or without a leftover file, kills,
  `d down` and slowness. `AloneCorrect` rests on `AloneInv`: a daemon that has taken the path without being in `raced` is behind it until it stops, and
  every other daemon is in one of the `Harmless` places (it has yet to look, or will find the path taken, or is gone) or waits for the health of this
  one. So nobody gets to remove its path: the only ways out of these places to a removal put it into `raced`. `coldstart`, `busy` and
  `DaemonLifecycle_leftover` each show one of them. `StaleCorrect` holds because a daemon leaves `Run` only through a step that removes the path.
* `SelectorProofs`: `Invariance`, `CursorCorrect`, `VisibleCorrect`, `FillCorrect`, `TypeCorrect`, `TogglesCorrect` and
  `SpaceCorrect`, for lists of every length and terminals of every height. The lemma `Scrolling` says what
  `AdjustScroll` returns for any cursor in the list and any old position; a key leaves the cursor in the list
  (`Moving`). That a confirmation acts on the rows toggled oddly often needs that the record of a row tells
  that parity (`TicksCorrect`): a mounted row that was toggled twice has no record again, an unmounted one keeps a record
  that says "none", and the confirmation must read the two alike.
* `SSHTunnelProofs`: `TypeCorrect`, `NoStrayCorrect`, `KillsCorrect` and `MountsCorrect`, for any numbers of entries, ports,
  ssh processes and commands, whatever access to `tunnels.json` fails. They rest on `AloneInv`: as long as no two commands have overlapped, the file is torn
  only between a truncation and its write, and corrupt only while no command is past its first look; what a record or a local identifies is an ssh
  started for this entry and this port, or the record has no pid and such an ssh is in `lost`; an ssh that runs has its port, one that still connects
  is waited for; and every living ssh outside `lost` is named by its entry's record or held in a local of the command that is between starting it and
  recording it. `Stage` says what that command knows at each place. None of the three properties is inductive
  without it: a kill goes by a pid that a record or a local gave, and what that pid was started for is known from its history only.
* `EntriesProofs`: `AcceptedIsMountable`, `AcceptedCredentialsReach` and `NoSecretsAsked`, for every text. They are about
  operators, not about a specification: the validator tags, the checks of the configuration, of the drivers
  and of the daemon are compared case by case of the entry's type.
* `ConfigLoadProofs`: `TypeCorrect`, `ReachesAllCorrect`, `CompleteCorrect`, `FailsForCauseCorrect`, `OrderCorrect`, `UsableCorrect` and
  `RefinesCorrect` (the recursive load implements `ConfigContents`), for any files, cycles and diamonds included. `Reached` is the first
  invariant: everything read or pending can be reached, and what a file that was read includes is read or pending; a call that
  returns has nothing pending of its own, so at the end nothing is. `OpenedOnce` and `Merged` say how the entries collected so far
  relate to the files read: one for one, file after file, in the order of the file. `Merged` needs both halves of that bijection: without
  "no entry twice" a duplicate name would have no cause in the files, without "every entry" the result would not be complete.
  `DoLoadWaits`, `HandsOut` and `Awaited` connect the end of the recursion with what `doLoad` does afterwards. Entries go through `Sorted`:
  places in the order of `LessBy` are distinct because that order is strict and total on places (`AheadIsOrder`), so by the
  pigeonhole principle each is taken.
* `CommandsProofs`: `TypeCorrect`, `OnlyAskedCorrect`, `ReportsTrueCorrect`, `AllReportedCorrect`, `ExitTellsCorrect`, `StacksBoundedCorrect` and
  `MkdirPreparesCorrect`: every safety property of `Commands`, for any finite number of commands, any entries and directories,
  any command lines and any number of events from outside. None of them is inductive; they rest on one another:
  - `CommandInv` (`CommandInvariant`) is what a command line may have at each place: only tasks of its kind, no request and no report before
    the states are read (`Placed`, `Reading`); what is left to do, and what the daemon still treats for it, is what its user
    asked for (`Asked`); a mount or unmount tells only of names on its line, and of at least one (`Telling`). Type correctness
    follows, and `OnlyAsked`. `Belongs` (`MountsBelong`: a mount is on its entry's directory) stands beside it.
  - `Held` (`HeldInvariant`) is what the daemon's records are worth: a live mount of the daemon is recorded unless it was robbed of its record, and a record
    without a live mount has a watcher to come. It ties an answer, which is read from the records, to the mount table.
  - `SeenInv`: with it, what a command has read (`Viewed`), what the daemon has answered for it (`Served`), what it printed (`Printed`) was so at some moment
    since it started, although the system has moved on. From it `ReportsTrue`, and with `Telling` (something *was* printed) `ExitTells`.
  - `SystemInv`: whatever is mounted stands on a directory, and so will what a command is about to mount. `Prepared` needs it, to
    know that nobody takes a directory away that mkdir has called ready; a mount over it may hide it.
  - `Stacked`: the local mounts on a directory *and* the commands between their check and their mount there are at most as many as
    commands have run at the same time (`peak`): whoever passes the check found nothing mounted, and those past it all run. The bound on mounts alone is not inductive: each of the commands past its check may still add one.
  - `Allotted`: the reports made and the work left (`WorkLeft`, for mkdir `PrepLeft`) are together, and in order, what was asked for. Entries of a
    daemon request are reported in the request's order, so it needs that a task's list is never changed on the way.
* `Ranking`: the lemmas both rest on. A list made by placing elements where their rank says (`Sorted` in `ConfigLoad`, `Only` in `Commands`)
  has each chosen element once, in order, is as long as there are elements, and can be cut at any place. They are proved by counting
  (cardinality of intervals and bijections), because induction over lists is out of the prover's reach; this is why the models
  place by rank instead of using `SelectSeq` or a fold.

Attempting the proofs changed `Commands`: the guards of two `CASE` expressions overlapped, so that which arm applied was left to
TLC's order of evaluation; `AllReported` spoke of names on the lines of `list` and `interactive`, which the code ignores, and now does not; the
entries that a loop does not pass over are chosen by rank (`Picked`); and that commands are finitely many, and at least one, and that the
configuration is a list were used without being said (`CommandsAreSome`, `OrderIsList`).

The proofs assume only the named assumptions on constants. Every safety property of a run that is expected to pass is proved. Only
model-checked is all liveness (`RequestsAnswered`, `EndedSessionsCleared`, `StartRecovers`, `DaemonsSettle`, `CommandsEnd`,
`LoadEnds`), because the prover does not treat fairness and ENABLED.

## 6. What is left out

Contents of files and FUSE traffic (rclone's), the JSON and HTTP encodings (a malformed request never
reaches the manager), the parsing of YAML and the matching of globs (their outcome is an input of `ConfigLoad`),
wording and layout, logging, how sudo is asked for. Free-form options of an entry are passed on unread. A pid is used
once in `SSHTunnel`; that the system may give a recorded pid to another process is outside. smb entries without a
tunnel take the same steps as sshfs in `Commands`, with the tunnel those of `SSHTunnel`; the two are not composed, since
a tunnel's outcome for a command is that the mount works or fails. The models follow Linux where the systems
differ. Each process of `Commands` runs one command, and one event happens from outside; a daemon's answer may
always be lost there, whether or not time would allow it, and a shutdown that is refused after it has unmounted some entries is only in `SessionManager`.

## 7. Plan

Written: SessionRegistry, SessionManager, DaemonLifecycle, Selector, SSHTunnel, then Entries, ConfigContents,
ConfigLoad and Commands with mkdir. What is left, in this order:

1. `DaemonSystem`: the registry inside the life cycle, so that a kill and a restart lose the map while the
   mount table stays; `Commands` has this for one daemon at a time.
