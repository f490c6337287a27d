------------------------------ MODULE Commands ------------------------------
(***************************************************************************)
(* The commands of cmd/gomount/main.go that work on entries: mount,        *)
(* unmount, interactive, list and mkdir.  Each is a process of its own;    *)
(* they meet in the mount table and the directories of the system, which   *)
(* they read first and change later, and in the daemon.                    *)
(*                                                                         *)
(* The entries come from ConfigLoad; what happens inside the daemon is in  *)
(* SessionManager, how it is found and started in DaemonLifecycle, and the *)
(* selector in Selector: here the daemon is a set of recorded sessions     *)
(* that is there or not, and the selector a choice of the user.            *)
(***************************************************************************)
EXTENDS Integers, Sequences, FiniteSets

CONSTANTS
  Commands,     \* processes, each running one command
  Order,        \* the configured entries in the order of the configuration
  Managed,      \* those that the daemon mounts; the others are local
  Dirs, DirOf,  \* the mount directories and that of each entry
  Unknown,      \* a name that no entry has
  Requests,     \* the command lines that each may be given
  InitialDirs,  \* what the directories may be at first
  MountedBefore, \* which entries may be mounted then
  MaxOutside,   \* bound on what happens without the commands
  None          \* no command line, no request at the daemon

Entries == {Order[i] : i \in DOMAIN Order}
Local   == Entries \ Managed
Ops     == {"list", "mount", "unmount", "interactive", "mkdir", "dryrun"}
Request == [op : Ops, args : Seq(Entries \cup {Unknown})]
Batches == [left : Seq(Managed), results : [Managed -> {"none", "ok", "failed"}]]
DirStates == {"absent", "mine", "other", "file"}

ASSUME CommandsAreSome   == IsFiniteSet(Commands) /\ Commands # {}
ASSUME ManagedAreEntries == Managed \subseteq Entries
ASSUME OrderIsList       == Order \in Seq(Entries)
ASSUME NamesDiffer       == \A i, j \in DOMAIN Order : Order[i] = Order[j] => i = j
ASSUME DirsAreGiven      == DirOf \in [Entries -> Dirs]
ASSUME UnknownIsUnknown  == Unknown \notin Entries
ASSUME RequestsAreLines  == Requests \in [Commands -> SUBSET Request] /\ None \notin Request \cup Batches
ASSUME OneOnEachDir      ==
  \A S \in MountedBefore :
    /\ S \subseteq Entries
    /\ \A e, f \in S : DirOf[e] = DirOf[f] => e = f
    /\ \A e \in S, f \in InitialDirs : f[DirOf[e]] \in {"mine", "other"}
ASSUME MaxOutsideIsNat   == MaxOutside \in Nat
ASSUME InitialDirsKnown  == InitialDirs \subseteq [Dirs -> DirStates]

Results == {"mounted", "unmounted"}

VARIABLES
  mounts,   \* the mounts on each directory, the topmost last
  dir,      \* what is at each directory's path, below any mount
  up, rec,  \* whether the daemon is there, the entries it has records of
  late,     \* how many watchers of each entry's ended mounts have yet to run
  pc,       \* where each command is
  req,      \* its command line
  todo,     \* what it still has to do, in order
  view,     \* entry.IsMounted, as the refresh found it
  reports,  \* what it has printed of each entry
  batch,    \* its requests at the daemon: entries not yet treated, results
  outside,  \* how often something happened without the commands
  seen,     \* history: the states a command may report, once an entry had them
  robbed,   \* history: the entries whose mount lost its record (Robs)
  peak      \* history: the most commands that have run at the same time

system  == <<mounts, dir>>
daemon  == <<up, rec, batch>>
history == <<seen, robbed, peak>>
vars    == <<mounts, dir, up, rec, late, pc, req, todo, view, reports, batch, outside,
             seen, robbed, peak>>

Task(do, es)  == [do |-> do, on |-> es]
Each(do, es)  == [i \in DOMAIN es |-> Task(do, <<es[i]>>)]
Batch(do, es) == IF es = << >> THEN << >> ELSE <<Task(do, es)>>
(* A loop over es that passes over some places: what stands at the others, *)
(* in order.                                                               *)
Picked(es, T) == [k \in 1..Cardinality(T) |->
                   es[CHOOSE i \in T : 1 + Cardinality({j \in T : j < i}) = k]]
Only(es, S)   == Picked(es, {i \in DOMAIN es : es[i] \in S})

Init ==
  /\ dir \in InitialDirs
  /\ \E S \in MountedBefore :
       /\ mounts = [d \in Dirs |-> LET here == Only(Order, {e \in S : DirOf[e] = d})
                                   IN [i \in DOMAIN here |-> [of |-> here[i], live |-> TRUE]]]
       /\ rec = S \cap Managed
  /\ up = (rec # {})
  /\ pc = [c \in Commands |-> "idle"]
  /\ req = [c \in Commands |-> None]
  /\ todo = [c \in Commands |-> << >>]
  /\ view = [c \in Commands |-> {}]
  /\ reports = [c \in Commands |-> << >>]
  /\ batch = [c \in Commands |-> [as \in Results |-> None]]
  /\ outside = 0
  /\ late = [e \in Managed |-> 0]
  /\ seen = [c \in Commands |-> {}]
  /\ robbed = {}
  /\ peak = 0

IsDir(d)   == dir[d] \in {"mine", "other"}
Mounted(d) == mounts[d] # << >>
(* The process behind the topmost mount is gone: stat fails there.         *)
Dead(d)    == Mounted(d) /\ ~mounts[d][Len(mounts[d])].live
Put(e, d)  == mounts' = [mounts EXCEPT ![d] = Append(@, [of |-> e, live |-> TRUE])]
Front(ms)  == SubSeq(ms, 1, Len(ms) - 1)
Pop(d)     == mounts' = [mounts EXCEPT ![d] = Front(@)]
Stranded(ms, S) == [i \in DOMAIN ms |-> IF ms[i].of \in S THEN [ms[i] EXCEPT !.live = FALSE]
                                                         ELSE ms[i]]
Strand(S)  == mounts' = [d \in Dirs |-> Stranded(mounts[d], S)]
(* The entry's own mount is there and its process serves it.               *)
Live(e)    == [of |-> e, live |-> TRUE] \in {mounts[DirOf[e]][i] : i \in DOMAIN mounts[DirOf[e]]}

At(c, l)     == pc' = [pc EXCEPT ![c] = l]
Do(c)        == todo[c][1]
Doing(c, do) == todo[c] # << >> /\ Do(c).do = do
It(c)        == Do(c).on[1]
Then(c, ts)  == todo' = [todo EXCEPT ![c] = ts]
Onward(c)    == Then(c, Tail(todo[c])) /\ At(c, "run")
Report(e, as, ok) == [of |-> e, as |-> as, ok |-> ok]
Tell(c, rs)  == reports' = [reports EXCEPT ![c] = @ \o rs]
TellIt(c, as, ok) == Tell(c, <<Report(It(c), as, ok)>>) /\ Onward(c)

-----------------------------------------------------------------------------
(* From the command line to the work to do.                                *)

Refresh == Each("read", Only(Order, Local)) \o Batch("ask", Only(Order, Managed))
Known(r) == \A i \in DOMAIN r.args : r.args[i] # Unknown

(* The local entries one by one, the managed ones in one request.          *)
Work(do, on, es) == Each(do, Only(es, Local)) \o Batch(on, Only(es, Managed))
MountWork(es)    == Work("mount", "mount at daemon", es)
UnmountWork(es)  == Work("unmount", "unmount at daemon", es)

(* Variants like the next one are not part of the model: they are bugs a   *)
(* change to the code could bring in, kept to show that the properties     *)
(* notice them.                                                            *)
WorkForKnown(r) == CASE r.op = "mount"   -> MountWork(Only(r.args, Entries))
                     [] r.op = "unmount" -> UnmountWork(Only(r.args, Entries))
                     [] r.op \in {"mkdir", "dryrun"} ->
                          Each("stat", Only(r.args, Entries)) \o <<Task("fix", << >>)>>
                     [] OTHER            -> << >>

(* What is to be done for a command line, once the states are known; an    *)
(* unknown name ends the command.  list and interactive do not look at     *)
(* names on their lines, and have nothing more to do yet.                  *)
WorkFor(r) == IF ~Known(r) THEN << >>
              ELSE CASE r.op = "mount"   -> MountWork(r.args)
                     [] r.op = "unmount" -> UnmountWork(r.args)
                     [] r.op \in {"mkdir", "dryrun"} ->
                          Each("stat", r.args) \o <<Task("fix", << >>)>>
                     [] OTHER            -> << >>

(* A command is a new process.  mkdir looks at no mount states, and asks   *)
(* before it takes all entries.                                            *)
Run(c, r) ==
  /\ pc[c] = "idle"
  /\ req' = [req EXCEPT ![c] = r]
  /\ IF r.op \in {"mkdir", "dryrun"}
       THEN /\ Then(c, WorkFor(r))
            /\ At(c, IF r.args = << >> THEN "confirm" ELSE "run")
       ELSE Then(c, Refresh \o <<Task("plan", << >>)>>) /\ At(c, "run")
  /\ UNCHANGED <<system, daemon, view, reports>>

ConfirmAll(c) ==
  /\ pc[c] = "confirm" /\ req[c].args = << >> /\ reports[c] = << >>
  /\ At(c, "run")
  /\ \/ Then(c, WorkFor([req[c] EXCEPT !.args = Order]))
     \/ Then(c, << >>)
  /\ UNCHANGED <<system, daemon, req, view, reports>>

(* refreshAllStatus: an entry whose status cannot be read is taken for     *)
(* unmounted, and so is what a daemon that does not answer would know.     *)
Read(c) ==
  /\ pc[c] = "run" /\ Doing(c, "read")
  /\ LET d == DirOf[It(c)]
     IN view' = [view EXCEPT ![c] = IF Mounted(d) /\ ~Dead(d) THEN @ \cup {It(c)} ELSE @]
  /\ Onward(c)
  /\ UNCHANGED <<system, daemon, req, reports>>

Ask(c) ==
  /\ pc[c] = "run" /\ Doing(c, "ask")
  /\ \/ up /\ view' = [view EXCEPT ![c] = @ \cup rec]
     \/ UNCHANGED view
  /\ Onward(c)
  /\ UNCHANGED <<system, daemon, req, reports>>

Plan(c) ==
  /\ pc[c] = "run" /\ Doing(c, "plan")
  /\ Then(c, WorkFor(req[c]))
  /\ At(c, IF req[c].op = "interactive" THEN "choose" ELSE "run")
  /\ UNCHANGED <<system, daemon, req, view, reports>>

ChooseSwapped(c, S) ==
  /\ pc[c] = "choose"
  /\ Then(c, UnmountWork(Only(Order, S \ view[c])) \o MountWork(Only(Order, S \cap view[c])))
  /\ At(c, "run")
  /\ UNCHANGED <<system, daemon, req, view, reports>>

(* The selector: the user toggles some entries, or none; cancelling is the *)
(* same as toggling none.                                                  *)
Choose(c, S) ==
  /\ pc[c] = "choose"
  /\ Then(c, UnmountWork(Only(Order, S \cap view[c])) \o MountWork(Only(Order, S \ view[c])))
  /\ At(c, "run")
  /\ UNCHANGED <<system, daemon, req, view, reports>>

ExitErrorStrict(c) ==
  \/ ~Known(req[c])
  \/ \E i \in DOMAIN reports[c] : ~reports[c][i].ok /\ reports[c][i].as \in Results

(* The exit code of mount and unmount is an error if a name is unknown, or *)
(* if there were failures and no success.                                  *)
ExitError(c) ==
  \/ ~Known(req[c])
  \/ /\ \E i \in DOMAIN reports[c] : ~reports[c][i].ok /\ reports[c][i].as \in Results
     /\ \A i \in DOMAIN reports[c] : ~reports[c][i].ok

Exit(c) ==
  /\ pc[c] = "run" /\ todo[c] = << >>
  /\ At(c, "exit")
  /\ UNCHANGED <<system, daemon, req, todo, view, reports>>

-----------------------------------------------------------------------------
(* Local entries: drivers.Manager and the smb and sshfs drivers.           *)

LocalSkipped(c) ==
  /\ pc[c] = "run"
  /\ \/ Doing(c, "mount")   /\ It(c) \in view[c]    /\ TellIt(c, "mounted", TRUE)
     \/ Doing(c, "unmount") /\ It(c) \notin view[c] /\ TellIt(c, "unmounted", TRUE)
  /\ UNCHANGED <<system, daemon, req, view>>

LocalCheckSkipped(c) ==
  /\ pc[c] = "run" /\ Doing(c, "mount") /\ It(c) \notin view[c]
  /\ LET d == DirOf[It(c)]
     IN \/ /\ dir[d] # "file"
           /\ dir' = [dir EXCEPT ![d] = IF @ = "absent" THEN "mine" ELSE @]
           /\ At(c, "mid")
           /\ UNCHANGED <<todo, reports>>
        \/ TellIt(c, "mounted", FALSE) /\ UNCHANGED dir
  /\ UNCHANGED <<mounts, daemon, req, view>>

(* The driver looks once more whether something is mounted, and makes the  *)
(* directory.  MkdirAll may be refused.                                    *)
LocalCheck(c) ==
  /\ pc[c] = "run" /\ Doing(c, "mount") /\ It(c) \notin view[c]
  /\ LET d == DirOf[It(c)]
     IN \/ /\ ~Mounted(d) /\ dir[d] # "file"
           /\ dir' = [dir EXCEPT ![d] = IF @ = "absent" THEN "mine" ELSE @]
           /\ At(c, "mid")
           /\ UNCHANGED <<todo, reports>>
        \/ /\ Mounted(d) \/ ~IsDir(d)
           /\ TellIt(c, "mounted", FALSE)
           /\ UNCHANGED dir
  /\ UNCHANGED <<mounts, daemon, req, view>>

(* Then it runs the mount command, which does not look.                    *)
LocalMount(c) ==
  /\ pc[c] = "mid" /\ Doing(c, "mount")
  /\ \/ ~Dead(DirOf[It(c)]) /\ Put(It(c), DirOf[It(c)]) /\ TellIt(c, "mounted", TRUE)
     \/ TellIt(c, "mounted", FALSE) /\ UNCHANGED mounts
  /\ UNCHANGED <<dir, daemon, req, view>>

(* umount takes the topmost mount, whoever made it.                        *)
LocalUnmount(c) ==
  /\ pc[c] = "run" /\ Doing(c, "unmount") /\ It(c) \in view[c]
  /\ \/ Mounted(DirOf[It(c)]) /\ Pop(DirOf[It(c)]) /\ TellIt(c, "unmounted", TRUE)
     \/ TellIt(c, "unmounted", FALSE) /\ UNCHANGED mounts
  /\ UNCHANGED <<dir, daemon, req, view>>

-----------------------------------------------------------------------------
(* Managed entries.                                                        *)

AtDaemon(c) == Doing(c, "mount at daemon") \/ Doing(c, "unmount at daemon")
As(c)       == IF Doing(c, "mount at daemon") THEN "mounted" ELSE "unmounted"
TellAll(c, Ok(_)) ==
  /\ Tell(c, [i \in DOMAIN Do(c).on |-> Report(Do(c).on[i], As(c), Ok(Do(c).on[i]))])
  /\ Onward(c)
AllFailed(c) == TellAll(c, LAMBDA e : FALSE)

(* ensureDaemonClient: the daemon is there, or it is started, or that      *)
(* fails.                                                                  *)
Ensure(c) ==
  /\ pc[c] = "run" /\ AtDaemon(c)
  /\ \/ up' = TRUE /\ At(c, "mid") /\ UNCHANGED <<todo, reports>>
     \/ AllFailed(c) /\ UNCHANGED up
  /\ UNCHANGED <<system, rec, batch, req, view>>

NoResults == [e \in Managed |-> "none"]
Send(c) ==
  /\ pc[c] = "mid" /\ AtDaemon(c)
  /\ \/ /\ up /\ At(c, "sent")
        /\ batch' = [batch EXCEPT ![c][As(c)] = [left |-> Do(c).on, results |-> NoResults]]
        /\ UNCHANGED <<todo, reports>>
     \/ ~up /\ AllFailed(c) /\ UNCHANGED batch
  /\ UNCHANGED <<system, up, rec, req, view>>

(* The daemon treats the next entry of a request, whether its sender still *)
(* waits or not.                                                           *)
Serving(c, as) == up /\ batch[c][as] # None /\ batch[c][as].left # << >>
Current(c, as) == batch[c][as].left[1]
Result(c, as, res) ==
  LET b == batch[c][as]
  IN batch' = [batch EXCEPT ![c][as] =
                 [left |-> Tail(b.left), results |-> [b.results EXCEPT ![Current(c, as)] = res]]]

(* "Already mounted" is what the record says.  The mounter refuses a        *)
(* directory that is a mount point.                                        *)
ServeMount(c) ==
  /\ Serving(c, "mounted")
  /\ LET e == Current(c, "mounted")
         d == DirOf[e]
     IN \/ e \in rec /\ Result(c, "mounted", "ok") /\ UNCHANGED <<mounts, rec>>
        \/ /\ e \notin rec /\ IsDir(d) /\ ~Mounted(d)
           /\ Put(e, d) /\ rec' = rec \cup {e} /\ Result(c, "mounted", "ok")
        \/ e \notin rec /\ Result(c, "mounted", "failed") /\ UNCHANGED <<mounts, rec>>
  /\ UNCHANGED <<dir, up, pc, req, todo, view, reports>>

(* So is "already unmounted".  A session unmounts its path, whatever is the *)
(* topmost there.                                                          *)
ServeUnmount(c) ==
  /\ Serving(c, "unmounted")
  /\ LET e == Current(c, "unmounted")
     IN \/ e \notin rec /\ Result(c, "unmounted", "ok") /\ UNCHANGED <<mounts, rec>>
        \/ /\ e \in rec /\ Mounted(DirOf[e])
           /\ Pop(DirOf[e]) /\ rec' = rec \ {e} /\ Result(c, "unmounted", "ok")
        \/ e \in rec /\ Result(c, "unmounted", "failed") /\ UNCHANGED <<mounts, rec>>
  /\ UNCHANGED <<dir, up, pc, req, todo, view, reports>>

Answered(c, as) == batch[c][as] # None /\ batch[c][as].left = << >>
Forget(c, as)   == batch' = [batch EXCEPT ![c][as] = None]

(* The answer, looked up by name.                                          *)
Reply(c) ==
  /\ pc[c] = "sent" /\ Answered(c, As(c))
  /\ TellAll(c, LAMBDA e : batch[c][As(c)].results[e] = "ok")
  /\ Forget(c, As(c))
  /\ UNCHANGED <<system, up, rec, req, view>>

(* No answer: the daemon has gone, or the client's timeout has passed      *)
(* while the daemon goes on.                                               *)
ReplyLost(c) ==
  /\ pc[c] = "sent"
  /\ AllFailed(c)
  /\ UNCHANGED <<system, daemon, req, view>>

(* The daemon is done with a request that nobody waits for.                *)
Unheard(c, as) ==
  /\ Answered(c, as)
  /\ ~ (pc[c] = "sent" /\ as = As(c))
  /\ Forget(c, as)
  /\ UNCHANGED <<system, up, rec, pc, req, todo, view, reports>>

-----------------------------------------------------------------------------
(* mkdir.                                                                  *)

StatAnyFile(c) ==
  /\ pc[c] = "run" /\ Doing(c, "stat")
  /\ LET d == DirOf[It(c)]
     IN \/ Dead(d) /\ TellIt(c, "existing", FALSE)
        \/ /\ ~Dead(d) /\ (Mounted(d) \/ dir[d] # "absent")
           /\ \E as \in {"existing", "mismatch"} : TellIt(c, as, TRUE)
        \/ /\ ~Mounted(d) /\ dir[d] = "absent"
           /\ At(c, "mid") /\ UNCHANGED <<todo, reports>>
  /\ UNCHANGED <<system, daemon, req, view>>

(* processMkdirEntry.  What is mounted on a directory decides whose it     *)
(* seems to be.  An entry is classified as one with the right owner when   *)
(* stat or the look at the owner fails, as they may at any time, or when a *)
(* file is in the way.                                                     *)
Stat(c) ==
  /\ pc[c] = "run" /\ Doing(c, "stat")
  /\ LET d == DirOf[It(c)]
     IN \/ TellIt(c, "existing", FALSE)
        \/ /\ Mounted(d) /\ ~Dead(d)
           /\ \E as \in {"existing", "mismatch"} : TellIt(c, as, TRUE)
        \/ /\ ~Mounted(d)
           /\ \/ dir[d] = "mine"  /\ TellIt(c, "existing", TRUE)
              \/ dir[d] = "other" /\ TellIt(c, "mismatch", TRUE)
              \/ /\ dir[d] = "absent" /\ req[c].op = "dryrun"
                 /\ TellIt(c, "created", TRUE)
              \/ /\ dir[d] = "absent" /\ req[c].op = "mkdir"
                 /\ At(c, "mid") /\ UNCHANGED <<todo, reports>>
  /\ UNCHANGED <<system, daemon, req, view>>

(* interaction.MkdirAll: as the user or, when that is not permitted, with  *)
(* sudo; or it fails.                                                      *)
Make(c) ==
  /\ pc[c] = "mid" /\ Doing(c, "stat")
  /\ LET d == DirOf[It(c)]
     IN \/ /\ dir[d] # "file" /\ ~Dead(d)
           /\ \E owner \in {"mine", "other"} :
                dir' = [dir EXCEPT ![d] = IF @ = "absent" THEN owner ELSE @]
           /\ At(c, "made") /\ UNCHANGED <<todo, reports>>
        \/ TellIt(c, "existing", FALSE) /\ UNCHANGED dir
  /\ UNCHANGED <<mounts, daemon, req, view>>

(* interaction.Chown reaches what is mounted, if anything is.              *)
Chown(d) == ~Dead(d) /\ dir' = [dir EXCEPT ![d] = IF Mounted(d) THEN @ ELSE "mine"]

OwnMade(c) ==
  /\ pc[c] = "made"
  /\ \/ Chown(DirOf[It(c)]) /\ TellIt(c, "created", TRUE)
     \/ TellIt(c, "created", FALSE) /\ UNCHANGED dir
  /\ UNCHANGED <<mounts, daemon, req, view>>

Mismatches(c) == Picked(reports[c], {i \in DOMAIN reports[c] : reports[c][i].as = "mismatch"})

(* promptOwnerFix.                                                         *)
Fix(c) ==
  /\ pc[c] = "run" /\ Doing(c, "fix")
  /\ IF req[c].op = "dryrun" \/ Mismatches(c) = << >>
       THEN Onward(c)
       ELSE At(c, "confirm") /\ UNCHANGED todo
  /\ UNCHANGED <<system, daemon, req, view, reports>>

ConfirmFix(c) ==
  /\ pc[c] = "confirm" /\ Doing(c, "fix") /\ Mismatches(c) # << >>
  /\ At(c, "run")
  /\ \/ Then(c, LET ms == Mismatches(c) IN [i \in DOMAIN ms |-> Task("own", <<ms[i].of>>)])
     \/ Then(c, << >>)
  /\ UNCHANGED <<system, daemon, req, view, reports>>

Own(c) ==
  /\ pc[c] = "run" /\ Doing(c, "own")
  /\ \/ Chown(DirOf[It(c)]) /\ TellIt(c, "fixed", TRUE)
     \/ TellIt(c, "fixed", FALSE) /\ UNCHANGED dir
  /\ UNCHANGED <<mounts, daemon, req, view>>

-----------------------------------------------------------------------------
(* What happens without the commands.                                      *)

commandVars == <<pc, req, todo, view, reports>>

(* A mount of the daemon that goes wakes its watcher.                      *)
Wake == late' = [e \in Managed |-> IF Live(e) /\ ~Live(e)' THEN late[e] + 1 ELSE late[e]]

WatchForgets(e) ==
  /\ up /\ late[e] > 0
  /\ late' = [late EXCEPT ![e] = @ - 1]
  /\ UNCHANGED <<system, daemon, commandVars>>

(* A watcher runs, at any time later, and deletes the record of its entry  *)
(* whichever session it is by then.                                        *)
Watch(e) ==
  /\ up /\ late[e] > 0
  /\ late' = [late EXCEPT ![e] = @ - 1]
  /\ rec' = rec \ {e}
  /\ UNCHANGED <<system, up, batch, commandVars>>

DaemonEndsUnnoticed ==
  /\ up' = FALSE /\ UNCHANGED <<rec, late, batch, dir, commandVars>>

DaemonEnds ==
  /\ up' = FALSE /\ rec' = {} /\ late' = [e \in Managed |-> 0]
  /\ batch' = [c \in Commands |-> [as \in Results |-> None]]
  /\ UNCHANGED <<dir, commandVars>>

(* A shutdown unmounts what is on record; what else is mounted when the    *)
(* daemon ends, or is killed, stays there without a process.               *)
DaemonStops ==
  /\ up /\ \A e \in rec : Mounted(DirOf[e])
  /\ mounts' = [d \in Dirs |-> Stranded(IF \E e \in rec : DirOf[e] = d THEN Front(mounts[d])
                                         ELSE mounts[d], Managed)]
  /\ DaemonEnds
DaemonKilled == up /\ Strand(Managed) /\ DaemonEnds

(* The process that serves a local mount dies.                             *)
ServerDies(e) ==
  /\ e \in Local
  /\ \E d \in Dirs : \E i \in DOMAIN mounts[d] : mounts[d][i] = [of |-> e, live |-> TRUE]
  /\ Strand({e})
  /\ UNCHANGED <<dir, daemon, late, commandVars>>

(* Somebody else unmounts.                                                 *)
UnmountedOutside(d) ==
  /\ Mounted(d) /\ Pop(d) /\ Wake
  /\ UNCHANGED <<dir, daemon, commandVars>>

-----------------------------------------------------------------------------
(* The history: what each entry has been since a command started.          *)

(* A record is gone, and not with the mount that it was of: a late watcher *)
(* took it, or an unmount that reached another mount on the directory.     *)
Robs(e) == /\ e \in rec /\ e \notin rec'
           /\ late'[e] < late[e] \/ mounts' # mounts

(* The states that may be reported of an entry now.  For one of the daemon *)
(* they are those of its own mount, but for what the daemon cannot know:   *)
(* that the mount has gone, until its watcher has run, and that it is      *)
(* there, once it was robbed of its record.  A local one is mounted if     *)
(* anything that can be read is on its directory, and was unmounted too if *)
(* there is more than one mount.                                           *)
ShowsManaged(e) ==
  {as \in Results : IF as = "mounted" THEN Live(e) \/ late[e] > 0
                                      ELSE ~Live(e) \/ e \in robbed}
ShowsLocal(e) ==
  LET d == DirOf[e]
  IN CASE ~Mounted(d) \/ Dead(d) -> {"unmounted"}
       [] Mounted(d) /\ ~Dead(d) /\ Len(mounts[d]) > 1 -> Results
       [] OTHER -> {"mounted"}
Shows(e) == (IF e \in Managed THEN ShowsManaged(e) ELSE ShowsLocal(e))
              \cup (IF Mounted(DirOf[e]) THEN {"covered"} ELSE {})
Wanted(r) == CASE r.op = "mount"       -> {r.args[i] : i \in DOMAIN r.args} \X {"mounted"}
               [] r.op = "unmount"     -> {r.args[i] : i \in DOMAIN r.args} \X {"unmounted"}
               [] r.op = "interactive" -> Entries \X Results
               [] r.op = "mkdir"       -> Entries \X {"covered"}
               [] OTHER                -> {}

Running == {c \in Commands : pc[c] \notin {"idle", "exit"}}
Observe ==
  /\ robbed' = {e \in Managed : Live(e)' /\ (e \in robbed \/ Robs(e))}
  /\ peak' = IF Cardinality(Running') > peak THEN Cardinality(Running') ELSE peak
  /\ seen' = [c \in Commands |->
                IF pc'[c] = "idle" THEN {}
                ELSE seen[c] \cup {w \in Wanted(req'[c]) : w[1] \in Entries /\ w[2] \in Shows(w[1])'}]

LocalStep(c)   == LocalSkipped(c) \/ LocalCheck(c) \/ LocalMount(c) \/ LocalUnmount(c)
ManagedStep(c) == Ensure(c) \/ Send(c) \/ Reply(c) \/ ReplyLost(c)
MkdirStep(c)   == Stat(c) \/ Make(c) \/ OwnMade(c) \/ Fix(c) \/ Own(c)
CommandStep(c) == \/ Read(c) \/ Ask(c) \/ Plan(c) \/ Exit(c)
                  \/ LocalStep(c) \/ ManagedStep(c) \/ MkdirStep(c)
UserStep(c)    == \/ ConfirmAll(c) \/ ConfirmFix(c)
                  \/ \E S \in SUBSET Entries : Choose(c, S)
DaemonStep(c)  == ServeMount(c) \/ ServeUnmount(c) \/ \E as \in Results : Unheard(c, as)
Outside        == \/ \E e \in Entries : ServerDies(e)
                  \/ DaemonStops \/ DaemonKilled
                  \/ \E d \in Dirs : UnmountedOutside(d)

Step == \/ /\ \E c \in Commands : \/ \E r \in Requests[c] : Run(c, r)
                                  \/ CommandStep(c) \/ UserStep(c)
                                  \/ DaemonStep(c)
           /\ Wake /\ UNCHANGED outside
        \/ (\E e \in Managed : Watch(e)) /\ UNCHANGED outside
        \/ outside < MaxOutside /\ Outside /\ outside' = outside + 1
Next == \/ Step /\ Observe
        \/ (\A c \in Commands : pc[c] = "exit") /\ UNCHANGED vars

Spec == Init /\ [][Next]_vars
-----------------------------------------------------------------------------
(* Properties.                                                             *)

Tasks   == [do : {"read", "ask", "plan", "mount", "unmount", "mount at daemon",
                  "unmount at daemon", "stat", "fix", "own"}, on : Seq(Entries)]
Reports == [of : Entries, ok : BOOLEAN,
            as : Results \cup {"created", "existing", "mismatch", "fixed"}]

TypeOK ==
  /\ mounts \in [Dirs -> Seq([of : Entries, live : BOOLEAN])]
  /\ dir \in [Dirs -> DirStates]
  /\ up \in BOOLEAN
  /\ rec \subseteq Managed /\ (rec # {} => up)
  /\ pc \in [Commands -> {"idle", "run", "mid", "made", "sent", "choose", "confirm", "exit"}]
  /\ req \in [Commands -> Request \cup {None}]
  /\ todo \in [Commands -> Seq(Tasks)]
  /\ view \in [Commands -> SUBSET Entries]
  /\ reports \in [Commands -> Seq(Reports)]
  /\ batch \in [Commands -> [Results -> Batches \cup {None}]]
  /\ outside \in 0..MaxOutside
  /\ late \in [Managed -> Nat]
  /\ seen \in [Commands -> SUBSET (Entries \X (Results \cup {"covered"}))]
  /\ robbed \subseteq Managed /\ peak \in Nat

(* What a command prints of an entry was so at some moment since it        *)
(* started, whatever other commands, the daemon and the rest of the system *)
(* do meanwhile.  A local entry said to be mounted was mounted; one said   *)
(* to be unmounted was not, or not as the only mount there, or could not   *)
(* be read.  For an entry of the daemon it is true of its own mount, with  *)
(* two exceptions: the mount has gone and no watcher has run since, or it  *)
(* is there but was robbed of its record (main.go:293-309, 697-714,        *)
(* 783-797; backend.go:97-110, 155-168, 236-245).                          *)
ReportsTrue ==
  \A c \in Commands : \A i \in DOMAIN reports[c] :
    LET r == reports[c][i]
    IN r.ok /\ r.as \in Results => <<r.of, r.as>> \in seen[c]

(* A command that ends has said what became of each entry it was given,    *)
(* once for each time it was named, the local ones first, however many     *)
(* others failed; and of no other.  A name that no entry has makes it do   *)
(* nothing at all, but for list and interactive, which look at no names    *)
(* (main.go:55-66, 290-311, 683-715, 822-836, 903-908, 1056-1084).         *)
NamesIn(c, as) == LET rs == Picked(reports[c], {i \in DOMAIN reports[c] : reports[c][i].as \in as})
                  IN [i \in DOMAIN rs |-> rs[i].of]
Split(es)      == Only(es, Local) \o Only(es, Managed)
AllReported ==
  \A c \in Commands : pc[c] = "exit" =>
    LET r  == req[c]
        es == NamesIn(c, Results)
        ds == NamesIn(c, {"created", "existing", "mismatch"})
    IN CASE r.op = "list" \/ (r.op # "interactive" /\ ~Known(r)) -> reports[c] = << >>
         [] Known(r) /\ r.op \in {"mount", "unmount"} -> es = Split(r.args) /\ Len(reports[c]) = Len(es)
         [] Known(r) /\ r.op \in {"mkdir", "dryrun"} ->
              /\ es = << >>
              /\ ds = r.args \/ (r.args = << >> /\ ds = Order)
              /\ \/ NamesIn(c, {"fixed"}) = << >>
                 \/ NamesIn(c, {"fixed"}) = NamesIn(c, {"mismatch"}) /\ r.op = "mkdir"
         [] r.op = "interactive" ->
              \A as \in Results :
                LET ns == NamesIn(c, {as})
                    S  == {ns[i] : i \in DOMAIN ns}
                IN /\ ns = Split(Only(Order, S))
                   /\ S \subseteq IF as = "mounted" THEN Entries \ view[c] ELSE view[c]

(* The exit code can be relied on as far as it goes: without an error at   *)
(* least one of the entries named was in the asked state meanwhile, so for *)
(* one name it is the truth, but for the two exceptions of ReportsTrue:    *)
(* unmount ends without an error though the entry stays mounted once the   *)
(* daemon has lost its record.  With an error no entry is said to have     *)
(* been (main.go:835-837, 874-876; backend.go:155-168, 236-245).           *)
ExitTells ==
  \A c \in Commands :
    pc[c] = "exit" /\ req[c].op \in {"mount", "unmount"} /\ req[c].args # << >> =>
      IF ExitError(c)
      THEN \A i \in DOMAIN reports[c] : ~reports[c][i].ok
      ELSE \E i \in DOMAIN req[c].args :
             <<req[c].args[i], IF req[c].op = "mount" THEN "mounted" ELSE "unmounted">> \in seen[c]

(* The drivers look first and mount then, so two commands can mount twice  *)
(* on a directory; but never more local mounts are piled up there than     *)
(* commands have run at the same time, and one at a time piles up none     *)
(* (smb/driver.go:26-42, sshfs/driver.go:31-59).                           *)
LocalsOn(d) == {i \in DOMAIN mounts[d] : mounts[d][i].of \in Local}
StacksBounded == \A d \in Dirs : Cardinality(LocalsOn(d)) <= IF peak > 1 THEN peak ELSE 1

(* After a mkdir without an error message each directory it was asked for  *)
(* is there, and unless it is listed for its owner it is the user's, or    *)
(* something was mounted on it meanwhile (main.go:988-1031, 1073-1084).    *)
MkdirPrepares ==
  \A c \in Commands :
    pc[c] = "exit" /\ req[c].op = "mkdir" =>
      \A i \in DOMAIN reports[c] :
        LET r == reports[c][i]
            d == DirOf[r.of]
        IN r.ok =>
             /\ IsDir(d)
             /\ \/ r.as = "mismatch" \/ dir[d] = "mine"
                \/ \E e \in Entries : DirOf[e] = d /\ <<e, "covered">> \in seen[c]

(* A step of a command mounts and unmounts only on directories of entries  *)
(* that its user named, or that the selector had shown in the other state, *)
(* and only in the direction asked for (main.go:822-832, 861-871, 903-908). *)
AskedToMount(d) ==
  \E c \in Commands, e \in Entries :
    /\ DirOf[e] = d /\ pc[c] # "idle"
    /\ \/ req[c].op = "mount" /\ Known(req[c]) /\ \E i \in DOMAIN req[c].args : req[c].args[i] = e
       \/ req[c].op = "interactive" /\ e \notin view[c] /\ pc[c] # "choose"
AskedToUnmount(d) ==
  \E c \in Commands, e \in Entries :
    /\ DirOf[e] = d /\ pc[c] # "idle"
    /\ \/ req[c].op = "unmount" /\ Known(req[c]) /\ \E i \in DOMAIN req[c].args : req[c].args[i] = e
       \/ req[c].op = "interactive" /\ e \in view[c] /\ pc[c] # "choose"
OnlyAsked ==
  [][outside' = outside =>
       \A d \in Dirs :
         /\ Len(mounts'[d]) > Len(mounts[d]) => AskedToMount(d)
         /\ Len(mounts'[d]) < Len(mounts[d]) => AskedToUnmount(d)]_vars
=============================================================================
