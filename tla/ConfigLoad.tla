----------------------------- MODULE ConfigLoad -----------------------------
(***************************************************************************)
(* LoadConfig of internal/config/config.go: a file, the files it includes, *)
(* those that they include, merged depth first; then, for the whole,       *)
(* sorting, validation and normalisation.                                  *)
(*                                                                         *)
(* Each call of loadRecursive that has not returned is a frame of stack;   *)
(* below them is doLoad, which has called it for the root.  What a file    *)
(* holds is decided when it is read; it is read at most once.              *)
(***************************************************************************)
EXTENDS Entries, Sequences, FiniteSets

CONSTANTS
  Paths,       \* absolute paths of configuration files
  Root,        \* the one LoadConfig is called for
  Files,       \* what may be found at each path
  NameRank,    \* the order of names
  Resolve,     \* a path made absolute, "~" expanded
  Unread,      \* the file has not been read
  Unresolved   \* the home directory is not known

(* good: there is a file, it can be read and parsed.  include: for each    *)
(* pattern the files it matches, in order; none for a pattern that matches *)
(* nothing, which is no error.  by: the sorting fields.                    *)
Field   == [key : {"name", "unknown"}, desc : BOOLEAN]
Content == [good : BOOLEAN, mounts : Seq(Entry), include : Seq(Seq(Paths)),
            by : Seq(Field), logTarget : Text, socket : Text, logFile : Text]

ASSUME RootIsPath   == Root \in Paths
ASSUME FilesAreContents == Files \in [Paths -> SUBSET Content]
ASSUME UnreadIsNone == Unread \notin Content
ASSUME RanksDiffer  ==
  /\ NameRank \in [Text -> Nat]
  /\ \A s, t \in Text : NameRank[s] = NameRank[t] => s = t
ASSUME ResolveIsFinal ==
  /\ Resolve \in [Text -> Text \cup {Unresolved}]
  /\ Unresolved \notin Text
  /\ \A t \in Text : Given(t) /\ Resolve[t] # Unresolved =>
       Given(Resolve[t]) /\ Resolve[Resolve[t]] = Resolve[t]

VARIABLES
  files,   \* what was read of each file
  opened,  \* the keys of visited, in the order they were entered
  stack,   \* the calls that have not returned, doLoad first
  status,  \* "loading", "ok" or "failed"
  mounts,  \* cfg.Mounts of the root when doLoad returns it
  socket   \* the socket path that the commands and the daemon will use

vars == <<files, opened, stack, status, mounts, socket>>

(* rest: the patterns not yet treated, of the first the files not yet      *)
(* loaded.  mounts: the file's own entries and those included so far.      *)
Frame(p, rest, ms) == [path |-> p, rest |-> rest, mounts |-> ms]

Top     == stack[Len(stack)]
Visited == {opened[i] : i \in DOMAIN opened}
WithTop(f) == [stack EXCEPT ![Len(stack)] = f]
SkipFile   == Frame(Top.path, <<Tail(Head(Top.rest))>> \o Tail(Top.rest), Top.mounts)
Calls(p)   == /\ status = "loading"
              /\ Top.rest # << >> /\ Head(Top.rest) # << >>
              /\ p = Head(Head(Top.rest))

Init ==
  /\ files = [p \in Paths |-> Unread]
  /\ opened = << >>
  /\ stack = <<Frame(Root, << <<Root>> >>, << >>)>>
  /\ status = "loading"
  /\ mounts = << >>
  /\ socket = ""

-----------------------------------------------------------------------------
(* loadRecursive.                                                          *)

(* An error ends every call below it.                                      *)
GiveUp == status' = "failed" /\ stack' = << >> /\ UNCHANGED <<mounts, socket>>

(* Variants like the next one are not part of the model: they are bugs a   *)
(* change to the code could bring in, kept to show that the properties     *)
(* notice them.                                                            *)
RevisitRefused ==
  /\ \E p \in Visited : Calls(p)
  /\ GiveUp
  /\ UNCHANGED <<files, opened>>

(* The path was visited before: an empty configuration.                    *)
Revisit ==
  /\ \E p \in Visited : Calls(p)
  /\ stack' = WithTop(SkipFile)
  /\ UNCHANGED <<files, opened, status, mounts, socket>>

NextPatternStays ==
  /\ status = "loading"
  /\ Top.rest # << >> /\ Head(Top.rest) = << >>
  /\ UNCHANGED <<files, opened, stack, status, mounts, socket>>

(* The next pattern, once all files of one are loaded.                     *)
NextPattern ==
  /\ status = "loading"
  /\ Top.rest # << >> /\ Head(Top.rest) = << >>
  /\ stack' = WithTop([Top EXCEPT !.rest = Tail(@)])
  /\ UNCHANGED <<files, opened, status, mounts, socket>>

Usable(c) == c.good /\ \A i \in DOMAIN c.mounts : StructValid(c.mounts[i])

Open(p, c) ==
  /\ Calls(p) /\ p \notin Visited /\ Usable(c)
  /\ files' = [files EXCEPT ![p] = c]
  /\ opened' = Append(opened, p)
  /\ stack' = Append(WithTop(SkipFile), Frame(p, c.include, c.mounts))
  /\ UNCHANGED <<status, mounts, socket>>

OpenFails(p, c) ==
  /\ Calls(p) /\ p \notin Visited /\ ~Usable(c)
  /\ files' = [files EXCEPT ![p] = c]
  /\ opened' = Append(opened, p)
  /\ GiveUp

Distinct(ms) == \A i, j \in DOMAIN ms : ms[i].name = ms[j].name => i = j

Returning == status = "loading" /\ Len(stack) > 1 /\ Top.rest = << >>

ReturnUnchecked ==
  /\ Returning
  /\ stack' = SubSeq([stack EXCEPT ![Len(stack) - 1].mounts = @ \o Top.mounts],
                     1, Len(stack) - 1)
  /\ UNCHANGED <<files, opened, status, mounts, socket>>

ReturnPrepends ==
  /\ Returning /\ Distinct(Top.mounts)
  /\ stack' = SubSeq([stack EXCEPT ![Len(stack) - 1].mounts = Top.mounts \o @],
                     1, Len(stack) - 1)
  /\ UNCHANGED <<files, opened, status, mounts, socket>>

(* The caller appends what was included.                                   *)
Return ==
  /\ Returning /\ Distinct(Top.mounts)
  /\ stack' = SubSeq([stack EXCEPT ![Len(stack) - 1].mounts = @ \o Top.mounts],
                     1, Len(stack) - 1)
  /\ UNCHANGED <<files, opened, status, mounts, socket>>

ReturnFails ==
  /\ Returning /\ ~Distinct(Top.mounts)
  /\ GiveUp
  /\ UNCHANGED <<files, opened>>

-----------------------------------------------------------------------------
(* doLoad.                                                                 *)

(* compareField: an unknown field never decides.                           *)
Before(a, b, f) ==
  /\ f.key = "name"
  /\ IF f.desc THEN NameRank[a.name] > NameRank[b.name]
               ELSE NameRank[a.name] < NameRank[b.name]

(* The first field that tells the two apart decides.                       *)
LessBy(a, b, by) ==
  \E k \in DOMAIN by :
    /\ Before(a, b, by[k])
    /\ \A l \in 1..(k - 1) : ~Before(a, b, by[l]) /\ ~Before(b, a, by[l])

SortedUnstable(ms, by) ==
  LET place(i) == 1 + Cardinality({j \in DOMAIN ms :
                        \/ LessBy(ms[j], ms[i], by)
                        \/ ~LessBy(ms[i], ms[j], by) /\ j > i})
  IN [k \in DOMAIN ms |-> ms[CHOOSE i \in DOMAIN ms : place(i) = k]]

(* SliceStable: an entry comes after all that are less and, among equals,  *)
(* after those that came before it.                                        *)
Sorted(ms, by) ==
  LET place(i) == 1 + Cardinality({j \in DOMAIN ms :
                        \/ LessBy(ms[j], ms[i], by)
                        \/ ~LessBy(ms[i], ms[j], by) /\ j < i})
  IN [k \in DOMAIN ms |-> ms[CHOOSE i \in DOMAIN ms : place(i) = k]]

LogTargetValid(c) == c.logTarget \in {"", "syslog", "file", "stderr"}
Resolves(t) == Given(t) => Resolve[t] # Unresolved

LoadValidAnyHome(c, ms) ==
  /\ LogTargetValid(c)
  /\ \A i \in DOMAIN ms : ValidateDriverConfig(ms[i])

(* Sorting and the daemon's settings are the root's; those of the files it *)
(* includes are ignored.                                                   *)
LoadValid(c, ms) ==
  /\ LogTargetValid(c)
  /\ \A i \in DOMAIN ms : ValidateDriverConfig(ms[i])
  /\ Resolves(c.logFile) /\ Resolves(c.socket)
  /\ \A i \in DOMAIN ms : Resolves(ms[i].dir)

Normalize(ms) == [i \in DOMAIN ms |-> [ms[i] EXCEPT !.dir = Resolve[@]]]

Done == status = "loading" /\ Len(stack) = 1 /\ Top.rest = << >>

Finish ==
  /\ Done /\ LoadValid(files[Root], Top.mounts)
  /\ mounts' = Normalize(Sorted(Top.mounts, files[Root].by))
  /\ socket' = IF Given(files[Root].socket) THEN Resolve[files[Root].socket] ELSE ""
  /\ status' = "ok"
  /\ stack' = << >>
  /\ UNCHANGED <<files, opened>>

FinishFails ==
  /\ Done /\ ~LoadValid(files[Root], Top.mounts)
  /\ GiveUp
  /\ UNCHANGED <<files, opened>>

Load ==
  \/ Revisit \/ NextPattern
  \/ \E p \in Paths : \E c \in Files[p] : Open(p, c) \/ OpenFails(p, c)
  \/ Return \/ ReturnFails \/ Finish \/ FinishFails

Next == Load \/ (status # "loading" /\ UNCHANGED vars)
Spec == Init /\ [][Next]_vars
(* The load is one goroutine that waits for nothing.                       *)
FairSpec == Spec /\ WF_vars(Load)
-----------------------------------------------------------------------------
(* Properties.                                                             *)

IsFrame(f) == /\ DOMAIN f = {"path", "rest", "mounts"}
              /\ f.path \in Paths
              /\ f.rest \in Seq(Seq(Paths))
              /\ f.mounts \in Seq(Entry)

TypeOK ==
  /\ files \in [Paths -> Content \cup {Unread}]
  /\ opened \in Seq(Paths)
  /\ \A i \in DOMAIN stack : IsFrame(stack[i])
  /\ status \in {"loading", "ok", "failed"}
  /\ status = "loading" <=> stack # << >>
  /\ mounts \in Seq(Entry)
  /\ socket \in Text

(* The reference: the files that every set closed under inclusion has in   *)
(* common once it has the root.                                            *)
Includes(c) == UNION {{c.include[i][j] : j \in DOMAIN c.include[i]} : i \in DOMAIN c.include}
ClosedUnderIncludes(S) ==
  \A p \in S : files[p] # Unread => Includes(files[p]) \subseteq S
Reachable == {p \in Paths : \A S \in SUBSET Paths :
                Root \in S /\ ClosedUnderIncludes(S) => p \in S}

(* Where an entry stands: the place of its file and its place in the file; *)
(* or, as long as it has not been handed out, the call that holds it and   *)
(* its place there.                                                        *)
Slots == UNION {{<<k, i>> : i \in DOMAIN files[opened[k]].mounts} : k \in DOMAIN opened}
At(slot) == files[opened[slot[1]]].mounts[slot[2]]
Items(st)      == UNION {{<<k, i>> : i \in DOMAIN st[k].mounts} : k \in DOMAIN st}
Held(st, x)    == st[x[1]].mounts[x[2]]
Precedes(x, y) == x[1] < y[1] \/ (x[1] = y[1] /\ x[2] < y[2])

(* A load that succeeds has read every file that can be reached from the   *)
(* root and no other, each once, whatever cycles and diamonds they form,   *)
(* and holds each of their entries once, all names different               *)
(* (config.go:87-90, 112-130; README.md:126).                              *)
Complete ==
  status = "ok" =>
    /\ Visited = Reachable
    /\ \A i, j \in DOMAIN opened : opened[i] = opened[j] => i = j
    /\ Distinct(mounts)
    /\ Len(mounts) = Cardinality(Slots)
    /\ {mounts[i].name : i \in DOMAIN mounts} = {At(x).name : x \in Slots}

(* A load fails only for a reason that a reader of the files can see: one  *)
(* of them is unusable, a name occurs twice, or the root's settings or the *)
(* complete list of entries do not pass doLoad's checks.  Being included   *)
(* twice, or in a circle, is none (config.go:87-89).                       *)
FailsForCause ==
  status = "failed" =>
    \/ \E p \in Visited : ~Usable(files[p])
    \/ \E p, q \in Visited : \E i \in DOMAIN files[p].mounts, j \in DOMAIN files[q].mounts :
         <<p, i>> # <<q, j>> /\ files[p].mounts[i].name = files[q].mounts[j].name
    \/ /\ Visited = Reachable
       /\ \/ ~LoadValid(files[Root], << >>)
          \/ \E x \in Slots : ~LoadValid(files[Root], <<At(x)>>)

(* The entries come out in the order the root's sorting asks for; where it *)
(* does not decide, a file's own entries come before those it includes and *)
(* included files in the order they were first met (config.go:112-124,     *)
(* 190-224).                                                               *)
CameFirst(a, b) ==
  \E x, y \in Slots : At(x).name = a.name /\ At(y).name = b.name /\ Precedes(x, y)
OrderAsAsked ==
  status = "ok" =>
    \A i, j \in DOMAIN mounts : i < j =>
      \/ LessBy(mounts[i], mounts[j], files[Root].by)
      \/ /\ ~LessBy(mounts[j], mounts[i], files[Root].by)
         /\ CameFirst(mounts[i], mounts[j])

(* What a command is given can be used: its driver or the daemon does not  *)
(* refuse the entry's settings, the credentials that reach the remote are  *)
(* the configured ones and of one kind, only mount requests carry secrets, *)
(* and no path depends any more on where the process runs                  *)
(* (types.go:148-192, convert.go:5-33, main.go:663-676).                   *)
LoadedUsable ==
  \A i \in DOMAIN mounts :
    /\ Mountable(mounts[i])
    /\ CredentialsReach(mounts[i])
    /\ SecretsStayHome(mounts[i])
    /\ Resolve[mounts[i].dir] = mounts[i].dir

(* The depth-first merging, with its calls and returns, implements a plain *)
(* addition of files one after the other: as long as the load goes on, the *)
(* names are those that the calls hold, in order.                          *)
Nth(st, n)    == CHOOSE x \in Items(st) :
                   1 + Cardinality({y \in Items(st) : Precedes(y, x)}) = n
NamesHeld(st) == [n \in 1..Cardinality(Items(st)) |-> Held(st, Nth(st, n)).name]
NamesOf(ms)   == [i \in DOMAIN ms |-> ms[i].name]
NamesLoaded   == IF status = "loading" THEN NamesHeld(stack) ELSE NamesOf(mounts)
Contents == INSTANCE ConfigContents WITH names <- NamesLoaded
RefinesContents == Contents!Spec

(* Every load comes to an end, also over files that include each other.    *)
LoadEnds == <>(status # "loading")
=============================================================================
