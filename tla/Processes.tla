------------------------------ MODULE Processes ------------------------------
(***************************************************************************)
(* From the command line to the locks (cmd/bfb/main.go, config.go,         *)
(* discover.go, the first part of Run and Retry): a process takes its      *)
(* directories from a config file or derives them from remote and branch,  *)
(* resolves the symbolic links in them, refuses directories that overlap,  *)
(* takes the locks of RepoLock, and refuses a state file of another        *)
(* repository.  `bfb retry` resets the saved scan under the locks, gives   *)
(* them back and then runs as any other.  `status` and `report` take no    *)
(* lock and change nothing.                                                *)
(*                                                                         *)
(* A path is the sequence of its names from the root.  A process resolves  *)
(* its paths once, when it starts, and directories come to exist later,    *)
(* also where a link leads that led nowhere.  Links stay as they are, and  *)
(* do not lead in circles.  The values of a configuration that Validate    *)
(* looks at one by one are left out.                                       *)
(***************************************************************************)
EXTENDS RepoLock, Sequences, SequencesExt

CONSTANTS
  Options,   \* how processes are called: [home, repo, remote, branch, file, directory, state]
  Links,     \* symbolic links: from path to [abs, to]
  Lead,      \* the directory that a link leads to in the end
  Existing,  \* the directories that exist at first
  Tracked,   \* the directories that a link may lead to: of others it makes no
             \* difference whether they exist
  MaxDepth   \* calls of resolvePath for a path (256 in the code)

VARIABLES
  mode,      \* what a process does: run, retry, loaded (running), loaded retry, reset
  identity,  \* the identity of its state
  dirs,      \* tracked directories that exist
  saved      \* the identity in each state directory's state.json

procVars == <<vars, mode, identity, dirs, saved>>

None == <<>>
NoPath == <<"no such path">>

-----------------------------------------------------------------------------
(* Paths *)

Path == Seq(STRING)

Parent(path) == SubSeq(path, 1, Len(path) - 1)

\* Where the kernel gets from a directory with one name.
Enter(dir, name) ==
  LET next == Append(dir, name) IN
    IF name = ".." THEN Parent(dir)
    ELSE IF next \in DOMAIN Links THEN Lead[next] ELSE next

From(dir, path) ==
  LET after[i \in 0..Len(path)] == IF i = 0 THEN dir ELSE Enter(after[i - 1], path[i])
  IN  after[Len(path)]

\* Where the kernel finds a path, or will once it exists.
Where(path) == From(<<>>, path)

\* A path that leads to itself: there is no link on the way.
Plain(path) == \A i \in 1..Len(path) : path[i] # ".."
Place(path) == path \in Path /\ Plain(path) /\ \A i \in 1..Len(path) : SubSeq(path, 1, i) \notin DOMAIN Links

\* filepath.Clean takes ".." for the name before it, whatever that is.
Cut(path, name) == IF name = ".." THEN Parent(path) ELSE Append(path, name)

Clean(path) ==
  LET after[i \in 0..Len(path)] == IF i = 0 THEN <<>> ELSE Cut(after[i - 1], path[i])
  IN  after[Len(path)]

Within(a, b) == IsPrefix(a, b)

\* What stands at the end of a path, and where a link there points to.
Spot(path) == Append(Where(Parent(path)), Last(path))

Target(path) ==
  LET link == Links[Spot(path)] IN
    IF link.abs THEN link.to ELSE Clean(Parent(path) \o link.to)

\* The calls of resolvePath, each in the place of the one before: `path` is what
\* it is called with, `rest` the names to put to the result.
Found(s) == [path |-> Where(s.path), rest |-> s.rest, found |-> TRUE]

Shorten(s) == [path |-> Clean(Parent(s.path)), rest |-> <<Last(s.path)>> \o s.rest, found |-> FALSE]

\* Mutant: only what exists is resolved.
CallExisting(s, d) == IF s.found THEN s ELSE IF Where(s.path) \in d THEN Found(s) ELSE Shorten(s)

\* With the directories d: what exists is resolved by EvalSymlinks; of what does
\* not, a link that leads nowhere is read, and any other name is put to its
\* resolved parent.
Call(s, d) ==
  IF s.found THEN s
  ELSE IF Where(s.path) \in d THEN Found(s)
  ELSE IF Spot(s.path) \in DOMAIN Links THEN [s EXCEPT !.path = Target(@)]
  ELSE Shorten(s)

ResolvePath(path, d) ==
  LET after[i \in 0..MaxDepth] ==
        IF i = 0 THEN [path |-> path, rest |-> <<>>, found |-> FALSE] ELSE Call(after[i - 1], d)
      end == after[MaxDepth]
  IN  IF end.found THEN Clean(end.path \o end.rest) ELSE NoPath

Canonical(path, d) == ResolvePath(Clean(path), d)

-----------------------------------------------------------------------------
(* Configuration *)

\* Discover's workspace: remote and branch name it.
Workspace(o) == o.home \o <<"feature-bot", o.remote \o "-" \o o.branch>>

\* The directories that a config file names, or Discover.
Named(o) ==
  IF o.file THEN [state |-> o.state, clone |-> o.directory]
  ELSE [state |-> Workspace(o) \o <<"state">>, clone |-> Workspace(o) \o <<"checkout">>]

\* What ReadConfig or Discover returns.
Configured(o, d) ==
  [home  |-> o.home, repo |-> o.repo,
   state |-> Canonical(Named(o).state, d), clone |-> Canonical(Named(o).clone, d)]

\* Directory + "-scans".
Scans(clone) == Append(Parent(clone), Last(clone) \o "-scans")

Overlap(a, b) == Within(a, b) \/ Within(b, a)

\* Config.Validate.
Validated(c) ==
  /\ NoPath \notin {c.state, c.clone}
  /\ ~Overlap(c.clone, c.state) /\ ~Overlap(Scans(c.clone), c.state)

ASSUME OptionsAssumption ==
  /\ Options # {} /\ MaxDepth \in Nat
  /\ \A o \in Options : /\ o.home \in Homes /\ o.repo \in Repos
                        /\ Named(o).state \in Path /\ Named(o).clone \in Path
  /\ <<>> \in Existing /\ Existing \subseteq Tracked

\* Every link leads to some directory in the end: where its target is.
ASSUME LinksAssumption ==
  \A l \in DOMAIN Links :
    /\ Links[l].to \in Path /\ Place(Lead[l])
    /\ Lead[l] = From(IF Links[l].abs THEN <<>> ELSE Parent(l), Links[l].to)

\* Whatever exists when a process starts, RepoLock has a name for its directories.
ASSUME DirectoriesAssumption ==
  /\ \A o \in Options, e \in SUBSET Tracked :
       LET c == Configured(o, Existing \union e) IN
         Validated(c) => c.state \in States /\ c.clone \in Clones
  /\ \A clone \in Clones : Last(Scans(clone)) \in STRING \ {".."}

\* What newState writes down, but for the host.
Identity(o, c) == <<o.remote, o.branch, c.clone, o.repo>>

\* Mutant: the branch is not compared.
SameButBranch(s, id) == s[1] = id[1] /\ s[3] = id[3] /\ s[4] = id[4]

\* ReadState's comparison.
SameIdentity(s, id) == s = id

-----------------------------------------------------------------------------
(* Processes *)

ProcInit ==
  /\ dirs = Existing
  /\ config = [p \in Procs |-> CHOOSE c \in Config : TRUE]
  /\ Init
  /\ mode = [p \in Procs |-> "none"] /\ identity = [p \in Procs |-> None]
  /\ saved = [d \in States |-> None]

Become(p, m, id) ==
  mode' = [mode EXCEPT ![p] = m] /\ identity' = [identity EXCEPT ![p] = id]

\* bfb, bfb once or bfb retry is called; with a bad configuration it ends here.
Start(p) ==
  /\ mode[p] = "none"
  /\ \E o \in Options, m \in {"run", "retry"} :
       LET c == Configured(o, dirs) IN
         Validated(c) /\ AskWith(p, c) /\ Become(p, m, Identity(o, c))
  /\ UNCHANGED <<dirs, saved>>

\* After its own reset retry runs with the configuration it has.
RunAfterRetry(p) ==
  /\ mode[p] = "reset"
  /\ AskWith(p, config[p])
  /\ Become(p, "run", identity[p])
  /\ UNCHANGED <<dirs, saved>>

\* With a path, the directories it is in.
Making(path) == dirs \union ({Where(SubSeq(path, 1, i)) : i \in 0..Len(path)} \intersect Tracked)

\* The directory of the k-th lock file; that of the first is no one's clone or state.
LockDir(c, k) == IF k = 2 THEN c.state ELSE IF k = 3 THEN Parent(c.clone) ELSE <<>>

\* lockFile makes the directory before it locks, or fails to.
TakeLock(p, k) ==
  /\ Take(p, k)
  /\ dirs' = Making(LockDir(config[p], k))
  /\ UNCHANGED <<mode, identity, saved>>

RefusedLock(p, k) ==
  /\ Refused(p, k)
  /\ dirs' \in {dirs, Making(LockDir(config[p], k))}
  /\ Become(p, "none", None)
  /\ UNCHANGED saved

\* ReadState finds nothing, as a first run does, or the state of this repository,
\* branch and clone.
Load(p) ==
  /\ at[p] = Running /\ mode[p] \in {"run", "retry"}
  /\ LET there == saved[config[p].state] IN
       \/ there = None /\ mode[p] = "run"
       \/ there # None /\ SameIdentity(there, identity[p])
  /\ Become(p, IF mode[p] = "run" THEN "loaded" ELSE "loaded retry", identity[p])
  /\ UNCHANGED <<vars, dirs, saved>>

\* The engine saves its state, or retry the reset scan.
Save(p) ==
  /\ at[p] = Running /\ mode[p] \in {"loaded", "loaded retry"}
  /\ saved' = [saved EXCEPT ![config[p].state] = identity[p]]
  /\ Become(p, IF mode[p] = "loaded" THEN "loaded" ELSE "reset", identity[p])
  /\ UNCHANGED <<vars, dirs>>

\* The clone is made and, when git finds it where it should be, the directory of
\* the worktrees.
Prepare(p) ==
  /\ at[p] = Running /\ mode[p] = "loaded"
  /\ LET clone == config[p].clone IN
       dirs' = IF Where(clone) = clone THEN Making(clone) \union Making(Scans(clone)) ELSE Making(clone)
  /\ UNCHANGED <<vars, mode, identity, saved>>

\* Run or Retry returns: a state of another identity, an error, a signal, or the end.
Leave(p) ==
  /\ Done(p)
  /\ IF mode[p] = "reset" THEN UNCHANGED <<mode, identity>> ELSE Become(p, "none", None)
  /\ UNCHANGED <<dirs, saved>>

GiveLock(p, k) == Give(p, k) /\ UNCHANGED <<mode, identity, dirs, saved>>

Dies(p) == Killed(p) /\ Become(p, "none", None) /\ UNCHANGED <<dirs, saved>>

ProcNext ==
  \E p \in Procs :
    \/ Start(p) \/ RunAfterRetry(p) \/ Load(p) \/ Save(p) \/ Prepare(p) \/ Leave(p) \/ Dies(p)
    \/ \E k \in 1..3 : TakeLock(p, k) \/ RefusedLock(p, k) \/ GiveLock(p, k)

ProcSpec == ProcInit /\ [][ProcNext]_procVars

-----------------------------------------------------------------------------
(* Properties *)

\* Processes that run at once have clones and states in different places, and
\* the state of a process is apart from its clone and worktrees, whatever has come
\* to exist since the paths were resolved; config.go:110: "EvalSymlinks cannot
\* resolve a dangling link.  Resolve its target explicitly so future directories
\* cannot make previously separate paths overlap."  (Violated where a relative
\* link is reached through another and read in the name of its directory,
\* config.go:119.)
DirectoriesApart ==
  \A p \in Procs : at[p] = Running =>
    LET c == config[p] IN
      /\ ~Overlap(Where(c.clone), Where(c.state))
      /\ ~Overlap(Where(Scans(c.clone)), Where(c.state))
      /\ \A q \in Procs \ {p} : at[q] = Running =>
           /\ Where(c.clone) # Where(config[q].clone)
           /\ Where(c.state) # Where(config[q].state)

\* A state file is never taken over: the scan and the proposals in it stay those
\* of one repository, branch and clone, whoever runs next in its directory,
\* also between the two times that retry takes the locks (state.go:68).
StateKeepsIdentity ==
  [][\A d \in States : saved[d] # None => saved'[d] = saved[d]]_procVars

=============================================================================
