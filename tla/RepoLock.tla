------------------------------ MODULE RepoLock ------------------------------
(***************************************************************************)
(* How bfb processes on one machine keep out of each other's way: every    *)
(* engine and every retry command first takes three lock files with a      *)
(* non-blocking flock (state.go, lockConfig): one of the GitHub repository *)
(* under the state home, one of the state directory and one of the managed *)
(* clone.  A process that meets a held lock gives back those it has and    *)
(* ends; the kernel takes the locks of a process that dies.                *)
(*                                                                         *)
(* Configurations may agree on any of the three: the same repository from  *)
(* another branch, remote or config file, another spelling of its name, a  *)
(* shared state directory or clone.  Processes with different state homes  *)
(* do not see each other's repository lock (README.md says so).            *)
(*                                                                         *)
(* Engine rests on this module: it has one engine per state file, and the  *)
(* retry command only when no engine runs.                                 *)
(***************************************************************************)
EXTENDS Naturals, FiniteSets

CONSTANTS
  Procs,     \* processes
  Homes,     \* state homes
  Repos,     \* repositories as they are written: host/owner/name
  Key,       \* strings.ToLower of a repository
  States,    \* state directories
  Clones,    \* directories of managed clones
  NoProc

ASSUME LockAssumption ==
  /\ Key \in [Repos -> Repos]
  /\ NoProc \notin Procs

VARIABLES at, config, holder

vars == <<at, config, holder>>

Config == [home : Homes, repo : Repos, state : States, clone : Clones]

\* The lock files, in the order they are taken.
Files ==
  ({1} \X (Homes \X Repos)) \union ({2} \X States) \union ({3} \X Clones)

\* Mutant: a repository written differently has another lock.
LockAsWritten(c, k) ==
  IF k = 1 THEN <<1, <<c.home, c.repo>>>>
  ELSE IF k = 2 THEN <<2, c.state>> ELSE <<3, c.clone>>

\* The k-th lock file of a configuration.
Lock(c, k) ==
  IF k = 1 THEN <<1, <<c.home, Key[c.repo]>>>>
  ELSE IF k = 2 THEN <<2, c.state>> ELSE <<3, c.clone>>

\* A process waits to take its k-th lock, has its turn, or gives locks back
\* of which it holds k.
Taking(k) == <<"take", k>>
Giving(k) == <<"give", k>>
Running   == <<"run", 3>>
Idle      == <<"idle", 0>>

Places == {Taking(k) : k \in 1..3} \union {Giving(k) : k \in 1..3} \union {Running, Idle}

Init ==
  /\ at = [p \in Procs |-> Idle]
  /\ config \in [Procs -> Config]
  /\ holder = [f \in Files |-> NoProc]

Move(p, place) == at' = [at EXCEPT ![p] = place]

\* A process begins to take the locks of a configuration.
AskWith(p, c) ==
  /\ at[p] = Idle
  /\ config' = [config EXCEPT ![p] = c]
  /\ Move(p, Taking(1))
  /\ UNCHANGED holder

\* It may have any configuration.
Ask(p) == \E c \in Config : AskWith(p, c)

\* LOCK_EX|LOCK_NB succeeds.
Take(p, k) ==
  /\ at[p] = Taking(k)
  /\ holder[Lock(config[p], k)] = NoProc
  /\ holder' = [holder EXCEPT ![Lock(config[p], k)] = p]
  /\ Move(p, IF k = 3 THEN Running ELSE Taking(k + 1))
  /\ UNCHANGED config

\* Mutant: what was taken before is not given back.
ForgetLocks(k) == Idle

\* Where a process goes that holds the first k locks and gives up.
GiveUp(k) == IF k = 0 THEN Idle ELSE Giving(k)

\* The lock is held, or its file cannot be opened.
Refused(p, k) ==
  /\ at[p] = Taking(k)
  /\ Move(p, GiveUp(k - 1))
  /\ UNCHANGED <<config, holder>>

\* Run or Retry returns.
Done(p) ==
  /\ at[p] = Running
  /\ Move(p, GiveUp(3))
  /\ UNCHANGED <<config, holder>>

\* Locks are given back in the opposite order.
Give(p, k) ==
  /\ at[p] = Giving(k)
  /\ holder' = [holder EXCEPT ![Lock(config[p], k)] = NoProc]
  /\ Move(p, GiveUp(k - 1))
  /\ UNCHANGED config

\* The process dies: its locks go with it.
Killed(p) ==
  /\ at[p] # Idle
  /\ holder' = [f \in Files |-> IF holder[f] = p THEN NoProc ELSE holder[f]]
  /\ Move(p, Idle)
  /\ UNCHANGED config

Process(p) ==
  \/ Ask(p) \/ Done(p) \/ Killed(p)
  \/ \E k \in 1..3 : Take(p, k) \/ Refused(p, k) \/ Give(p, k)

Next == \E p \in Procs : Process(p)

Spec == Init /\ [][Next]_vars

-----------------------------------------------------------------------------
(* Properties *)

TypeOK ==
  /\ at \in [Procs -> Places]
  /\ config \in [Procs -> Config]
  /\ holder \in [Files -> Procs \union {NoProc}]

\* What two processes must not use at once.
Clash(c, d) ==
  \/ c.home = d.home /\ Key[c.repo] = Key[d.repo]
  \/ c.state = d.state
  \/ c.clone = d.clone

\* Two processes never run with the same repository (in any spelling, from any
\* branch or config file of one state home), state directory or managed clone.
Exclusion ==
  \A p, q \in Procs :
    p # q /\ at[p] = Running /\ at[q] = Running => ~Clash(config[p], config[q])

\* How many locks a process holds at a place.
Holding(place) == IF place[1] = "take" THEN place[2] - 1 ELSE place[2]

\* Every process holds the first locks of its configuration, and no others: a
\* start that was refused, whichever lock it failed on, and a process that ended
\* or died leave no lock that would keep others out.
HoldsPrefix ==
  \A p \in Procs, f \in Files :
    holder[f] = p <=> \E k \in 1..3 : k <= Holding(at[p]) /\ f = Lock(config[p], k)

LockInv == TypeOK /\ HoldsPrefix

=============================================================================
