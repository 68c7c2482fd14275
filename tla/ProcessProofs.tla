---------------------------- MODULE ProcessProofs ----------------------------
(***************************************************************************)
(* Proofs about RepoLock and Processes, for any number of processes,       *)
(* directories and spellings of a repository.                              *)
(*                                                                         *)
(* The inductive invariant of RepoLock is LockInv: a process holds a       *)
(* prefix of the three locks of its configuration, and nothing else.       *)
(* Exclusion follows because two clashing configurations have a lock file  *)
(* in common, and a file has one holder.                                   *)
(*                                                                         *)
(* Processes implements RepoLock, so both hold of it too.  That a state    *)
(* file is never taken over rests on them: between the check of the        *)
(* identity and a save nobody else has the lock of the state directory.    *)
(*                                                                         *)
(* What paths lead to takes inductions over them, from the least name at   *)
(* which something fails (Iteration).  A place is a path without links: it *)
(* leads to itself, whatever comes to exist.  Calls are the calls of       *)
(* resolvePath that are on the way to one; that a call goes on from there  *)
(* (CallGoesOn) needs links to lead where Target reads that they do        *)
(* (LinksAgree), which links that go up by ".." need not.  So do the       *)
(* configurations in use stay as Validate saw them (PathsResolved).        *)
(***************************************************************************)
EXTENDS Processes, Iteration, SequenceTheorems, TLAPS

\* A configuration's lock is one of the files, and its three locks differ: the
\* lower-cased repository is again a repository's name (state.go:153).
LEMMA LockIsFile ==
  ASSUME NEW c \in Config, NEW k \in 1..3
  PROVE  Lock(c, k) \in Files
<1>1. Key[c.repo] \in Repos /\ c.home \in Homes /\ c.state \in States /\ c.clone \in Clones
  BY LockAssumption DEF Config
<1>2. CASE k = 1
  BY <1>1, <1>2 DEF Lock, Files
<1>3. CASE k = 2
  BY <1>1, <1>3 DEF Lock, Files
<1>4. CASE k = 3
  BY <1>1, <1>4 DEF Lock, Files
<1> QED BY <1>2, <1>3, <1>4

LEMMA LocksDiffer ==
  ASSUME NEW c \in Config, NEW i \in 1..3, NEW j \in 1..3, Lock(c, i) = Lock(c, j)
  PROVE  i = j
<1>1. Lock(c, i)[1] = i /\ Lock(c, j)[1] = j
  BY DEF Lock
<1> QED BY <1>1

\* The places are distinct, and each has its number of locks.
LEMMA HoldingOf ==
  /\ \A k \in 1..3 : Holding(Taking(k)) = k - 1 /\ Holding(Giving(k)) = k
  /\ Holding(Running) = 3 /\ Holding(Idle) = 0
BY DEF Holding, Taking, Giving, Running, Idle

LEMMA GiveUpPlace ==
  ASSUME NEW k \in 0..3
  PROVE  GiveUp(k) \in Places /\ Holding(GiveUp(k)) = k
<1>1. CASE k = 0
  BY <1>1, HoldingOf DEF GiveUp, Places
<1>2. CASE k \in 1..3
  BY <1>2, HoldingOf DEF GiveUp, Places
<1> QED BY <1>1, <1>2

-----------------------------------------------------------------------------
LEMMA LockInit == Init => LockInv
<1> SUFFICES ASSUME Init PROVE LockInv
  OBVIOUS
<1>1. TypeOK
  BY DEF Init, TypeOK, Places
<1>2. HoldsPrefix
  <2> SUFFICES ASSUME NEW p \in Procs, NEW f \in Files
               PROVE  holder[f] # p /\ Holding(at[p]) = 0
    BY DEF HoldsPrefix
  <2> QED BY LockAssumption, HoldingOf DEF Init
<1> QED BY <1>1, <1>2 DEF LockInv

\* A step of one process that moves it, and changes its locks from a prefix to
\* a prefix, keeps the invariant: the other processes' locks are untouched.
LEMMA OneMoves ==
  ASSUME LockInv, NEW p \in Procs, NEW place \in Places,
         Move(p, place), config' = config, holder' \in [Files -> Procs \union {NoProc}],
         \A f \in Files :
           holder'[f] = p <=> \E k \in 1..3 : k <= Holding(place) /\ f = Lock(config[p], k),
         \A f \in Files, q \in Procs \ {p} : holder'[f] = q <=> holder[f] = q
  PROVE  LockInv'
<1>1. TypeOK'
  BY DEF LockInv, TypeOK, Move
<1>2. HoldsPrefix'
  <2> SUFFICES ASSUME NEW q \in Procs, NEW f \in Files
               PROVE  holder'[f] = q <=>
                        \E k \in 1..3 : k <= Holding(at'[q]) /\ f = Lock(config[q], k)
    BY DEF HoldsPrefix, Lock, Holding
  <2>1. CASE q = p
    <3>1. at'[q] = place
      BY <2>1 DEF LockInv, TypeOK, Move
    <3> QED BY <2>1, <3>1
  <2>2. CASE q # p
    <3>1. at'[q] = at[q]
      BY <2>2 DEF LockInv, TypeOK, Move
    <3>2. holder[f] = q <=> \E k \in 1..3 : k <= Holding(at[q]) /\ f = Lock(config[q], k)
      BY DEF LockInv, HoldsPrefix
    <3> QED BY <2>2, <3>1, <3>2
  <2> QED BY <2>1, <2>2
<1> QED BY <1>1, <1>2 DEF LockInv

LEMMA LockStep == LockInv /\ [Next]_vars => LockInv'
<1> SUFFICES ASSUME LockInv, [Next]_vars PROVE LockInv'
  OBVIOUS
<1>u. CASE UNCHANGED vars
  BY <1>u DEF LockInv, TypeOK, HoldsPrefix, Holding, Lock, vars
<1>n. CASE Next
  <2> PICK p \in Procs : Process(p)
    BY <1>n DEF Next
  <2>t. TypeOK /\ config[p] \in Config /\ at[p] \in Places
    BY DEF LockInv, TypeOK
  <2>h. \A f \in Files :
          holder[f] = p <=> \E k \in 1..3 : k <= Holding(at[p]) /\ f = Lock(config[p], k)
    BY DEF LockInv, HoldsPrefix
  <2>1. CASE Ask(p)
    <3>1. Holding(at[p]) = 0 /\ Holding(Taking(1)) = 0 /\ Taking(1) \in Places
      BY <2>1, HoldingOf DEF Ask, AskWith, Places
    <3>2. PICK c \in Config : AskWith(p, c)
      BY <2>1 DEF Ask
    <3>3. TypeOK'
      BY <2>t, <3>1, <3>2 DEF TypeOK, AskWith, Move
    <3>4. HoldsPrefix'
      <4> SUFFICES ASSUME NEW q \in Procs, NEW f \in Files
                   PROVE  holder'[f] = q <=>
                            \E k \in 1..3 : k <= Holding(at'[q]) /\ f = Lock(config'[q], k)
        BY DEF HoldsPrefix, Lock, Holding
      <4>0. holder' = holder
        BY <3>2 DEF AskWith
      <4>1. CASE q = p
        <5>1. at'[q] = Taking(1)
          BY <3>2, <2>t, <4>1 DEF AskWith, Move, TypeOK
        <5> QED BY <2>h, <3>1, <4>0, <4>1, <5>1
      <4>2. CASE q # p
        <5>1. at'[q] = at[q] /\ config'[q] = config[q]
          BY <2>t, <3>2, <4>2 DEF AskWith, Move, TypeOK
        <5>2. holder[f] = q <=> \E k \in 1..3 : k <= Holding(at[q]) /\ f = Lock(config[q], k)
          BY DEF LockInv, HoldsPrefix
        <5> QED BY <4>0, <5>1, <5>2
      <4> QED BY <4>1, <4>2
    <3> QED BY <3>3, <3>4 DEF LockInv
  <2>2. ASSUME NEW k \in 1..3, Take(p, k) PROVE LockInv'
    <3> DEFINE place == IF k = 3 THEN Running ELSE Taking(k + 1)
    <3>1. place \in Places /\ Holding(place) = k /\ Holding(at[p]) = k - 1
      <4>1. CASE k = 3
        BY <2>2, <4>1, HoldingOf DEF Take, Places
      <4>2. CASE k # 3
        <5>1. k + 1 \in 1..3
          BY <4>2
        <5> QED BY <2>2, <4>2, <5>1, HoldingOf DEF Take, Places
      <4> QED BY <4>1, <4>2
    <3>2. Lock(config[p], k) \in Files
      BY <2>t, LockIsFile
    <3>3. holder' \in [Files -> Procs \union {NoProc}]
      BY <2>2, <2>t, <3>2 DEF Take, TypeOK
    <3>4. ASSUME NEW f \in Files
          PROVE  holder'[f] = p <=> \E j \in 1..3 : j <= k /\ f = Lock(config[p], j)
      <4>1. holder'[f] = p <=> holder[f] = p \/ f = Lock(config[p], k)
        BY <2>2, <2>t, <3>2 DEF Take, TypeOK
      <4>2. (\E j \in 1..3 : j <= k /\ f = Lock(config[p], j)) <=>
              ((\E j \in 1..3 : j <= k - 1 /\ f = Lock(config[p], j)) \/ f = Lock(config[p], k))
        <5>1. \A j \in 1..3 : j <= k <=> (j <= k - 1 \/ j = k)
          OBVIOUS
        <5> QED BY <5>1
      <4> QED BY <2>h, <3>1, <4>1, <4>2
    <3>5. \A f \in Files, q \in Procs \ {p} : holder'[f] = q <=> holder[f] = q
      BY <2>2, <2>t, <3>2, LockAssumption DEF Take, TypeOK
    <3> HIDE DEF place
    <3>6. Move(p, place) /\ config' = config
      BY <2>2 DEF Take, place
    <3> QED BY <3>1, <3>3, <3>4, <3>5, <3>6, OneMoves
  <2>3. ASSUME NEW k \in 1..3, Refused(p, k) PROVE LockInv'
    <3>1. GiveUp(k - 1) \in Places /\ Holding(GiveUp(k - 1)) = k - 1
      <4>1. k - 1 \in 0..3
        OBVIOUS
      <4> QED BY <4>1, GiveUpPlace
    <3>2. Holding(at[p]) = k - 1
      BY <2>3, HoldingOf DEF Refused
    <3>3. Move(p, GiveUp(k - 1)) /\ config' = config /\ holder' = holder
      BY <2>3 DEF Refused
    <3>4. holder' \in [Files -> Procs \union {NoProc}]
      BY <2>t, <3>3 DEF TypeOK
    <3> QED BY <2>h, <3>1, <3>2, <3>3, <3>4, OneMoves
  <2>4. CASE Done(p)
    <3>1. GiveUp(3) \in Places /\ Holding(GiveUp(3)) = 3
      BY GiveUpPlace
    <3>2. Holding(at[p]) = 3
      BY <2>4, HoldingOf DEF Done
    <3>3. Move(p, GiveUp(3)) /\ config' = config /\ holder' = holder
      BY <2>4 DEF Done
    <3>4. holder' \in [Files -> Procs \union {NoProc}]
      BY <2>t, <3>3 DEF TypeOK
    <3> QED BY <2>h, <3>1, <3>2, <3>3, <3>4, OneMoves
  <2>5. ASSUME NEW k \in 1..3, Give(p, k) PROVE LockInv'
    <3>1. GiveUp(k - 1) \in Places /\ Holding(GiveUp(k - 1)) = k - 1 /\ Holding(at[p]) = k
      <4>1. k - 1 \in 0..3
        OBVIOUS
      <4> QED BY <2>5, <4>1, GiveUpPlace, HoldingOf DEF Give
    <3>2. Lock(config[p], k) \in Files
      BY <2>t, LockIsFile
    <3>3. holder' \in [Files -> Procs \union {NoProc}]
      BY <2>5, <2>t, <3>2 DEF Give, TypeOK
    <3>4. ASSUME NEW f \in Files
          PROVE  holder'[f] = p <=> \E j \in 1..3 : j <= k - 1 /\ f = Lock(config[p], j)
      <4>1. holder'[f] = p <=> holder[f] = p /\ f # Lock(config[p], k)
        BY <2>5, <2>t, <3>2, LockAssumption DEF Give, TypeOK
      <4>2. holder[f] = p <=> \E j \in 1..3 : j <= k /\ f = Lock(config[p], j)
        BY <2>h, <3>1
      <4>3. ASSUME NEW j \in 1..3, j <= k, f = Lock(config[p], j), f # Lock(config[p], k)
            PROVE  j <= k - 1
        BY <4>3
      <4>4. ASSUME NEW j \in 1..3, j <= k - 1, f = Lock(config[p], j)
            PROVE  f # Lock(config[p], k) /\ j <= k
        BY <2>t, <4>4, LocksDiffer
      <4> QED BY <4>1, <4>2, <4>3, <4>4
    <3>5. holder[Lock(config[p], k)] = p
      BY <2>h, <3>1, <3>2
    <3>6. \A f \in Files, q \in Procs \ {p} : holder'[f] = q <=> holder[f] = q
      BY <2>5, <2>t, <3>2, <3>5, LockAssumption DEF Give, TypeOK
    <3>7. Move(p, GiveUp(k - 1)) /\ config' = config
      BY <2>5 DEF Give
    <3> QED BY <3>1, <3>3, <3>4, <3>6, <3>7, OneMoves
  <2>6. CASE Killed(p)
    <3>1. Idle \in Places /\ Holding(Idle) = 0
      BY HoldingOf DEF Places
    <3>2. Move(p, Idle) /\ config' = config
      BY <2>6 DEF Killed
    <3>3. holder' \in [Files -> Procs \union {NoProc}]
      BY <2>6, <2>t DEF Killed, TypeOK
    <3>4. \A f \in Files : holder'[f] # p
      BY <2>6, LockAssumption DEF Killed
    <3>5. \A f \in Files, q \in Procs \ {p} : holder'[f] = q <=> holder[f] = q
      BY <2>6, LockAssumption DEF Killed
    <3>6. \A f \in Files :
            holder'[f] = p <=> \E k \in 1..3 : k <= Holding(Idle) /\ f = Lock(config[p], k)
      BY <3>1, <3>4
    <3> QED BY <3>1, <3>2, <3>3, <3>5, <3>6, OneMoves
  <2> QED BY <2>1, <2>2, <2>3, <2>4, <2>5, <2>6 DEF Process
<1> QED BY <1>u, <1>n DEF vars

-----------------------------------------------------------------------------
\* Whatever the processes are configured with, and wherever they die, each holds
\* a prefix of the locks of its own configuration (state.go:141-164).
THEOREM LocksHeld == Spec => []LockInv
<1>1. Init => LockInv
  BY LockInit
<1>2. LockInv /\ [Next]_vars => LockInv'
  BY LockStep
<1> QED BY <1>1, <1>2, PTL DEF Spec

LEMMA LocksExclude == LockInv => Exclusion
<1> SUFFICES ASSUME LockInv, NEW p \in Procs, NEW q \in Procs,
                    p # q, at[p] = Running, at[q] = Running,
                    Clash(config[p], config[q])
             PROVE  FALSE
  BY DEF Exclusion
<1>0. config[p] \in Config /\ config[q] \in Config
  BY DEF LockInv, TypeOK
<1>1. \A k \in 1..3 : holder[Lock(config[p], k)] = p /\ holder[Lock(config[q], k)] = q
  BY <1>0, LockIsFile, HoldingOf DEF LockInv, HoldsPrefix
<1>2. \E k \in 1..3 : Lock(config[p], k) = Lock(config[q], k)
  BY DEF Clash, Lock
<1> QED BY <1>1, <1>2

\* Two processes never use the same repository of one state home, the same state
\* directory or the same managed clone, however each of them is configured
\* (state.go:141-164, run.go:40-44).
THEOREM ClashesNeverRun == Spec => []Exclusion
BY LocksHeld, LocksExclude, PTL

-----------------------------------------------------------------------------
(* Processes: the inductive invariant *)

ProcTypeOK ==
  /\ mode \in [Procs -> {"none", "run", "retry", "loaded", "loaded retry", "reset"}]
  /\ DOMAIN identity = Procs /\ DOMAIN saved = States
  /\ Existing \subseteq dirs /\ dirs \subseteq Tracked

\* From ReadState on a process has its locks, and is the only one that saves in
\* its state directory: what is there is of its own identity.
StateOwned ==
  \A p \in Procs :
    mode[p] \in {"loaded", "loaded retry"} =>
      at[p] = Running /\ saved[config[p].state] \in {None, identity[p]}

ProcInv == LockInv /\ ProcTypeOK /\ StateOwned

\* The configuration that a process starts with is one that RepoLock knows.
LEMMA ConfiguredKnown ==
  ASSUME ProcTypeOK, NEW o \in Options, Validated(Configured(o, dirs))
  PROVE  Configured(o, dirs) \in Config
<1> DEFINE c == Configured(o, dirs)
<1>1. c = [home |-> o.home, repo |-> o.repo, state |-> c.state, clone |-> c.clone]
  BY DEF Configured
<1>2. o.home \in Homes /\ o.repo \in Repos
  BY OptionsAssumption
<1>3. Existing \union dirs = dirs /\ dirs \in SUBSET Tracked
  BY DEF ProcTypeOK
<1>4. c.state \in States /\ c.clone \in Clones
  BY <1>3, DirectoriesAssumption
<1> HIDE DEF c
<1>5. c \in Config
  BY <1>1, <1>2, <1>4 DEF Config
<1> QED
  BY <1>5 DEF c

\* Directories are only made.
LEMMA MakingKnown ==
  ASSUME ProcTypeOK, NEW path
  PROVE  Existing \subseteq Making(path) /\ Making(path) \subseteq Tracked
BY DEF ProcTypeOK, Making

\* Every step of a process is one of RepoLock, or leaves the locks alone.
LEMMA LocksTaken ==
  ASSUME LockInv, ProcTypeOK, [ProcNext]_procVars
  PROVE  [Next]_vars
<1>1. CASE UNCHANGED procVars
  BY <1>1 DEF procVars
<1>2. ASSUME NEW p \in Procs, Start(p) PROVE Next
  <2>1. PICK o \in Options : /\ Validated(Configured(o, dirs))
                             /\ AskWith(p, Configured(o, dirs))
    BY <1>2 DEF Start
  <2>2. Configured(o, dirs) \in Config
    BY <2>1, ConfiguredKnown
  <2> QED
    BY <2>1, <2>2 DEF Next, Process, Ask
<1>3. ASSUME NEW p \in Procs, RunAfterRetry(p) PROVE Next
  BY <1>3 DEF RunAfterRetry, Next, Process, Ask, LockInv, TypeOK
<1>4. ASSUME NEW p \in Procs, Load(p) \/ Save(p) \/ Prepare(p) PROVE UNCHANGED vars
  BY <1>4 DEF Load, Save, Prepare
<1>5. ASSUME NEW p \in Procs, Leave(p) \/ Dies(p) PROVE Next
  BY <1>5 DEF Leave, Dies, Next, Process
<1>6. ASSUME NEW p \in Procs, NEW k \in 1..3, TakeLock(p, k) \/ RefusedLock(p, k) \/ GiveLock(p, k)
      PROVE  Next
  BY <1>6 DEF TakeLock, RefusedLock, GiveLock, Next, Process
<1> QED
  BY <1>1, <1>2, <1>3, <1>4, <1>5, <1>6 DEF ProcNext

LEMMA ProcStart == ProcInit => ProcInv
<1> SUFFICES ASSUME ProcInit PROVE ProcInv
  OBVIOUS
<1>1. LockInv
  BY LockInit DEF ProcInit
<1>2. ProcTypeOK
  BY OptionsAssumption DEF ProcInit, ProcTypeOK
<1>3. StateOwned
  BY DEF ProcInit, StateOwned
<1> QED
  BY <1>1, <1>2, <1>3 DEF ProcInv

\* What a process does, and the state files and configurations it leaves as they are.
LEMMA ProcTypes ==
  ASSUME ProcTypeOK, ProcNext
  PROVE  ProcTypeOK'
<1>1. ASSUME NEW p \in Procs, NEW id,
             NEW m \in {"none", "run", "retry", "loaded", "loaded retry", "reset"}, Become(p, m, id)
      PROVE  /\ mode' \in [Procs -> {"none", "run", "retry", "loaded", "loaded retry", "reset"}]
             /\ DOMAIN identity' = Procs
  BY <1>1 DEF Become, ProcTypeOK
<1>2. ASSUME NEW p \in Procs, Start(p) \/ RunAfterRetry(p) \/ Load(p) \/ Dies(p)
      PROVE  ProcTypeOK'
  <2>1. \E m \in {"none", "run", "retry", "loaded", "loaded retry"} : \E id : Become(p, m, id)
    BY <1>2 DEF Start, RunAfterRetry, Load, Dies
  <2>2. UNCHANGED <<dirs, saved>>
    BY <1>2 DEF Start, RunAfterRetry, Load, Dies
  <2> QED
    BY <1>1, <2>1, <2>2 DEF ProcTypeOK
<1>3. ASSUME NEW p \in Procs, Save(p) PROVE ProcTypeOK'
  <2>1. \E m \in {"loaded", "reset"} : Become(p, m, identity[p])
    BY <1>3 DEF Save
  <2>2. dirs' = dirs /\ DOMAIN saved' = DOMAIN saved
    BY <1>3 DEF Save
  <2> QED
    BY <1>1, <2>1, <2>2 DEF ProcTypeOK
<1>4. ASSUME NEW p \in Procs, Prepare(p) PROVE ProcTypeOK'
  <2>1. /\ \E a, b : dirs' = Making(a) \union Making(b) \/ dirs' = Making(a)
        /\ UNCHANGED <<mode, identity, saved>>
    BY <1>4 DEF Prepare
  <2> QED
    BY <2>1, MakingKnown DEF ProcTypeOK
<1>5. ASSUME NEW p \in Procs, Leave(p) PROVE ProcTypeOK'
  <2>1. UNCHANGED <<mode, identity>> \/ Become(p, "none", None)
    BY <1>5 DEF Leave
  <2>2. UNCHANGED <<dirs, saved>>
    BY <1>5 DEF Leave
  <2> QED
    BY <1>1, <2>1, <2>2 DEF ProcTypeOK
<1>6. ASSUME NEW p \in Procs, NEW k \in 1..3, TakeLock(p, k) \/ RefusedLock(p, k) \/ GiveLock(p, k)
      PROVE  ProcTypeOK'
  <2>1. UNCHANGED <<mode, identity>> \/ Become(p, "none", None)
    BY <1>6 DEF TakeLock, RefusedLock, GiveLock
  <2>2. saved' = saved /\ (dirs' = dirs \/ \E path : dirs' = Making(path))
    BY <1>6 DEF TakeLock, RefusedLock, GiveLock
  <2> QED
    BY <1>1, <2>1, <2>2, MakingKnown DEF ProcTypeOK
<1> QED
  BY <1>2, <1>3, <1>4, <1>5, <1>6 DEF ProcNext

\* Only a process that has read the state, and holds its lock, saves.
LEMMA Owned ==
  ASSUME ProcInv, ProcNext
  PROVE  StateOwned'
<1>1. LockInv /\ ProcTypeOK /\ StateOwned /\ Exclusion
  BY LocksExclude DEF ProcInv
<1>2. \A p \in Procs : config[p] \in Config /\ config[p].state \in States
  BY <1>1 DEF LockInv, TypeOK, Config
<1>3. at \in [Procs -> Places] /\ DOMAIN config = Procs /\ DOMAIN mode = Procs
      /\ DOMAIN identity = Procs /\ DOMAIN saved = States
  BY <1>1 DEF LockInv, TypeOK, ProcTypeOK
<1>4. ASSUME NEW p \in Procs, Save(p) PROVE StateOwned'
  <2>1. /\ at[p] = Running /\ mode[p] \in {"loaded", "loaded retry"}
        /\ saved' = [saved EXCEPT ![config[p].state] = identity[p]]
        /\ UNCHANGED <<at, config>> /\ \A q \in Procs : identity'[q] = identity[q]
        /\ \A q \in Procs \ {p} : mode'[q] = mode[q]
    BY <1>3, <1>4 DEF Save, Become, vars
  <2> SUFFICES ASSUME NEW q \in Procs, mode'[q] \in {"loaded", "loaded retry"}
               PROVE  at[q] = Running /\ saved'[config[q].state] \in {None, identity[q]}
    BY <2>1 DEF StateOwned
  <2>2. CASE q = p
    BY <1>2, <1>3, <2>1, <2>2
  <2>3. CASE q # p
    <3>2. at[q] = Running /\ saved[config[q].state] \in {None, identity[q]}
      BY <1>1, <2>1, <2>3 DEF StateOwned
    <3>1. config[q].state # config[p].state
      BY <1>1, <2>1, <2>3, <3>2 DEF Exclusion, Clash
    <3> QED
      BY <1>2, <1>3, <2>1, <3>1, <3>2
  <2> QED
    BY <2>2, <2>3
<1>5. ASSUME NEW p \in Procs, Load(p) PROVE StateOwned'
  <2>1. /\ at[p] = Running /\ saved[config[p].state] \in {None, identity[p]}
        /\ UNCHANGED <<at, config, saved>> /\ \A q \in Procs : identity'[q] = identity[q]
        /\ \A q \in Procs \ {p} : mode'[q] = mode[q]
    BY <1>3, <1>5 DEF Load, Become, SameIdentity, vars
  <2> QED
    BY <1>1, <2>1 DEF StateOwned
<1>6. ASSUME NEW p \in Procs,
             saved' = saved,
             mode'[p] \notin {"loaded", "loaded retry"},
             \A q \in Procs \ {p} : /\ at'[q] = at[q] /\ mode'[q] = mode[q]
                                     /\ config'[q] = config[q] /\ identity'[q] = identity[q]
      PROVE  StateOwned'
  BY <1>1, <1>6 DEF StateOwned
<1>7. ASSUME NEW p \in Procs, Start(p) \/ RunAfterRetry(p) PROVE StateOwned'
  <2>1. /\ saved' = saved
        /\ \E c : AskWith(p, c)
        /\ \E m \in {"run", "retry"} : \E id : Become(p, m, id)
    BY <1>7 DEF Start, RunAfterRetry
  <2> QED
    BY <1>3, <1>6, <2>1 DEF AskWith, Move, Become
<1>8. ASSUME NEW p \in Procs, Leave(p) \/ Dies(p) PROVE StateOwned'
  <2>1. /\ saved' = saved
        /\ Done(p) \/ Killed(p)
        /\ (mode[p] = "reset" /\ UNCHANGED <<mode, identity>>) \/ Become(p, "none", None)
    BY <1>8 DEF Leave, Dies
  <2> QED
    BY <1>3, <1>6, <2>1 DEF Done, Killed, Move, Become
<1>9. ASSUME NEW p \in Procs, Prepare(p) PROVE StateOwned'
  <2>1. UNCHANGED <<at, config, mode, identity, saved>>
    BY <1>9 DEF Prepare, vars
  <2> QED
    BY <1>1, <2>1 DEF StateOwned
<1>10. ASSUME NEW p \in Procs, NEW k \in 1..3, TakeLock(p, k) \/ RefusedLock(p, k) \/ GiveLock(p, k)
       PROVE  StateOwned'
  <2>1. /\ saved' = saved /\ config' = config
        /\ \E place : Move(p, place)
        /\ UNCHANGED <<mode, identity>> \/ Become(p, "none", None)
        /\ at[p] # Running
    BY <1>10 DEF TakeLock, Take, RefusedLock, Refused, GiveLock, Give, Taking, Giving, Running
  <2>2. mode[p] \notin {"loaded", "loaded retry"}
    BY <1>1, <2>1 DEF StateOwned
  <2> QED
    BY <1>3, <1>6, <2>1, <2>2 DEF Move, Become
<1> QED
  BY <1>4, <1>5, <1>7, <1>8, <1>9, <1>10 DEF ProcNext

LEMMA ProcStep == ProcInv /\ [ProcNext]_procVars => ProcInv'
<1> SUFFICES ASSUME ProcInv, [ProcNext]_procVars PROVE ProcInv'
  OBVIOUS
<1>1. LockInv'
  BY LocksTaken, LockStep DEF ProcInv
<1>2. CASE ProcNext
  BY <1>1, <1>2, ProcTypes, Owned DEF ProcInv
<1>3. CASE UNCHANGED procVars
  <2>1. ProcTypeOK'
    BY <1>3 DEF procVars, ProcInv, ProcTypeOK
  <2>2. StateOwned'
    BY <1>3 DEF procVars, vars, ProcInv, StateOwned
  <2> QED
    BY <1>1, <2>1, <2>2 DEF ProcInv
<1> QED
  BY <1>2, <1>3

\* ProcInv holds however bfb is called, wherever it dies, and whatever comes to
\* exist meanwhile.
THEOREM ProcessesCorrect == ProcSpec => []ProcInv
  BY ProcStart, ProcStep, PTL DEF ProcSpec

\* Processes implements RepoLock: bfb, bfb once and bfb retry, which gives its locks
\* back and takes them again, only ever do what RepoLock says of a process.
THEOREM ProcessesTakeLocks == ProcSpec => Spec
<1>1. ProcInit => Init
  BY DEF ProcInit
<1>2. ProcInv /\ [ProcNext]_procVars => [Next]_vars
  BY LocksTaken DEF ProcInv
<1> QED
  BY <1>1, <1>2, ProcessesCorrect, PTL DEF ProcSpec, Spec

\* No two processes run with the same repository of a state home, state directory
\* or clone, whatever they were called with and whatever links lead there.
THEOREM ProcessesExclude == ProcSpec => []Exclusion
  BY ProcessesTakeLocks, ClashesNeverRun, PTL

\* A state file stays that of one repository, branch and clone for ever, also
\* between the two times that retry takes the locks (state.go:68).
THEOREM StateKeepsIdentityCorrect == ProcSpec => StateKeepsIdentity
<1>1. ProcInv /\ [ProcNext]_procVars =>
        [\A d \in States : saved[d] # None => saved'[d] = saved[d]]_procVars
  <2> SUFFICES ASSUME ProcInv, ProcNext, NEW d \in States, saved[d] # None
               PROVE  saved'[d] = saved[d]
    OBVIOUS
  <2>1. CASE \E p \in Procs : Save(p)
    <3>1. PICK p \in Procs : /\ mode[p] \in {"loaded", "loaded retry"}
                             /\ saved' = [saved EXCEPT ![config[p].state] = identity[p]]
      BY <2>1 DEF Save
    <3>2. saved[config[p].state] \in {None, identity[p]} /\ DOMAIN saved = States
      BY <3>1 DEF ProcInv, StateOwned, ProcTypeOK
    <3> QED
      BY <3>1, <3>2
  <2>2. CASE saved' = saved
    BY <2>2
  <2> QED
    BY <2>1, <2>2
    DEF ProcNext, Start, RunAfterRetry, Load, Prepare, Leave, Dies, TakeLock, RefusedLock, GiveLock
<1> QED
  BY <1>1, ProcessesCorrect, PTL DEF ProcSpec, StateKeepsIdentity

-----------------------------------------------------------------------------
(* Paths *)

\* The first names of a path are a path.
LEMMA Beginning ==
  ASSUME NEW path \in Path, NEW k \in 0..Len(path)
  PROVE  /\ SubSeq(path, 1, k) \in Path /\ Len(SubSeq(path, 1, k)) = k
         /\ \A i \in 1..k : /\ SubSeq(path, 1, k)[i] = path[i]
                            /\ SubSeq(SubSeq(path, 1, k), 1, i) = SubSeq(path, 1, i)
<1>0. path \in Seq(STRING) /\ Len(path) \in Nat /\ k \in Int /\ 1 \in Int
  BY DEF Path
<1>1. \A i \in 1..k : path[i] \in STRING
  BY <1>0, ElementOfSeq
<1>2. /\ SubSeq(path, 1, k) \in Seq(STRING)
      /\ Len(SubSeq(path, 1, k)) = IF 1 <= k THEN k - 1 + 1 ELSE 0
      /\ \A i \in 1..(k - 1 + 1) : SubSeq(path, 1, k)[i] = path[1 + i - 1]
  BY <1>0, <1>1, SubSeqProperties
<1>3. ASSUME NEW i \in 1..k PROVE SubSeq(SubSeq(path, 1, k), 1, i) = SubSeq(path, 1, i)
  <2>1. 1 \in 1..Len(path) /\ k \in 1..Len(path) /\ 1 \in 1..(k - 1 + 1) /\ i \in 1..(k - 1 + 1)
    BY <1>0
  <2>2. SubSeq(SubSeq(path, 1, k), 1, i) = SubSeq(path, 1 + 1 - 1, 1 + i - 1)
    BY <1>0, <2>1, SubSeqOfSubSeq
  <2> QED
    BY <1>0, <2>2
<1> QED
  BY <1>0, <1>2, <1>3 DEF Path

LEMMA Extended ==
  ASSUME NEW path \in Path, NEW name \in STRING
  PROVE  LET next == Append(path, name)
             n == Len(path)
         IN  /\ next \in Path /\ Len(next) = n + 1 /\ next[n + 1] = name /\ next # <<>>
             /\ \A i \in 1..n : next[i] = path[i]
             /\ \A i \in 1..n : SubSeq(next, 1, i) = SubSeq(path, 1, i)
             /\ SubSeq(next, 1, n + 1) = next /\ Parent(next) = path /\ Last(next) = name
<1> DEFINE next == Append(path, name)
           n == Len(path)
<1>0. path \in Seq(STRING) /\ n \in Nat
  BY DEF Path
<1>1. /\ next \in Seq(STRING) /\ next # <<>> /\ Len(next) = n + 1 /\ next[n + 1] = name
      /\ \A i \in 1..n : next[i] = path[i]
  <2>1. next \in Seq(STRING) /\ next # <<>>
    BY <1>0, AppendProperties
  <2>2. Len(next) = n + 1
    BY <1>0, AppendProperties
  <2>3. next[n + 1] = name
    BY <1>0, AppendProperties
  <2>4. \A i \in 1..n : next[i] = path[i]
    BY <1>0, AppendProperties
  <2> QED
    BY <2>1, <2>2, <2>3, <2>4
<1> HIDE DEF next
<1>2. next \in Path
  BY <1>1 DEF Path
<1>3. ASSUME NEW i \in 0..n PROVE SubSeq(next, 1, i) = SubSeq(path, 1, i)
  <2>1. i \in 0..Len(next) /\ i \in 0..Len(path)
    BY <1>0, <1>1
  <2>2. /\ SubSeq(next, 1, i) \in Seq(STRING) /\ Len(SubSeq(next, 1, i)) = i
        /\ SubSeq(path, 1, i) \in Seq(STRING) /\ Len(SubSeq(path, 1, i)) = i
        /\ \A j \in 1..i : SubSeq(next, 1, i)[j] = next[j] /\ SubSeq(path, 1, i)[j] = path[j]
    BY <1>2, <2>1, Beginning DEF Path
  <2>3. \A j \in 1..i : SubSeq(next, 1, i)[j] = SubSeq(path, 1, i)[j]
    BY <1>0, <1>1, <2>2
  <2> QED
    BY <2>2, <2>3, SeqEqual
<1>4. SubSeq(next, 1, n + 1) = next /\ SubSeq(path, 1, n) = path
  BY <1>0, <1>1, SubSeqFull
<1>5. Parent(next) = path
  <2>1. n \in 0..n /\ Len(next) - 1 = n
    BY <1>0, <1>1
  <2> QED
    BY <1>3, <1>4, <2>1 DEF Parent
<1>6. Last(next) = name
  BY <1>1 DEF Last
<1>7. \A i \in 1..n : i \in 0..n
  BY <1>0
<1> QED
  BY <1>1, <1>2, <1>3, <1>4, <1>5, <1>6, <1>7 DEF next

\* A path other than the root is its parent and a name.
LEMMA Taken ==
  ASSUME NEW path \in Path, path # <<>>
  PROVE  /\ Len(path) \in Nat \ {0} /\ Parent(path) \in Path /\ Last(path) \in STRING
         /\ Len(Parent(path)) = Len(path) - 1 /\ Last(path) = path[Len(path)]
         /\ path = Append(Parent(path), Last(path))
<1>1. PICK s \in Seq(STRING), name \in STRING : path = Append(s, name)
  BY SequenceEmptyOrAppend DEF Path
<1>2. s \in Path
  BY DEF Path
<1>3. Parent(path) = s /\ Last(path) = name /\ Len(path) = Len(s) + 1 /\ path[Len(s) + 1] = name
  BY <1>1, <1>2, Extended
<1>4. Len(s) \in Nat
  OBVIOUS
<1>5. Len(path) \in Nat \ {0} /\ Len(s) = Len(path) - 1
  BY <1>3, <1>4
<1>6. Last(path) = path[Len(path)]
  BY <1>3
<1>7. path = Append(Parent(path), Last(path))
  BY <1>1, <1>3
<1> QED
  BY <1>2, <1>3, <1>5, <1>6, <1>7

Placed == {path \in Path : Place(path)}

\* A name leads from a place to a place.
LEMMA Entered ==
  ASSUME NEW dir \in Path, Place(dir), NEW name, name = ".." \/ name \in STRING
  PROVE  Enter(dir, name) \in Path /\ Place(Enter(dir, name))
<1> DEFINE next == Append(dir, name)
           n == Len(dir)
<1>1. n \in Nat /\ dir \in Seq(STRING) /\ \A i \in 1..n : dir[i] # ".." /\ SubSeq(dir, 1, i) \notin DOMAIN Links
  BY DEF Path, Place, Plain
<1>2. CASE name = ".."
  <2> DEFINE up == SubSeq(dir, 1, n - 1)
  <2>1. /\ up \in Path /\ Len(up) \in Nat /\ Len(up) <= n
        /\ \A i \in 1..Len(up) : up[i] = dir[i] /\ SubSeq(up, 1, i) = SubSeq(dir, 1, i)
    <3>1. CASE n = 0
      <4>1. up = <<>>
        BY <1>1, <3>1, SubSeqEmpty
      <4> QED
        BY <4>1, <3>1 DEF Path
    <3>2. CASE n # 0
      <4>1. n - 1 \in 0..Len(dir)
        BY <1>1, <3>2
      <4> QED
        BY <1>1, <4>1, Beginning
    <3> QED
      BY <3>1, <3>2
  <2> HIDE DEF up, n
  <2>2. ASSUME NEW i \in 1..Len(up) PROVE up[i] # ".." /\ SubSeq(up, 1, i) \notin DOMAIN Links
    <3>1. i \in 1..n
      BY <1>1, <2>1
    <3> QED
      BY <1>1, <2>1, <3>1
  <2>3. Place(up)
    BY <2>1, <2>2 DEF Place, Plain
  <2>4. Enter(dir, name) = up
    BY <1>2 DEF Enter, Parent, up, n
  <2> QED
    BY <2>1, <2>3, <2>4
<1>3. CASE name # ".." /\ next \in DOMAIN Links
  BY <1>3, LinksAssumption DEF Enter, Place
<1>4. CASE name # ".." /\ next \notin DOMAIN Links
  <2>1. /\ next \in Path /\ Len(next) = n + 1 /\ next[n + 1] = name
        /\ \A i \in 1..n : next[i] = dir[i] /\ SubSeq(next, 1, i) = SubSeq(dir, 1, i)
        /\ SubSeq(next, 1, n + 1) = next
    BY <1>4, Extended
  <2> HIDE DEF next, n
  <2>2. ASSUME NEW i \in 1..Len(next) PROVE next[i] # ".." /\ SubSeq(next, 1, i) \notin DOMAIN Links
    <3>1. i \in 1..n \/ i = n + 1
      BY <1>1, <2>1
    <3> QED
      BY <1>1, <1>4, <2>1, <3>1
  <2>3. Place(next)
    BY <2>1, <2>2 DEF Place, Plain
  <2>4. Enter(dir, name) = next
    BY <1>4 DEF Enter, next
  <2> QED
    BY <2>1, <2>3, <2>4
<1> QED
  BY <1>2, <1>3, <1>4

\* What is reached name by name is where the path leads.
LEMMA Followed ==
  ASSUME NEW dir, NEW path \in Path, NEW f, DOMAIN f = 0..Len(path), f = [i \in 0..Len(path) |-> f[i]],
         f[0] = dir, \A i \in 1..Len(path) : f[i] = Enter(f[i - 1], path[i])
  PROVE  From(dir, path) = f[Len(path)]
<1> DEFINE n == Len(path)
           Def(h) == h = [i \in 0..n |-> IF i = 0 THEN dir ELSE Enter(h[i - 1], path[i])]
           g == CHOOSE h : Def(h)
<1>1. n \in Nat
  BY DEF Path
<1>2. Def(f)
  <2>1. \A i \in 0..n : f[i] = IF i = 0 THEN dir ELSE Enter(f[i - 1], path[i])
    BY <1>1
  <2> QED
    BY <2>1
<1>3. Def(g)
  BY <1>2
<1>4. From(dir, path) = g[n]
  BY DEF From
<1>5. g[0] = dir /\ \A i \in 1..n : g[i] = Enter(g[i - 1], path[i])
  <2>1. g = [i \in 0..n |-> IF i = 0 THEN dir ELSE Enter(g[i - 1], path[i])]
    BY <1>3
  <2> HIDE DEF g, Def
  <2> QED
    BY <1>1, <2>1
<1> DEFINE T == {m \in 0..n : g[m] = f[m]}
<1> HIDE DEF g, Def
<1>6. 0 \in T
  BY <1>1, <1>5
<1>7. \A m \in 1..n : m - 1 \in T => m \in T
  BY <1>1, <1>5
<1> HIDE DEF T
<1>8. n \in T
  <2>1. n \in 0..n
    BY <1>1
  <2> QED
    BY <1>1, <1>6, <1>7, <2>1, Count
<1> QED
  BY <1>4, <1>8 DEF T

\* The kernel follows a path from place to place.
LEMMA Following ==
  ASSUME NEW dir \in Path, NEW path \in Path, Place(dir)
  PROVE  \E f \in [0..Len(path) -> Placed] :
           /\ f[0] = dir /\ From(dir, path) = f[Len(path)]
           /\ \A i \in 1..Len(path) : f[i] = Enter(f[i - 1], path[i])
<1> DEFINE n == Len(path)
           F == [x \in Placed \X (1..n) |-> Enter(x[1], path[x[2]])]
<1>1. n \in Nat /\ \A i \in 1..n : path[i] \in STRING
  BY DEF Path
<1>2. F \in [Placed \X (1..n) -> Placed]
  <2>1. \A x \in Placed \X (1..n) : Enter(x[1], path[x[2]]) \in Placed
    BY <1>1, Entered DEF Placed
  <2> QED
    BY <2>1
<1>3. \E f \in [0..n -> Placed] : Steps(f, n, dir, F)
  <2>0. dir \in Placed
    BY DEF Placed
  <2>1. n \in Nat
    BY <1>1
  <2> HIDE DEF F, n
  <2> QED
    BY <1>2, <2>0, <2>1, Stepwise
<1>4. PICK f \in [0..n -> Placed] : f[0] = dir /\ \A i \in 1..n : f[i] = F[<<f[i - 1], i>>]
  BY <1>3 DEF Steps
<1>5. \A i \in 1..n : f[i] = Enter(f[i - 1], path[i])
  <2> SUFFICES ASSUME NEW i \in 1..n PROVE f[i] = Enter(f[i - 1], path[i])
    OBVIOUS
  <2>1. i - 1 \in 0..n
    BY <1>1
  <2>2. <<f[i - 1], i>> \in Placed \X (1..n)
    BY <2>1
  <2> QED
    BY <1>4, <2>2
<1>6. From(dir, path) = f[n]
  <2>1. DOMAIN f = 0..n /\ f = [i \in 0..n |-> f[i]]
    OBVIOUS
  <2> HIDE DEF F
  <2> QED
    BY <1>4, <1>5, <2>1, Followed
<1> QED
  BY <1>4, <1>5, <1>6

LEMMA Leads ==
  ASSUME NEW dir \in Path, NEW path \in Path, Place(dir)
  PROVE  From(dir, path) \in Path /\ Place(From(dir, path))
<1>1. PICK f \in [0..Len(path) -> Placed] : From(dir, path) = f[Len(path)]
  BY Following
<1>2. Len(path) \in 0..Len(path)
  BY DEF Path
<1> QED
  BY <1>1, <1>2 DEF Placed

LEMMA RootIsPlace == <<>> \in Path /\ Place(<<>>)
BY DEF Path, Place, Plain

\* A path after another leads on from where that one leads.
LEMMA LeadsOn ==
  ASSUME NEW dir \in Path, Place(dir), NEW p \in Path, NEW q \in Path
  PROVE  p \o q \in Path /\ From(dir, p \o q) = From(From(dir, p), q)
<1> DEFINE n == Len(p)
           m == Len(q)
           r == p \o q
<1>1. /\ n \in Nat /\ m \in Nat /\ r \in Path /\ Len(r) = n + m
      /\ \A i \in 1..(n + m) : r[i] = IF i <= n THEN p[i] ELSE q[i - n]
  BY ConcatProperties DEF Path
<1> HIDE DEF r, n, m
<1>2. PICK f \in [0..Len(r) -> Placed] :
        /\ f[0] = dir /\ From(dir, r) = f[Len(r)]
        /\ \A i \in 1..Len(r) : f[i] = Enter(f[i - 1], r[i])
  BY <1>1, Following
<1> DEFINE g == [i \in 0..n |-> f[i]]
           h == [i \in 0..m |-> f[n + i]]
<1>3. From(dir, p) = f[n]
  <2>1. \A i \in 1..n : g[i] = Enter(g[i - 1], p[i])
    <3> SUFFICES ASSUME NEW i \in 1..n PROVE f[i] = Enter(f[i - 1], p[i]) /\ i \in 0..n /\ i - 1 \in 0..n
      OBVIOUS
    <3> QED
      BY <1>1, <1>2
  <2>2. g[0] = dir /\ DOMAIN g = 0..n /\ g = [i \in 0..n |-> g[i]] /\ g[n] = f[n]
    BY <1>1, <1>2
  <2> HIDE DEF g
  <2> QED
    BY <2>1, <2>2, Followed DEF n
<1>4. From(f[n], q) = f[n + m]
  <2>1. \A i \in 1..m : h[i] = Enter(h[i - 1], q[i])
    <3> SUFFICES ASSUME NEW i \in 1..m PROVE f[n + i] = Enter(f[n + (i - 1)], q[i]) /\ i \in 0..m /\ i - 1 \in 0..m
      OBVIOUS
    <3>1. n + i \in 1..(n + m) /\ ~(n + i <= n) /\ (n + i) - n = i /\ (n + i) - 1 = n + (i - 1)
      BY <1>1
    <3> QED
      BY <1>1, <1>2, <3>1
  <2>2. h[0] = f[n] /\ DOMAIN h = 0..m /\ h = [i \in 0..m |-> h[i]] /\ h[m] = f[n + m]
    BY <1>1
  <2> HIDE DEF h
  <2> QED
    BY <2>1, <2>2, Followed DEF m
<1> QED
  BY <1>1, <1>2, <1>3, <1>4 DEF r

-----------------------------------------------------------------------------
(* Places *)

\* A place leads to itself.
LEMMA Stays ==
  ASSUME NEW path \in Path, Place(path)
  PROVE  Where(path) = path
<1> DEFINE n == Len(path)
           f == [i \in 0..n |-> SubSeq(path, 1, i)]
<1>1. n \in Nat /\ path \in Seq(STRING)
  BY DEF Path
<1>2. f[0] = <<>> /\ f[n] = path /\ DOMAIN f = 0..n /\ f = [i \in 0..n |-> f[i]]
  <2>1. SubSeq(path, 1, 0) = <<>> /\ SubSeq(path, 1, n) = path
    BY <1>1, SubSeqEmpty, SubSeqFull
  <2> QED
    BY <1>1, <2>1
<1>3. ASSUME NEW i \in 1..n PROVE f[i] = Enter(f[i - 1], path[i])
  <2>1. i - 1 \in 0..n /\ i \in 0..n /\ 1 \in 1..n /\ i \in 1..n /\ path[i] \in STRING
    BY <1>1
  <2>2. SubSeq(path, 1, i - 1) \in Path
    BY <2>1, Beginning
  <2>3. SubSeq(path, 1, i) = Append(SubSeq(path, 1, i - 1), path[i])
    <3>1. i \in 1..Len(path)
      OBVIOUS
    <3>2. SubSeq(path, 1, i) = SubSeq(path, 1, i - 1) \o <<path[i]>>
      BY <1>1, <2>1, <3>1, SubSeqRecursiveSecond
    <3> QED
      BY <2>1, <2>2, <3>2, AppendIsConcat DEF Path
  <2>4. path[i] # ".." /\ SubSeq(path, 1, i) \notin DOMAIN Links
    BY DEF Place, Plain
  <2>5. f[i] = SubSeq(path, 1, i) /\ f[i - 1] = SubSeq(path, 1, i - 1)
    BY <2>1
  <2> HIDE DEF f
  <2> QED
    BY <2>3, <2>4, <2>5 DEF Enter
<1> HIDE DEF f
<1> QED
  BY <1>1, <1>2, <1>3, Followed DEF Where

\* Names that are no link, put to a place, are a place.
LEMMA Grows ==
  ASSUME NEW base \in Path, Place(base), NEW rest \in Path, Plain(rest),
         \A j \in 1..Len(rest) : base \o SubSeq(rest, 1, j) \notin DOMAIN Links
  PROVE  base \o rest \in Path /\ Place(base \o rest)
<1> DEFINE n == Len(base)
           m == Len(rest)
           r == base \o rest
<1>1. /\ n \in Nat /\ m \in Nat /\ r \in Path /\ Len(r) = n + m
      /\ \A i \in 1..(n + m) : r[i] = IF i <= n THEN base[i] ELSE rest[i - n]
  BY ConcatProperties DEF Path
<1>2. ASSUME NEW i \in 1..(n + m) PROVE r[i] # ".." /\ SubSeq(r, 1, i) \notin DOMAIN Links
  <2>1. CASE i <= n
    <3>1. i \in 1..n /\ 1 \in 1..n
      BY <1>1, <2>1
    <3>2. SubSeq(r, 1, i) = SubSeq(base, 1, i)
      BY <3>1, SubSeqOfConcat1 DEF Path
    <3> QED
      BY <1>1, <2>1, <3>1, <3>2 DEF Place, Plain
  <2>2. CASE ~(i <= n)
    <3> DEFINE j == i - n
    <3>1. j \in 1..m /\ j \in 0..m /\ i = n + j
      BY <1>1, <2>2
    <3>2. r[i] # ".."
      BY <1>1, <2>2, <3>1 DEF Plain
    <3>3. /\ SubSeq(r, 1, i) \in Path /\ Len(SubSeq(r, 1, i)) = i
          /\ \A k \in 1..i : SubSeq(r, 1, i)[k] = r[k]
      <4>1. i \in 0..Len(r)
        BY <1>1
      <4> QED
        BY <1>1, <4>1, Beginning
    <3>4. /\ SubSeq(rest, 1, j) \in Path /\ Len(SubSeq(rest, 1, j)) = j
          /\ \A k \in 1..j : SubSeq(rest, 1, j)[k] = rest[k]
      BY <3>1, Beginning
    <3> DEFINE s == SubSeq(rest, 1, j)
               t == SubSeq(r, 1, i)
    <3> HIDE DEF s, t, r, j, n, m
    <3>5. /\ base \o s \in Path /\ Len(base \o s) = n + j
          /\ \A k \in 1..(n + j) : (base \o s)[k] = IF k <= n THEN base[k] ELSE s[k - n]
      BY <3>4, ConcatProperties DEF Path, n, s
    <3>6. t = base \o s
      <4>1. \A k \in 1..i : t[k] = (base \o s)[k]
        <5> SUFFICES ASSUME NEW k \in 1..i PROVE t[k] = (base \o s)[k]
          OBVIOUS
        <5>1. t[k] = r[k] /\ k \in 1..(n + m) /\ k \in 1..(n + j)
          BY <1>1, <3>1, <3>3 DEF t
        <5>2. CASE k <= n
          BY <1>1, <3>5, <5>1, <5>2
        <5>3. CASE ~(k <= n)
          <6>1. k - n \in 1..j
            BY <1>1, <3>1, <5>1, <5>3
          <6> QED
            BY <1>1, <3>4, <3>5, <5>1, <5>3, <6>1 DEF s
        <5> QED
          BY <5>2, <5>3
      <4>2. t \in Path /\ Len(t) = i /\ Len(base \o s) = i
        BY <3>1, <3>3, <3>5 DEF t
      <4> QED
        BY <3>5, <4>1, <4>2, SeqEqual DEF Path
    <3>7. base \o s \notin DOMAIN Links
      BY <3>1 DEF s, m
    <3> QED
      BY <3>2, <3>6, <3>7 DEF t
  <2> QED
    BY <2>1, <2>2
<1> HIDE DEF r
<1> QED
  BY <1>1, <1>2 DEF Place, Plain, r

-----------------------------------------------------------------------------
(* resolvePath *)

PlainPath == {path \in Path : Plain(path)}

LEMMA CutPlain ==
  ASSUME NEW path \in PlainPath, NEW name \in STRING
  PROVE  Cut(path, name) \in PlainPath
<1> DEFINE n == Len(path)
<1>1. n \in Nat /\ path \in Path /\ \A i \in 1..n : path[i] # ".."
  BY DEF PlainPath, Plain, Path
<1>2. CASE name = ".."
  <2>1. CASE path = <<>>
    <3>1. Parent(path) = <<>>
      BY <2>1, SubSeqEmpty DEF Parent
    <3> QED
      BY <1>2, <3>1 DEF Cut, PlainPath, Plain, Path
  <2>2. CASE path # <<>>
    <3>1. n - 1 \in 0..n
      BY <1>1, <2>2 DEF Path
    <3>2. /\ Parent(path) \in Path /\ Len(Parent(path)) = n - 1
          /\ \A i \in 1..(n - 1) : Parent(path)[i] = path[i]
      BY <1>1, <3>1, Beginning DEF Parent
    <3>3. \A i \in 1..(n - 1) : i \in 1..n
      BY <1>1
    <3> QED
      BY <1>1, <1>2, <3>2, <3>3 DEF Cut, PlainPath, Plain
  <2> QED
    BY <2>1, <2>2
<1>3. CASE name # ".."
  <2> DEFINE next == Append(path, name)
  <2>1. /\ next \in Path /\ Len(next) = n + 1 /\ next[n + 1] = name
        /\ \A i \in 1..n : next[i] = path[i]
    BY <1>1, Extended
  <2>2. Cut(path, name) = next
    BY <1>3 DEF Cut
  <2> HIDE DEF next
  <2>3. ASSUME NEW i \in 1..(n + 1) PROVE next[i] # ".."
    <3>1. i \in 1..n \/ i = n + 1
      BY <1>1
    <3> QED
      BY <1>1, <1>3, <2>1, <3>1
  <2> QED
    BY <2>1, <2>2, <2>3 DEF PlainPath, Plain
<1> QED
  BY <1>2, <1>3

\* filepath.Clean takes the names one by one.
LEMMA Cleaning ==
  ASSUME NEW path \in Path
  PROVE  \E f \in [0..Len(path) -> PlainPath] :
           /\ f[0] = <<>> /\ Clean(path) = f[Len(path)]
           /\ \A i \in 1..Len(path) : f[i] = Cut(f[i - 1], path[i])
<1> DEFINE n == Len(path)
           F == [x \in PlainPath \X (1..n) |-> Cut(x[1], path[x[2]])]
           Def(h) == h = [i \in 0..n |-> IF i = 0 THEN <<>> ELSE Cut(h[i - 1], path[i])]
           g == CHOOSE h : Def(h)
<1>1. n \in Nat /\ \A i \in 1..n : path[i] \in STRING
  BY DEF Path
<1>2. F \in [PlainPath \X (1..n) -> PlainPath]
  <2>1. \A x \in PlainPath \X (1..n) : Cut(x[1], path[x[2]]) \in PlainPath
    BY <1>1, CutPlain
  <2> QED
    BY <2>1
<1>3. <<>> \in PlainPath
  BY DEF PlainPath, Plain, Path
<1>4. \E f \in [0..n -> PlainPath] : Steps(f, n, <<>>, F)
  <2>1. n \in Nat
    BY <1>1
  <2> HIDE DEF F, n
  <2> QED
    BY <1>2, <1>3, <2>1, Stepwise
<1>5. PICK f \in [0..n -> PlainPath] : f[0] = <<>> /\ \A i \in 1..n : f[i] = F[<<f[i - 1], i>>]
  BY <1>4 DEF Steps
<1>6. \A i \in 1..n : f[i] = Cut(f[i - 1], path[i])
  <2> SUFFICES ASSUME NEW i \in 1..n PROVE f[i] = Cut(f[i - 1], path[i])
    OBVIOUS
  <2>1. i - 1 \in 0..n
    BY <1>1
  <2>2. <<f[i - 1], i>> \in PlainPath \X (1..n)
    BY <2>1
  <2> QED
    BY <1>5, <2>2
<1>7. Def(f)
  <2>1. \A i \in 0..n : f[i] = IF i = 0 THEN <<>> ELSE Cut(f[i - 1], path[i])
    BY <1>1, <1>5, <1>6
  <2> HIDE DEF F
  <2> QED
    BY <2>1
<1>8. Def(g)
  BY <1>7
<1>9. Clean(path) = g[n]
  BY DEF Clean
<1>10. DOMAIN g = 0..n /\ g = [i \in 0..n |-> g[i]]
  <2>1. g = [i \in 0..n |-> IF i = 0 THEN <<>> ELSE Cut(g[i - 1], path[i])]
    BY <1>8
  <2> HIDE DEF g, Def
  <2> QED
    BY <2>1
<1>11. g[0] = <<>> /\ \A i \in 1..n : g[i] = Cut(g[i - 1], path[i])
  <2>1. g = [i \in 0..n |-> IF i = 0 THEN <<>> ELSE Cut(g[i - 1], path[i])]
    BY <1>8
  <2> HIDE DEF g, Def
  <2> QED
    BY <1>1, <2>1
<1> DEFINE T == {m \in 0..n : g[m] \in PlainPath}
<1> HIDE DEF g, Def, F
<1>12. \A m \in 0..n : m \in T
  <2>1. 0 \in T
    BY <1>1, <1>3, <1>11
  <2>2. ASSUME NEW m \in 1..n, m - 1 \in T PROVE m \in T
    <3>1. Cut(g[m - 1], path[m]) \in PlainPath
      BY <1>1, <2>2, CutPlain
    <3>2. m \in 0..n /\ g[m] = Cut(g[m - 1], path[m])
      BY <1>1, <1>11
    <3> HIDE DEF n
    <3> QED
      BY <3>1, <3>2
  <2> HIDE DEF T
  <2> QED
    BY <1>1, <2>1, <2>2, Count
<1>13. g \in [0..n -> PlainPath]
  BY <1>10, <1>12 DEF T
<1> QED
  BY <1>9, <1>11, <1>13

LEMMA Cleaned ==
  ASSUME NEW path \in Path
  PROVE  Clean(path) \in PlainPath /\ (Plain(path) => Clean(path) = path)
<1> DEFINE n == Len(path)
<1>1. n \in Nat /\ path \in Seq(STRING)
  BY DEF Path
<1>2. PICK f \in [0..n -> PlainPath] : /\ f[0] = <<>> /\ Clean(path) = f[n]
                                       /\ \A i \in 1..n : f[i] = Cut(f[i - 1], path[i])
  BY Cleaning
<1>3. Clean(path) \in PlainPath
  BY <1>1, <1>2
<1>4. ASSUME Plain(path) PROVE Clean(path) = path
  <2> DEFINE T == {m \in 0..n : f[m] = SubSeq(path, 1, m)}
  <2>1. 0 \in T
    <3>1. SubSeq(path, 1, 0) = <<>>
      BY SubSeqEmpty
    <3>2. 0 \in 0..n /\ f[0] = <<>>
      BY <1>1, <1>2
    <3> QED
      BY <3>1, <3>2
  <2>2. ASSUME NEW m \in 1..n, m - 1 \in T PROVE m \in T
    <3>1. m \in 1..Len(path) /\ 1 \in 1..Len(path) /\ m - 1 \in 0..Len(path) /\ m \in 0..n /\ path[m] \in STRING
      BY <1>1
    <3>2. SubSeq(path, 1, m - 1) \in Path
      BY <3>1, Beginning
    <3>3. SubSeq(path, 1, m) = SubSeq(path, 1, m - 1) \o <<path[m]>>
      BY <1>1, <3>1, SubSeqRecursiveSecond
    <3>4. SubSeq(path, 1, m) = Append(SubSeq(path, 1, m - 1), path[m])
      BY <3>1, <3>2, <3>3, AppendIsConcat DEF Path
    <3>5. f[m] = Append(f[m - 1], path[m])
      BY <1>2, <1>4, <3>1 DEF Cut, Plain
    <3> QED
      BY <2>2, <3>1, <3>4, <3>5
  <2> HIDE DEF T
  <2>3. n \in T
    <3>1. n \in 0..n /\ \A m \in 1..n : m - 1 \in T => m \in T
      BY <1>1, <2>2
    <3> QED
      BY <1>1, <2>1, <3>1, Count
  <2>4. SubSeq(path, 1, n) = path
    BY <1>1, SubSeqFull
  <2> QED
    BY <1>2, <2>3, <2>4 DEF T
<1> QED
  BY <1>3, <1>4


\* What a link says leads, read as Target reads it, to where the link leads.
LinksAgree ==
  \A path \in PlainPath :
    path # <<>> /\ Spot(path) \in DOMAIN Links =>
      Target(path) \in PlainPath /\ Where(Target(path)) = Lead[Spot(path)]

\* Where the names of a path lead: to its last name, or the link there.
LEMMA LastName ==
  ASSUME NEW path \in PlainPath, path # <<>>
  PROVE  /\ Parent(path) \in PlainPath /\ Last(path) \in STRING \ {".."}
         /\ Where(Parent(path)) \in Path /\ Place(Where(Parent(path)))
         /\ Spot(path) \in Path /\ Parent(Spot(path)) = Where(Parent(path))
         /\ Where(path) = IF Spot(path) \in DOMAIN Links THEN Lead[Spot(path)] ELSE Spot(path)
<1> DEFINE up == Parent(path)
           name == Last(path)
<1>1. path \in Path /\ Plain(path)
  BY DEF PlainPath
<1>2. /\ Len(path) \in Nat \ {0} /\ up \in Path /\ name \in STRING
      /\ Len(up) = Len(path) - 1 /\ name = path[Len(path)]
      /\ path = Append(up, name)
  BY <1>1, Taken
<1>3. name # ".."
  BY <1>1, <1>2 DEF Plain
<1>4. up \in PlainPath
  <2>1. \A i \in 1..Len(up) : path[i] = up[i] /\ i \in 1..Len(path)
    BY <1>2, Extended
  <2> QED
    BY <1>1, <1>2, <2>1 DEF Plain, PlainPath
<1>5. Where(up) \in Path /\ Place(Where(up))
  BY <1>2, RootIsPlace, Leads DEF Where
<1>6. Spot(path) \in Path /\ Parent(Spot(path)) = Where(up)
  BY <1>2, <1>5, Extended DEF Spot
<1>7. Where(path) = Enter(Where(up), name)
  <2> DEFINE q == <<name>>
  <2>1. path = up \o q /\ q \in Path
    BY <1>2, AppendIsConcat DEF Path
  <2>2. Where(path) = From(Where(up), q)
    <3>1. up \in Path
      BY <1>2
    <3> HIDE DEF up, q
    <3> QED
      BY <2>1, <3>1, RootIsPlace, LeadsOn DEF Where
  <2>3. From(Where(up), q) = Enter(Where(up), name)
    <3>1. Len(q) = 1 /\ q[1] = name
      OBVIOUS
    <3> HIDE DEF q, up, name
    <3>2. PICK f \in [0..Len(q) -> Placed] :
            /\ f[0] = Where(up) /\ From(Where(up), q) = f[Len(q)]
            /\ \A i \in 1..Len(q) : f[i] = Enter(f[i - 1], q[i])
      BY <1>5, <2>1, Following
    <3> QED
      BY <3>1, <3>2
  <2> QED
    BY <2>2, <2>3
<1>8. Enter(Where(up), name) = IF Spot(path) \in DOMAIN Links THEN Lead[Spot(path)] ELSE Spot(path)
  BY <1>3 DEF Enter, Spot
<1> QED
  BY <1>2, <1>3, <1>4, <1>5, <1>6, <1>7, <1>8

\* A link whose target does not go up agrees.
LEMMA DownwardLinksAgree == (\A l \in DOMAIN Links : Plain(Links[l].to)) => LinksAgree
<1> SUFFICES ASSUME \A l \in DOMAIN Links : Plain(Links[l].to),
                    NEW path \in PlainPath, path # <<>>, Spot(path) \in DOMAIN Links
             PROVE  Target(path) \in PlainPath /\ Where(Target(path)) = Lead[Spot(path)]
  BY DEF LinksAgree
<1> DEFINE up == Parent(path)
           to == Links[Spot(path)].to
<1>1. /\ up \in PlainPath /\ up \in Path /\ Where(up) \in Path /\ Place(Where(up))
      /\ Parent(Spot(path)) = Where(up)
  BY LastName DEF PlainPath
<1>2. /\ to \in Path /\ Plain(to)
      /\ Lead[Spot(path)] = From(IF Links[Spot(path)].abs THEN <<>> ELSE Parent(Spot(path)), to)
  BY LinksAssumption
<1>3. CASE Links[Spot(path)].abs
  BY <1>2, <1>3 DEF Target, PlainPath, Where
<1>4. CASE ~Links[Spot(path)].abs
  <2> DEFINE r == up \o to
  <2>1. /\ r \in Path /\ Len(up) \in Nat /\ Len(to) \in Nat /\ Len(r) = Len(up) + Len(to)
        /\ \A i \in 1..(Len(up) + Len(to)) : r[i] = IF i <= Len(up) THEN up[i] ELSE to[i - Len(up)]
    BY <1>1, <1>2, ConcatProperties DEF Path
  <2>2. ASSUME NEW i \in 1..(Len(up) + Len(to)) PROVE r[i] # ".."
    <3>1. CASE i <= Len(up)
      <4>1. i \in 1..Len(up)
        BY <2>1, <3>1
      <4> QED
        BY <1>1, <2>1, <3>1, <4>1 DEF PlainPath, Plain
    <3>2. CASE ~(i <= Len(up))
      <4>1. i - Len(up) \in 1..Len(to)
        BY <2>1, <3>2
      <4> QED
        BY <1>2, <2>1, <3>2, <4>1 DEF Plain
    <3> QED
      BY <3>1, <3>2
  <2>3. r \in PlainPath /\ Clean(r) = r
    <3>1. Plain(r)
      BY <2>1, <2>2 DEF Plain
    <3> QED
      BY <2>1, <3>1, Cleaned DEF PlainPath
  <2>4. Target(path) = r
    BY <1>4, <2>3 DEF Target
  <2>5. Where(r) = From(Where(up), to)
    BY <1>1, <1>2, RootIsPlace, LeadsOn DEF Where
  <2> QED
    BY <1>1, <1>2, <1>4, <2>3, <2>4, <2>5
<1> QED
  BY <1>3, <1>4

\* The calls of resolvePath that are on the way to a place.
Calls ==
  {s \in [path : Path, rest : Path, found : BOOLEAN] :
     /\ Plain(s.rest)
     /\ IF s.found THEN Place(s.path) /\ Place(s.path \o s.rest)
        ELSE /\ Plain(s.path)
             /\ \A j \in 1..Len(s.rest) : Where(s.path) \o SubSeq(s.rest, 1, j) \notin DOMAIN Links}

LEMMA CallGoesOn ==
  ASSUME LinksAgree, NEW d, <<>> \in d, NEW s \in Calls
  PROVE  Call(s, d) \in Calls
<1> DEFINE path == s.path
           rest == s.rest
<1>0. /\ s = [path |-> path, rest |-> rest, found |-> s.found] /\ s.found \in BOOLEAN
      /\ path \in Path /\ rest \in Path /\ Plain(rest)
  BY DEF Calls
<1>1. CASE s.found
  BY <1>1 DEF Call
<1>2. CASE ~s.found
  <2>1. /\ path \in PlainPath
        /\ \A j \in 1..Len(rest) : Where(path) \o SubSeq(rest, 1, j) \notin DOMAIN Links
    BY <1>2 DEF Calls, PlainPath
  <2>2. Where(path) \in Path /\ Place(Where(path))
    BY <1>0, RootIsPlace, Leads DEF Where
  <2>3. CASE Where(path) \in d
    <3>1. Call(s, d) = [path |-> Where(path), rest |-> rest, found |-> TRUE]
      BY <1>2, <2>3 DEF Call, Found
    <3>2. Place(Where(path) \o rest)
      BY <1>0, <2>1, <2>2, Grows
    <3> QED
      BY <1>0, <2>2, <3>1, <3>2 DEF Calls
  <2>4. CASE Where(path) \notin d
    <3>0. path # <<>>
      <4>1. Where(<<>>) = <<>>
        BY RootIsPlace, Stays
      <4> QED
        BY <2>4, <4>1
    <3>1. /\ Parent(path) \in PlainPath /\ Last(path) \in STRING \ {".."}
          /\ Where(Parent(path)) \in Path /\ Spot(path) \in Path
          /\ Where(path) = IF Spot(path) \in DOMAIN Links THEN Lead[Spot(path)] ELSE Spot(path)
      BY <2>1, <3>0, LastName
    <3>2. CASE Spot(path) \in DOMAIN Links
      <4>1. Call(s, d) = [path |-> Target(path), rest |-> rest, found |-> FALSE]
        BY <1>0, <1>2, <2>4, <3>2 DEF Call
      <4>2. Target(path) \in PlainPath /\ Where(Target(path)) = Where(path)
        BY <2>1, <3>0, <3>1, <3>2 DEF LinksAgree
      <4> QED
        BY <1>0, <2>1, <4>1, <4>2 DEF Calls, PlainPath
    <3>3. CASE Spot(path) \notin DOMAIN Links
      <4> DEFINE up == Parent(path)
                 name == Last(path)
                 longer == <<name>> \o rest
      <4>1. Call(s, d) = [path |-> up, rest |-> longer, found |-> FALSE]
        <5>1. Clean(up) = up
          BY <3>1, Cleaned DEF PlainPath
        <5> QED
          BY <1>2, <2>4, <3>3, <5>1 DEF Call, Shorten
      <4>2. /\ longer \in Path /\ Len(longer) = Len(rest) + 1 /\ Len(rest) \in Nat
            /\ longer[1] = name /\ \A i \in 1..Len(rest) : longer[i + 1] = rest[i]
        <5>1. <<name>> \in Seq(STRING) /\ Len(<<name>>) = 1 /\ <<name>>[1] = name
          BY <3>1
        <5> HIDE DEF name, rest
        <5>2. rest \in Seq(STRING)
          BY <1>0 DEF Path
        <5>3. /\ longer \in Seq(STRING) /\ Len(longer) = 1 + Len(rest)
              /\ \A i \in 1..(1 + Len(rest)) : longer[i] = IF i <= 1 THEN <<name>>[i] ELSE rest[i - 1]
          BY <5>1, <5>2, ConcatProperties
        <5> QED
          BY <5>1, <5>2, <5>3 DEF Path
      <4> HIDE DEF longer
      <4>3. Plain(longer)
        <5> SUFFICES ASSUME NEW i \in 1..(Len(rest) + 1) PROVE longer[i] # ".."
          BY <4>2 DEF Plain
        <5>1. CASE i = 1
          BY <3>1, <4>2, <5>1
        <5>2. CASE i # 1
          <6>1. i - 1 \in 1..Len(rest) /\ i = (i - 1) + 1
            BY <4>2, <5>2
          <6>2. longer[i] = rest[i - 1]
            BY <4>2, <6>1
          <6> QED
            BY <1>0, <6>1, <6>2 DEF Plain
        <5> QED
          BY <5>1, <5>2
      <4>4. ASSUME NEW j \in 1..Len(longer) PROVE Where(up) \o SubSeq(longer, 1, j) \notin DOMAIN Links
        <5> DEFINE front == SubSeq(rest, 1, j - 1)
                   one == <<name>>
        <5>1. j - 1 \in 0..Len(rest) /\ j \in 0..Len(longer)
          BY <4>2
        <5>2. /\ front \in Path /\ Len(front) = j - 1
              /\ \A i \in 1..(j - 1) : front[i] = rest[i]
          BY <1>0, <5>1, Beginning
        <5>3. SubSeq(longer, 1, j) = one \o front
          <6>1. /\ one \in Seq(STRING) /\ Len(one) = 1 /\ one[1] = name
            BY <3>1
          <6>2. /\ SubSeq(longer, 1, j) \in Seq(STRING) /\ Len(SubSeq(longer, 1, j)) = j
                /\ \A i \in 1..j : SubSeq(longer, 1, j)[i] = longer[i]
            BY <4>2, <5>1, Beginning DEF Path
          <6> HIDE DEF one, front
          <6>3. /\ one \o front \in Seq(STRING) /\ Len(one \o front) = 1 + (j - 1)
                /\ \A i \in 1..(1 + (j - 1)) : (one \o front)[i] = IF i <= 1 THEN one[i] ELSE front[i - 1]
            <7>1. front \in Seq(STRING) /\ j - 1 \in Nat
              BY <4>2, <5>2 DEF Path
            <7>2. /\ one \o front \in Seq(STRING) /\ Len(one \o front) = Len(one) + Len(front)
                  /\ \A i \in 1..(Len(one) + Len(front)) :
                       (one \o front)[i] = IF i <= Len(one) THEN one[i] ELSE front[i - Len(one)]
              BY <6>1, <7>1, ConcatProperties
            <7> QED
              BY <5>2, <6>1, <7>1, <7>2
          <6>4. \A i \in 1..j : longer[i] = (one \o front)[i]
            <7> SUFFICES ASSUME NEW i \in 1..j PROVE longer[i] = (one \o front)[i]
              OBVIOUS
            <7>1. CASE i = 1
              BY <4>2, <6>1, <6>3, <7>1
            <7>2. CASE i # 1
              <8>1. i - 1 \in 1..(j - 1) /\ i - 1 \in 1..Len(rest) /\ i = (i - 1) + 1 /\ ~(i <= 1) /\ i \in 1..(1 + (j - 1))
                BY <4>2, <5>1, <7>2
              <8>2. longer[i] = rest[i - 1]
                BY <4>2, <8>1
              <8> QED
                BY <5>2, <6>3, <8>1, <8>2
            <7> QED
              BY <7>1, <7>2
          <6>5. Len(SubSeq(longer, 1, j)) = Len(one \o front)
            BY <6>2, <6>3
          <6> QED
            BY <6>2, <6>3, <6>4, <6>5, SeqEqual
        <5>4. Where(up) \o SubSeq(longer, 1, j) = Where(path) \o front
          <6>1. one \in Seq(STRING)
            BY <3>1
          <6>2. Where(up) \o (one \o front) = (Where(up) \o one) \o front
            <7>1. Where(up) \in Seq(STRING) /\ front \in Seq(STRING)
              BY <3>1, <5>2 DEF Path
            <7> HIDE DEF one, front, up
            <7> QED
              BY <6>1, <7>1, ConcatAssociative
          <6>3. Where(up) \o one = Spot(path)
            BY <3>1, AppendIsConcat DEF Path, Spot
          <6>4. Where(path) = Spot(path)
            BY <3>1, <3>3
          <6> QED
            BY <5>3, <6>2, <6>3, <6>4
        <5>5. CASE j = 1
          <6>1. front = <<>>
            BY <5>5, SubSeqEmpty
          <6>2. Where(path) \o <<>> = Where(path)
            BY <2>2, ConcatEmptySeq DEF Path
          <6> QED
            BY <3>1, <3>3, <5>4, <6>1, <6>2
        <5>6. CASE j # 1
          <6>1. j - 1 \in 1..Len(rest)
            BY <4>2, <5>6
          <6> QED
            BY <2>1, <5>4, <6>1
        <5> QED
          BY <5>5, <5>6
      <4>5. up \in Path /\ Plain(up)
        BY <3>1 DEF PlainPath
      <4> HIDE DEF up
      <4> QED
        BY <4>1, <4>2, <4>3, <4>4, <4>5 DEF Calls
    <3> QED
      BY <3>2, <3>3
  <2> QED
    BY <2>3, <2>4
<1> QED
  BY <1>0, <1>1, <1>2


\* What resolvePath makes of a clean path is a place, also when more comes to
\* exist than there was.
LEMMA Resolves ==
  ASSUME LinksAgree, NEW d, <<>> \in d, NEW path \in PlainPath, ResolvePath(path, d) # NoPath
  PROVE  ResolvePath(path, d) \in Path /\ Place(ResolvePath(path, d))
<1> DEFINE n == MaxDepth
           first == [path |-> path, rest |-> <<>>, found |-> FALSE]
           F == [x \in Calls \X (1..n) |-> Call(x[1], d)]
           Def(h) == h = [i \in 0..n |-> IF i = 0 THEN first ELSE Call(h[i - 1], d)]
           g == CHOOSE h : Def(h)
           end == g[n]
<1>1. n \in Nat
  BY OptionsAssumption
<1>2. F \in [Calls \X (1..n) -> Calls]
  <2>1. \A x \in Calls \X (1..n) : Call(x[1], d) \in Calls
    BY CallGoesOn
  <2> QED
    BY <2>1
<1>3. first \in Calls
  <2>1. <<>> \in Path /\ Len(<<>>) = 0 /\ path \in Path /\ Plain(path)
    BY DEF Path, PlainPath
  <2> QED
    BY <2>1 DEF Calls, Plain
<1>4. \E f \in [0..n -> Calls] : Steps(f, n, first, F)
  <2> HIDE DEF F, n, first
  <2> QED
    BY <1>1, <1>2, <1>3, Stepwise
<1>5. PICK f \in [0..n -> Calls] : f[0] = first /\ \A i \in 1..n : f[i] = F[<<f[i - 1], i>>]
  BY <1>4 DEF Steps
<1> HIDE DEF first, n
<1>6. \A i \in 1..n : f[i] = Call(f[i - 1], d)
  <2> SUFFICES ASSUME NEW i \in 1..n PROVE f[i] = Call(f[i - 1], d)
    OBVIOUS
  <2>1. i - 1 \in 0..n
    BY <1>1
  <2>2. <<f[i - 1], i>> \in Calls \X (1..n)
    BY <2>1
  <2> QED
    BY <1>5, <2>2
<1>7. Def(f)
  <2>1. \A i \in 0..n : f[i] = IF i = 0 THEN first ELSE Call(f[i - 1], d)
    BY <1>1, <1>5, <1>6
  <2> HIDE DEF F
  <2> QED
    BY <2>1
<1>8. Def(g)
  BY <1>7
<1>9. ResolvePath(path, d) = IF end.found THEN Clean(end.path \o end.rest) ELSE NoPath
  BY DEF ResolvePath, first, n
<1>10. g[0] = first /\ \A i \in 1..n : g[i] = Call(g[i - 1], d)
  <2>1. g = [i \in 0..n |-> IF i = 0 THEN first ELSE Call(g[i - 1], d)]
    BY <1>8
  <2> HIDE DEF g, Def
  <2> QED
    BY <1>1, <2>1
<1> DEFINE T == {m \in 0..n : g[m] \in Calls}
<1> HIDE DEF g, Def, F
<1>11. n \in T
  <2>1. 0 \in T
    BY <1>1, <1>3, <1>10
  <2>2. ASSUME NEW m \in 1..n, m - 1 \in T PROVE m \in T
    <3>1. Call(g[m - 1], d) \in Calls
      BY <1>1, <2>2, CallGoesOn
    <3>2. m \in 0..n /\ g[m] = Call(g[m - 1], d)
      BY <1>1, <1>10
    <3> QED
      BY <3>1, <3>2
  <2> HIDE DEF T
  <2>3. n \in 0..n
    BY <1>1
  <2> QED
    BY <1>1, <2>1, <2>2, <2>3, Count
<1>12. end \in Calls /\ end.found
  BY <1>9, <1>11
<1> HIDE DEF end
<1>13. end.path \in Path /\ end.rest \in Path /\ Place(end.path \o end.rest)
  BY <1>12 DEF Calls
<1>14. Clean(end.path \o end.rest) = end.path \o end.rest /\ end.path \o end.rest \in Path
  BY <1>13, Cleaned DEF Place
<1> QED
  BY <1>9, <1>12, <1>13, <1>14

-----------------------------------------------------------------------------
(* Directories that are apart *)

\* The configurations in use were validated, and their paths are where they say.
PathsResolved ==
  \A p \in Procs :
    at[p] # Idle \/ mode[p] = "reset" =>
      LET c == config[p] IN
        /\ Validated(c)
        /\ c.clone \in Path /\ Place(c.clone) /\ c.state \in Path /\ Place(c.state)

LEMMA ConfiguredResolved ==
  ASSUME LinksAgree, ProcTypeOK, NEW o \in Options, Validated(Configured(o, dirs))
  PROVE  LET c == Configured(o, dirs) IN
           c.clone \in Path /\ Place(c.clone) /\ c.state \in Path /\ Place(c.state)
<1> DEFINE c == Configured(o, dirs)
<1>1. <<>> \in dirs
  BY OptionsAssumption DEF ProcTypeOK
<1>2. Clean(Named(o).clone) \in PlainPath /\ Clean(Named(o).state) \in PlainPath
  BY OptionsAssumption, Cleaned
<1>3. /\ c.clone = ResolvePath(Clean(Named(o).clone), dirs)
      /\ c.state = ResolvePath(Clean(Named(o).state), dirs)
  BY DEF Configured, Canonical
<1>4. c.clone # NoPath /\ c.state # NoPath
  BY DEF Validated
<1> HIDE DEF c
<1>5. c.clone \in Path /\ Place(c.clone) /\ c.state \in Path /\ Place(c.state)
  BY <1>1, <1>2, <1>3, <1>4, Resolves
<1> QED
  BY <1>5 DEF c

LEMMA PathsStart == ProcInit => PathsResolved
BY DEF ProcInit, Init, PathsResolved

\* Only Start takes another configuration, and only a process with locks comes to
\* reset a scan.
LEMMA PathsStep ==
  ASSUME LinksAgree, ProcInv, PathsResolved, [ProcNext]_procVars
  PROVE  PathsResolved'
<1>0. /\ DOMAIN at = Procs /\ config \in [Procs -> Config] /\ DOMAIN mode = Procs
      /\ ProcTypeOK
  BY DEF ProcInv, LockInv, TypeOK, ProcTypeOK
<1>1. ASSUME config' = config,
             \A q \in Procs : at'[q] # Idle \/ mode'[q] = "reset" => at[q] # Idle \/ mode[q] = "reset"
      PROVE  PathsResolved'
  BY <1>1 DEF PathsResolved
<1>2. CASE UNCHANGED procVars
  BY <1>1, <1>2 DEF procVars, vars
<1>3. ASSUME NEW p \in Procs, Start(p) PROVE PathsResolved'
  <2>1. PICK o \in Options, m \in {"run", "retry"} :
          /\ Validated(Configured(o, dirs)) /\ AskWith(p, Configured(o, dirs))
          /\ Become(p, m, Identity(o, Configured(o, dirs)))
    BY <1>3 DEF Start
  <2> DEFINE c == Configured(o, dirs)
  <2>2. Validated(c) /\ c.clone \in Path /\ Place(c.clone) /\ c.state \in Path /\ Place(c.state)
    BY <1>0, <2>1, ConfiguredResolved
  <2>3. /\ config'[p] = c
        /\ \A q \in Procs \ {p} : config'[q] = config[q] /\ at'[q] = at[q] /\ mode'[q] = mode[q]
    BY <1>0, <2>1 DEF AskWith, Move, Become
  <2> HIDE DEF c
  <2> QED
    BY <2>2, <2>3 DEF PathsResolved
<1>4. ASSUME NEW p \in Procs, RunAfterRetry(p) PROVE PathsResolved'
  <2>1. /\ mode[p] = "reset" /\ config' = config
        /\ \A q \in Procs \ {p} : at'[q] = at[q] /\ mode'[q] = mode[q]
    BY <1>0, <1>4 DEF RunAfterRetry, AskWith, Move, Become
  <2> QED
    BY <1>1, <2>1
<1>5. ASSUME NEW p \in Procs, Load(p) \/ Save(p) \/ Prepare(p) PROVE PathsResolved'
  <2>1. /\ at[p] = Running /\ UNCHANGED <<at, config>>
        /\ \A q \in Procs \ {p} : mode'[q] = mode[q]
    BY <1>0, <1>5 DEF Load, Save, Prepare, Become, vars
  <2>2. Running # Idle
    BY DEF Running, Idle
  <2> QED
    BY <1>1, <2>1, <2>2
<1>6. ASSUME NEW p \in Procs, Leave(p) \/ Dies(p) PROVE PathsResolved'
  <2>1. /\ at[p] # Idle /\ config' = config
        /\ \A q \in Procs \ {p} : at'[q] = at[q] /\ mode'[q] = mode[q]
    BY <1>0, <1>6 DEF Leave, Dies, Done, Killed, Move, Become, Running, Idle
  <2> QED
    BY <1>1, <2>1
<1>7. ASSUME NEW p \in Procs, NEW k \in 1..3, TakeLock(p, k) \/ RefusedLock(p, k) \/ GiveLock(p, k)
      PROVE  PathsResolved'
  <2>1. /\ at[p] # Idle /\ config' = config
        /\ \A q \in Procs \ {p} : at'[q] = at[q] /\ mode'[q] = mode[q]
    BY <1>0, <1>7
    DEF TakeLock, Take, RefusedLock, Refused, GiveLock, Give, Move, Become, Taking, Giving, Idle
  <2> QED
    BY <1>1, <2>1
<1> QED
  BY <1>2, <1>3, <1>4, <1>5, <1>6, <1>7 DEF ProcNext

\* The directory of the worktrees is next to the clone.
LEMMA ScansStay ==
  ASSUME NEW clone \in Clones, clone \in Path, Place(clone), Scans(clone) \notin DOMAIN Links
  PROVE  Where(Scans(clone)) = Scans(clone)
<1> DEFINE up == Parent(clone)
           name == Last(clone) \o "-scans"
<1>1. up \in Path /\ Place(up)
  <2>1. Enter(clone, "..") = up
    BY DEF Enter
  <2> QED
    BY <2>1, Entered
<1>2. Scans(clone) = Append(up, name)
  BY DEF Scans
<1> HIDE DEF up, name
<1>3. name \in STRING \ {".."}
  <2> DEFINE S == STRING \union {name}
  <2>1. up \in Seq(S) /\ name \in S
    <3>1. STRING \subseteq S
      OBVIOUS
    <3> HIDE DEF S
    <3>2. up \in Seq(S)
      BY <1>1, <3>1, SeqMonotonic DEF Path
    <3> QED
      BY <3>2 DEF S
  <2> HIDE DEF S
  <2>2. Len(Append(up, name)) = Len(up) + 1
    BY <2>1, AppendProperties
  <2>3. Append(up, name)[Len(up) + 1] = name
    BY <2>1, AppendProperties
  <2>4. Last(Append(up, name)) = name
    BY <2>2, <2>3 DEF Last
  <2> QED
    BY <1>2, <2>4, DirectoriesAssumption
<1>4. Enter(up, name) = Scans(clone)
  BY <1>2, <1>3 DEF Enter
<1>5. Scans(clone) \in Path /\ Place(Scans(clone))
  BY <1>1, <1>3, <1>4, Entered
<1> QED
  BY <1>5, Stays

\* Whatever bfb is called with, and whatever comes to exist after it has resolved
\* its paths (config.go:97-132) and Validate has compared them: a scan that runs
\* has its state outside its clone and worktrees, and no clone or state in common
\* with another.  It takes that links say the same read in the name of their
\* directory as read in the directory itself, and that there is no link where
\* the worktrees go, which Validate does not resolve.
THEOREM DirectoriesApartCorrect ==
  LinksAgree /\ (\A c \in Clones : Scans(c) \notin DOMAIN Links) => (ProcSpec => []DirectoriesApart)
<1> SUFFICES ASSUME LinksAgree, \A c \in Clones : Scans(c) \notin DOMAIN Links
             PROVE  ProcSpec => []DirectoriesApart
  OBVIOUS
<1>1. ProcInit => PathsResolved
  BY PathsStart
<1>2. ProcInv /\ PathsResolved /\ [ProcNext]_procVars => PathsResolved'
  BY PathsStep
<1>3. ProcInv /\ PathsResolved => DirectoriesApart
  <2> SUFFICES ASSUME ProcInv, PathsResolved, NEW p \in Procs, at[p] = Running
               PROVE  LET c == config[p] IN
                        /\ ~Overlap(Where(c.clone), Where(c.state))
                        /\ ~Overlap(Where(Scans(c.clone)), Where(c.state))
                        /\ \A q \in Procs \ {p} : at[q] = Running =>
                             /\ Where(c.clone) # Where(config[q].clone)
                             /\ Where(c.state) # Where(config[q].state)
    BY DEF DirectoriesApart
  <2>1. \A q \in Procs : at[q] = Running =>
          LET c == config[q] IN Validated(c) /\ Where(c.clone) = c.clone /\ Where(c.state) = c.state
    <3>1. Running # Idle
      BY DEF Running, Idle
    <3> QED
      BY <3>1, Stays DEF PathsResolved
  <2>2. Where(Scans(config[p].clone)) = Scans(config[p].clone)
    <3>1. config[p].clone \in Clones
      BY DEF ProcInv, LockInv, TypeOK, Config
    <3>2. config[p].clone \in Path /\ Place(config[p].clone)
      BY DEF PathsResolved, Running, Idle
    <3> QED
      BY <3>1, <3>2, ScansStay
  <2>3. \A q \in Procs \ {p} : at[q] = Running =>
          config[p].clone # config[q].clone /\ config[p].state # config[q].state
    BY LocksExclude DEF ProcInv, Exclusion, Clash
  <2> QED
    BY <2>1, <2>2, <2>3 DEF Validated
<1> QED
  BY <1>1, <1>2, <1>3, ProcessesCorrect, PTL DEF ProcSpec

=============================================================================
