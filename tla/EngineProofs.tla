----------------------------- MODULE EngineProofs -----------------------------
(***************************************************************************)
(* Theorems about Engine for every value of its constants: any number of   *)
(* request ids, any attempt budget, and no bound on crashes, failures,     *)
(* edits and commits.                                                      *)
(*                                                                         *)
(* First its type correctness; then the safety of publication: no proposal *)
(* is ever filed twice, the saved state agrees with GitHub, and the engine *)
(* implements ProposalLedger.  The argument is the inductive invariant     *)
(* PublicationInv; each lemma shows that one group of actions preserves    *)
(* it.                                                                     *)
(*                                                                         *)
(* Then what precedes a POST: an attempt within the budget (BudgetInv), a  *)
(* commit that was the tip of the branch after the list was read           *)
(* (HeadInv), and a review of every issue of that list, by this process or *)
(* by one before it whose checkpoints it trusts (ReviewInv).  Each is      *)
(* inductive relative to the types; ReviewInv also needs PublicationInv,   *)
(* for the candidate under review is a known one.                          *)
(***************************************************************************)
EXTENDS Engine, FiniteSetTheorems, TLAPS

-----------------------------------------------------------------------------
(* The inductive invariants behind the safety properties *)

\* Memory never lags behind the disk: what the disk says is decided, or
\* completed, or known at all, memory says too.
MemoryCoversDisk ==
  Up => /\ disk.completed \subseteq mem.completed
        /\ \A r \in Rids :
             /\ disk.status[r] # "absent" => mem.status[r] # "absent"
             /\ disk.status[r] \in Final => mem.status[r] = disk.status[r]

\* A running engine knows of every request that may have become an issue.
PostsAreKnown ==
  Up => \A r \in Rids :
          created[r] + flight[r] > 0 => mem.status[r] \in {"posting", "submitted"}

\* Where reviewAndPublish has got to with its candidate.
PlaceOfCandidate ==
  /\ pc \in {"refresh", "review", "verify", "reread"} =>
       cur \in InStatus(mem, "pending")
  /\ pc \in {"post", "wait"} =>
       /\ cur \in InStatus(mem, "posting")
       /\ disk.status[cur] = "posting"
  /\ pc = "post" => created[cur] + flight[cur] = 0

\* GitHub's answers and markers tell the truth about what it created.
AnswersAreTrue ==
  /\ reply # "none" => pc = "wait"
  /\ reply = "created" => created[cur] > 0
  /\ reply = "rejected" => created[cur] + flight[cur] = 0
  /\ \A i \in issues : i.rid # NoRid => created[i.rid] > 0

\* Work goes on only when no outcome is unknown but that of the candidate
\* being published.
UnresolvedStopsWork ==
  /\ pc \in {"open", "adopt", "prepare", "attempt", "scan", "candidate",
            "refresh", "review", "verify", "reread"} => InStatus(mem, "posting") = {}
  /\ pc \in {"post", "wait"} => InStatus(mem, "posting") = {cur}
  /\ \A s \in {mem, disk} : \A q, r \in InStatus(s, "posting") : q = r

PublicationInv ==
  /\ NoDuplicateIssue /\ LedgerMatchesGitHub /\ CompletedSettled
  /\ MemoryCoversDisk /\ PostsAreKnown /\ PlaceOfCandidate
  /\ AnswersAreTrue /\ UnresolvedStopsWork

\* The tries of a scan count every attempt of it that ran, in memory as on
\* disk, and an attempt is prepared only within the budget.
BudgetInv ==
  /\ AttemptsWithinBudget
  /\ \A s \in {mem, disk} : HasScan(s) => spent <= s.scan.tries
  /\ pc \in {"open", "adopt"} /\ HasScan(mem) => mem.scan.tries < Attempts
  /\ pc = "prepare" => mem.scan.tries < Attempts /\ spent <= mem.scan.tries

\* The reviewed list is no newer than the branch, and once the source has been
\* verified the scanned commit was the tip after the list was read.
HeadInv ==
  /\ snapHead <= head
  /\ pc \in {"reread", "post"} => mem.scan.commit >= snapHead

\* A checkpoint attests nothing that was not reviewed for its candidate.
CheckpointsAreTrue ==
  \A s \in {mem, disk}, r \in Rids :
    s.status[r] # "absent" =>
      \A c \in s.batches[r] : \A i \in c : <<r, i>> \in reviewed

\* While chunks are reviewed, an issue of the list is in one of those left or
\* has been reviewed; afterwards every one has been.
ReviewInv ==
  /\ CheckpointsAreTrue
  /\ pc = "review" => \A i \in snap : <<cur, i>> \in reviewed \/ \E c \in todo : i \in c
  /\ pc \in {"verify", "reread", "post"} => \A i \in snap : <<cur, i>> \in reviewed

-----------------------------------------------------------------------------
(* What the operators on saved states return *)

\* The state of a first start is well formed.
LEMMA NewStateType == NewState \in State
  BY ConstantsAssumption DEF NewState, State, NoScan, Scan, Status, Final

\* Setting one status keeps a state well formed and everything else as it was.
LEMMA WithType ==
  ASSUME NEW s \in State, NEW r \in Rids, NEW st \in Status
  PROVE  /\ With(s, r, st) \in State
         /\ With(s, r, st).status = [s.status EXCEPT ![r] = st]
         /\ With(s, r, st).completed = s.completed
         /\ With(s, r, st).scan = s.scan
  BY DEF With, State

\* finish moves candidates without touching a status.
LEMMA FinishedType ==
  ASSUME NEW s \in State
  PROVE  /\ Finished(s) \in State
         /\ Finished(s).status = s.status
         /\ Finished(s).completed = s.completed \union Candidates(s)
         /\ Finished(s).scan = NoScan
  BY DEF Finished, State, Candidates, Scan, NoScan

\* Marking findings stale changes pending statuses only.
LEMMA StaleType ==
  ASSUME NEW s \in State
  PROVE  /\ Stale(s) \in State
         /\ Stale(s).completed = s.completed
         /\ Stale(s).scan = s.scan
         /\ \A r \in Rids : /\ r \in InStatus(s, "pending") => Stale(s).status[r] = "stale"
                            /\ r \notin InStatus(s, "pending") => Stale(s).status[r] = s.status[r]
  BY DEF Stale, State, Status, Final

\* Deadlines, budgets and refunds leave statuses and the scanned commit alone.
LEMMA DueType ==
  ASSUME NEW s \in State
  PROVE  /\ Due(s) \in State
         /\ Due(s).status = s.status
         /\ Due(s).completed = s.completed
         /\ Due(s).scan.commit = s.scan.commit
         /\ Due(s).scan.tries = s.scan.tries
  BY DEF Due, State, Scan

LEMMA RetriedType ==
  ASSUME NEW s \in State
  PROVE  /\ Retried(s) \in State
         /\ Retried(s).status = s.status
         /\ Retried(s).completed = s.completed
  BY DEF Retried, State, Scan

LEMMA ChargedType ==
  ASSUME NEW s \in State
  PROVE  /\ Charged(s) \in State
         /\ Charged(s).status = s.status
         /\ Charged(s).completed = s.completed
         /\ Charged(s).scan.commit = s.scan.commit
         /\ Charged(s).scan.tries > 0
<1> DEFINE t    == s.scan.tries + 1
           scan == [s.scan EXCEPT !.tries = t, !.retryDue = FALSE]
<1>1. t \in Nat /\ t > 0
  BY DEF State, Scan
<1>2. Charged(s) = [s EXCEPT !.scan = scan]
  BY DEF Charged, State
<1> HIDE DEF t
<1>3. t \in Nat /\ s.scan \in Scan
  BY <1>1 DEF State
<1>4. scan \in Scan /\ scan.tries = t /\ scan.commit = s.scan.commit
  BY <1>3 DEF Scan
<1> HIDE DEF scan
<1>5. /\ Charged(s) \in State
      /\ Charged(s).status = s.status
      /\ Charged(s).completed = s.completed
      /\ Charged(s).scan = scan
  BY <1>2, <1>4 DEF State
<1> QED
  BY <1>1, <1>4, <1>5

LEMMA RefundedType ==
  ASSUME NEW s \in State, s.scan.tries > 0
  PROVE  /\ Refunded(s) \in State
         /\ Refunded(s).status = s.status
         /\ Refunded(s).completed = s.completed
<1> DEFINE t == s.scan.tries - 1
<1>1. t \in Nat
  BY DEF State, Scan
<1>2. Refunded(s) = [s EXCEPT !.scan.tries = t]
  BY DEF Refunded
<1> HIDE DEF t
<1> QED
  BY <1>1, <1>2 DEF State, Scan

\* A new scan, its findings and a checkpoint keep a state well formed.
LEMMA WithScanType ==
  ASSUME NEW s \in State, NEW commit \in Nat
  PROVE  /\ WithScan(s, commit) \in State
         /\ WithScan(s, commit).status = s.status
         /\ WithScan(s, commit).completed = s.completed
  BY DEF WithScan, State, Scan, NoScan

LEMMA WithFindingsType ==
  ASSUME NEW s \in State, NEW F \in SUBSET Rids
  PROVE  /\ WithFindings(s, F) \in State
         /\ WithFindings(s, F).status
              = [r \in Rids |-> IF r \in F THEN "pending" ELSE s.status[r]]
         /\ WithFindings(s, F).completed = s.completed
         /\ WithFindings(s, F).scan.tries = s.scan.tries
  BY DEF WithFindings, State, Scan, Status

LEMMA AttestedType ==
  ASSUME NEW s \in State, NEW r \in Rids, NEW c \in SUBSET Issue
  PROVE  /\ Attested(s, r, c) \in State
         /\ Attested(s, r, c).status = s.status
         /\ Attested(s, r, c).completed = s.completed
         /\ Attested(s, r, c).scan = s.scan
<1> DEFINE new == [s.batches EXCEPT ![r] = @ \union {c}]
<1>1. s.batches \in [Rids -> SUBSET (SUBSET Issue)]
  BY DEF State
<1>2. new \in [Rids -> SUBSET (SUBSET Issue)]
  BY <1>1
<1>3. s.validated \union {r} \in SUBSET Rids
  BY DEF State
<1>4. Attested(s, r, c) = [s EXCEPT !.validated = @ \union {r}, !.batches = new]
  BY DEF Attested
<1> HIDE DEF new
<1> QED
  BY <1>2, <1>3, <1>4 DEF State

-----------------------------------------------------------------------------
(* Type correctness *)

\* While an attempt runs, it has been charged: the refund of a setup error
\* never makes the number of tries negative.
InAttempt == {"attempt", "scan", "candidate", "refresh", "review", "verify",
              "reread", "post", "wait", "failed", "setup"}

ChargedAttempt == pc \in InAttempt => mem.scan.tries > 0

\* reviewAndPublish works on a candidate.
Reviewing == {"refresh", "review", "verify", "reread", "post", "wait"}

CurrentCandidate == pc \in Reviewing => cur \in Rids

TypeInv == TypeOK /\ ChargedAttempt /\ CurrentCandidate

\* One directory changes its condition.
LEMMA TreeType ==
  ASSUME TypeOK, NEW d, NEW t \in Trees
  PROVE  [trees EXCEPT ![d] = t] \in TreesType
  BY DEF TypeOK, TreesType

\* An agent tampers with the worktree of one commit.
LEMMA TamperedType ==
  ASSUME TypeOK, Tampered
  PROVE  trees' \in TreesType
<1>1. [trees EXCEPT ![mem.scan.commit] = "unusable"] \in TreesType
  BY TreeType DEF Trees
<1> QED
  BY <1>1 DEF TypeOK, Tampered

\* git leaves a directory that was not there, whole or not.
LEMMA HalfMadeType ==
  ASSUME TypeOK, NEW d, HalfMade(d)
  PROVE  trees' \in TreesType
<1>1. /\ trees \in TreesType
      /\ \A t \in {"ready", "unusable"} : [trees EXCEPT ![d] = t] \in TreesType
  BY TreeType DEF TypeOK, Trees
<1> QED
  BY <1>1 DEF HalfMade

\* The initial state is well typed.
LEMMA TypeInit == Init => TypeInv
<1>1. [d \in 0..MaxHeads |-> "none"] \in TreesType
  BY DEF TreesType, Trees
<1> QED
  BY <1>1, NewStateType, ConstantsAssumption
  DEF Init, TypeInv, TypeOK, ChargedAttempt, CurrentCandidate, InAttempt, Reviewing, PCs, NoRid

\* Every step of the process outside an attempt keeps the types.
LEMMA TypeStep ==
  ASSUME TypeInv, StepAction
  PROVE  TypeInv'
<1> USE DEF TypeInv, TypeOK, ChargedAttempt, CurrentCandidate, InAttempt, Reviewing,
            PCs, locals, github, clone, ghosts, Return, Fault, Saved, SaveFailed
<1>1. CASE Reconcile
  <2>1. PICK r \in Rids : First(r, Unresolved(mem)) /\
           (\/ Fault /\ Return /\ UNCHANGED <<mem, disk>>
            \/ /\ \A i \in issues : i.rid # r
               /\ Return
               /\ UNCHANGED <<mem, disk, faults>>
            \/ /\ mem' = With(mem, r, "submitted")
               /\ \/ Saved(mem') /\ UNCHANGED pc
                  \/ SaveFailed(mem') /\ Return)
    BY <1>1 DEF Reconcile
  <2>2. With(mem, r, "submitted") \in State
    BY WithType DEF Status, Final
  <2> QED
    BY <1>1, <2>1, <2>2 DEF Reconcile
<1>2. CASE CloseSettled
  BY <1>2, FinishedType DEF CloseSettled
<1>3. CASE ChooseWork
  BY <1>3 DEF ChooseWork
<1>4. CASE Open
  <2>1. trees' \in TreesType
    BY <1>4, HalfMadeType, TreeType DEF Open, Trees
  <2> QED
    BY <1>4, <2>1 DEF Open
<1>5. CASE DiscardScan
  BY <1>5, FinishedType, StaleType DEF DiscardScan
<1>6. CASE NewScan
  <2>1. mem' = WithScan(mem, origin) /\ WithScan(mem, origin) \in State
    BY <1>6, WithScanType DEF NewScan
  <2>2. trees' \in TreesType
    BY <1>6, TreeType DEF NewScan, Trees
  <2> QED
    BY <1>6, <2>1, <2>2 DEF NewScan
<1>7. CASE KeepScan
  BY <1>7 DEF KeepScan
<1>8. CASE Prepare
  <2>1. trees' \in TreesType
    BY <1>8, HalfMadeType, TreeType DEF Prepare, Trees
  <2> QED
    BY <1>8, <2>1, ChargedType DEF Prepare
<1>9. CASE FailAttempt
  BY <1>9, RefundedType DEF FailAttempt
<1> QED
  BY <1>1, <1>2, <1>3, <1>4, <1>5, <1>6, <1>7, <1>8, <1>9 DEF StepAction

\* Discovery and the loop over candidates keep the types.
LEMMA TypeAttempt ==
  ASSUME TypeInv, AttemptAction
  PROVE  TypeInv'
<1> USE DEF TypeInv, TypeOK, ChargedAttempt, CurrentCandidate, InAttempt, Reviewing,
            PCs, locals, github, clone, ghosts, Return, Fault, Saved, SaveFailed
<1>1. CASE ReadHistory
  BY <1>1 DEF ReadHistory
<1>2. CASE Discover
  <2>1. CASE /\ \E kind \in {"failed", "setup"} : pc' = kind
             /\ Fault
             /\ Tampered
             /\ UNCHANGED <<mem, disk, reviewed>>
    <3>1. trees' \in TreesType
      BY <2>1, TamperedType
    <3> QED
      BY <1>2, <2>1, <3>1 DEF Discover
  <2>2. CASE \E F \in SUBSET {r \in Rids : Fresh(r)} :
               /\ mem' = WithFindings(mem, F)
               /\ reviewed' = {p \in reviewed : p[1] \notin F}
               /\ UNCHANGED trees
               /\ \/ Saved(mem') /\ pc' = "candidate"
                  \/ SaveFailed(mem') /\ pc' = "failed"
    <3>1. PICK F \in SUBSET Rids :
               /\ mem' = WithFindings(mem, F)
               /\ reviewed' = {p \in reviewed : p[1] \notin F}
               /\ UNCHANGED trees
               /\ \/ Saved(mem') /\ pc' = "candidate"
                  \/ SaveFailed(mem') /\ pc' = "failed"
      BY <2>2
    <3>2. mem' \in State /\ mem'.scan.tries = mem.scan.tries
      BY <3>1, WithFindingsType
    <3>3. reviewed' \subseteq Rids \X Issue
      BY <3>1
    <3> QED
      BY <1>2, <3>1, <3>2, <3>3 DEF Discover
  <2> QED
    BY <1>2, <2>1, <2>2 DEF Discover
<1>3. CASE NextCandidate
  BY <1>3 DEF NextCandidate
<1>4. CASE FinishScan
  BY <1>4, FinishedType DEF FinishScan
<1> QED
  BY <1>1, <1>2, <1>3, <1>4 DEF AttemptAction

\* Chunks are made of the issues they are cut from.
LEMMA ChunkType ==
  ASSUME NEW S \in SUBSET Issue
  PROVE  Unreviewed(S) \subseteq SUBSET Issue
  BY DEF Unreviewed, ReviewChunks, ChunkOf

\* Review and publication keep the types.
LEMMA TypeReview ==
  ASSUME TypeInv, ReviewAction
  PROVE  TypeInv'
<1> USE DEF TypeInv, TypeOK, ChargedAttempt, CurrentCandidate, InAttempt, Reviewing,
            PCs, locals, github, clone, ghosts, Fault, Saved, SaveFailed, FailHere, Leave
<1>0. \A st \in Status :
        cur \in Rids => /\ With(mem, cur, st) \in State
                       /\ With(mem, cur, st).scan = mem.scan
  BY WithType
<1>1. CASE Refresh
  <2>1. Unreviewed(issues) \subseteq SUBSET Issue
    BY ChunkType
  <2> QED
    BY <1>1, <2>1 DEF Refresh
<1>2. CASE ReviewFails
  BY <1>2, TamperedType DEF ReviewFails
<1>3. CASE ReviewNew
  <2>1. PICK c \in todo :
          /\ mem' = Attested(mem, cur, c)
          /\ reviewed' = reviewed \union {<<cur, i>> : i \in c}
          /\ \/ /\ Saved(mem')
                /\ todo' = todo \ {c}
                /\ pc' = IF todo' = {} THEN "refresh" ELSE "review"
                /\ refresh' = IF todo' = {} THEN refresh + 1 ELSE refresh
                /\ UNCHANGED <<cur, snap>>
             \/ SaveFailed(mem') /\ FailHere("failed")
    BY <1>3 DEF ReviewNew
  <2>2. cur \in Rids /\ c \in SUBSET Issue
    BY <1>3 DEF ReviewNew
  <2>3. mem' \in State /\ mem'.scan = mem.scan
    BY <2>1, <2>2, AttestedType
  <2>4. reviewed' \subseteq Rids \X Issue
    BY <2>1, <2>2
  <2>5. todo' \subseteq SUBSET Issue
    BY <2>1
  <2> QED
    BY <1>3, <2>1, <2>3, <2>4, <2>5 DEF ReviewNew
<1>4. CASE ReviewRejects
  <2>1. PICK v \in Verdicts : mem' = With(mem, cur, v)
    BY <1>4 DEF ReviewRejects
  <2>2. v \in Status
    BY ConstantsAssumption DEF Status, Final
  <2>3. mem' \in State /\ mem'.scan = mem.scan
    BY <1>0, <1>4, <2>1, <2>2 DEF ReviewRejects
  <2> QED
    BY <1>4, <2>3 DEF ReviewRejects
<1>5. CASE VerifySource
  <2>1. trees' \in TreesType /\ origin' \in Nat
    BY <1>5, TamperedType DEF VerifySource
  <2>2. \/ pc' = "reread" /\ UNCHANGED <<locals, faults>>
        \/ FailHere("failed") /\ faults' \in Nat
    BY <1>5 DEF VerifySource
  <2>3. UNCHANGED <<mode, mem, disk, github, reply, head, edits, ghosts>> /\ pc = "verify"
    BY <1>5 DEF VerifySource
  <2> QED
    BY <2>1, <2>2, <2>3
<1>6. CASE RereadChanged
  BY <1>6 DEF RereadChanged
<1>7. CASE RereadDryRun
  <2>1. mem' \in State /\ mem'.scan = mem.scan
    BY <1>0, <1>7 DEF RereadDryRun, Status, Final
  <2> QED
    BY <1>7, <2>1 DEF RereadDryRun
<1>8. CASE SaveIntent
  <2>1. /\ With(mem, cur, "posting") \in State
        /\ With(mem, cur, "posting").scan = mem.scan
    BY <1>0, <1>8 DEF SaveIntent, Status
  <2> QED
    BY <1>8, <2>1 DEF SaveIntent, IntentSaved
<1>9. CASE Post
  <2>1. flight' \in [Rids -> Nat]
    BY <1>9 DEF Post
  <2> QED
    BY <1>9, <2>1 DEF Post
<1>10. CASE PostCreated
  <2>1. mem' \in State /\ mem'.scan = mem.scan
    BY <1>0, <1>10 DEF PostCreated, Status, Final
  <2> QED
    BY <1>10, <2>1 DEF PostCreated
<1>11. CASE PostRejected
  <2>1. mem' \in State /\ mem'.scan = mem.scan
    BY <1>0, <1>11 DEF PostRejected, Status
  <2> QED
    BY <1>11, <2>1 DEF PostRejected
<1>12. CASE PostUnknown
  BY <1>12 DEF PostUnknown
<1> QED
  BY <1>1, <1>2, <1>3, <1>4, <1>5, <1>6, <1>7, <1>8, <1>9, <1>10, <1>11, <1>12
  DEF ReviewAction

\* Starting, stopping, crashing and the retry command keep the types.
LEMMA TypeOperator ==
  ASSUME TypeInv, Wake \/ Exit \/ Operator
  PROVE  TypeInv'
<1> USE NewStateType
    DEF TypeInv, TypeOK, ChargedAttempt, CurrentCandidate, InAttempt, Reviewing,
        PCs, locals, github, clone, ghosts, Fault, Saved, SaveFailed, Leave, Die
<1>1. CASE Wake
  BY <1>1 DEF Wake
<1>2. CASE Exit
  BY <1>2 DEF Exit
<1>3. CASE Start
  BY <1>3, ConstantsAssumption DEF Start
<1>4. CASE Stop
  BY <1>4 DEF Stop
<1>5. CASE Crash
  <2>1. trees' \in TreesType
    BY <1>5, TamperedType, HalfMadeType DEF Crash
  <2>2. Die /\ UNCHANGED origin /\ faults' \in Nat
    BY <1>5 DEF Crash
  <2> QED
    BY <2>1, <2>2
<1>6. CASE RetryCommand
  <2>1. Retried(disk) \in State
    BY RetriedType
  <2> QED
    BY <1>6, <2>1 DEF RetryCommand
<1> QED
  BY <1>1, <1>2, <1>3, <1>4, <1>5, <1>6 DEF Operator

\* GitHub, people, the branch and the clock keep the types.
LEMMA TypeEnvironment ==
  ASSUME TypeInv, Environment
  PROVE  TypeInv'
<1> USE DEF TypeInv, TypeOK, ChargedAttempt, CurrentCandidate, InAttempt, Reviewing,
            PCs, locals, github, clone, ghosts, Answer, Edit
<1>0. \A n \in Nat, r \in Rids \union {NoRid} :
        [number |-> n + 1, version |-> 0, rid |-> r] \in Issue
  BY DEF Issue
<1>1. CASE TimePasses
  BY <1>1, DueType DEF TimePasses
<1>2. CASE HumanFiles
  <2>1. issues' \subseteq Issue
    BY <1>0, <1>2 DEF HumanFiles
  <2> QED
    BY <1>2, <2>1 DEF HumanFiles
<1>3. CASE HumanEdits
  <2>1. PICK i \in issues : issues' = (issues \ {i}) \union {[i EXCEPT !.version = @ + 1]}
    BY <1>3 DEF HumanEdits
  <2>2. i.version + 1 \in Nat
    BY DEF Issue
  <2>3. [i EXCEPT !.version = @ + 1] \in Issue
    BY <2>2 DEF Issue
  <2> QED
    BY <1>3, <2>1, <2>3 DEF HumanEdits
<1>4. CASE HumanDeletes
  <2>1. issues' \subseteq Issue
    BY <1>4 DEF HumanDeletes
  <2> QED
    BY <1>4, <2>1 DEF HumanDeletes
<1>5. CASE BranchAdvances
  BY <1>5 DEF BranchAdvances
<1>6. ASSUME NEW r \in Rids, GitHubCreates(r)
      PROVE  TypeInv'
  <2>1. flight' \in [Rids -> Nat] /\ created' \in [Rids -> Nat]
    BY <1>6 DEF GitHubCreates
  <2>2. issues' \subseteq Issue
    BY <1>0, <1>6 DEF GitHubCreates
  <2> QED
    BY <1>6, <2>1, <2>2 DEF GitHubCreates
<1>7. ASSUME NEW r \in Rids, GitHubRefuses(r)
      PROVE  TypeInv'
  <2>1. flight' \in [Rids -> Nat]
    BY <1>7 DEF GitHubRefuses
  <2> QED
    BY <1>7, <2>1 DEF GitHubRefuses
<1> QED
  BY <1>1, <1>2, <1>3, <1>4, <1>5, <1>6, <1>7 DEF Environment

LEMMA TypeNext == TypeInv /\ [Next]_vars => TypeInv'
<1> SUFFICES ASSUME TypeInv, [Next]_vars PROVE TypeInv'
  OBVIOUS
<1>1. CASE Next
  BY <1>1, TypeStep, TypeAttempt, TypeReview, TypeOperator, TypeEnvironment
  DEF Next, Engine
<1>2. CASE UNCHANGED vars
  BY <1>2 DEF vars, locals, github, clone, ghosts, TypeInv, TypeOK, ChargedAttempt,
              CurrentCandidate
<1> QED
  BY <1>1, <1>2

\* Every reachable state is well typed, for every value of the constants: no
\* sequence of saves, crashes and refunds makes the saved state malformed.
THEOREM TypeCorrect == Spec => []TypeOK
  BY TypeInit, TypeNext, PTL DEF Spec, TypeInv

-----------------------------------------------------------------------------
(* Candidates of a saved state *)

\* Membership in InStatus, for a status a candidate can have.
LEMMA InStatusDef ==
  ASSUME NEW s, NEW st, st # "absent"
  PROVE  /\ InStatus(s, st) \subseteq Rids
         /\ \A r \in Rids : r \in InStatus(s, st) <=> s.status[r] = st /\ r \notin s.completed
  BY DEF InStatus, Candidates

\* Finishing a scan without pending or posting candidates completes decided
\* findings only, and leaves no candidate behind.
LEMMA FinishedSettled ==
  ASSUME NEW s \in State,
         InStatus(s, "pending") = {}, InStatus(s, "posting") = {},
         \A r \in Rids : r \in s.completed => s.status[r] \in Final
  PROVE  /\ \A r \in Rids : r \in Finished(s).completed => Finished(s).status[r] \in Final
         /\ InStatus(Finished(s), "posting") = {}
         /\ s.completed \subseteq Finished(s).completed
<1>1. \A r \in Rids : s.status[r] \in Status
  BY DEF State
<1>2. \A r \in Candidates(s) : s.status[r] \in Final
  BY <1>1 DEF Candidates, InStatus, Status
<1> QED
  BY <1>2, FinishedType DEF InStatus, Candidates

-----------------------------------------------------------------------------
(* The invariant is established and preserved *)

LEMMA PublicationInit == Init => PublicationInv
<1> SUFFICES ASSUME Init PROVE PublicationInv
  OBVIOUS
<1>1. /\ \A r \in Rids : mem.status[r] = "absent" /\ disk.status[r] = "absent"
      /\ mem.completed = {} /\ disk.completed = {}
  BY DEF Init, NewState
<1>2. \A r \in Rids : created[r] = 0 /\ flight[r] = 0
  BY DEF Init
<1>3. InStatus(mem, "posting") = {} /\ InStatus(disk, "posting") = {}
  BY <1>1 DEF InStatus, Candidates
<1> QED
  BY <1>1, <1>2, <1>3
  DEF Init, PublicationInv, NoDuplicateIssue, LedgerMatchesGitHub, CompletedSettled,
      MemoryCoversDisk, PostsAreKnown, PlaceOfCandidate, AnswersAreTrue,
      UnresolvedStopsWork, Up

\* What the engine may do to its memory without touching the wire.
Forward ==
  /\ mem.completed \subseteq mem'.completed
  /\ \A r \in Rids :
       /\ mem.status[r] # "absent" => mem'.status[r] # "absent"
       /\ mem.status[r] \in Final => mem'.status[r] = mem.status[r]
       /\ created[r] + flight[r] > 0 => mem'.status[r] \in {"posting", "submitted"}
       /\ mem'.status[r] = "submitted" => created[r] > 0
       /\ r \in mem'.completed => mem'.status[r] \in Final
  /\ \A q, r \in InStatus(mem', "posting") : q = r

\* The disk keeps what it had or takes over the new memory.
DiskFollows ==
  \/ disk'.status = disk.status /\ disk'.completed = disk.completed
  \/ disk'.status = mem'.status /\ disk'.completed = mem'.completed

\* Where the engine may be afterwards.
NextPlace ==
  /\ pc' \notin {"down", "post", "wait"}
  /\ pc' \in {"refresh", "review", "verify", "reread"} =>
       cur' \in InStatus(mem', "pending")
  /\ pc' \in {"open", "adopt", "prepare", "attempt", "scan", "candidate",
             "refresh", "review", "verify", "reread"} => InStatus(mem', "posting") = {}

\* Most steps of the engine move memory forward and perhaps save it.
LEMMA WorkStep ==
  ASSUME PublicationInv, Up, Forward, DiskFollows, NextPlace,
         reply' = "none", UNCHANGED <<created, flight, issues>>
  PROVE  PublicationInv'
<1>1. InStatus(disk', "posting") \in {InStatus(disk, "posting"), InStatus(mem', "posting")}
  BY DEF InStatus, Candidates, DiskFollows
<1>2. NoDuplicateIssue'
  BY DEF PublicationInv, NoDuplicateIssue
<1>3. LedgerMatchesGitHub'
  BY DEF PublicationInv, LedgerMatchesGitHub, Forward, DiskFollows
<1>4. CompletedSettled'
  BY DEF PublicationInv, CompletedSettled, Forward, DiskFollows
<1>5. MemoryCoversDisk' /\ PostsAreKnown'
  BY DEF PublicationInv, MemoryCoversDisk, PostsAreKnown, Up, Forward, DiskFollows
<1>6. PlaceOfCandidate' /\ AnswersAreTrue'
  BY DEF PublicationInv, PlaceOfCandidate, AnswersAreTrue, NextPlace
<1>7. UnresolvedStopsWork'
  BY <1>1 DEF PublicationInv, UnresolvedStopsWork, Forward, NextPlace
<1> QED
  BY <1>2, <1>3, <1>4, <1>5, <1>6, <1>7 DEF PublicationInv

\* Steps that change no status in memory move forward.
LEMMA SameMemory ==
  ASSUME PublicationInv, Up, mem'.status = mem.status, mem'.completed = mem.completed
  PROVE  /\ Forward
         /\ InStatus(mem', "posting") = InStatus(mem, "posting")
         /\ InStatus(mem', "pending") = InStatus(mem, "pending")
<1>1. /\ InStatus(mem', "posting") = InStatus(mem, "posting")
      /\ InStatus(mem', "pending") = InStatus(mem, "pending")
  BY DEF InStatus, Candidates
<1> QED
  BY <1>1 DEF PublicationInv, Forward, LedgerMatchesGitHub, CompletedSettled,
              PostsAreKnown, UnresolvedStopsWork

\* So does giving a candidate that was never filed a status of its own.
LEMMA DecidedMemory ==
  ASSUME TypeInv, PublicationInv, Up,
         NEW r \in Rids, r \in InStatus(mem, "pending") \union InStatus(mem, "posting"),
         NEW st \in Status, st \notin {"absent", "posting"},
         st = "submitted" => created[r] > 0,
         created[r] + flight[r] > 0 => st = "submitted",
         mem' = With(mem, r, st)
  PROVE  /\ Forward
         /\ InStatus(mem', "posting") = InStatus(mem, "posting") \ {r}
<1>1. /\ mem.status[r] \in {"pending", "posting"} /\ r \notin mem.completed
      /\ r \in Rids
  BY InStatusDef
<1>2. /\ mem'.completed = mem.completed
      /\ mem'.status = [mem.status EXCEPT ![r] = st]
      /\ mem.status \in [Rids -> Status]
  <2>1. mem \in State
    BY DEF TypeInv, TypeOK
  <2>2. mem.status \in [Rids -> Status]
    BY <2>1 DEF State
  <2> QED
    BY <2>1, <2>2, WithType
<1>3. InStatus(mem', "posting") = InStatus(mem, "posting") \ {r}
  BY <1>1, <1>2 DEF InStatus, Candidates
<1>4. \A q \in Rids : mem'.status[q] = IF q = r THEN st ELSE mem.status[q]
  BY <1>2
<1> QED
  BY <1>1, <1>2, <1>3, <1>4
  DEF PublicationInv, Forward, LedgerMatchesGitHub, CompletedSettled, PostsAreKnown,
      UnresolvedStopsWork, Final

-----------------------------------------------------------------------------
(* One lemma per group of actions *)

\* Reconciling, closing, choosing, fetching, charging and failing an attempt.
LEMMA PublicationStep ==
  ASSUME TypeInv, PublicationInv, StepAction
  PROVE  PublicationInv'
<1> USE DEF github, clone, Saved, SaveFailed, Fault, Return
<1>0. /\ mem \in State /\ disk \in State
      /\ \A r \in Rids : r \in mem.completed => mem.status[r] \in Final
  BY DEF TypeInv, TypeOK, PublicationInv, CompletedSettled
<1>1. CASE Reconcile
  <2>1. PICK r \in Rids : First(r, Unresolved(mem)) /\
           (\/ Fault /\ Return /\ UNCHANGED <<mem, disk>>
            \/ /\ \A i \in issues : i.rid # r
               /\ Return
               /\ UNCHANGED <<mem, disk, faults>>
            \/ /\ \E i \in issues : i.rid = r
               /\ mem' = With(mem, r, "submitted")
               /\ \/ Saved(mem') /\ UNCHANGED pc
                  \/ SaveFailed(mem') /\ Return)
    BY <1>1 DEF Reconcile
  <2>2. /\ pc = "step" /\ pc' \in {"step", "exit", "pause"}
        /\ UNCHANGED <<reply, issues, flight, created>>
    BY <1>1, <2>1 DEF Reconcile
  <2>3. r \in InStatus(mem, "posting") /\ Up /\ NextPlace /\ reply' = "none"
    BY <2>1, <2>2 DEF First, Unresolved, Up, NextPlace, PublicationInv, AnswersAreTrue
  <2>4. CASE UNCHANGED <<mem, disk>>
    BY <2>2, <2>3, <2>4, SameMemory, WorkStep DEF DiskFollows
  <2>5. CASE /\ \E i \in issues : i.rid = r
             /\ mem' = With(mem, r, "submitted")
             /\ disk' \in {disk, mem'}
    <3>1. created[r] > 0
      BY <2>5, ConstantsAssumption DEF PublicationInv, AnswersAreTrue, NoRid
    <3>2. Forward
      BY <2>3, <2>5, <3>1, DecidedMemory DEF Status, Final
    <3> QED
      BY <2>2, <2>3, <2>5, <3>2, WorkStep DEF DiskFollows
  <2> QED
    BY <2>1, <2>4, <2>5
<1>2. CASE CloseSettled
  <2>1. /\ mem' = Finished(mem) /\ disk' \in {disk, mem'}
        /\ pc = "step" /\ pc' \in {"exit", "pause"}
        /\ UNCHANGED <<reply, issues, flight, created>>
        /\ InStatus(mem, "posting") = {} /\ InStatus(mem, "pending") = {}
    BY <1>2 DEF CloseSettled, Unresolved, Settled
  <2>2. Forward
    BY <1>0, <2>1, FinishedSettled, FinishedType
    DEF Forward, PublicationInv, PostsAreKnown, LedgerMatchesGitHub, Up
  <2> QED
    BY <2>1, <2>2, WorkStep
    DEF DiskFollows, NextPlace, Up, PublicationInv, AnswersAreTrue
<1>3. CASE ChooseWork
  <2>1. /\ UNCHANGED <<mem, disk, reply, issues, flight, created>>
        /\ pc = "step" /\ pc' \in {"open", "exit", "pause"}
        /\ InStatus(mem, "posting") = {}
    BY <1>3 DEF ChooseWork, Unresolved
  <2> QED
    BY <2>1, SameMemory, WorkStep
    DEF DiskFollows, NextPlace, Up, PublicationInv, AnswersAreTrue
<1>4. CASE Open
  <2>1. /\ UNCHANGED <<mem, disk, reply, issues, flight, created>>
        /\ pc = "open" /\ pc' \in {"adopt", "exit", "pause"}
    BY <1>4 DEF Open
  <2>2. InStatus(mem, "posting") = {}
    BY <2>1 DEF PublicationInv, UnresolvedStopsWork
  <2> QED
    BY <2>1, <2>2, SameMemory, WorkStep
    DEF DiskFollows, NextPlace, Up, PublicationInv, AnswersAreTrue
<1>5. CASE DiscardScan
  <2> DEFINE s == Stale(mem)
  <2>1. /\ mem' = Finished(s) /\ disk' \in {disk, mem'}
        /\ pc = "adopt" /\ pc' \in {"adopt", "exit", "pause"}
        /\ UNCHANGED <<reply, issues, flight, created>>
    BY <1>5 DEF DiscardScan
  <2>2. InStatus(mem, "posting") = {}
    BY <2>1 DEF PublicationInv, UnresolvedStopsWork
  <2>3. /\ s \in State /\ s.completed = mem.completed
        /\ \A r \in Rids : /\ r \in InStatus(mem, "pending") => s.status[r] = "stale"
                           /\ r \notin InStatus(mem, "pending") => s.status[r] = mem.status[r]
    BY <1>0, StaleType
  <2> HIDE DEF s
  <2>4. \A r \in Rids : r \in InStatus(mem, "pending")
                          => mem.status[r] = "pending" /\ r \notin mem.completed
    BY InStatusDef
  <2>5. /\ InStatus(s, "posting") = {} /\ InStatus(s, "pending") = {}
        /\ \A r \in Rids : r \in s.completed => s.status[r] \in Final
    BY <1>0, <2>2, <2>3, <2>4 DEF InStatus, Candidates
  <2>6. Forward
    <3>1. /\ mem'.status = s.status /\ mem.completed \subseteq mem'.completed
          /\ InStatus(mem', "posting") = {}
          /\ \A r \in Rids : r \in mem'.completed => mem'.status[r] \in Final
      BY <2>1, <2>3, <2>5, FinishedSettled, FinishedType
    <3>2. \A r \in Rids : created[r] + flight[r] > 0 => mem.status[r] \in {"posting", "submitted"}
      BY <2>1 DEF PublicationInv, PostsAreKnown, Up
    <3> QED
      BY <2>3, <2>4, <3>1, <3>2 DEF Forward, PublicationInv, LedgerMatchesGitHub, Final
  <2>7. InStatus(mem', "posting") = {}
    BY <2>1, <2>3, <2>5, FinishedSettled
  <2> QED
    BY <2>1, <2>6, <2>7, WorkStep
    DEF DiskFollows, NextPlace, Up, PublicationInv, AnswersAreTrue
<1>6. CASE NewScan
  <2>1. /\ mem' = WithScan(mem, origin) /\ disk' \in {disk, mem'}
        /\ pc = "adopt" /\ pc' \in {"prepare", "exit", "pause"}
        /\ UNCHANGED <<reply, issues, flight, created>>
    BY <1>6 DEF NewScan
  <2>2. InStatus(mem, "posting") = {}
    BY <2>1 DEF PublicationInv, UnresolvedStopsWork
  <2>3. mem'.status = mem.status /\ mem'.completed = mem.completed
    BY <1>0, <2>1, WithScanType DEF TypeInv, TypeOK
  <2> QED
    BY <2>1, <2>2, <2>3, SameMemory, WorkStep
    DEF DiskFollows, NextPlace, Up, PublicationInv, AnswersAreTrue
<1>7. CASE KeepScan
  <2>1. /\ UNCHANGED <<mem, disk, reply, issues, flight, created>>
        /\ pc = "adopt" /\ pc' = "prepare"
    BY <1>7 DEF KeepScan
  <2>2. InStatus(mem, "posting") = {}
    BY <2>1 DEF PublicationInv, UnresolvedStopsWork
  <2> QED
    BY <2>1, <2>2, SameMemory, WorkStep
    DEF DiskFollows, NextPlace, Up, PublicationInv, AnswersAreTrue
<1>8. CASE Prepare
  <2>1. /\ mem' \in {mem, Charged(mem)} /\ disk' \in {disk, mem'}
        /\ pc = "prepare" /\ pc' \in {"attempt", "exit", "pause"}
        /\ UNCHANGED <<reply, issues, flight, created>>
    BY <1>8 DEF Prepare
  <2>2. InStatus(mem, "posting") = {}
    BY <2>1 DEF PublicationInv, UnresolvedStopsWork
  <2>3. mem'.status = mem.status /\ mem'.completed = mem.completed
    BY <1>0, <2>1, ChargedType
  <2> QED
    BY <2>1, <2>2, <2>3, SameMemory, WorkStep
    DEF DiskFollows, NextPlace, Up, PublicationInv, AnswersAreTrue
<1>9. CASE FailAttempt
  <2>1. /\ mem' = (IF pc = "setup" THEN Refunded(mem) ELSE mem) /\ disk' \in {disk, mem'}
        /\ pc \in {"failed", "setup"} /\ pc' \in {"exit", "pause"}
        /\ UNCHANGED <<reply, issues, flight, created>>
    BY <1>9 DEF FailAttempt
  <2>2. mem'.status = mem.status /\ mem'.completed = mem.completed
    BY <1>0, <2>1, RefundedType DEF TypeInv, ChargedAttempt, InAttempt
  <2> QED
    BY <2>1, <2>2, SameMemory, WorkStep
    DEF DiskFollows, NextPlace, Up, PublicationInv, AnswersAreTrue
<1> QED
  BY <1>1, <1>2, <1>3, <1>4, <1>5, <1>6, <1>7, <1>8, <1>9 DEF StepAction

\* Reading the history, discovery and the loop over candidates.
LEMMA PublicationAttempt ==
  ASSUME TypeInv, PublicationInv, AttemptAction
  PROVE  PublicationInv'
<1> USE DEF github, clone, Saved, SaveFailed, Fault, Return
<1>0. /\ mem \in State /\ disk \in State
      /\ \A r \in Rids : r \in mem.completed => mem.status[r] \in Final
      /\ pc \in {"attempt", "scan", "candidate"} =>
           /\ Up /\ reply = "none"
           /\ InStatus(mem, "posting") = {}
  BY DEF TypeInv, TypeOK, PublicationInv, CompletedSettled, Up, AnswersAreTrue,
         UnresolvedStopsWork
<1>1. CASE ReadHistory
  <2>1. /\ UNCHANGED <<mem, disk, reply, issues, flight, created>>
        /\ pc = "attempt" /\ pc' \in {"failed", "candidate", "scan"}
    BY <1>1 DEF ReadHistory
  <2> QED
    BY <1>0, <2>1, SameMemory, WorkStep DEF DiskFollows, NextPlace
<1>2. CASE Discover
  <2>1. /\ UNCHANGED <<reply, issues, flight, created>>
        /\ pc = "scan" /\ pc' \in {"failed", "setup", "candidate"}
        /\ disk' \in {disk, mem'}
        /\ \/ mem' = mem
           \/ \E F \in SUBSET {r \in Rids : Fresh(r)} : mem' = WithFindings(mem, F)
    BY <1>2 DEF Discover
  <2>2. CASE mem' = mem
    BY <1>0, <2>1, <2>2, SameMemory, WorkStep DEF DiskFollows, NextPlace
  <2>3. ASSUME NEW F \in SUBSET {r \in Rids : Fresh(r)}, mem' = WithFindings(mem, F)
        PROVE  PublicationInv'
    <3>0. F \in SUBSET Rids
      BY <2>3
    <3>1. /\ mem'.completed = mem.completed
          /\ \A r \in Rids : mem'.status[r] = IF r \in F THEN "pending" ELSE mem.status[r]
      <4>1. mem'.status = [r \in Rids |-> IF r \in F THEN "pending" ELSE mem.status[r]]
        BY <1>0, <2>3, <3>0, WithFindingsType
      <4> QED
        BY <1>0, <2>3, <3>0, <4>1, WithFindingsType
    <3>2. \A r \in F : /\ mem.status[r] = "absent" /\ disk.status[r] = "absent"
                      /\ ~(created[r] + flight[r] > 0)
      BY DEF Fresh, PublicationInv, LedgerMatchesGitHub
    <3>3. InStatus(mem', "posting") = {}
      BY <1>0, <2>1, <3>1, <3>2 DEF InStatus, Candidates
    <3>4. \A r \in Rids :
            /\ created[r] + flight[r] > 0 => mem'.status[r] \in {"posting", "submitted"}
            /\ mem'.status[r] = "submitted" => created[r] > 0
      <4>1. \A r \in Rids :
              /\ created[r] + flight[r] > 0 => mem.status[r] \in {"posting", "submitted"}
              /\ mem.status[r] = "submitted" => created[r] > 0
        BY <1>0, <2>1 DEF PublicationInv, PostsAreKnown, LedgerMatchesGitHub
      <4> QED
        BY <3>1, <3>2, <4>1
    <3>5. \A r \in Rids : r \in mem.completed => r \notin F
      BY <1>0, <3>2 DEF Final
    <3>6. Forward
      BY <1>0, <3>1, <3>2, <3>3, <3>4, <3>5 DEF Forward, Final
    <3> QED
      BY <1>0, <2>1, <3>3, <3>6, WorkStep DEF DiskFollows, NextPlace
  <2> QED
    BY <2>1, <2>2, <2>3
<1>3. CASE NextCandidate
  <2>1. /\ UNCHANGED <<mem, disk, reply, issues, flight, created>>
        /\ pc = "candidate" /\ pc' = "refresh"
        /\ cur' \in InStatus(mem, "pending")
    BY <1>3 DEF NextCandidate, First
  <2> QED
    BY <1>0, <2>1, SameMemory, WorkStep DEF DiskFollows, NextPlace
<1>4. CASE FinishScan
  <2>1. /\ mem' = Finished(mem) /\ disk' \in {disk, mem'}
        /\ pc = "candidate" /\ pc' \in {"exit", "pause"}
        /\ UNCHANGED <<reply, issues, flight, created>>
        /\ InStatus(mem, "pending") = {}
    BY <1>4 DEF FinishScan
  <2>2. Forward
    BY <1>0, <2>1, FinishedSettled, FinishedType
    DEF Forward, PublicationInv, PostsAreKnown, LedgerMatchesGitHub
  <2> QED
    BY <1>0, <2>1, <2>2, WorkStep DEF DiskFollows, NextPlace
<1> QED
  BY <1>1, <1>2, <1>3, <1>4 DEF AttemptAction

\* Starting, stopping, crashing and the retry command.
LEMMA PublicationOperator ==
  ASSUME TypeInv, PublicationInv, Wake \/ Exit \/ Operator
  PROVE  PublicationInv'
<1> USE DEF github, clone, Saved, SaveFailed, Fault
<1>0. mem \in State /\ disk \in State
  BY DEF TypeInv, TypeOK
<1>1. CASE Wake
  <2>1. /\ UNCHANGED <<mem, disk, reply, issues, flight, created>>
        /\ pc = "pause" /\ pc' = "step"
    BY <1>1 DEF Wake
  <2> QED
    BY <2>1, SameMemory, WorkStep
    DEF DiskFollows, NextPlace, Up, PublicationInv, AnswersAreTrue
<1>2. CASE Exit \/ Stop \/ Crash
  <2>1. /\ UNCHANGED <<disk, issues, flight, created>>
        /\ pc' = "down" /\ mem' = NewState /\ reply' = "none"
    BY <1>2 DEF Exit, Stop, Crash, Die
  <2>2. /\ \A r \in Rids : mem'.status[r] = "absent"
        /\ mem'.completed = {}
    BY <2>1 DEF NewState
  <2>3. InStatus(mem', "posting") = {} /\ InStatus(disk', "posting") = InStatus(disk, "posting")
    BY <2>1, <2>2 DEF InStatus, Candidates
  <2>4. /\ NoDuplicateIssue' /\ LedgerMatchesGitHub' /\ CompletedSettled'
        /\ MemoryCoversDisk' /\ PostsAreKnown'
    BY <2>1, <2>2 DEF PublicationInv, NoDuplicateIssue, LedgerMatchesGitHub,
                      CompletedSettled, MemoryCoversDisk, PostsAreKnown, Up
  <2>5. PlaceOfCandidate' /\ AnswersAreTrue' /\ UnresolvedStopsWork'
    BY <2>1, <2>3 DEF PublicationInv, PlaceOfCandidate, AnswersAreTrue, UnresolvedStopsWork
  <2> QED
    BY <2>4, <2>5 DEF PublicationInv
<1>3. CASE Start
  <2>1. /\ UNCHANGED <<disk, reply, issues, flight, created>>
        /\ pc' = "step" /\ mem' = disk /\ pc = "down"
    BY <1>3 DEF Start
  <2>2. InStatus(mem', "posting") = InStatus(disk, "posting") /\ disk' = disk
    BY <2>1
  <2>3. /\ NoDuplicateIssue' /\ LedgerMatchesGitHub' /\ CompletedSettled'
        /\ MemoryCoversDisk' /\ PostsAreKnown'
    BY <2>1 DEF PublicationInv, NoDuplicateIssue, LedgerMatchesGitHub,
                CompletedSettled, MemoryCoversDisk, PostsAreKnown, Up
  <2>4. PlaceOfCandidate' /\ AnswersAreTrue' /\ UnresolvedStopsWork'
    BY <2>1, <2>2 DEF PublicationInv, PlaceOfCandidate, AnswersAreTrue, UnresolvedStopsWork
  <2> QED
    BY <2>3, <2>4 DEF PublicationInv
<1>4. CASE RetryCommand
  <2>1. /\ UNCHANGED <<mem, pc, cur, reply, issues, flight, created>>
        /\ disk' \in {disk, Retried(disk)} /\ pc = "down"
    BY <1>4 DEF RetryCommand, locals
  <2>2. disk'.status = disk.status /\ disk'.completed = disk.completed
    BY <1>0, <2>1, RetriedType
  <2>3. InStatus(disk', "posting") = InStatus(disk, "posting")
    BY <2>2 DEF InStatus, Candidates
  <2>4. /\ NoDuplicateIssue' /\ LedgerMatchesGitHub' /\ CompletedSettled'
        /\ MemoryCoversDisk' /\ PostsAreKnown'
    BY <2>1, <2>2 DEF PublicationInv, NoDuplicateIssue, LedgerMatchesGitHub,
                      CompletedSettled, MemoryCoversDisk, PostsAreKnown, Up
  <2>5. PlaceOfCandidate' /\ AnswersAreTrue' /\ UnresolvedStopsWork'
    BY <2>1, <2>3 DEF PublicationInv, PlaceOfCandidate, AnswersAreTrue, UnresolvedStopsWork
  <2> QED
    BY <2>4, <2>5 DEF PublicationInv
<1> QED
  BY <1>1, <1>2, <1>3, <1>4 DEF Operator

\* Review of a candidate, up to the decision to publish it.
LEMMA PublicationReview ==
  ASSUME TypeInv, PublicationInv,
         \/ Refresh \/ ReviewFails \/ ReviewNew \/ ReviewRejects
         \/ VerifySource \/ RereadChanged \/ RereadDryRun
  PROVE  PublicationInv'
<1> USE DEF github, clone, Saved, SaveFailed, Fault, FailHere, Leave, locals
<1>0. /\ mem \in State
      /\ pc \in {"refresh", "review", "verify", "reread"} =>
           /\ Up /\ reply = "none" /\ cur \in Rids
           /\ cur \in InStatus(mem, "pending")
           /\ ~(created[cur] + flight[cur] > 0)
           /\ InStatus(mem, "posting") = {}
  <2>1. ASSUME pc \in {"refresh", "review", "verify", "reread"}
        PROVE  ~(created[cur] + flight[cur] > 0)
    <3>1. cur \in Rids /\ mem.status[cur] = "pending" /\ Up
      BY <2>1, InStatusDef DEF PublicationInv, PlaceOfCandidate, Up
    <3> QED
      BY <3>1 DEF PublicationInv, PostsAreKnown
  <2> QED
    BY <2>1, InStatusDef DEF TypeInv, TypeOK, PublicationInv, Up, AnswersAreTrue,
           UnresolvedStopsWork, PlaceOfCandidate
<1>1. CASE Refresh
  <2>1. /\ UNCHANGED <<mem, disk, reply, issues, flight, created>>
        /\ pc = "refresh"
        /\ pc' = "failed" \/ (pc' \in {"verify", "review"} /\ cur' = cur)
    BY <1>1 DEF Refresh
  <2> QED
    BY <1>0, <2>1, SameMemory, WorkStep DEF DiskFollows, NextPlace
<1>2. CASE ReviewFails
  <2>1. /\ UNCHANGED <<mem, disk, reply, issues, flight, created>>
        /\ pc = "review" /\ pc' \in {"failed", "setup"}
    BY <1>2 DEF ReviewFails
  <2> QED
    BY <1>0, <2>1, SameMemory, WorkStep DEF DiskFollows, NextPlace
<1>3. CASE ReviewNew
  <2>1. PICK c \in todo :
          /\ mem' = Attested(mem, cur, c)
          /\ disk' \in {disk, mem'}
          /\ pc' = "failed" \/ (pc' \in {"refresh", "review"} /\ cur' = cur)
    BY <1>3 DEF ReviewNew
  <2>2. /\ UNCHANGED <<reply, issues, flight, created>> /\ pc = "review"
        /\ c \in SUBSET Issue
    BY <1>3 DEF ReviewNew, TypeInv, TypeOK
  <2>3. mem'.status = mem.status /\ mem'.completed = mem.completed
    BY <1>0, <2>1, <2>2, AttestedType
  <2> QED
    BY <1>0, <2>1, <2>2, <2>3, SameMemory, WorkStep DEF DiskFollows, NextPlace
<1>4. CASE ReviewRejects \/ RereadDryRun
  <2>1. /\ UNCHANGED <<reply, issues, flight, created>>
        /\ pc \in {"review", "reread"} /\ pc' \in {"failed", "candidate"}
        /\ disk' \in {disk, mem'}
    BY <1>4 DEF ReviewRejects, RereadDryRun
  <2>2. PICK st \in Final \ {"submitted"} : mem' = With(mem, cur, st)
    BY <1>4, ConstantsAssumption DEF ReviewRejects, RereadDryRun, Final
  <2>3. st \in Status /\ st \notin {"absent", "pending", "posting", "submitted"}
    BY <2>2 DEF Status, Final
  <2>4. Forward /\ InStatus(mem', "posting") = InStatus(mem, "posting") \ {cur}
    BY <1>0, <2>1, <2>2, <2>3, DecidedMemory
  <2> QED
    BY <1>0, <2>1, <2>4, WorkStep DEF DiskFollows, NextPlace
<1>5. CASE VerifySource \/ RereadChanged
  <2>1. /\ UNCHANGED <<mem, disk, reply, issues, flight, created>>
        /\ pc \in {"verify", "reread"}
        /\ pc' = "failed" \/ (pc' \in {"reread", "refresh"} /\ cur' = cur)
    BY <1>5 DEF VerifySource, RereadChanged
  <2> QED
    BY <1>0, <2>1, SameMemory, WorkStep DEF DiskFollows, NextPlace
<1> QED
  BY <1>1, <1>2, <1>3, <1>4, <1>5

\* The intent reaches the disk before the POST.
LEMMA PublicationIntent ==
  ASSUME TypeInv, PublicationInv, SaveIntent
  PROVE  PublicationInv'
<1> DEFINE s == With(mem, cur, "posting")
<1>1. /\ pc = "reread" /\ UNCHANGED <<reply, issues, flight, created>>
      /\ \/ disk' = s /\ mem' = s /\ pc' = "post" /\ cur' = cur
         \/ disk' \in {disk, s} /\ mem' = mem /\ pc' = "failed"
  BY DEF SaveIntent, IntentSaved, Saved, SaveFailed, FailHere, github, clone
<1>2. /\ cur \in Rids /\ mem.status[cur] = "pending" /\ cur \notin mem.completed
      /\ Up /\ reply = "none" /\ InStatus(mem, "posting") = {}
  BY <1>1, InStatusDef
  DEF PublicationInv, PlaceOfCandidate, UnresolvedStopsWork, AnswersAreTrue, Up
<1>3. ~(created[cur] + flight[cur] > 0)
  BY <1>2 DEF PublicationInv, PostsAreKnown
<1>4. /\ s.completed = mem.completed
      /\ \A r \in Rids : s.status[r] = IF r = cur THEN "posting" ELSE mem.status[r]
  <2>1. mem \in State
    BY DEF TypeInv, TypeOK
  <2>2. mem.status \in [Rids -> Status]
    BY <2>1 DEF State
  <2>3. s.completed = mem.completed /\ s.status = [mem.status EXCEPT ![cur] = "posting"]
    BY <1>2, <2>1, WithType DEF Status
  <2> QED
    BY <1>2, <2>2, <2>3
<1> HIDE DEF s
<1>5. InStatus(s, "posting") = {cur}
  BY <1>2, <1>4 DEF InStatus, Candidates
<1>6. LedgerMatchesGitHub'
  <2>1. \A r \in Rids :
          /\ created[r] + flight[r] > 0 => disk'.status[r] \in {"posting", "submitted"}
          /\ disk'.status[r] = "submitted" \/ mem'.status[r] = "submitted" => created[r] > 0
    BY <1>1, <1>2, <1>3, <1>4 DEF PublicationInv, LedgerMatchesGitHub, PostsAreKnown
  <2> QED
    BY <1>1, <2>1 DEF LedgerMatchesGitHub
<1>7. CompletedSettled' /\ MemoryCoversDisk' /\ PostsAreKnown' /\ NoDuplicateIssue'
  BY <1>1, <1>2, <1>3, <1>4
  DEF PublicationInv, CompletedSettled, MemoryCoversDisk, PostsAreKnown, NoDuplicateIssue,
      Up, Final
<1>8. PlaceOfCandidate' /\ AnswersAreTrue'
  <2>1. created \in [Rids -> Nat] /\ flight \in [Rids -> Nat]
    BY DEF TypeInv, TypeOK
  <2>2. created[cur] + flight[cur] = 0
    BY <1>2, <1>3, <2>1
  <2> QED
    BY <1>1, <1>2, <1>4, <1>5, <2>2 DEF PublicationInv, PlaceOfCandidate, AnswersAreTrue
<1>9. UnresolvedStopsWork'
  BY <1>1, <1>2, <1>5 DEF PublicationInv, UnresolvedStopsWork
<1> QED
  BY <1>6, <1>7, <1>8, <1>9 DEF PublicationInv

\* The POST and what its answer makes of the candidate.
LEMMA PublicationPost ==
  ASSUME TypeInv, PublicationInv,
         Post \/ PostCreated \/ PostRejected \/ PostUnknown
  PROVE  PublicationInv'
<1> USE DEF Saved, SaveFailed, Fault, FailHere, Leave, locals
<1>0. /\ mem \in State
      /\ created \in [Rids -> Nat] /\ flight \in [Rids -> Nat]
      /\ pc \in {"post", "wait"} =>
           /\ Up /\ cur \in Rids
           /\ cur \in InStatus(mem, "posting") /\ InStatus(mem, "posting") = {cur}
           /\ disk.status[cur] = "posting"
  BY DEF TypeInv, TypeOK, PublicationInv, Up, CurrentCandidate, Reviewing,
         UnresolvedStopsWork, PlaceOfCandidate
<1>1. CASE Post
  <2>1. /\ UNCHANGED <<mem, disk, cur, reply, issues, created>>
        /\ pc = "post" /\ pc' = "wait" /\ reply = "none"
        /\ flight' = [flight EXCEPT ![cur] = @ + 1]
    BY <1>1 DEF Post, PublicationInv, AnswersAreTrue
  <2>2. /\ created[cur] = 0 /\ flight[cur] = 0
        /\ \A r \in Rids : flight'[r] = IF r = cur THEN 1 ELSE flight[r]
    BY <1>0, <2>1 DEF PublicationInv, PlaceOfCandidate
  <2>3. mem.status[cur] = "posting"
    BY <1>0, <2>1, InStatusDef
  <2>4. NoDuplicateIssue' /\ LedgerMatchesGitHub' /\ PostsAreKnown'
    BY <1>0, <2>1, <2>2, <2>3
    DEF PublicationInv, NoDuplicateIssue, LedgerMatchesGitHub, PostsAreKnown, Up
  <2>5. CompletedSettled' /\ MemoryCoversDisk' /\ UnresolvedStopsWork'
    BY <2>1 DEF PublicationInv, CompletedSettled, MemoryCoversDisk, UnresolvedStopsWork, Up
  <2>6. PlaceOfCandidate' /\ AnswersAreTrue'
    BY <1>0, <2>1 DEF PublicationInv, PlaceOfCandidate, AnswersAreTrue
  <2> QED
    BY <2>4, <2>5, <2>6 DEF PublicationInv
<1>2. CASE PostCreated
  <2>1. /\ UNCHANGED <<issues, flight, created>> /\ reply' = "none"
        /\ pc = "wait" /\ pc' \in {"failed", "candidate"}
        /\ disk' \in {disk, mem'} /\ mem' = With(mem, cur, "submitted")
        /\ created[cur] > 0
    BY <1>2 DEF PostCreated, Confirmed, github, clone, PublicationInv, AnswersAreTrue
  <2>2. Forward /\ InStatus(mem', "posting") = InStatus(mem, "posting") \ {cur}
    BY <1>0, <2>1, DecidedMemory DEF Status, Final
  <2> QED
    BY <1>0, <2>1, <2>2, WorkStep DEF DiskFollows, NextPlace
<1>3. CASE PostRejected
  <2>1. /\ UNCHANGED <<issues, flight, created>> /\ reply' = "none"
        /\ pc = "wait" /\ pc' = "failed"
        /\ disk' \in {disk, mem'} /\ mem' = With(mem, cur, "pending")
        /\ ~(created[cur] + flight[cur] > 0)
    BY <1>3 DEF PostRejected, Refused, github, clone, PublicationInv, AnswersAreTrue
  <2>2. Forward
    BY <1>0, <2>1, DecidedMemory DEF Status
  <2> QED
    BY <1>0, <2>1, <2>2, WorkStep DEF DiskFollows, NextPlace
<1>4. CASE PostUnknown
  <2>1. /\ UNCHANGED <<mem, disk, issues, flight, created>> /\ reply' = "none"
        /\ pc = "wait" /\ pc' = "failed"
    BY <1>4 DEF PostUnknown, github, clone
  <2> QED
    BY <1>0, <2>1, SameMemory, WorkStep DEF DiskFollows, NextPlace
<1> QED
  BY <1>1, <1>2, <1>3, <1>4

\* GitHub, people, the branch and the clock.
LEMMA PublicationEnvironment ==
  ASSUME TypeInv, PublicationInv, Environment
  PROVE  PublicationInv'
<1>0. /\ mem \in State /\ disk \in State /\ issues \subseteq Issue
      /\ created \in [Rids -> Nat] /\ flight \in [Rids -> Nat]
      /\ pc \in {"post", "wait"} => cur \in Rids
  BY DEF TypeInv, TypeOK, CurrentCandidate, Reviewing
<1>1. CASE TimePasses
  <2>1. /\ UNCHANGED <<pc, cur, reply, issues, flight, created>>
        /\ mem'.status = mem.status /\ mem'.completed = mem.completed
        /\ disk'.status = disk.status /\ disk'.completed = disk.completed
    BY <1>0, <1>1, DueType DEF TimePasses, github, clone, locals
  <2>2. /\ \A st : InStatus(mem', st) = InStatus(mem, st)
        /\ \A st : InStatus(disk', st) = InStatus(disk, st)
    BY <2>1 DEF InStatus, Candidates
  <2>3. /\ NoDuplicateIssue' /\ LedgerMatchesGitHub' /\ CompletedSettled'
        /\ MemoryCoversDisk' /\ PostsAreKnown' /\ AnswersAreTrue'
    BY <2>1 DEF PublicationInv, NoDuplicateIssue, LedgerMatchesGitHub, CompletedSettled,
                MemoryCoversDisk, PostsAreKnown, AnswersAreTrue, Up
  <2>4. PlaceOfCandidate' /\ UnresolvedStopsWork'
    BY <2>1, <2>2 DEF PublicationInv, PlaceOfCandidate, UnresolvedStopsWork
  <2> QED
    BY <2>3, <2>4 DEF PublicationInv
<1>2. CASE HumanFiles \/ HumanEdits \/ HumanDeletes \/ BranchAdvances
  <2>1. /\ UNCHANGED <<pc, mem, disk, cur, reply, flight, created>>
        /\ \/ issues' \subseteq issues
           \/ issues' = issues \union {[number |-> lastNumber + 1, version |-> 0, rid |-> NoRid]}
           \/ \E i \in issues :
                issues' = (issues \ {i}) \union {[i EXCEPT !.version = @ + 1]}
    BY <1>2 DEF HumanFiles, HumanEdits, HumanDeletes, BranchAdvances, github, clone, locals
  <2>2. \A i \in Issue : [i EXCEPT !.version = @ + 1].rid = i.rid
    BY DEF Issue
  <2>3. \A i \in issues' : i.rid # NoRid => created[i.rid] > 0
    <3>1. \A i \in issues : i.rid # NoRid => created[i.rid] > 0
      BY DEF PublicationInv, AnswersAreTrue
    <3>2. CASE issues' \subseteq issues
      BY <2>1, <3>1, <3>2
    <3>3. CASE issues' = issues \union {[number |-> lastNumber + 1, version |-> 0, rid |-> NoRid]}
      BY <2>1, <3>1, <3>3
    <3>4. CASE \E i \in issues :
                 issues' = (issues \ {i}) \union {[i EXCEPT !.version = @ + 1]}
      <4>1. PICK i \in issues :
              issues' = (issues \ {i}) \union {[i EXCEPT !.version = @ + 1]}
        BY <3>4
      <4>2. [i EXCEPT !.version = @ + 1].rid = i.rid
        BY <1>0, <2>2
      <4> QED
        BY <2>1, <3>1, <4>1, <4>2
    <3> QED
      BY <2>1, <3>2, <3>3, <3>4
  <2>4. AnswersAreTrue'
    BY <2>1, <2>3 DEF PublicationInv, AnswersAreTrue
  <2> QED
    BY <2>1, <2>4 DEF PublicationInv, NoDuplicateIssue, LedgerMatchesGitHub, CompletedSettled,
                      MemoryCoversDisk, PostsAreKnown, Up, PlaceOfCandidate,
                      UnresolvedStopsWork
<1>3. ASSUME NEW r \in Rids, GitHubCreates(r) \/ GitHubRefuses(r)
      PROVE  PublicationInv'
  <2>1. /\ UNCHANGED <<pc, mem, disk, cur>>
        /\ flight[r] > 0
        /\ flight' = [flight EXCEPT ![r] = @ - 1]
        /\ \/ /\ created' = [created EXCEPT ![r] = @ + 1]
              /\ reply' = IF pc = "wait" /\ cur = r THEN "created" ELSE reply
              /\ issues' = issues \union {[number |-> lastNumber + 1, version |-> 0, rid |-> r]}
           \/ /\ created' = created
              /\ reply' = IF pc = "wait" /\ cur = r THEN "rejected" ELSE reply
              /\ issues' = issues
    BY <1>3 DEF GitHubCreates, GitHubRefuses, Answer, locals
  <2>2. flight[r] = 1 /\ created[r] = 0
    BY <1>0, <2>1 DEF PublicationInv, NoDuplicateIssue
  <2>3. /\ \A q \in Rids : flight'[q] = IF q = r THEN 0 ELSE flight[q]
        /\ \A q \in Rids : q # r => created'[q] = created[q]
        /\ created'[r] \in {0, 1}
    BY <1>0, <2>1, <2>2
  <2>4. NoDuplicateIssue' /\ LedgerMatchesGitHub' /\ PostsAreKnown'
    BY <1>0, <2>1, <2>2, <2>3
    DEF PublicationInv, NoDuplicateIssue, LedgerMatchesGitHub, PostsAreKnown, Up
  <2>5. CompletedSettled' /\ MemoryCoversDisk' /\ UnresolvedStopsWork'
    BY <2>1 DEF PublicationInv, CompletedSettled, MemoryCoversDisk, UnresolvedStopsWork, Up
  <2>6. PlaceOfCandidate'
    <3>1. pc = "post" => cur # r
      BY <2>2 DEF PublicationInv, PlaceOfCandidate
    <3> QED
      BY <1>0, <2>1, <2>3, <3>1 DEF PublicationInv, PlaceOfCandidate
  <2>7. AnswersAreTrue'
    <3>1. \A i \in issues' : i.rid # NoRid => created'[i.rid] > 0
      BY <1>0, <2>1, <2>2 DEF PublicationInv, AnswersAreTrue, Issue
    <3>2. /\ reply' # "none" => pc = "wait"
          /\ reply' = "created" => created'[cur] > 0
          /\ reply' = "rejected" => created'[cur] + flight'[cur] = 0
      BY <1>0, <2>1, <2>2, <2>3 DEF PublicationInv, AnswersAreTrue
    <3> QED
      BY <2>1, <3>1, <3>2 DEF AnswersAreTrue
  <2> QED
    BY <2>4, <2>5, <2>6, <2>7 DEF PublicationInv
<1> QED
  BY <1>1, <1>2, <1>3 DEF Environment

-----------------------------------------------------------------------------
(* Theorems *)

LEMMA PublicationNext == TypeInv /\ PublicationInv /\ [Next]_vars => PublicationInv'
<1> SUFFICES ASSUME TypeInv, PublicationInv, [Next]_vars PROVE PublicationInv'
  OBVIOUS
<1>1. CASE Next
  <2>1. CASE ReviewAction
    BY <2>1, PublicationReview, PublicationIntent, PublicationPost DEF ReviewAction
  <2> QED
    BY <1>1, <2>1, PublicationStep, PublicationAttempt, PublicationOperator,
       PublicationEnvironment
    DEF Next, Engine
<1>2. CASE UNCHANGED vars
  BY <1>2
  DEF vars, locals, github, clone, ghosts, PublicationInv, NoDuplicateIssue, LedgerMatchesGitHub,
      CompletedSettled, MemoryCoversDisk, PostsAreKnown, AnswersAreTrue, PlaceOfCandidate,
      UnresolvedStopsWork, Up
<1> QED
  BY <1>1, <1>2

\* Types and the publication invariant hold together in every reachable state.
THEOREM Publication == Spec => [](TypeInv /\ PublicationInv)
<1>1. TypeInv /\ [Next]_vars => TypeInv'
  BY TypeNext
<1> QED
  BY <1>1, TypeInit, PublicationInit, PublicationNext, PTL DEF Spec

\* Whatever crashes, lost answers, late deliveries and failed saves happen, no
\* proposal ever has two issues, or an issue and a request on the wire.
THEOREM NoDuplicateIssueCorrect == Spec => []NoDuplicateIssue
  BY Publication, PTL DEF PublicationInv

\* State and GitHub agree on what was, or may have been, filed.
THEOREM LedgerMatchesGitHubCorrect == Spec => []LedgerMatchesGitHub
  BY Publication, PTL DEF PublicationInv

\* Closing a scan never drops a pending or an unresolved candidate.
THEOREM CompletedSettledCorrect == Spec => []CompletedSettled
  BY Publication, PTL DEF PublicationInv

\* At most one POST has an unknown outcome at a time.
THEOREM OneUnresolvedPostCorrect == Spec => []OneUnresolvedPost
<1>1. PublicationInv => OneUnresolvedPost
  <2> SUFFICES ASSUME PublicationInv, NEW s \in {mem, disk}
               PROVE  Cardinality(InStatus(s, "posting")) <= 1
    BY DEF OneUnresolvedPost
  <2>1. \A q, r \in InStatus(s, "posting") : q = r
    BY DEF PublicationInv, UnresolvedStopsWork
  <2>2. CASE InStatus(s, "posting") = {}
    BY <2>2, FS_EmptySet
  <2>3. CASE InStatus(s, "posting") # {}
    <3>1. PICK r : InStatus(s, "posting") = {r}
      BY <2>1, <2>3
    <3> QED
      BY <3>1, FS_Singleton
  <2> QED
    BY <2>2, <2>3
<1> QED
  BY <1>1, Publication, PTL

-----------------------------------------------------------------------------
(* What a step of the engine can do to the disk, and what follows: saved    *)
(* decisions are final, and the engine implements ProposalLedger            *)

\* How a save may move the status of a candidate: it stays, it becomes what
\* memory says, or memory had not decided it yet.
SaveMoves ==
  /\ UNCHANGED created
  /\ \A r \in Rids :
       \/ disk'.status[r] = disk.status[r]
       \/ Up /\ disk'.status[r] = mem.status[r]
       \/ Up /\ mem.status[r] \notin Final /\ disk'.status[r] # "absent"
  /\ \/ disk'.completed = disk.completed
     \/ Up /\ mem.completed \subseteq disk'.completed

\* The other step that matters: GitHub creates an issue.
IssueAppears ==
  /\ UNCHANGED disk
  /\ \E r \in Rids : /\ flight[r] > 0
                     /\ created' = [created EXCEPT ![r] = @ + 1]

\* A new status for a candidate that memory has not decided.
LEMMA WithMoves ==
  ASSUME mem \in State, Up, NEW r \in Rids, mem.status[r] \notin Final,
         NEW st \in Status \ {"absent"},
         disk' \in {disk, With(mem, r, st)}, UNCHANGED created
  PROVE  SaveMoves
<1>1. /\ With(mem, r, st).completed = mem.completed
      /\ With(mem, r, st).status = [mem.status EXCEPT ![r] = st]
  BY WithType
<1>2. mem.status \in [Rids -> Status]
  BY DEF State
<1>3. \A q \in Rids : With(mem, r, st).status[q] = IF q = r THEN st ELSE mem.status[q]
  BY <1>1, <1>2
<1> QED
  BY <1>1, <1>3 DEF SaveMoves

\* Saving memory with its statuses unchanged.
LEMMA SameMoves ==
  ASSUME Up, UNCHANGED created, NEW s, s.status = mem.status,
         mem.completed \subseteq s.completed, disk' \in {disk, s}
  PROVE  SaveMoves
  BY DEF SaveMoves

\* The statuses a step may find undecided.
LEMMA Undecided ==
  ASSUME NEW r \in Rids, NEW st \in {"pending", "posting"}, r \in InStatus(mem, st)
  PROVE  mem.status[r] \notin Final
  BY InStatusDef DEF Final

LEMMA StepMoves ==
  ASSUME TypeInv, PublicationInv, StepAction
  PROVE  SaveMoves
<1> USE DEF github, clone, Saved, SaveFailed, Fault, Return
<1>0. mem \in State
  BY DEF TypeInv, TypeOK
<1>1. CASE Reconcile
  <2>1. PICK r \in Rids : /\ First(r, Unresolved(mem))
                          /\ disk' \in {disk, With(mem, r, "submitted")}
    BY <1>1 DEF Reconcile
  <2>2. mem.status[r] \notin Final /\ Up /\ UNCHANGED created
    BY <1>1, <2>1, Undecided DEF Reconcile, First, Unresolved, Up
  <2> QED
    BY <1>0, <2>1, <2>2, WithMoves DEF Status, Final
<1>2. CASE CloseSettled
  <2>1. disk' \in {disk, Finished(mem)} /\ Up /\ UNCHANGED created
    BY <1>2 DEF CloseSettled, Up
  <2> QED
    BY <1>0, <2>1, FinishedType, SameMoves
<1>3. CASE ChooseWork \/ Open \/ KeepScan
  BY <1>3 DEF ChooseWork, Open, KeepScan, SaveMoves
<1>4. CASE DiscardScan
  <2>1. disk' \in {disk, Finished(Stale(mem))} /\ Up /\ UNCHANGED created
    BY <1>4 DEF DiscardScan, Up
  <2>2. /\ Finished(Stale(mem)).status = Stale(mem).status
        /\ mem.completed \subseteq Finished(Stale(mem)).completed
    BY <1>0, StaleType, FinishedType
  <2>3. \A r \in Rids :
          \/ Stale(mem).status[r] = mem.status[r]
          \/ mem.status[r] \notin Final /\ Stale(mem).status[r] # "absent"
    BY <1>0, StaleType, Undecided
  <2> QED
    BY <2>1, <2>2, <2>3 DEF SaveMoves
<1>5. CASE NewScan
  <2>1. disk' \in {disk, WithScan(mem, origin)} /\ Up /\ UNCHANGED created
    BY <1>5 DEF NewScan, Up
  <2>2. origin \in Nat
    BY DEF TypeInv, TypeOK
  <2> QED
    BY <1>0, <2>1, <2>2, WithScanType, SameMoves
<1>6. CASE Prepare
  <2>1. disk' \in {disk, Charged(mem)} /\ Up /\ UNCHANGED created
    BY <1>6 DEF Prepare, Up
  <2> QED
    BY <1>0, <2>1, ChargedType, SameMoves
<1>7. CASE FailAttempt
  <2>1. /\ disk' \in {disk, mem'} /\ Up /\ UNCHANGED created
        /\ mem' = IF pc = "setup" THEN Refunded(mem) ELSE mem
    BY <1>7 DEF FailAttempt, Up
  <2>2. mem'.status = mem.status /\ mem'.completed = mem.completed
    BY <1>0, <2>1, RefundedType DEF TypeInv, ChargedAttempt, InAttempt
  <2> QED
    BY <2>1, <2>2 DEF SaveMoves
<1> QED
  BY <1>1, <1>2, <1>3, <1>4, <1>5, <1>6, <1>7 DEF StepAction

LEMMA AttemptMoves ==
  ASSUME TypeInv, PublicationInv, AttemptAction
  PROVE  SaveMoves
<1> USE DEF github, clone, Saved, SaveFailed, Fault, Return
<1>0. mem \in State
  BY DEF TypeInv, TypeOK
<1>1. CASE ReadHistory \/ NextCandidate
  BY <1>1 DEF ReadHistory, NextCandidate, SaveMoves
<1>2. CASE Discover
  <2>1. CASE UNCHANGED disk
    BY <1>2, <2>1 DEF Discover, SaveMoves
  <2>2. CASE \E F \in SUBSET {r \in Rids : Fresh(r)} : disk' = WithFindings(mem, F)
    <3>1. PICK F \in SUBSET {r \in Rids : Fresh(r)} : disk' = WithFindings(mem, F)
      BY <2>2
    <3>2. F \in SUBSET Rids /\ \A r \in F : mem.status[r] \notin Final
      BY DEF Fresh, Final
    <3>3. /\ disk'.completed = mem.completed
          /\ disk'.status = [r \in Rids |-> IF r \in F THEN "pending" ELSE mem.status[r]]
      BY <1>0, <3>1, <3>2, WithFindingsType
    <3>4. Up /\ UNCHANGED created
      BY <1>2 DEF Discover, Up
    <3> QED
      BY <3>2, <3>3, <3>4 DEF SaveMoves
  <2> QED
    BY <1>2, <2>1, <2>2 DEF Discover
<1>3. CASE FinishScan
  <2>1. disk' \in {disk, Finished(mem)} /\ Up /\ UNCHANGED created
    BY <1>3 DEF FinishScan, Up
  <2> QED
    BY <1>0, <2>1, FinishedType, SameMoves
<1> QED
  BY <1>1, <1>2, <1>3 DEF AttemptAction

LEMMA ReviewMoves ==
  ASSUME TypeInv, PublicationInv, ReviewAction
  PROVE  SaveMoves
<1> USE DEF github, clone, Saved, SaveFailed, Fault, FailHere, Leave
<1>0. /\ mem \in State
      /\ pc \in Reviewing => Up /\ cur \in Rids /\ mem.status[cur] \notin Final
  BY Undecided DEF TypeInv, TypeOK, CurrentCandidate, Reviewing, PublicationInv,
                   PlaceOfCandidate, Up
<1>1. CASE Refresh \/ ReviewFails \/ VerifySource \/ RereadChanged \/ Post \/ PostUnknown
  BY <1>1 DEF Refresh, ReviewFails, VerifySource, RereadChanged, Post, PostUnknown,
              SaveMoves
<1>2. CASE ReviewNew
  <2>1. PICK c \in todo : disk' \in {disk, Attested(mem, cur, c)}
    BY <1>2 DEF ReviewNew
  <2>2. c \in SUBSET Issue /\ pc = "review" /\ UNCHANGED created
    BY <1>2 DEF ReviewNew, TypeInv, TypeOK
  <2>3. /\ Attested(mem, cur, c).status = mem.status
        /\ Attested(mem, cur, c).completed = mem.completed
    BY <1>0, <2>2, AttestedType DEF Reviewing
  <2> QED
    BY <1>0, <2>1, <2>2, <2>3 DEF SaveMoves, Reviewing
<1>3. CASE ReviewRejects
  <2>1. /\ pc = "review" /\ UNCHANGED created
        /\ \E v \in Verdicts : disk' \in {disk, With(mem, cur, v)}
    BY <1>3 DEF ReviewRejects
  <2>2. Verdicts \subseteq Status \ {"absent"}
    BY ConstantsAssumption DEF Status, Final
  <2> QED
    BY <1>0, <2>1, <2>2, WithMoves DEF Reviewing
<1>4. CASE RereadDryRun \/ SaveIntent \/ PostCreated \/ PostRejected
  <2>1. /\ pc \in Reviewing /\ UNCHANGED created
        /\ \E v \in {"dry_run", "posting", "submitted", "pending"} :
             disk' \in {disk, With(mem, cur, v)}
    BY <1>4 DEF RereadDryRun, SaveIntent, IntentSaved, PostCreated, PostRejected, Reviewing
  <2>2. {"dry_run", "posting", "submitted", "pending"} \subseteq Status \ {"absent"}
    BY DEF Status, Final
  <2> QED
    BY <1>0, <2>1, <2>2, WithMoves
<1> QED
  BY <1>1, <1>2, <1>3, <1>4 DEF ReviewAction

LEMMA OtherMoves ==
  ASSUME TypeInv, PublicationInv,
         Wake \/ Exit \/ Operator \/ Environment \/ UNCHANGED vars
  PROVE  SaveMoves \/ IssueAppears
<1>0. mem \in State /\ disk \in State
  BY DEF TypeInv, TypeOK
<1>1. CASE Wake \/ Exit \/ Start \/ Stop \/ Crash \/ UNCHANGED vars
  BY <1>1 DEF Wake, Exit, Start, Stop, Crash, Die, vars, github, clone, SaveMoves
<1>2. CASE RetryCommand
  <2>1. disk' \in {disk, Retried(disk)} /\ UNCHANGED created
    BY <1>2 DEF RetryCommand, Saved, SaveFailed, github, clone
  <2> QED
    BY <1>0, <2>1, RetriedType DEF SaveMoves
<1>3. CASE TimePasses
  <2>1. disk' = Due(disk) /\ UNCHANGED created
    BY <1>3 DEF TimePasses, github, clone
  <2> QED
    BY <1>0, <2>1, DueType DEF SaveMoves
<1>4. CASE HumanFiles \/ HumanEdits \/ HumanDeletes \/ BranchAdvances
  BY <1>4 DEF HumanFiles, HumanEdits, HumanDeletes, BranchAdvances, github, clone, SaveMoves
<1>5. ASSUME NEW r \in Rids, GitHubCreates(r)
      PROVE  IssueAppears
  BY <1>5 DEF GitHubCreates, IssueAppears
<1>6. ASSUME NEW r \in Rids, GitHubRefuses(r)
      PROVE  SaveMoves
  BY <1>6 DEF GitHubRefuses, SaveMoves
<1> QED
  BY <1>1, <1>2, <1>3, <1>4, <1>5, <1>6 DEF Operator, Environment

\* Every step is one of the two.
LEMMA EveryStep ==
  ASSUME TypeInv, PublicationInv, [Next]_vars
  PROVE  SaveMoves \/ IssueAppears
  BY StepMoves, AttemptMoves, ReviewMoves, OtherMoves DEF Next, Engine

-----------------------------------------------------------------------------
(* Theorems *)

\* What one step does to the saved decisions.
LEMMA DecisionsStep ==
  ASSUME PublicationInv, SaveMoves \/ IssueAppears, NEW r \in Rids
  PROVE  /\ disk.status[r] \in Final => disk'.status[r] = disk.status[r]
         /\ r \in disk.completed => r \in disk'.completed
         /\ disk.status[r] # "absent" => disk'.status[r] # "absent"
  BY DEF PublicationInv, MemoryCoversDisk, SaveMoves, IssueAppears

\* A saved decision is never taken back: not by a crash that loses memory, not
\* by a save that fails half way, not by the retry command.
THEOREM DecisionsAreFinalCorrect == Spec => DecisionsAreFinal
<1>1. TypeInv /\ PublicationInv /\ [Next]_vars
      => [\A r \in Rids :
            /\ disk.status[r] \in Final => disk'.status[r] = disk.status[r]
            /\ r \in disk.completed => r \in disk'.completed
            /\ disk.status[r] # "absent" => disk'.status[r] # "absent"]_vars
  BY EveryStep, DecisionsStep
<1> QED
  BY <1>1, Publication, PTL DEF DecisionsAreFinal, Spec

\* The engine starts in a state of the ledger.
LEMMA LedgerInit == Init => Ledger!Init
  BY DEF Init, NewState, Ledger!Init

\* Every step of the engine is a step of the ledger or leaves it alone.
LEMMA LedgerNext ==
  ASSUME TypeInv, TypeInv', PublicationInv, PublicationInv', [Next]_vars
  PROVE  [Ledger!Next]_(Ledger!vars)
<1>0. /\ disk.status \in [Rids -> Status] /\ disk'.status \in [Rids -> Status]
      /\ created \in [Rids -> Nat] /\ flight \in [Rids -> Nat]
      /\ flight' \in [Rids -> Nat]
  BY DEF TypeInv, TypeOK, State
<1>1. CASE SaveMoves
  <2>1. UNCHANGED created
    BY <1>1 DEF SaveMoves
  <2>2. ASSUME NEW r \in Rids
        PROVE  Ledger!MayBecome(r, disk'.status[r])
    <3>1. /\ disk.status[r] \in Final => disk'.status[r] = disk.status[r]
          /\ disk.status[r] # "absent" => disk'.status[r] # "absent"
      BY <1>1, DecisionsStep
    <3>2. /\ disk'.status[r] = "submitted" => created[r] > 0
          /\ created[r] > 0 => /\ disk.status[r] \in {"posting", "submitted"}
                              /\ disk'.status[r] \in {"posting", "submitted"}
          /\ created[r] <= 1
      <4>1. /\ created[r] \in Nat /\ flight[r] \in Nat /\ flight'[r] \in Nat
            /\ created'[r] = created[r]
        BY <1>0, <2>1
      <4>2. /\ created[r] + flight[r] > 0 => disk.status[r] \in {"posting", "submitted"}
            /\ created[r] + flight[r] <= 1
        BY DEF PublicationInv, LedgerMatchesGitHub, NoDuplicateIssue
      <4>3. /\ created'[r] + flight'[r] > 0 => disk'.status[r] \in {"posting", "submitted"}
            /\ disk'.status[r] = "submitted" => created'[r] > 0
        BY DEF PublicationInv, LedgerMatchesGitHub
      <4> QED
        BY <4>1, <4>2, <4>3
    <3>3. disk.status[r] \in Status /\ disk'.status[r] \in Status /\ created[r] \in Nat
      BY <1>0
    <3>4. CASE created[r] = 0
      BY <3>1, <3>2, <3>3, <3>4
      DEF Ledger!MayBecome, Ledger!Status, Ledger!Final, Status, Final
    <3>5. CASE created[r] = 1
      BY <3>1, <3>2, <3>3, <3>5
      DEF Ledger!MayBecome, Ledger!Status, Ledger!Final, Status, Final
    <3> QED
      BY <3>2, <3>3, <3>4, <3>5
  <2>3. Ledger!Record
    BY <1>0, <2>1, <2>2 DEF Ledger!Record, Ledger!Status, Ledger!Final, Status, Final
  <2> QED
    BY <2>3 DEF Ledger!Next
<1>2. CASE IssueAppears
  <2>1. PICK r \in Rids : flight[r] > 0 /\ created' = [created EXCEPT ![r] = @ + 1]
    BY <1>2 DEF IssueAppears
  <2>2. created[r] \in Nat /\ flight[r] \in Nat
    BY <1>0
  <2>3. /\ created[r] + flight[r] <= 1
        /\ created[r] + flight[r] > 0 => disk.status[r] \in {"posting", "submitted"}
        /\ disk.status[r] = "submitted" => created[r] > 0
    BY DEF PublicationInv, NoDuplicateIssue, LedgerMatchesGitHub
  <2>4. created[r] = 0 /\ disk.status[r] = "posting"
    BY <2>1, <2>2, <2>3
  <2>5. created' = [created EXCEPT ![r] = 1]
    BY <2>1, <2>4
  <2>6. UNCHANGED disk.status
    BY <1>2 DEF IssueAppears
  <2>7. Ledger!File(r)
    BY <2>4, <2>5, <2>6 DEF Ledger!File
  <2> QED
    BY <2>7 DEF Ledger!Next
<1> QED
  BY <1>1, <1>2, EveryStep

\* The engine, with its agents, reviews, failed saves, crashes and late answers,
\* implements the ledger it promises.
THEOREM EngineImplementsLedger == Spec => LedgerSpec
<1>1. TypeInv /\ TypeInv' /\ PublicationInv /\ PublicationInv' /\ [Next]_vars
      => [Ledger!Next]_(Ledger!vars)
  BY LedgerNext
<1> QED
  BY <1>1, LedgerInit, Publication, PTL DEF LedgerSpec, Ledger!Spec, Spec

-----------------------------------------------------------------------------
(* The tries, the commit and the checkpoints of a saved state *)

\* Only a charge, a refund, a retry and the end or the beginning of a scan
\* change its tries or its commit.
LEMMA ChargedScan ==
  ASSUME NEW s \in State
  PROVE  Charged(s).scan.tries = s.scan.tries + 1
<1> DEFINE t == s.scan.tries + 1
<1>1. Charged(s) = [s EXCEPT !.scan.tries = t, !.scan.retryDue = FALSE]
  BY DEF Charged
<1> HIDE DEF t
<1>2. Charged(s).scan.tries = t
  BY <1>1 DEF State, Scan
<1> QED
  BY <1>2 DEF t

LEMMA RefundedScan ==
  ASSUME NEW s \in State
  PROVE  /\ Refunded(s).scan.tries = s.scan.tries - 1
         /\ Refunded(s).scan.commit = s.scan.commit
<1> DEFINE t == s.scan.tries - 1
<1>1. Refunded(s) = [s EXCEPT !.scan.tries = t]
  BY DEF Refunded
<1> HIDE DEF t
<1>2. Refunded(s).scan.tries = t /\ Refunded(s).scan.commit = s.scan.commit
  BY <1>1 DEF State, Scan
<1> QED
  BY <1>2 DEF t

LEMMA ScanOf ==
  ASSUME NEW s \in State
  PROVE  /\ Retried(s).scan.tries = 0
         /\ Retried(s).scan.commit = s.scan.commit
         /\ \A commit : WithScan(s, commit).scan.tries = 0
         /\ \A F : WithFindings(s, F).scan.commit = s.scan.commit
  BY DEF Retried, WithScan, WithFindings, State, Scan, NoScan

\* Checkpoints are written by Attested and dropped with new findings only.
LEMMA BatchesOf ==
  ASSUME NEW s \in State
  PROVE  /\ \A r, st : With(s, r, st).batches = s.batches
         /\ \A commit : WithScan(s, commit).batches = s.batches
         /\ \A F : WithFindings(s, F).batches
                     = [r \in Rids |-> IF r \in F THEN {} ELSE s.batches[r]]
         /\ \A r, c : Attested(s, r, c).batches
                        = [s.batches EXCEPT ![r] = @ \union {c}]
         /\ Finished(s).batches = s.batches
         /\ Stale(s).batches = s.batches
         /\ Due(s).batches = s.batches
         /\ Retried(s).batches = s.batches
         /\ Charged(s).batches = s.batches
         /\ Refunded(s).batches = s.batches
<1>1. /\ \A r, st : With(s, r, st).batches = s.batches
      /\ \A commit : WithScan(s, commit).batches = s.batches
      /\ Finished(s).batches = s.batches
      /\ Stale(s).batches = s.batches
  BY DEF State, With, WithScan, Finished, Stale
<1>2. /\ Due(s).batches = s.batches
      /\ Retried(s).batches = s.batches
      /\ Charged(s).batches = s.batches
      /\ Refunded(s).batches = s.batches
  BY DEF State, Due, Retried, Charged, Refunded
<1>3. \A F : WithFindings(s, F).batches
               = [r \in Rids |-> IF r \in F THEN {} ELSE s.batches[r]]
  BY DEF State, WithFindings
<1>4. \A r, c : Attested(s, r, c).batches = [s.batches EXCEPT ![r] = @ \union {c}]
  BY DEF State, Attested
<1> QED
  BY <1>1, <1>2, <1>3, <1>4

-----------------------------------------------------------------------------
(* The attempt budget *)

LEMMA BudgetInit == Init => BudgetInv
  BY ConstantsAssumption
  DEF Init, BudgetInv, AttemptsWithinBudget, HasScan, NewState, NoScan

\* Steps that make no attempt and give no refund: each saved state keeps its
\* commit and tries, takes them from the other, or is left without a scan.
ScanFrom(new, s) ==
  \/ ~HasScan(new)
  \/ new.scan.commit = s.scan.commit /\ new.scan.tries = s.scan.tries

LEMMA BudgetKept ==
  ASSUME BudgetInv, spent' = spent,
         ScanFrom(mem', mem) \/ ScanFrom(mem', disk),
         ScanFrom(disk', mem) \/ ScanFrom(disk', disk),
         pc' \in {"open", "adopt"} /\ HasScan(mem') => mem'.scan.tries < Attempts,
         pc' = "prepare" => mem'.scan.tries < Attempts /\ spent <= mem'.scan.tries
  PROVE  BudgetInv'
<1>1. \A s \in {mem', disk'} : HasScan(s) => spent <= s.scan.tries
  BY DEF BudgetInv, ScanFrom, HasScan
<1> QED
  BY <1>1 DEF BudgetInv, AttemptsWithinBudget, HasScan

\* Only NewScan, Prepare and FailAttempt touch what an attempt has cost.
LEMMA BudgetStep ==
  ASSUME TypeInv, BudgetInv, StepAction
  PROVE  BudgetInv'
<1> USE DEF clone, ghosts, Saved, SaveFailed, Fault, Return
<1>0. /\ mem \in State /\ disk \in State /\ spent \in Int
      /\ mem.scan.tries \in Nat /\ disk.scan.tries \in Nat
  BY DEF TypeInv, TypeOK, State, Scan
<1>1. CASE Reconcile
  <2>1. PICK r \in Rids :
          /\ mem' = mem \/ mem' = With(mem, r, "submitted")
          /\ disk' \in {disk, mem'}
    BY <1>1 DEF Reconcile
  <2>2. pc' \in {"step", "exit", "pause"} /\ spent' = spent
    BY <1>1 DEF Reconcile
  <2>3. "submitted" \in Status
    BY DEF Status, Final
  <2>4. With(mem, r, "submitted").scan = mem.scan
    BY <1>0, <2>3, WithType
  <2>5. mem'.scan = mem.scan
    BY <2>1, <2>4
  <2> QED
    BY <2>1, <2>2, <2>5, BudgetKept DEF ScanFrom
<1>2. CASE CloseSettled
  <2>1. /\ mem'.scan = NoScan /\ disk' \in {disk, mem'}
        /\ pc' \in {"exit", "pause"} /\ spent' = spent
    BY <1>0, <1>2, FinishedType DEF CloseSettled
  <2> QED
    BY <2>1, BudgetKept DEF ScanFrom, HasScan, NoScan
<1>3. CASE ChooseWork
  <2>1. /\ UNCHANGED <<mem, disk, spent>>
        /\ \/ pc' = "open" /\ Eligible
           \/ pc' \in {"exit", "pause"}
    BY <1>3 DEF ChooseWork
  <2> QED
    BY <2>1, BudgetKept DEF ScanFrom, Eligible
<1>4. CASE Open
  <2>1. /\ UNCHANGED <<mem, disk, spent>>
        /\ pc = "open" /\ pc' \in {"adopt", "exit", "pause"}
    BY <1>4 DEF Open
  <2> QED
    BY <2>1, BudgetKept DEF ScanFrom, BudgetInv
<1>5. CASE DiscardScan
  <2>1. mem'.scan = NoScan
    BY <1>0, <1>5, StaleType, FinishedType DEF DiscardScan
  <2>2. disk' \in {disk, mem'} /\ pc' \in {"adopt", "exit", "pause"} /\ spent' = spent
    BY <1>5 DEF DiscardScan
  <2> QED
    BY <2>1, <2>2, BudgetKept DEF ScanFrom, HasScan, NoScan
<1>6. CASE NewScan
  <2>1. /\ mem' = WithScan(mem, origin) /\ disk' \in {disk, mem'} /\ spent' = 0
        /\ pc' \in {"prepare", "exit", "pause"}
    BY <1>6 DEF NewScan
  <2>2. mem'.scan.tries = 0
    BY <1>0, <2>1, ScanOf
  <2> QED
    BY <1>0, <2>1, <2>2, ConstantsAssumption DEF BudgetInv, AttemptsWithinBudget
<1>7. CASE KeepScan
  <2>1. /\ UNCHANGED <<mem, disk, spent>>
        /\ pc = "adopt" /\ HasScan(mem) /\ pc' = "prepare"
    BY <1>7 DEF KeepScan
  <2> QED
    BY <2>1, BudgetKept DEF ScanFrom, BudgetInv
<1>8. CASE Prepare
  <2>1. pc = "prepare" /\ mem.scan.tries < Attempts /\ spent <= mem.scan.tries
    BY <1>8 DEF Prepare, BudgetInv
  <2>2. /\ pc' \in {"attempt", "exit", "pause"}
        /\ disk' \in {disk, mem'}
        /\ \/ UNCHANGED <<mem, spent>>
           \/ /\ mem' = Charged(mem)
              /\ \/ disk' = mem' /\ spent' = spent + 1
                 \/ spent' = spent
    BY <1>8 DEF Prepare
  <2>3. CASE UNCHANGED <<mem, spent>>
    BY <2>2, <2>3, BudgetKept DEF ScanFrom
  <2>4. CASE mem' = Charged(mem)
    <3>1. mem'.scan.tries = mem.scan.tries + 1
      BY <1>0, <2>4, ChargedScan
    <3>2. \A s \in {mem', disk'} : HasScan(s) => spent' <= s.scan.tries
      BY <1>0, <2>1, <2>2, <3>1 DEF BudgetInv
    <3>3. spent' <= Attempts
      BY <1>0, <2>1, <2>2, ConstantsAssumption
    <3> QED
      BY <2>2, <3>2, <3>3 DEF BudgetInv, AttemptsWithinBudget
  <2> QED
    BY <2>2, <2>3, <2>4
<1>9. CASE FailAttempt
  <2>1. /\ pc' \in {"exit", "pause"} /\ disk' \in {disk, mem'}
        /\ \/ UNCHANGED <<mem, spent>>
           \/ mem' = Refunded(mem) /\ spent' = spent - 1
    BY <1>9 DEF FailAttempt
  <2>2. CASE UNCHANGED <<mem, spent>>
    BY <2>1, <2>2, BudgetKept DEF ScanFrom
  <2>3. CASE mem' = Refunded(mem) /\ spent' = spent - 1
    <3>1. /\ mem'.scan.tries = mem.scan.tries - 1
          /\ HasScan(mem') => HasScan(mem)
      BY <1>0, <2>3, RefundedScan DEF HasScan
    <3>2. \A s \in {mem', disk'} : HasScan(s) => spent' <= s.scan.tries
      BY <1>0, <2>1, <2>3, <3>1 DEF BudgetInv
    <3>3. spent' <= Attempts
      BY <1>0, <2>3, ConstantsAssumption DEF BudgetInv, AttemptsWithinBudget
    <3> QED
      BY <2>1, <3>2, <3>3 DEF BudgetInv, AttemptsWithinBudget
  <2> QED
    BY <2>1, <2>2, <2>3
<1> QED
  BY <1>1, <1>2, <1>3, <1>4, <1>5, <1>6, <1>7, <1>8, <1>9 DEF StepAction

\* Inside an attempt, and in the services, nothing is charged.
LEMMA BudgetElsewhere ==
  ASSUME TypeInv, BudgetInv,
         AttemptAction \/ ReviewAction \/ Wake \/ Exit \/ Environment
  PROVE  BudgetInv'
<1> USE DEF clone, ghosts, Saved, SaveFailed, Fault, Return, FailHere
<1>0. /\ mem \in State /\ disk \in State
      /\ todo \subseteq SUBSET Issue
      /\ pc \in Reviewing => cur \in Rids
  BY DEF TypeInv, TypeOK, CurrentCandidate
<1>1. CASE AttemptAction
  <2>1. pc' \notin {"open", "adopt", "prepare"} /\ spent' = spent
    BY <1>1 DEF AttemptAction, ReadHistory, Discover, NextCandidate, FinishScan
  <2>2. disk' \in {disk, mem'} /\ ScanFrom(mem', mem)
    <3>1. CASE ReadHistory \/ NextCandidate
      BY <3>1 DEF ReadHistory, NextCandidate, ScanFrom
    <3>2. CASE Discover
      <4>1. /\ disk' \in {disk, mem'}
            /\ \/ mem' = mem
               \/ \E F \in SUBSET Rids : mem' = WithFindings(mem, F)
        BY <3>2 DEF Discover
      <4>2. \A F \in SUBSET Rids : ScanFrom(WithFindings(mem, F), mem)
        BY <1>0, WithFindingsType, ScanOf DEF ScanFrom
      <4> QED
        BY <4>1, <4>2 DEF ScanFrom
    <3>3. CASE FinishScan
      BY <1>0, <3>3, FinishedType DEF FinishScan, ScanFrom, HasScan, NoScan
    <3> QED
      BY <1>1, <3>1, <3>2, <3>3 DEF AttemptAction
  <2> QED
    BY <2>1, <2>2, BudgetKept DEF ScanFrom
<1>2. CASE ReviewAction
  <2>1. pc' \notin {"open", "adopt", "prepare"} /\ spent' = spent
    BY <1>2 DEF ReviewAction, Refresh, ReviewFails, ReviewNew, ReviewRejects, VerifySource,
       RereadChanged, RereadDryRun, SaveIntent, Post, PostCreated, PostRejected, PostUnknown
  <2>2. CASE Refresh \/ ReviewFails \/ VerifySource \/ RereadChanged \/ Post \/ PostUnknown
    <3>1. UNCHANGED <<mem, disk>>
      BY <2>2 DEF Refresh, ReviewFails, VerifySource, RereadChanged, Post, PostUnknown
    <3> QED
      BY <2>1, <3>1, BudgetKept DEF ScanFrom
  <2>3. CASE ReviewNew
    <3>1. PICK c \in todo : mem' = Attested(mem, cur, c) /\ disk' \in {disk, mem'}
      BY <2>3 DEF ReviewNew
    <3>2. c \in SUBSET Issue /\ cur \in Rids
      BY <1>0, <2>3 DEF ReviewNew, Reviewing
    <3>3. mem'.scan = mem.scan
      BY <1>0, <3>1, <3>2, AttestedType
    <3> QED
      BY <2>1, <3>1, <3>3, BudgetKept DEF ScanFrom
  <2>4. CASE ReviewRejects \/ RereadDryRun \/ SaveIntent \/ PostCreated \/ PostRejected
    <3>1. PICK st \in Status :
            mem' \in {mem, With(mem, cur, st)} /\ disk' \in {disk, With(mem, cur, st)}
      BY <2>4, ConstantsAssumption
      DEF ReviewRejects, RereadDryRun, SaveIntent, IntentSaved, PostCreated, PostRejected,
          Status, Final
    <3>2. cur \in Rids
      BY <1>0, <2>4
      DEF ReviewRejects, RereadDryRun, SaveIntent, PostCreated, PostRejected, Reviewing
    <3>3. With(mem, cur, st).scan = mem.scan
      BY <1>0, <3>2, WithType
    <3> QED
      BY <2>1, <3>1, <3>3, BudgetKept DEF ScanFrom
  <2> QED
    BY <1>2, <2>2, <2>3, <2>4 DEF ReviewAction
<1>3. CASE Wake \/ Exit
  <2>1. /\ disk' = disk /\ spent' = spent /\ pc' \in {"step", "down"}
        /\ mem' \in {mem, NewState}
    BY <1>3 DEF Wake, Exit, Die
  <2> QED
    BY <2>1, BudgetKept DEF ScanFrom, HasScan, NewState, NoScan
<1>4. CASE Environment
  <2>1. spent' = spent /\ pc' = pc
    BY <1>4 DEF Environment, TimePasses, HumanFiles, HumanEdits, HumanDeletes,
                BranchAdvances, GitHubCreates, GitHubRefuses
  <2>2. \/ UNCHANGED <<mem, disk>>
        \/ mem' = Due(mem) /\ disk' = Due(disk)
    BY <1>4 DEF Environment, TimePasses, HumanFiles, HumanEdits, HumanDeletes,
                BranchAdvances, GitHubCreates, GitHubRefuses
  <2>3. /\ mem'.scan.commit = mem.scan.commit /\ mem'.scan.tries = mem.scan.tries
        /\ disk'.scan.commit = disk.scan.commit /\ disk'.scan.tries = disk.scan.tries
    BY <1>0, <2>2, DueType
  <2> QED
    BY <2>1, <2>3, BudgetKept DEF ScanFrom, HasScan, BudgetInv
<1> QED
  BY <1>1, <1>2, <1>3, <1>4

\* A restart takes over what the disk says of the scan; the retry command
\* gives a new budget only when it reaches the disk.
LEMMA BudgetOperator ==
  ASSUME TypeInv, BudgetInv, Operator
  PROVE  BudgetInv'
<1> USE DEF ghosts, Saved, SaveFailed, Fault
<1>1. CASE Start
  BY <1>1, BudgetKept DEF Start, ScanFrom
<1>2. CASE Stop \/ Crash
  <2>1. disk' = disk /\ spent' = spent /\ pc' = "down" /\ mem' = NewState
    BY <1>2 DEF Stop, Crash, Die
  <2> QED
    BY <2>1, BudgetKept DEF ScanFrom, HasScan, NewState, NoScan
<1>3. CASE RetryCommand
  <2>1. /\ pc = "down" /\ UNCHANGED <<pc, mem>>
        /\ disk' \in {disk, Retried(disk)}
        /\ spent' = IF disk'.scan.tries = 0 THEN 0 ELSE spent
    BY <1>3 DEF RetryCommand
  <2>2. disk \in State /\ mem.scan.tries \in Nat /\ disk.scan.tries \in Nat
    BY DEF TypeInv, TypeOK, State, Scan
  <2>3. Retried(disk).scan.tries = 0
    BY <2>2, ScanOf
  <2>4. CASE disk'.scan.tries = 0
    BY <2>1, <2>2, <2>4, ConstantsAssumption DEF BudgetInv, AttemptsWithinBudget
  <2>5. CASE disk'.scan.tries # 0
    BY <2>1, <2>3, <2>5, BudgetKept DEF ScanFrom
  <2> QED
    BY <2>4, <2>5
<1> QED
  BY <1>1, <1>2, <1>3 DEF Operator

LEMMA BudgetNext == TypeInv /\ BudgetInv /\ [Next]_vars => BudgetInv'
<1> SUFFICES ASSUME TypeInv, BudgetInv, [Next]_vars PROVE BudgetInv'
  OBVIOUS
<1>1. CASE Next
  BY <1>1, BudgetStep, BudgetElsewhere, BudgetOperator DEF Next, Engine
<1>2. CASE UNCHANGED vars
  BY <1>2 DEF vars, ghosts, BudgetInv, AttemptsWithinBudget
<1> QED
  BY <1>1, <1>2

\* Whatever saves fail and wherever the process crashes between charging an
\* attempt and its end, no more attempts of a scan run than its budget allows
\* between two retry commands.
THEOREM AttemptsWithinBudgetCorrect == Spec => []AttemptsWithinBudget
<1>1. TypeInv /\ [Next]_vars => TypeInv'
  BY TypeNext
<1> QED
  BY <1>1, TypeInit, BudgetInit, BudgetNext, PTL DEF Spec, BudgetInv

-----------------------------------------------------------------------------
(* The commit a POST speaks of *)

LEMMA HeadInit == Init => HeadInv
  BY DEF Init, HeadInv

\* Steps that leave list and branch alone, and either go nowhere near a POST or
\* keep the scanned commit and the place.
LEMMA HeadKept ==
  ASSUME HeadInv, snapHead' = snapHead, head' = head,
         \/ pc' \notin {"reread", "post"}
         \/ pc \in {"reread", "post"} /\ mem'.scan.commit = mem.scan.commit
  PROVE  HeadInv'
  BY DEF HeadInv

\* Refresh reads the list at the present tip; VerifySource goes on only when
\* the scanned commit is the tip, and the branch never goes back.
LEMMA HeadReview ==
  ASSUME TypeInv, HeadInv, ReviewAction
  PROVE  HeadInv'
<1> USE DEF FailHere, ghosts
<1>0. /\ mem \in State /\ snapHead \in Nat /\ head \in Nat /\ mem.scan.commit \in Nat
      /\ pc \in Reviewing => cur \in Rids
  BY DEF TypeInv, TypeOK, State, Scan, CurrentCandidate
<1>1. CASE Refresh
  <2>1. /\ head' = head /\ pc' \in {"failed", "verify", "review"}
        /\ snapHead' \in {snapHead, head}
    BY <1>1 DEF Refresh
  <2> QED
    BY <1>0, <2>1 DEF HeadInv
<1>2. CASE VerifySource
  <2>1. /\ UNCHANGED <<mem, head, snapHead>>
        /\ pc' = "failed" \/ (pc' = "reread" /\ head = mem.scan.commit)
    BY <1>2 DEF VerifySource, AtHead
  <2> QED
    BY <1>0, <2>1 DEF HeadInv
<1>3. CASE SaveIntent
  <2>1. /\ pc = "reread" /\ UNCHANGED <<head, snapHead>>
        /\ mem' \in {mem, With(mem, cur, "posting")}
    BY <1>3 DEF SaveIntent
  <2>2. With(mem, cur, "posting").scan = mem.scan
    BY <1>0, <2>1, WithType DEF Status, Reviewing
  <2> QED
    BY <2>1, <2>2, HeadKept
<1>4. CASE \/ ReviewFails \/ ReviewNew \/ ReviewRejects \/ RereadChanged \/ RereadDryRun
           \/ Post \/ PostCreated \/ PostRejected \/ PostUnknown
  <2>1. UNCHANGED <<head, snapHead>> /\ pc' \notin {"reread", "post"}
    BY <1>4 DEF ReviewFails, ReviewNew, ReviewRejects, RereadChanged, RereadDryRun, Post,
                PostCreated, PostRejected, PostUnknown
  <2> QED
    BY <2>1, HeadKept
<1> QED
  BY <1>1, <1>2, <1>3, <1>4 DEF ReviewAction

LEMMA HeadElsewhere ==
  ASSUME TypeInv, HeadInv,
         StepAction \/ AttemptAction \/ Wake \/ Exit \/ Operator \/ Environment
  PROVE  HeadInv'
<1> USE DEF ghosts
<1>1. CASE StepAction \/ AttemptAction \/ Wake \/ Exit
  <2>1. pc' \notin {"reread", "post"}
    BY <1>1 DEF StepAction, Reconcile, CloseSettled, ChooseWork, Open, DiscardScan, NewScan,
                KeepScan, Prepare, FailAttempt, AttemptAction, ReadHistory, Discover,
                NextCandidate, FinishScan, Wake, Exit, Die, Return
  <2>2. UNCHANGED <<head, snapHead>>
    BY <1>1 DEF StepAction, Reconcile, CloseSettled, ChooseWork, Open, DiscardScan, NewScan,
                KeepScan, Prepare, FailAttempt, AttemptAction, ReadHistory, Discover,
                NextCandidate, FinishScan, Wake, Exit, Die
  <2> QED
    BY <2>1, <2>2, HeadKept
<1>2. CASE Operator
  <2>1. UNCHANGED <<head, snapHead>> /\ pc' \in {"step", "down"}
    BY <1>2 DEF Operator, Start, Stop, Crash, RetryCommand, Die
  <2> QED
    BY <2>1, HeadKept
<1>3. CASE Environment
  <2>1. /\ UNCHANGED <<pc, snapHead>>
        /\ \/ mem' = mem /\ head' = head
           \/ mem' = mem /\ head' = head + 1
           \/ mem' = Due(mem) /\ head' = head
    BY <1>3 DEF Environment, TimePasses, HumanFiles, HumanEdits, HumanDeletes,
                BranchAdvances, GitHubCreates, GitHubRefuses
  <2>2. mem \in State /\ head \in Nat /\ snapHead \in Nat
    BY DEF TypeInv, TypeOK
  <2>3. mem'.scan.commit = mem.scan.commit
    BY <2>1, <2>2, DueType
  <2> QED
    BY <2>1, <2>2, <2>3 DEF HeadInv
<1> QED
  BY <1>1, <1>2, <1>3

LEMMA HeadNext == TypeInv /\ HeadInv /\ [Next]_vars => HeadInv'
<1> SUFFICES ASSUME TypeInv, HeadInv, [Next]_vars PROVE HeadInv'
  OBVIOUS
<1>1. CASE Next
  BY <1>1, HeadReview, HeadElsewhere DEF Next, Engine
<1>2. CASE UNCHANGED vars
  BY <1>2 DEF vars, ghosts, HeadInv
<1> QED
  BY <1>1, <1>2

\* However the branch moves between the reads, a POST goes out only for a commit
\* that was the tip of the branch at some time after the reviewed list was read.
THEOREM PostAtHeadCorrect == Spec => []PostAtHead
<1>1. TypeInv /\ [Next]_vars => TypeInv'
  BY TypeNext
<1>2. HeadInv => PostAtHead
  BY DEF HeadInv, PostAtHead
<1> QED
  BY <1>1, <1>2, TypeInit, HeadInit, HeadNext, PTL DEF Spec

-----------------------------------------------------------------------------
(* The review behind a POST *)

LEMMA ReviewInit == Init => ReviewInv
  BY DEF Init, ReviewInv, CheckpointsAreTrue, NewState

\* An issue of the list is in a chunk of it.
LEMMA ChunksCover ==
  ASSUME NEW S, NEW i \in S
  PROVE  \E c \in ReviewChunks(S) : i \in c
<1>1. ChunkOf(S, i) \in ReviewChunks(S)
  BY DEF ReviewChunks
<1>2. i \in ChunkOf(S, i)
  BY DEF ChunkOf
<1> QED
  BY <1>1, <1>2

\* A saved state takes checkpoints and candidates over from another.
WorkFrom(new, s) ==
  /\ new.batches = s.batches
  /\ \A r \in Rids : new.status[r] # "absent" => s.status[r] # "absent"

\* No operator but WithFindings and Attested adds a candidate or a checkpoint.
LEMMA WorkOf ==
  ASSUME NEW s \in State
  PROVE  /\ WorkFrom(s, s)
         /\ WorkFrom(Finished(s), s)
         /\ WorkFrom(Finished(Stale(s)), s)
         /\ WorkFrom(Due(s), s)
         /\ WorkFrom(Retried(s), s)
         /\ WorkFrom(Charged(s), s)
         /\ \A commit \in Nat : WorkFrom(WithScan(s, commit), s)
<1>1. /\ Finished(s).status = s.status /\ Due(s).status = s.status
      /\ Retried(s).status = s.status /\ Charged(s).status = s.status
      /\ \A commit \in Nat : WithScan(s, commit).status = s.status
  BY FinishedType, DueType, RetriedType, ChargedType, WithScanType
<1>2. /\ Stale(s) \in State
      /\ Finished(Stale(s)).status = Stale(s).status
      /\ Finished(Stale(s)).batches = s.batches
  BY StaleType, FinishedType, BatchesOf
<1>3. \A r \in Rids : Stale(s).status[r] # "absent" => s.status[r] # "absent"
  BY StaleType, InStatusDef
<1> QED
  BY <1>1, <1>2, <1>3, BatchesOf DEF WorkFrom

LEMMA WithWork ==
  ASSUME NEW s \in State, NEW r \in Rids, NEW st \in Status, s.status[r] # "absent"
  PROVE  WorkFrom(With(s, r, st), s)
<1>1. With(s, r, st).status = [s.status EXCEPT ![r] = st] /\ s.status \in [Rids -> Status]
  BY WithType DEF State
<1>2. With(s, r, st).batches = s.batches
  BY BatchesOf
<1> QED
  BY <1>1, <1>2 DEF WorkFrom

\* Such steps keep the checkpoints true.
LEMMA CheckpointsKept ==
  ASSUME CheckpointsAreTrue, reviewed \subseteq reviewed',
         WorkFrom(mem', mem) \/ WorkFrom(mem', disk) \/ mem' = NewState,
         WorkFrom(disk', disk) \/ WorkFrom(disk', mem)
  PROVE  CheckpointsAreTrue'
<1>1. ASSUME NEW new, NEW s \in {mem, disk}, WorkFrom(new, s), NEW r \in Rids,
             new.status[r] # "absent", NEW c \in new.batches[r], NEW i \in c
      PROVE  <<r, i>> \in reviewed'
  BY <1>1 DEF WorkFrom, CheckpointsAreTrue
<1>2. \A r \in Rids : NewState.status[r] = "absent"
  BY DEF NewState
<1> QED
  BY <1>1, <1>2 DEF CheckpointsAreTrue

\* The places where the list matters.
WithList == {"review", "verify", "reread", "post"}

\* Outside an attempt only candidates change, and no list is in use.
LEMMA ReviewStep ==
  ASSUME TypeInv, PublicationInv, ReviewInv, StepAction \/ Wake \/ Exit \/ Operator
  PROVE  ReviewInv'
<1> USE DEF clone, ghosts, Saved, SaveFailed, Fault
<1>0. /\ mem \in State /\ disk \in State /\ origin \in Nat
      /\ pc = "setup" => mem.scan.tries > 0
  BY DEF TypeInv, TypeOK, ChargedAttempt, InAttempt
<1>1. reviewed' = reviewed /\ pc' \notin WithList
  <2>1. CASE StepAction
    BY <2>1 DEF StepAction, Reconcile, CloseSettled, ChooseWork, Open, DiscardScan, NewScan,
                KeepScan, Prepare, FailAttempt, Return, WithList
  <2>2. CASE Wake \/ Exit \/ Operator
    BY <2>2 DEF Wake, Exit, Die, Operator, Start, Stop, Crash, RetryCommand, WithList
  <2> QED
    BY <2>1, <2>2
<1>2. /\ WorkFrom(mem', mem) \/ WorkFrom(mem', disk) \/ mem' = NewState
      /\ WorkFrom(disk', disk) \/ WorkFrom(disk', mem)
  <2>1. CASE Reconcile
    <3>1. PICK r \in Rids :
            /\ First(r, Unresolved(mem))
            /\ mem' = mem \/ mem' = With(mem, r, "submitted")
            /\ disk' \in {disk, mem'}
      BY <2>1 DEF Reconcile
    <3>2. "submitted" \in Status /\ mem.status[r] # "absent"
      BY <3>1, InStatusDef DEF First, Unresolved, Status, Final
    <3>3. WorkFrom(With(mem, r, "submitted"), mem)
      BY <1>0, <3>2, WithWork
    <3> QED
      BY <1>0, <3>1, <3>3, WorkOf
  <2>2. CASE CloseSettled \/ DiscardScan \/ NewScan \/ Prepare
    BY <1>0, <2>2, WorkOf DEF CloseSettled, DiscardScan, NewScan, Prepare
  <2>3. CASE ChooseWork \/ Open \/ KeepScan \/ Wake \/ Start
    BY <1>0, <2>3, WorkOf DEF ChooseWork, Open, KeepScan, Wake, Start
  <2>4. CASE FailAttempt
    <3>1. mem' \in {mem, Refunded(mem)} /\ disk' \in {disk, mem'}
      BY <2>4 DEF FailAttempt
    <3>2. mem' # mem => mem.scan.tries > 0
      BY <1>0, <2>4 DEF FailAttempt
    <3>3. WorkFrom(mem', mem)
      BY <1>0, <3>1, <3>2, RefundedType, BatchesOf DEF WorkFrom
    <3> QED
      BY <1>0, <3>1, <3>3, WorkOf
  <2>5. CASE Exit \/ Stop \/ Crash
    BY <1>0, <2>5, WorkOf DEF Exit, Stop, Crash, Die
  <2>6. CASE RetryCommand
    BY <1>0, <2>6, WorkOf DEF RetryCommand
  <2> QED
    BY <2>1, <2>2, <2>3, <2>4, <2>5, <2>6 DEF StepAction, Operator
<1> QED
  BY <1>1, <1>2, CheckpointsKept DEF ReviewInv, WithList

\* Discovery forgets what was reviewed for the request ids it hands out, which
\* no saved state knows; the loop over candidates reviews nothing.
LEMMA ReviewAttempt ==
  ASSUME TypeInv, PublicationInv, ReviewInv, AttemptAction
  PROVE  ReviewInv'
<1> USE DEF clone, ghosts, Saved, SaveFailed, Fault
<1>0. mem \in State /\ disk \in State
  BY DEF TypeInv, TypeOK
<1>1. pc' \notin WithList
  BY DEF AttemptAction, ReadHistory, Discover, NextCandidate, FinishScan, Return, WithList
<1>2. CASE ReadHistory \/ NextCandidate \/ FinishScan
  <2>1. /\ reviewed' = reviewed /\ mem' \in {mem, Finished(mem)} /\ disk' \in {disk, mem'}
    BY <1>2 DEF ReadHistory, NextCandidate, FinishScan
  <2> QED
    BY <1>0, <1>1, <2>1, WorkOf, CheckpointsKept DEF ReviewInv, WithList
<1>3. CASE Discover
  <2>1. CASE UNCHANGED <<mem, disk, reviewed>>
    BY <1>0, <1>1, <2>1, WorkOf, CheckpointsKept DEF ReviewInv, WithList
  <2>2. ASSUME NEW F \in SUBSET {r \in Rids : Fresh(r)},
               mem' = WithFindings(mem, F), disk' \in {disk, mem'},
               reviewed' = {p \in reviewed : p[1] \notin F}
        PROVE  ReviewInv'
    <3>1. /\ \A r \in F : disk.status[r] = "absent"
          /\ F \in SUBSET Rids
      BY <2>2 DEF Fresh
    <3>2. \A r \in Rids : mem'.batches[r] = IF r \in F THEN {} ELSE mem.batches[r]
      <4>1. mem'.batches = [r \in Rids |-> IF r \in F THEN {} ELSE mem.batches[r]]
        BY <1>0, <2>2, BatchesOf
      <4> QED
        BY <4>1
    <3>3. \A r \in Rids \ F : mem'.status[r] = mem.status[r]
      <4>1. mem'.status = [r \in Rids |-> IF r \in F THEN "pending" ELSE mem.status[r]]
        BY <1>0, <2>2, <3>1, WithFindingsType
      <4> QED
        BY <4>1
    <3>4. ASSUME NEW r \in Rids, mem'.status[r] # "absent",
                 NEW c \in mem'.batches[r], NEW i \in c
          PROVE  <<r, i>> \in reviewed'
      <4>1. r \notin F /\ mem.status[r] # "absent" /\ c \in mem.batches[r]
        BY <3>2, <3>3, <3>4
      <4>2. <<r, i>> \in reviewed
        BY <4>1 DEF ReviewInv, CheckpointsAreTrue
      <4> QED
        BY <2>2, <4>1, <4>2
    <3>5. ASSUME NEW r \in Rids, disk.status[r] # "absent",
                 NEW c \in disk.batches[r], NEW i \in c
          PROVE  <<r, i>> \in reviewed'
      <4>1. r \notin F /\ <<r, i>> \in reviewed
        BY <3>1, <3>5 DEF ReviewInv, CheckpointsAreTrue
      <4> QED
        BY <2>2, <4>1
    <3>6. CheckpointsAreTrue'
      BY <2>2, <3>4, <3>5 DEF CheckpointsAreTrue
    <3> QED
      BY <1>1, <3>6 DEF ReviewInv, WithList
  <2> QED
    BY <1>3, <2>1, <2>2 DEF Discover
<1> QED
  BY <1>2, <1>3 DEF AttemptAction

\* Reading the list: every issue is reviewed already or in a chunk to review.
LEMMA ReviewRefresh ==
  ASSUME TypeInv, PublicationInv, ReviewInv, Refresh
  PROVE  ReviewInv'
<1>0. /\ mem \in State /\ disk \in State
      /\ cur \in Rids /\ mem.status[cur] # "absent"
  BY InStatusDef DEF Refresh, TypeInv, TypeOK, PublicationInv, PlaceOfCandidate
<1>1. UNCHANGED <<mem, disk, reviewed>>
  BY DEF Refresh
<1>2. CheckpointsAreTrue'
  BY <1>0, <1>1, WorkOf, CheckpointsKept DEF ReviewInv
<1>3. CASE pc' = "failed"
  BY <1>2, <1>3 DEF ReviewInv
<1>4. CASE pc' # "failed"
  <2>1. /\ snap' = issues /\ todo' = Unreviewed(issues) /\ cur' = cur
        /\ pc' = IF todo' = {} THEN "verify" ELSE "review"
    BY <1>4 DEF Refresh, FailHere
  <2>2. \A c \in mem.batches[cur] : \A i \in c : <<cur, i>> \in reviewed
    BY <1>0 DEF ReviewInv, CheckpointsAreTrue
  <2>3. ReviewChunks(issues) \subseteq mem.batches[cur] \union todo'
    BY <2>1 DEF Unreviewed
  <2>4. \A i \in snap' : <<cur, i>> \in reviewed \/ \E c \in todo' : i \in c
    BY <2>1, <2>2, <2>3, ChunksCover
  <2> QED
    BY <1>1, <1>2, <2>1, <2>4 DEF ReviewInv
<1> QED
  BY <1>3, <1>4

\* A chunk is struck off the list when it enters the checkpoint.
LEMMA ReviewChunk ==
  ASSUME TypeInv, PublicationInv, ReviewInv, ReviewNew
  PROVE  ReviewInv'
<1>0. /\ mem \in State /\ cur \in Rids /\ pc = "review"
      /\ mem.batches \in [Rids -> SUBSET (SUBSET Issue)]
  BY DEF ReviewNew, TypeInv, TypeOK, State, CurrentCandidate, Reviewing
<1>1. PICK c \in todo :
        /\ mem' = Attested(mem, cur, c)
        /\ reviewed' = reviewed \union {<<cur, i>> : i \in c}
        /\ disk' \in {disk, mem'}
        /\ \/ /\ todo' = todo \ {c}
              /\ pc' = IF todo' = {} THEN "refresh" ELSE "review"
              /\ UNCHANGED <<cur, snap>>
           \/ pc' = "failed"
  BY DEF ReviewNew, Saved, SaveFailed, FailHere
<1>2. /\ mem'.status = mem.status
      /\ \A r \in Rids : mem'.batches[r]
                           = IF r = cur THEN mem.batches[r] \union {c} ELSE mem.batches[r]
  <2>1. c \in SUBSET Issue
    BY DEF TypeInv, TypeOK
  <2>2. mem'.batches = [mem.batches EXCEPT ![cur] = @ \union {c}]
    BY <1>0, <1>1, BatchesOf
  <2> QED
    BY <1>0, <1>1, <2>1, <2>2, AttestedType
<1>3. CheckpointsAreTrue'
  <2>1. ASSUME NEW r \in Rids, mem'.status[r] # "absent",
               NEW d \in mem'.batches[r], NEW i \in d
        PROVE  <<r, i>> \in reviewed'
    <3>1. CASE d \in mem.batches[r]
      BY <1>1, <1>2, <2>1, <3>1 DEF ReviewInv, CheckpointsAreTrue
    <3>2. CASE d \notin mem.batches[r]
      BY <1>1, <1>2, <2>1, <3>2
    <3> QED
      BY <3>1, <3>2
  <2>2. ASSUME NEW r \in Rids, disk.status[r] # "absent",
               NEW d \in disk.batches[r], NEW i \in d
        PROVE  <<r, i>> \in reviewed'
    BY <1>1, <2>2 DEF ReviewInv, CheckpointsAreTrue
  <2> QED
    BY <1>1, <2>1, <2>2 DEF CheckpointsAreTrue
<1>4. pc' = "review" => \A i \in snap' : <<cur', i>> \in reviewed' \/ \E d \in todo' : i \in d
  <2> SUFFICES ASSUME pc' = "review", NEW i \in snap',
                      ~ \E d \in todo' : i \in d
               PROVE  <<cur', i>> \in reviewed'
    OBVIOUS
  <2>1. todo' = todo \ {c} /\ cur' = cur /\ i \in snap
    BY <1>1
  <2>2. <<cur, i>> \in reviewed \/ \E d \in todo : i \in d
    BY <1>0, <2>1 DEF ReviewInv
  <2>3. CASE i \in c
    BY <1>1, <2>1, <2>3
  <2>4. CASE i \notin c
    BY <1>1, <2>1, <2>2, <2>4
  <2> QED
    BY <2>3, <2>4
<1> QED
  BY <1>1, <1>3, <1>4 DEF ReviewInv

\* The rest of reviewAndPublish decides about cur and attests nothing; the list
\* the POST goes out with has no issue the reviewed one lacks.
LEMMA ReviewPublish ==
  ASSUME TypeInv, PublicationInv, ReviewInv,
         \/ ReviewFails \/ ReviewRejects \/ VerifySource \/ RereadChanged \/ RereadDryRun
         \/ SaveIntent \/ Post \/ PostCreated \/ PostRejected \/ PostUnknown
  PROVE  ReviewInv'
<1> USE DEF ghosts, Saved, SaveFailed, Fault, FailHere
<1>0. /\ mem \in State /\ disk \in State
      /\ pc \in Reviewing => cur \in Rids /\ mem.status[cur] # "absent"
  BY InStatusDef DEF TypeInv, TypeOK, PublicationInv, PlaceOfCandidate, Reviewing,
                     ReviewFails, ReviewRejects, VerifySource, RereadChanged, RereadDryRun,
                     SaveIntent, Post, PostCreated, PostRejected, PostUnknown
<1>1. reviewed' = reviewed /\ pc \in Reviewing
  BY DEF ReviewFails, ReviewRejects, VerifySource, RereadChanged, RereadDryRun, SaveIntent,
         Post, PostCreated, PostRejected, PostUnknown, Reviewing
<1>2. PICK st \in Status :
        mem' \in {mem, With(mem, cur, st)} /\ disk' \in {disk, With(mem, cur, st)}
  <2>1. CASE ReviewFails \/ VerifySource \/ RereadChanged \/ Post \/ PostUnknown
    BY <2>1 DEF ReviewFails, VerifySource, RereadChanged, Post, PostUnknown, Status
  <2>2. CASE ReviewRejects \/ RereadDryRun \/ SaveIntent \/ PostCreated \/ PostRejected
    BY <2>2, ConstantsAssumption
    DEF ReviewRejects, RereadDryRun, SaveIntent, IntentSaved, PostCreated, PostRejected,
        Status, Final
  <2> QED
    BY <2>1, <2>2
<1>3. WorkFrom(With(mem, cur, st), mem)
  BY <1>0, <1>1, WithWork
<1>4. CheckpointsAreTrue'
  BY <1>0, <1>1, <1>2, <1>3, WorkOf, CheckpointsKept DEF ReviewInv
<1>5. CASE VerifySource
  <2>1. /\ pc = "verify"
        /\ pc' = "failed" \/ (pc' = "reread" /\ UNCHANGED <<cur, snap>>)
    BY <1>5 DEF VerifySource, locals
  <2> QED
    BY <1>1, <1>4, <2>1 DEF ReviewInv
<1>6. CASE SaveIntent
  <2>1. /\ pc = "reread"
        /\ pc' = "failed" \/ (pc' = "post" /\ cur' = cur /\ snap' \subseteq snap)
    BY <1>6 DEF SaveIntent, Changed
  <2> QED
    BY <1>1, <1>4, <2>1 DEF ReviewInv
<1>7. CASE \/ ReviewFails \/ ReviewRejects \/ RereadChanged \/ RereadDryRun
           \/ Post \/ PostCreated \/ PostRejected \/ PostUnknown
  <2>1. pc' \notin WithList
    BY <1>7 DEF ReviewFails, ReviewRejects, RereadChanged, RereadDryRun, Post, PostCreated,
                PostRejected, PostUnknown, WithList
  <2> QED
    BY <1>4, <2>1 DEF ReviewInv, WithList
<1> QED
  BY <1>5, <1>6, <1>7

\* People, GitHub and the clock do not touch what the engine has read.
LEMMA ReviewEnvironment ==
  ASSUME TypeInv, ReviewInv, Environment
  PROVE  ReviewInv'
<1>0. mem \in State /\ disk \in State
  BY DEF TypeInv, TypeOK
<1>1. /\ UNCHANGED <<pc, cur, snap, todo, reviewed>>
      /\ mem' \in {mem, Due(mem)} /\ disk' \in {disk, Due(disk)}
  BY DEF Environment, TimePasses, HumanFiles, HumanEdits, HumanDeletes, BranchAdvances,
         GitHubCreates, GitHubRefuses, locals, ghosts
<1>2. CheckpointsAreTrue'
  BY <1>0, <1>1, WorkOf, CheckpointsKept DEF ReviewInv
<1> QED
  BY <1>1, <1>2 DEF ReviewInv

LEMMA ReviewNext ==
  TypeInv /\ PublicationInv /\ ReviewInv /\ [Next]_vars => ReviewInv'
<1> SUFFICES ASSUME TypeInv, PublicationInv, ReviewInv, [Next]_vars PROVE ReviewInv'
  OBVIOUS
<1>1. CASE Next
  <2>1. CASE ReviewAction
    BY <2>1, ReviewRefresh, ReviewChunk, ReviewPublish DEF ReviewAction
  <2> QED
    BY <1>1, <2>1, ReviewStep, ReviewAttempt, ReviewEnvironment DEF Next, Engine
<1>2. CASE UNCHANGED vars
  BY <1>2 DEF vars, locals, ghosts, ReviewInv, CheckpointsAreTrue
<1> QED
  BY <1>1, <1>2

\* Whatever is edited in between, and whichever checkpoints a restart resumes
\* from, a POST goes out only when the reviewer has called the proposal new
\* against the present text of every issue of the last list read.
THEOREM ReviewedBeforePostCorrect == Spec => []ReviewedBeforePost
<1>1. TypeInv /\ PublicationInv /\ [Next]_vars => TypeInv' /\ PublicationInv'
  BY TypeNext, PublicationNext
<1>2. ReviewInv => ReviewedBeforePost
  BY DEF ReviewInv, ReviewedBeforePost
<1> QED
  BY <1>1, <1>2, TypeInit, PublicationInit, ReviewInit, ReviewNext, PTL DEF Spec

=============================================================================
