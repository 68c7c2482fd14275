------------------------------- MODULE Engine -------------------------------
(***************************************************************************)
(* The scan engine of feature-bot (run.go) with the state file it owns     *)
(* (state.go) and the two services it talks to, the git remote and the     *)
(* GitHub issue tracker, seen from how the engine uses them.               *)
(*                                                                         *)
(* The process.  pc is the place in Run/step/attempt/reviewAndPublish the  *)
(* engine has reached; mem is the *State in memory; cur, refresh, snap and *)
(* todo are the locals of reviewAndPublish.  Every read of GitHub or git,  *)
(* every agent prompt and every save is a step of its own, and between     *)
(* two steps the process may crash, people may edit issues, the branch may *)
(* advance and a request on the wire may reach GitHub.                     *)
(*                                                                         *)
(* Durability.  origin is the remote tracking ref of the managed clone;    *)
(* trees has the condition of each scan's worktree, by its commit, and of  *)
(* the clone itself: they are kept, so what an agent or a killed git left  *)
(* of them lasts.  disk is state.json.  writeState may fail before or      *)
(* after the rename (the directory is synced last), so a failed save       *)
(* leaves the old or the new content on disk, the engine does not know     *)
(* which.                                                                  *)
(*                                                                         *)
(* Publication.  A POST in transit is counted by flight; it may be applied *)
(* long after the client gave up on it.  created counts the issues GitHub  *)
(* ever created with the marker of a request id.                           *)
(*                                                                         *)
(* Ghosts.  reviewed, snapHead and spent record history for the properties *)
(* and never guard an action.                                              *)
(***************************************************************************)
EXTENDS Integers, FiniteSets

CONSTANTS
  Rids,        \* request ids the model can hand out, in candidate order
  Verdicts,    \* review verdicts other than "new"
  Modes,       \* how the process may be started: [once, dry]
  Attempts,    \* config.Attempts, the attempt budget of a scan
  Refreshes,   \* snapshots one reviewAndPublish takes (5 in the code)
  ChunkSize,   \* issues of a review chunk (20 in the code)
  MaxFindings, \* config.MaxIssues, findings of one scan
  MaxHeads,    \* bound: commits the branch goes through
  MaxEdits,    \* bound: things people do to issues
  MaxFaults    \* bound: failures, lost answers and crashes

ASSUME ConstantsAssumption ==
  /\ Rids \subseteq Nat \ {0}
  /\ Verdicts \subseteq {"duplicate", "uncertain", "invalid"}
  /\ Modes \subseteq [once : BOOLEAN, dry : BOOLEAN]
  /\ Attempts \in Nat \ {0}
  /\ Refreshes \in Nat \ {0}
  /\ ChunkSize \in Nat \ {0}
  /\ MaxFindings \in Nat
  /\ MaxHeads \in Nat \ {0}
  /\ MaxEdits \in Nat
  /\ MaxFaults \in Nat

VARIABLES
  pc, mode, mem, cur, refresh, snap, todo,           \* the process
  disk, origin, trees,                               \* what survives it
  issues, lastNumber, flight, created, reply, head,  \* GitHub and the remote
  faults, edits,                                     \* bounds
  reviewed, snapHead, spent                          \* ghosts

locals == <<cur, refresh, snap, todo>>
clone == <<origin, trees>>
github == <<issues, lastNumber, flight, created>>
ghosts == <<reviewed, snapHead, spent>>
vars == <<pc, mode, mem, locals, disk, clone, github, reply, head,
          faults, edits, ghosts>>

-----------------------------------------------------------------------------
(* The saved state *)

Final == {"submitted", "duplicate", "uncertain", "invalid", "dry_run", "stale"}

Status == {"absent", "pending", "posting"} \union Final

PCs == {"down", "step", "open", "adopt", "prepare", "attempt", "scan",
        "candidate", "refresh", "review", "verify", "reread", "post", "wait",
        "failed", "setup", "pause", "exit"}

NoRid == 0

\* The directories git makes: a scan's, which goes by its commit, and the clone.
Clone == 0
Trees == {"none", "ready", "unusable"}
TreesType == [0..MaxHeads -> Trees]

\* An issue as the engine tells issues apart: number, content, marker.
Issue == [number : Nat \ {0}, version : Nat, rid : Rids \union {NoRid}]

Scan == [commit : Nat, tries : Nat, discovered : BOOLEAN, retryDue : BOOLEAN]

NoScan == [commit |-> 0, tries |-> 0, discovered |-> FALSE, retryDue |-> TRUE]

\* batches[r] are the chunks a candidate's checkpoint attests; completed are
\* the candidates moved out of the scan.
State == [scan : Scan, nextDue : BOOLEAN, status : [Rids -> Status],
          completed : SUBSET Rids, validated : SUBSET Rids,
          batches : [Rids -> SUBSET (SUBSET Issue)]]

NewState == [scan      |-> NoScan,
             nextDue   |-> TRUE,
             status    |-> [r \in Rids |-> "absent"],
             completed |-> {},
             validated |-> {},
             batches   |-> [r \in Rids |-> {}]]

HasScan(s) == s.scan.commit # 0

With(s, r, st) == [s EXCEPT !.status[r] = st]

Candidates(s) == {r \in Rids : s.status[r] # "absent"} \ s.completed

InStatus(s, st) == {r \in Candidates(s) : s.status[r] = st}

First(r, S) == r \in S /\ \A q \in S : r <= q

\* Mutants: unknown POSTs are looked up only without, or only with, budget left.
UnresolvedLate(s) == IF s.scan.tries < Attempts THEN {} ELSE InStatus(s, "posting")
UnresolvedInBudget(s) == IF s.scan.tries < Attempts THEN InStatus(s, "posting") ELSE {}

\* The candidates whose POST has an unknown outcome.
Unresolved(s) == InStatus(s, "posting")

\* finish: the candidates become completed and the next scan is Poll away.
Finished(s) ==
  [s EXCEPT !.completed = @ \union Candidates(s), !.scan = NoScan, !.nextDue = FALSE]

\* Mutants: the pending findings keep their status; decided ones lose theirs.
StaleForgotten(s) == s
StaleForAll(s) ==
  [s EXCEPT !.status = [r \in Rids |-> IF r \in Candidates(s) THEN "stale" ELSE s.status[r]]]

\* What step does to pending findings of a commit the branch has left.
Stale(s) ==
  [s EXCEPT !.status = [r \in Rids |-> IF r \in InStatus(s, "pending")
                                       THEN "stale" ELSE s.status[r]]]

\* reviewChunks: consecutive issues in groups, one empty chunk for no issue.
Rank(S, i) == Cardinality({j \in S : j.number < i.number})
ChunkOf(S, i) ==
  {j \in S : Rank(S, j) \div ChunkSize = Rank(S, i) \div ChunkSize}
ReviewChunks(S) == IF S = {} THEN {{}} ELSE {ChunkOf(S, i) : i \in S}

Before(c, d) == \A i \in c, j \in d : i.number < j.number

-----------------------------------------------------------------------------
(* Failures, saves and returns *)

Up == pc # "down"

Fault == faults < MaxFaults /\ faults' = faults + 1

\* writeState succeeded; it failed, before or after the rename.
Saved(s) == disk' = s /\ UNCHANGED faults
SaveFailed(s) == Fault /\ disk' \in {disk, s}

\* step returns to Run, which sleeps, or exits after one scan.
Return == pc' = IF mode.once THEN "exit" ELSE "pause"

\* The locals of reviewAndPublish go out of scope.
Leave == cur' = NoRid /\ refresh' = 0 /\ snap' = {} /\ todo' = {}

Init ==
  /\ pc = "down" /\ mode \in Modes /\ mem = NewState
  /\ cur = NoRid /\ refresh = 0 /\ snap = {} /\ todo = {}
  /\ disk = NewState /\ origin = 0 /\ trees = [d \in 0..MaxHeads |-> "none"]
  /\ issues = {} /\ lastNumber = 0 /\ head = 1 /\ reply = "none"
  /\ flight = [r \in Rids |-> 0]
  /\ created = [r \in Rids |-> 0]
  /\ faults = 0 /\ edits = 0
  /\ reviewed = {} /\ snapHead = 0 /\ spent = 0

-----------------------------------------------------------------------------
(* Run: start, sleep, stop, crash, and the retry command *)

\* lockConfig and ReadState; the locks keep every other engine out.
Start ==
  /\ pc = "down"
  /\ mode' \in Modes
  /\ mem' = disk
  /\ pc' = "step"
  /\ UNCHANGED <<locals, disk, clone, github, reply, head, faults, edits, ghosts>>

Wake ==
  /\ pc = "pause"
  /\ pc' = "step"
  /\ UNCHANGED <<mode, mem, locals, disk, clone, github, reply, head, faults,
                 edits, ghosts>>

\* The process ends and drops what it had in memory.
Die ==
  /\ pc' = "down"
  /\ mem' = NewState
  /\ Leave
  /\ reply' = "none"
  /\ UNCHANGED <<mode, disk, github, head, edits, ghosts>>

Exit == pc = "exit" /\ Die /\ UNCHANGED <<clone, faults>>

\* The context is canceled while Run sleeps.
Stop == pc = "pause" /\ Die /\ UNCHANGED <<clone, faults>>

\* What an agent (or the operator's verifier) may leave of the worktree.
Tampered == trees' \in {trees, [trees EXCEPT ![mem.scan.commit] = "unusable"]}

\* What is left of a directory, the clone's or a scan's, when git clone or git
\* worktree add ends early or is killed with its context (osrun.Kill).
HalfMade(d) ==
  trees' \in {trees} \union (IF trees[d] = "none"
                            THEN {[trees EXCEPT ![d] = t] : t \in {"ready", "unusable"}} ELSE {})

Crash ==
  /\ Up
  /\ Fault
  /\ Die
  /\ UNCHANGED origin
  /\ CASE pc \in {"scan", "review", "verify"} -> Tampered
       [] pc = "open" -> HalfMade(Clone)
       [] pc = "prepare" -> HalfMade(mem.scan.commit)
       [] OTHER -> UNCHANGED trees

\* A fresh budget, due at once.
Retried(s) ==
  [s EXCEPT !.scan.tries = 0, !.scan.retryDue = TRUE, !.nextDue = TRUE]

\* Retry clears the budget of a saved scan, never over an unresolved POST.
RetryCommand ==
  /\ pc = "down"
  /\ HasScan(disk)
  /\ Unresolved(disk) = {}
  /\ Saved(Retried(disk)) \/ SaveFailed(Retried(disk))
  /\ spent' = IF disk'.scan.tries = 0 THEN 0 ELSE spent
  /\ UNCHANGED <<pc, mode, mem, locals, clone, github, reply, head, edits,
                 reviewed, snapHead>>

Due(s) == [s EXCEPT !.scan.retryDue = TRUE, !.nextDue = TRUE]

\* RetryAt and NextScan pass.
TimePasses ==
  /\ <<mem, disk>> # <<Due(mem), Due(disk)>>
  /\ mem' = Due(mem)
  /\ disk' = Due(disk)
  /\ UNCHANGED <<pc, mode, locals, clone, github, reply, head, faults, edits,
                 ghosts>>

-----------------------------------------------------------------------------
(* step: reconcile, close, or choose whether to make an attempt *)

\* Mutant: a scan is closed only while it may make another attempt.
SettledInBudget(s) ==
  s.scan.discovered /\ InStatus(s, "pending") = {} /\ s.scan.tries < Attempts

\* Every finding of the scan has been decided.
Settled(s) == s.scan.discovered /\ InStatus(s, "pending") = {}

\* The marker of the least unresolved candidate is looked up.  The list may
\* fail or lag behind, the marker may be missing, and the save may fail.
Reconcile ==
  /\ pc = "step"
  /\ \E r \in Rids :
       /\ First(r, Unresolved(mem))
       /\ \/ Fault /\ Return /\ UNCHANGED <<mem, disk>>
          \/ /\ \A i \in issues : i.rid # r
             /\ Return
             /\ UNCHANGED <<mem, disk, faults>>
          \/ /\ \E i \in issues : i.rid = r
             /\ mem' = With(mem, r, "submitted")
             /\ \/ Saved(mem') /\ UNCHANGED pc
                \/ SaveFailed(mem') /\ Return
  /\ UNCHANGED <<mode, locals, clone, github, reply, head, edits, ghosts>>

\* Nothing of the scan is left to do: it is finished without an attempt.
CloseSettled ==
  /\ pc = "step"
  /\ HasScan(mem)
  /\ Unresolved(mem) = {}
  /\ Settled(mem)
  /\ mem' = Finished(mem)
  /\ Saved(mem') \/ SaveFailed(mem')
  /\ Return
  /\ UNCHANGED <<mode, locals, clone, github, reply, head, edits, ghosts>>

\* Mutants: one attempt too many; the retry deadline compared the wrong way.
EligibleOnceMore ==
  IF HasScan(mem)
  THEN mem.scan.tries <= Attempts /\ (mode.once \/ mem.scan.retryDue)
  ELSE mode.once \/ mem.nextDue
EligibleBeforeRetryAt ==
  IF HasScan(mem)
  THEN mem.scan.tries < Attempts /\ (mode.once \/ ~mem.scan.retryDue)
  ELSE mode.once \/ mem.nextDue

\* The scan, or the pause before the next one, may go on now.
Eligible ==
  IF HasScan(mem)
  THEN mem.scan.tries < Attempts /\ (mode.once \/ mem.scan.retryDue)
  ELSE mode.once \/ mem.nextDue

ChooseWork ==
  /\ pc = "step"
  /\ Unresolved(mem) = {}
  /\ ~(HasScan(mem) /\ Settled(mem))
  /\ \/ Eligible /\ pc' = "open"
     \/ ~Eligible /\ Return
  /\ UNCHANGED <<mode, mem, locals, disk, clone, github, reply, head, faults,
                 edits, ghosts>>

\* checkout.open makes the clone when there is no directory of its name, and
\* fetches the branch into refs/remotes/origin.
Open ==
  /\ pc = "open"
  /\ \/ /\ trees[Clone] # "unusable"
        /\ origin' = head /\ trees' = [trees EXCEPT ![Clone] = "ready"]
        /\ pc' = "adopt"
        /\ UNCHANGED faults
     \/ Fault /\ Return /\ HalfMade(Clone) /\ origin' \in {origin, head}
     \/ trees[Clone] = "unusable" /\ Return /\ UNCHANGED <<clone, faults>>
  /\ UNCHANGED <<mode, mem, locals, disk, github, reply, head, edits, ghosts>>

\* A scan of a commit the branch has left is finished with its pending
\* findings stale; without a scan a new one is saved.
DiscardScan ==
  /\ pc = "adopt"
  /\ HasScan(mem)
  /\ mem.scan.commit # origin
  /\ mem' = Finished(Stale(mem))
  /\ \/ Saved(mem') /\ UNCHANGED pc
     \/ SaveFailed(mem') /\ Return
  /\ UNCHANGED <<mode, locals, clone, github, reply, head, edits, ghosts>>

\* A new scan of a commit, with no attempt made and none to wait for.
WithScan(s, commit) == [s EXCEPT !.scan = [NoScan EXCEPT !.commit = commit]]

NewScan ==
  /\ pc = "adopt"
  /\ ~HasScan(mem)
  /\ mem' = WithScan(mem, origin)
  /\ \/ Saved(mem') /\ pc' = "prepare"
     \/ SaveFailed(mem') /\ Return
  /\ spent' = 0
  /\ trees' = [trees EXCEPT ![origin] = "none"]
  /\ UNCHANGED <<mode, locals, origin, github, reply, head, edits, reviewed, snapHead>>

KeepScan ==
  /\ pc = "adopt"
  /\ HasScan(mem)
  /\ mem.scan.commit = origin
  /\ pc' = "prepare"
  /\ UNCHANGED <<mode, mem, locals, disk, clone, github, reply, head, faults,
                 edits, ghosts>>

\* An attempt counts, and RetryAt is set, when it begins.
Charged(s) == [s EXCEPT !.scan.tries = @ + 1, !.scan.retryDue = FALSE]

\* prepare makes the worktree, or finds it at the scanned commit and without
\* edits.  One that git could not finish is found too, and refused.
WorktreeReady == trees[mem.scan.commit] # "unusable"

\* The attempt is charged and saved before it runs, but after the worktree was
\* made or found ready.
Prepare ==
  /\ pc = "prepare"
  /\ \/ Fault /\ Return /\ HalfMade(mem.scan.commit) /\ UNCHANGED <<mem, disk, spent>>
     \/ /\ ~WorktreeReady
        /\ Return
        /\ UNCHANGED <<mem, disk, trees, spent, faults>>
     \/ /\ WorktreeReady
        /\ trees' = [trees EXCEPT ![mem.scan.commit] = "ready"]
        /\ mem' = Charged(mem)
        /\ \/ Saved(mem') /\ pc' = "attempt" /\ spent' = spent + 1
           \/ SaveFailed(mem') /\ Return /\ UNCHANGED spent
  /\ UNCHANGED <<mode, locals, origin, github, reply, head, edits, reviewed, snapHead>>

\* Mutant: the refund takes back more than the attempt.
RefundedTwice(s) == [s EXCEPT !.scan.tries = @ - 2]

\* A setup error does not use up an attempt.
Refunded(s) == [s EXCEPT !.scan.tries = @ - 1]

\* attempt returned an error: a setup error is refunded and ends the process.
FailAttempt ==
  /\ pc \in {"failed", "setup"}
  /\ mem' = IF pc = "setup" THEN Refunded(mem) ELSE mem
  /\ spent' = IF pc = "setup" THEN spent - 1 ELSE spent
  /\ Saved(mem') \/ SaveFailed(mem')
  /\ IF pc = "setup" THEN pc' = "exit" ELSE Return
  /\ UNCHANGED <<mode, locals, clone, github, reply, head, edits, reviewed, snapHead>>

-----------------------------------------------------------------------------
(* attempt: discovery, then every pending candidate in order *)

\* The issue history is read before discovery or review.
ReadHistory ==
  /\ pc = "attempt"
  /\ \/ Fault /\ pc' = "failed"
     \/ pc' = (IF mem.scan.discovered THEN "candidate" ELSE "scan") /\ UNCHANGED faults
  /\ UNCHANGED <<mode, mem, locals, disk, clone, github, reply, head, edits, ghosts>>

\* A request id no candidate carries, in memory or on disk.
Fresh(r) == mem.status[r] = "absent" /\ disk.status[r] = "absent"

\* Findings become the candidates of the scan, pending and unreviewed.
WithFindings(s, F) ==
  [s EXCEPT !.scan.discovered = TRUE,
            !.status    = [r \in Rids |-> IF r \in F THEN "pending" ELSE @[r]],
            !.validated = @ \ F,
            !.batches   = [r \in Rids |-> IF r \in F THEN {} ELSE @[r]]]

\* parseScan: as many findings as were asked for, or fewer, each of them valid.
ParsedScan(F) == Cardinality(F) <= MaxFindings

\* The agent's receipt is accepted: its findings become pending candidates.
\* The agent, the receipt or the workspace check may fail instead.
Discover ==
  /\ pc = "scan"
  /\ \/ /\ \E kind \in {"failed", "setup"} : pc' = kind
        /\ Fault
        /\ Tampered
        /\ UNCHANGED <<mem, disk, reviewed>>
     \/ \E F \in SUBSET {r \in Rids : Fresh(r)} :
          /\ ParsedScan(F)
          /\ \A q \in F, r \in Rids : Fresh(r) /\ r < q => r \in F
          /\ mem' = WithFindings(mem, F)
          /\ reviewed' = {p \in reviewed : p[1] \notin F}
          /\ UNCHANGED trees
          /\ \/ Saved(mem') /\ pc' = "candidate"
             \/ SaveFailed(mem') /\ pc' = "failed"
  /\ UNCHANGED <<mode, locals, origin, github, reply, head, edits, snapHead, spent>>

NextCandidate ==
  /\ pc = "candidate"
  /\ \E r \in Rids : First(r, InStatus(mem, "pending")) /\ cur' = r
  /\ pc' = "refresh"
  /\ refresh' = 0
  /\ UNCHANGED <<mode, mem, snap, todo, disk, clone, github, reply, head,
                 faults, edits, ghosts>>

\* No candidate is pending: attempt ends by finishing the scan.
FinishScan ==
  /\ pc = "candidate"
  /\ InStatus(mem, "pending") = {}
  /\ mem' = Finished(mem)
  /\ Saved(mem') \/ SaveFailed(mem')
  /\ Return
  /\ UNCHANGED <<mode, locals, clone, github, reply, head, edits, ghosts>>

-----------------------------------------------------------------------------
(* reviewAndPublish of candidate cur *)

FailHere(kind) == pc' = kind /\ Leave

\* The chunks of a snapshot no checkpoint of cur attests; the finding itself
\* is validated on an empty chunk when nothing else is left to read.
Unreviewed(S) ==
  LET open == ReviewChunks(S) \ mem.batches[cur]
  IN  IF open = {} /\ cur \notin mem.validated THEN {{}} ELSE open

Refresh ==
  /\ pc = "refresh"
  /\ \/ refresh < Refreshes /\ Fault /\ FailHere("failed") /\ UNCHANGED snapHead
     \/ refresh = Refreshes /\ FailHere("failed") /\ UNCHANGED <<snapHead, faults>>
     \/ /\ refresh < Refreshes
        /\ snap' = issues
        /\ snapHead' = head
        /\ todo' = Unreviewed(issues)
        /\ pc' = IF Unreviewed(issues) = {} THEN "verify" ELSE "review"
        /\ UNCHANGED <<cur, refresh, faults>>
  /\ UNCHANGED <<mode, mem, disk, clone, github, reply, head, edits, reviewed, spent>>

\* One chunk goes to the agent; parseReview insists that it covers the chunk.
\* The agent, its receipt or the workspace check may fail.
ReviewFails ==
  /\ pc = "review"
  /\ \E kind \in {"failed", "setup"} : FailHere(kind)
  /\ Fault
  /\ Tampered
  /\ UNCHANGED <<mode, mem, disk, origin, github, reply, head, edits, ghosts>>

\* A chunk the reviewer found nothing against enters the checkpoint.
Attested(s, r, c) ==
  [s EXCEPT !.validated = @ \union {r}, !.batches[r] = @ \union {c}]

ReviewNew ==
  /\ pc = "review"
  /\ \E c \in todo :
       /\ \A d \in todo \ {c} : Before(c, d)
       /\ mem' = Attested(mem, cur, c)
       /\ reviewed' = reviewed \union {<<cur, i>> : i \in c}
       /\ \/ /\ Saved(mem')
             /\ todo' = todo \ {c}
             /\ pc' = IF todo' = {} THEN "refresh" ELSE "review"
             /\ refresh' = IF todo' = {} THEN refresh + 1 ELSE refresh
             /\ UNCHANGED <<cur, snap>>
          \/ SaveFailed(mem') /\ FailHere("failed")
  /\ UNCHANGED <<mode, clone, github, reply, head, edits, snapHead, spent>>

\* Only a supplied issue can be a duplicate.
ReviewRejects ==
  /\ pc = "review"
  /\ \E c \in todo, v \in Verdicts :
       /\ \A d \in todo \ {c} : Before(c, d)
       /\ v = "duplicate" => c # {}
       /\ mem' = With(mem, cur, v)
  /\ Leave
  /\ \/ Saved(mem') /\ pc' = "candidate"
     \/ SaveFailed(mem') /\ pc' = "failed"
  /\ UNCHANGED <<mode, clone, github, reply, head, edits, ghosts>>

\* Mutant: the tracking ref is compared before it is fetched.
AtFetchedHead == origin = mem.scan.commit

\* The fetched tip is the scanned commit.
AtHead == head = mem.scan.commit

\* The branch is fetched again and must still be at the scanned commit; the
\* workspace and the operator's verifier must agree.
VerifySource ==
  /\ pc = "verify"
  /\ \/ /\ origin' = head
        /\ \/ AtHead /\ pc' = "reread" /\ UNCHANGED locals
           \/ ~AtHead /\ FailHere("failed")
        /\ UNCHANGED <<trees, faults>>
     \/ /\ Fault
        /\ FailHere("failed")
        /\ \/ origin' \in {origin, head} /\ UNCHANGED trees
           \/ AtHead /\ origin' = head /\ Tampered
  /\ UNCHANGED <<mode, mem, disk, github, reply, head, edits, ghosts>>

\* Mutant: only issues with a new number count as changes.
Added == ~({i.number : i \in issues} \subseteq {i.number : i \in snap})

\* An issue of the new list that the checked list lacks, or has otherwise.
Changed == ~(issues \subseteq snap)

\* The history is read again, immediately before the POST.
RereadChanged ==
  /\ pc = "reread"
  /\ \/ Changed /\ pc' = "refresh" /\ refresh' = refresh + 1 /\ UNCHANGED <<cur, snap, todo, faults>>
     \/ Fault /\ FailHere("failed")
  /\ UNCHANGED <<mode, mem, disk, clone, github, reply, head, edits, ghosts>>

RereadDryRun ==
  /\ pc = "reread"
  /\ ~Changed
  /\ mode.dry
  /\ mem' = With(mem, cur, "dry_run")
  /\ Leave
  /\ \/ Saved(mem') /\ pc' = "candidate"
     \/ SaveFailed(mem') /\ pc' = "failed"
  /\ UNCHANGED <<mode, clone, github, reply, head, edits, ghosts>>

\* Mutant: the POST goes out with the intent in memory only.
IntentKept(s) == UNCHANGED <<disk, faults>>

\* Only a completed save lets the POST go out.
IntentSaved(s) == Saved(s)

\* The intent is saved before the POST; when the save fails the candidate is
\* pending again in memory, whatever reached the disk.
SaveIntent ==
  /\ pc = "reread"
  /\ ~Changed
  /\ ~mode.dry
  /\ LET s == With(mem, cur, "posting")
     IN  \/ IntentSaved(s) /\ mem' = s /\ pc' = "post" /\ snap' = issues /\ UNCHANGED <<cur, refresh, todo>>
         \/ SaveFailed(s) /\ FailHere("failed") /\ UNCHANGED mem
  /\ UNCHANGED <<mode, clone, github, reply, head, edits, ghosts>>

Post ==
  /\ pc = "post"
  /\ flight' = [flight EXCEPT ![cur] = @ + 1]
  /\ pc' = "wait"
  /\ UNCHANGED <<mode, mem, locals, disk, clone, issues, lastNumber, created,
                 reply, head, faults, edits, ghosts>>

\* Mutants: every answer but a refusal, or none, counts as created; every
\* answer but a creation, or none, counts as refused.
NotRefused == reply # "rejected"
NotConfirmed == reply # "created"

\* createdResponse: GitHub's own word that the issue exists, or that it refused.
Confirmed == reply = "created"
Refused == reply = "rejected"

\* 201 with an issue that carries the marker.
PostCreated ==
  /\ pc = "wait"
  /\ Confirmed
  /\ mem' = With(mem, cur, "submitted")
  /\ reply' = "none"
  /\ Leave
  /\ \/ Saved(mem') /\ pc' = "candidate"
     \/ SaveFailed(mem') /\ pc' = "failed"
  /\ UNCHANGED <<mode, clone, github, head, edits, ghosts>>

\* A status that proves GitHub refused makes the candidate pending again; the
\* attempt fails whether or not that could be saved.
PostRejected ==
  /\ pc = "wait"
  /\ Refused
  /\ mem' = With(mem, cur, "pending")
  /\ reply' = "none"
  /\ FailHere("failed")
  /\ Saved(mem') \/ SaveFailed(mem')
  /\ UNCHANGED <<mode, clone, github, head, edits, ghosts>>

\* No answer, a timeout, a server error or an unusable body: the outcome is
\* unknown and the candidate stays posting.
PostUnknown ==
  /\ pc = "wait"
  /\ reply' = "none"
  /\ FailHere("failed")
  /\ UNCHANGED <<mode, mem, disk, clone, github, head, faults, edits, ghosts>>

-----------------------------------------------------------------------------
(* GitHub and the people who use it *)

Answer(r, word) == reply' = IF pc = "wait" /\ cur = r THEN word ELSE reply

GitHubCreates(r) ==
  /\ flight[r] > 0
  /\ flight' = [flight EXCEPT ![r] = @ - 1]
  /\ created' = [created EXCEPT ![r] = @ + 1]
  /\ lastNumber' = lastNumber + 1
  /\ issues' = issues \union {[number |-> lastNumber + 1, version |-> 0, rid |-> r]}
  /\ Answer(r, "created")
  /\ UNCHANGED <<pc, mode, mem, locals, disk, clone, head, faults, edits, ghosts>>

GitHubRefuses(r) ==
  /\ flight[r] > 0
  /\ flight' = [flight EXCEPT ![r] = @ - 1]
  /\ Answer(r, "rejected")
  /\ UNCHANGED <<pc, mode, mem, locals, disk, clone, issues, lastNumber, created,
                 head, faults, edits, ghosts>>

\* People file, edit (or comment on, close, reopen) and delete issues.
Edit == edits < MaxEdits /\ edits' = edits + 1

HumanFiles ==
  /\ Edit
  /\ lastNumber' = lastNumber + 1
  /\ issues' = issues \union {[number |-> lastNumber + 1, version |-> 0, rid |-> NoRid]}
  /\ UNCHANGED <<pc, mode, mem, locals, disk, clone, flight, created, reply, head,
                 faults, ghosts>>

HumanEdits ==
  /\ Edit
  /\ \E i \in issues : issues' = (issues \ {i}) \union {[i EXCEPT !.version = @ + 1]}
  /\ UNCHANGED <<pc, mode, mem, locals, disk, clone, lastNumber, flight, created,
                 reply, head, faults, ghosts>>

HumanDeletes ==
  /\ Edit
  /\ \E i \in issues : issues' = issues \ {i}
  /\ UNCHANGED <<pc, mode, mem, locals, disk, clone, lastNumber, flight, created,
                 reply, head, faults, ghosts>>

BranchAdvances ==
  /\ head < MaxHeads
  /\ head' = head + 1
  /\ UNCHANGED <<pc, mode, mem, locals, disk, clone, github, reply, faults, edits,
                 ghosts>>

-----------------------------------------------------------------------------

StepAction ==
  \/ Reconcile \/ CloseSettled \/ ChooseWork \/ Open \/ DiscardScan \/ NewScan
  \/ KeepScan \/ Prepare \/ FailAttempt

AttemptAction == ReadHistory \/ Discover \/ NextCandidate \/ FinishScan

ReviewAction ==
  \/ Refresh \/ ReviewFails \/ ReviewNew \/ ReviewRejects \/ VerifySource
  \/ RereadChanged \/ RereadDryRun \/ SaveIntent \/ Post \/ PostCreated
  \/ PostRejected \/ PostUnknown

Engine == StepAction \/ AttemptAction \/ ReviewAction \/ Wake \/ Exit

Operator == Start \/ Stop \/ Crash \/ RetryCommand

Environment ==
  \/ TimePasses \/ HumanFiles \/ HumanEdits \/ HumanDeletes \/ BranchAdvances
  \/ \E r \in Rids : GitHubCreates(r) \/ GitHubRefuses(r)

Next == Engine \/ Operator \/ Environment

Spec == Init /\ [][Next]_vars

\* The engine keeps running and sleeping until it is stopped, it is started
\* again (by its supervisor or operator), and the clock goes on.
Fairness == WF_vars(Engine) /\ WF_vars(Start) /\ WF_vars(TimePasses)

FairSpec == Spec /\ Fairness

-----------------------------------------------------------------------------
(* Properties *)

TypeOK ==
  /\ pc \in PCs
  /\ mode \in [once : BOOLEAN, dry : BOOLEAN]
  /\ mem \in State /\ disk \in State
  /\ cur \in Rids \union {NoRid}
  /\ refresh \in Nat
  /\ snap \subseteq Issue /\ issues \subseteq Issue
  /\ todo \subseteq SUBSET Issue
  /\ origin \in Nat /\ trees \in TreesType /\ head \in Nat \ {0} /\ lastNumber \in Nat
  /\ flight \in [Rids -> Nat] /\ created \in [Rids -> Nat]
  /\ reply \in {"none", "created", "rejected"}
  /\ faults \in Nat /\ edits \in Nat
  /\ reviewed \subseteq Rids \X Issue
  /\ snapHead \in Nat /\ spent \in Int

\* Whatever crashes, timeouts, lost answers, late deliveries, failed saves and
\* restarts happen, GitHub never has two issues of one proposal, and none while
\* another request for it is still on the wire (reviewAndPublish, step).
NoDuplicateIssue == \A r \in Rids : created[r] + flight[r] <= 1

\* GitHub and state.json agree: an issue, or a request that may still become
\* one, has its intent on disk, and "submitted" is said of filed issues only,
\* in memory as on disk.
LedgerMatchesGitHub ==
  \A r \in Rids :
    /\ created[r] + flight[r] > 0 => disk.status[r] \in {"posting", "submitted"}
    /\ disk.status[r] = "submitted" \/ mem.status[r] = "submitted" => created[r] > 0

\* The outcome of at most one POST is unknown at a time: nothing is published
\* before the previous outcome is settled.
OneUnresolvedPost ==
  \A s \in {mem, disk} : Cardinality(InStatus(s, "posting")) <= 1

\* When the POST of a candidate goes out, the reviewer has called it new
\* against the present text of every issue of the last list read, also across
\* restarts that resume from saved checkpoints and issues edited in between.
ReviewedBeforePost ==
  pc = "post" => \A i \in snap : <<cur, i>> \in reviewed

\* When the POST goes out, the scanned commit has been the tip of the branch
\* at some time after the reviewed list was read.
PostAtHead == pc = "post" => mem.scan.commit >= snapHead

\* A candidate leaves the scan only with its fate decided: no pending finding
\* is dropped and no unknown POST is forgotten when a scan is closed.
CompletedSettled ==
  \A s \in {mem, disk}, r \in Rids : r \in s.completed => s.status[r] \in Final

\* Crashes between charging an attempt and its end give no free attempts: of
\* one scan at most Attempts run between two retry commands.
AttemptsWithinBudget == spent <= Attempts

\* A saved decision is never taken back, whatever is lost from memory.
DecisionsAreFinal ==
  [][\A r \in Rids :
       /\ disk.status[r] \in Final => disk'.status[r] = disk.status[r]
       /\ r \in disk.completed => r \in disk'.completed
       /\ disk.status[r] # "absent" => disk'.status[r] # "absent"]_vars

\* The saved statuses and the issues GitHub created implement the ledger.
Ledger == INSTANCE ProposalLedger WITH ledger <- disk.status, filed <- created
LedgerSpec == Ledger!Spec

Filed(r) == \E i \in issues : i.rid = r

\* prepare refuses the worktree of the scan on every poll: an agent has edited
\* it, or a git worktree add that was killed has left it half-made.
Unusable(s) == HasScan(s) /\ trees[s.scan.commit] = "unusable"

\* A process whose saves failed, and that makes no attempt any more which would
\* save again, keeps what it knows to itself until it is started anew.
Unsaved(known) == known /\ (mem.scan.tries >= Attempts \/ Unusable(mem))

\* An issue whose creation was never confirmed is found by its marker and
\* recorded, even when the attempt budget is gone, unless it is deleted first.
FiledIsRecorded ==
  \A r \in Rids :
    Filed(r) ~> \/ disk.status[r] = "submitted" \/ ~Filed(r)
                \/ Unsaved(mem.status[r] = "submitted")

\* A scan with every finding decided is closed and archived, without needing
\* an attempt it may no longer have.
SettledScanCloses ==
  \A r \in Rids :
    (disk.scan.discovered /\ r \in Candidates(disk)
       /\ InStatus(disk, "pending") \union Unresolved(disk) = {})
    ~> (r \in disk.completed \/ Unsaved(r \in mem.completed))

\* What ends the work on a saved scan: it is finished, an unknown POST stops
\* it, or its attempt budget is gone (in memory at least: a charge whose save
\* failed counts for the running process only).
WorkEnds ==
  \/ ~HasScan(disk) \/ Unresolved(disk) # {}
  \/ \E s \in {mem, disk} : s.scan.tries >= Attempts

\* A saved scan is not retried forever, and so no finding of it waits forever,
\* except when its kept worktree is unusable, or that of the scan which a running
\* process has in its place and could not save.
ScanEnds == HasScan(disk) ~> (WorkEnds \/ \E s \in {mem, disk} : Unusable(s))

\* README.md:170: "Failed scans retain their candidates, workspace, and
\* diagnostics; retries wait at least 15 minutes and run on the next poll, with
\* three attempts before requiring `retry`."  (Violated: an unusable worktree
\* fails the step before an attempt is charged, on every poll.)
RetriesEnd == HasScan(disk) ~> WorkEnds

=============================================================================
