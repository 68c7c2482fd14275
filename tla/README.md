# feature-bot in TLA+

A verification development of `bfb`, the feature bot of this repository. It holds TLA+ models of
the program's stateful parts, TLC configurations that check them on small instances, and proofs
that TLAPS checks for every value of the constants.

`bfb` watches one branch of a repository. When the branch is due for a scan it lets a coding agent
look for missing features, has every finding compared with the complete history of GitHub issues,
and files what is new. A scan can take hours and the process can stop anywhere, so nearly all the
logic is about what is on disk, what is in memory, what GitHub has already done, and in which order
these three change.

1. [Inventory](#1-inventory)
2. [Plan](#2-plan)
3. [Modules and how they follow the code](#3-modules-and-how-they-follow-the-code)
4. [Runs: what is checked, on which instance](#4-runs-what-is-checked-on-which-instance)
5. [Fairness](#5-fairness)
6. [Proofs](#6-proofs)
7. [Where code and documentation disagree](#7-where-code-and-documentation-disagree)
8. [What is not modelled](#8-what-is-not-modelled)
9. [Running it](#9-running-it)

## 1. Inventory

### Components

| component | source | state | operations |
| --- | --- | --- | --- |
| Scan engine | `run.go` | the `State` in memory, the place in `Run`/`step`/`attempt`/`reviewAndPublish` | reconcile an unknown POST, close a scan, open a checkout, start/discard a scan, charge and refund an attempt, discover, review, publish, sleep |
| Durable state | `state.go` 1-126, 166-188 | `state.json` | `ReadState`, `writeState` (temporary file, rename, directory sync), `Retry` |
| Repository locks | `state.go` 127-164 | three lock files | `lockConfig`, `lockFile`, release |
| GitHub client | `github.go` | none of its own; the issue tracker | complete download of issues and comments, create, find a marker |
| Clone and worktree | `git.go` | managed clone, tracking ref, one worktree per scan | `open`, `prepare`, `verify`, `head` |
| Agent | `agent.go` | a child process and one ACP session per prompt | `Execute` |
| Prompts and receipts | `prompt.go` | none | build prompts, parse discovery and review receipts |
| Configuration and discovery | `config.go`, `discover.go` | none that lasts; directories that others may create meanwhile | load or derive, resolve links, validate |
| Progress reports | `progress.go` | none | the latest 200 proposals, counts, phase |
| Proposal report | `report.go` | none | format the saved proposals |
| Worker server | `internal/worker/server.go`, `cmd/bfb/worker.go` | Unix socket, open connections, the stop channel | initialize, run, shutdown, `Serve` |
| Command runner | `internal/osrun/run.go` | a bounded tail of output | run a command in its process group |
| Dashboard | `cmd/bfb/dashboard.go`, `terminal.go`, `console.go` | key decoder, last report, selection, scrolling, activity log | tick, key, update, log, draw, summary |
| Command line | `cmd/bfb/main.go` | none | flags, dispatch (`run`, `once`, `retry`, `status`, `report`), the context that SIGINT and SIGTERM end |
| Release scripts | `scripts/*.py`, `install.sh`, `npm/bfb.cjs` | GitHub releases, the npm registry | build, pack, publish, resume |

### How they interact

* The **engine** is one goroutine. It takes the **locks**, reads **state.json**, and then goes round
  `step`: reconcile - close - choose - open - adopt - prepare - attempt - sleep. Every change of the
  in-memory `State` is followed by a `writeState`; the two are not atomic.
* The **command line** resolves the directories before it takes the locks; `retry` takes them twice,
  once for its own change of the saved scan and once for the run that follows.
* The engine calls the **GitHub client** (one `gh` per request, each with a timeout of one minute), the
  **clone** (git commands) and the **agent** (a child process, possibly for hours). Each call returns
  an outcome; none of them holds the world still, so people file, edit and delete issues and push
  commits between any two of them.
* The **worker server** runs the same engine once per request, each in the request's own goroutine
  and context; runs for one repository meet in the lock files.
* The **GitHub client** and the **clone** run their commands through the **command runner**.
* The **dashboard** runs the engine in a goroutine and cancels its context on a quit key, a signal
  or a lost terminal. The engine's **reports** and log records come to it from that goroutine, keys and
  frames from its ticks; one mutex orders them.
* The **release job** talks to GitHub and npm and shares no state with the bot.

### What is hard, and what makes each part correct

| part | what makes it hard | what must hold |
| --- | --- | --- |
| engine + state + GitHub | a crash, a failed save, a lost or late answer at any of a dozen places around a request that cannot be taken back | one issue per proposal, ever; disk and GitHub agree; a decision once saved is final; at most one outcome unknown |
| engine, liveness | a budget, a deadline, an unknown outcome and a finished scan compete for the same `step` | an unconfirmed issue is found and recorded; a decided scan is closed even without budget; retries end |
| engine, review | checkpoints outlive restarts while issues change | what is posted was compared with the present text of every issue, and for a commit that was still the tip |
| review of a candidate | long issues split at a limit, chunks formed anew from each list, answers restated and corrected, agents that die | all text of all issues was compared in its present version; the agent is gone before its work is checked |
| GitHub client | pagination of a list that changes while it is read; the outcome of a request read from the output of a process that may be killed, cut or survived by its children | the history is complete; an outcome that is reported has happened |
| command line + locks | three files, taken one after the other, any of which may be refused; paths resolved before the directories exist; the gap in `retry` | configurations that share anything never run together, nothing stays locked, no state file is taken over |
| worker | a select with several ready cases, handlers that overlap, clients that leave, a drain that a signal must cut | a drain waits for all, a signal ends it, every stream ends with one terminal event |
| dashboard session | bytes that come in pieces, keys inside pastes, three reasons to stop | a quit key is heard and pasted text is not, as far as sequences are told apart; the session ends after the scan |
| dashboard | a selection and a scroll position that count from the end of lists that grow and are cut | what is selected stays, and what is read moves no more than it must; the summary says exactly what changed |
| release | two registries, no overwrite, builds that differ in bytes, jobs that die | nothing incomplete or mixed becomes public; a rerun finishes what was started |

The single hazards, each at its line, are in `PROJECT.json` under `hazards`, with the properties that
cover them.

## 2. Plan

The order is by importance: first the publication of issues, then what it rests on, then the servers
around it.

| step | modules | state |
| --- | --- | --- |
| 1 | `ProposalLedger` (abstract), `Engine`, `MCEngine` | done |
| 2 | `EngineProofs` | done: type correctness, publication safety, refinement |
| 3 | `IssuePages` - what the engine's one-step snapshot is worth | done, checked and proved |
| 4 | `RepoLock` - why the engine may assume to be alone | done, checked and proved |
| 5 | `Worker` | done, checked and proved |
| 6 | `DashboardSession` | done, checked and proved |
| 7 | `ReleasePublish` | done, checked and proved |
| 8 | `ReviewBatches` - the review of one candidate in detail: parts, chunks, the agent's session, recovery and correction of receipts | done, checked and proved |
| 9 | `Dashboard` on top of `DashboardSession`; `GitHubClient` (the create request and the command runner) on top of `IssuePages`; `Processes` (command line, configuration, retry) on top of `RepoLock` | done, checked and proved |
| 10 | proofs of all safety and action properties of the runs, and of the refinements: `EngineProofs`, `ReviewBatchesProofs`, `GitHubClientProofs`, `WorkerProofs`, `ReleaseProofs`, `ProcessProofs`, `DashboardProofs` | done |
| 11 | the conditions on a layout of links under which `DirectoriesApart` holds whatever the directories (`LinksAgree`), and its proof; what the inductions of two proofs share, in `Iteration` | done, proved |

Composition: `Engine` implements `ProposalLedger` (an `INSTANCE` with a mapping). `IssuePages` is
the detail of its `ReadHistory`, `Refresh` and `Reread*`, and `ReviewBatches` of its `ReviewNew`,
`ReviewRejects` and `ReviewFails`; `GitHubClient` of its `Post` and the outcomes of the request;
`RepoLock` justifies its single process and the guard `pc = "down"` of `RetryCommand`. `Dashboard`,
`GitHubClient` and `Processes` extend `DashboardSession`, `IssuePages` and `RepoLock` and take their
actions over, each with what it adds in the same step; a return of `Worker`'s `Serve` with handlers left, and the
end of a `DashboardSession` whose scan was canceled, are its `Crash` and `Stop`.

## 3. Modules and how they follow the code

`PROJECT.json` maps every definition to the lines it models.

### Engine, MCEngine

The process has a place `pc`, a memory `mem` and the locals of `reviewAndPublish` (`cur`, `refresh`,
`snap`, `todo`). The rest of the state survives it: `disk` (state.json), `origin` (the tracking ref of
the clone), `trees` (the clone and each scan's worktree: none, ready, or one that `open` or `prepare` will
refuse), and GitHub (`issues`, requests in `flight`, the `reply` on its way to a client that still waits,
`created`, and `head` of the branch).

* One action per stretch of code between two interactions with the world. A save is part of the
  action that makes the change; `Saved` and `SaveFailed` are its two outcomes. `writeState` syncs the
  directory *after* the rename, so a failed save leaves the old or the new content on disk.
* `step` is `Reconcile`, `CloseSettled`, `ChooseWork`, `Open`, `DiscardScan`, `NewScan`, `KeepScan`,
  `Prepare`, `FailAttempt`. `attempt` is `ReadHistory`, `Discover`, `NextCandidate`, `FinishScan`.
  `reviewAndPublish` is `Refresh`, `ReviewNew`, `ReviewRejects`, `ReviewFails`, `VerifySource`,
  `RereadChanged`, `RereadDryRun`, `SaveIntent`, `Post` and the three outcomes of the request.
* A POST sits in `flight` until GitHub applies or refuses it. The client may give up earlier
  (`PostUnknown`), and the request may be applied after the process has died and come back.
* People file, edit and delete issues; the branch advances. An issue is its number, a version of its
  content and its marker; a candidate is its random request id. Titles, bodies, prompts, History and
  Failure texts are left out. A review chunk is `ChunkSize` consecutive issues; how one long issue
  becomes several parts, and what happens in a prompt, is in `ReviewBatches`.
* A worktree becomes unusable in two ways: an agent edits it (`Tampered`), or a `git worktree add` is killed
  with its context or dies with the machine and leaves a half-made one (`HalfMade`), which `os.Stat` finds.
  A `git clone` may be left half-made likewise.
* `reviewed`, `snapHead` and `spent` are ghosts: no action reads them.

What the model brought out and a reader of the code should know:

* When the charge of an attempt cannot be saved, the attempt does not run, yet the running process has
  counted it (a restart forgets it again). That errs towards fewer attempts: more than `Attempts` never
  run, but a scan can lose its budget to failed saves.
* A crash between saving the intent and sending the POST, a reversal to pending that could not be
  saved, or a person who deletes the filed issue before it was recorded, leave a candidate `posting`
  for good. `step` then looks for the marker on every poll and does nothing else: the bot prefers
  standing still to filing twice. `FiledIsRecorded` says what is promised: the issue is found *if
  there is one*.
* What the process knows may stay in its memory. With two proposals, an issue is confirmed and its save
  fails, the attempt ends, its failure cannot be saved either, and the budget is gone: nothing saves any
  more while the process lives, so that the disk goes on saying `posting` (or keeps a closed scan) until
  a restart reconciles it. The same happens with budget left when the process has taken up the next scan, could
  not save that either, and its worktree is unusable. `Unsaved` names this exception in `FiledIsRecorded` and
  `SettledScanCloses`, and `ScanEnds` names the unusable worktree, also of such a scan.
* A clone that was left half-made is never mended: `open` finds the directory and fails on every poll. No scan is
  saved then, since scans are saved behind `open`, so that no property speaks of it.

### ProposalLedger

The abstract promise about each proposal: a durable status and the number of issues filed for it.
`File` needs a durable intent and happens once; `Record` is one save of the whole file, which may move
several proposals, but takes no decision back and calls a filed proposal nothing but submitted. The
engine implements it under `ledger <- disk.status, filed <- created`; everything else it does is a
stutter.

### ReviewBatches, MCReviewBatches

The loop of `reviewAndPublish` up to the point where the candidate may be filed, in the steps that
`Engine` folds into one per chunk.

* `PartsOf`, `Full`, `AddPart` and `ReviewChunks` are `reviewChunks` as a fold over the parts of all
  issues. A text is its length and a version; `Wrapping` is what the JSON around a part adds, at least
  one rune. (Because of it a part of full length always has a chunk to itself, and the comparison of
  the last number in `run.go` 317 decides nothing that the size has not decided before.)
* `Parsed` is `parseReview` on an arbitrary answer: undecodable, refused whatever the chunk, or a receipt
  whose list of numbers may lack, repeat or invent some. A receipt with another verdict than the four
  that covers the chunk is refused like one without a reason; the coverage is looked at first, as in the
  code.
* `CannotLaunch` ... `Close` are one `Execute`: requests before the prompt, the prompt, the answer. An
  error before the prompt is a setup error, also in the recovery pass, as `TestRecoverySetupFailureRefundsAttempt`
  has it. `Close` stands for the deferred calls that kill the process group. Processes that left the group,
  and an agent whose `bfb` crashed and who does not end when its input does, are outside the model.
* `Recover`, `Correct`, `ReceiptFails` and `Accept` are `execute` and `executeReview`. A restated receipt
  that does not cover the chunk is not corrected, since `execute` reports it as a missing receipt; so there
  are at most three prompts of a chunk.
* The last re-reading looks for issues that were added or edited; those that are gone do not count (`Changed`,
  here as in `Engine`).
* The limit of five refreshes is in `Engine` and is not repeated here.

### IssuePages, MCIssuePages

`githubClient.issues`: all pages of issues in order of creation, then all pages of the repository's
comments, one request per step, with people filing, commenting, deleting and transferring in between.
`Engine` takes a finished download as one snapshot. `IssuePages` says that this is right as long as
nothing is *removed* during the download, and shows (run `history`) that it is not right otherwise.

### GitHubClient, MCGitHubClient

The create request, from the call of `gh` to the outcome that `Engine` acts on. Three parties move:
GitHub, which serves the request even after `gh` was killed; `gh` and what it starts, which print and
hold the pipe; and `bfb` with its copying goroutine, its waiting one and the one that watches the context.

* `Copy`, `KeepTail` and `Excess` are `Tail.Write`; `Expire` is `Kill` on the process group, `Reap`,
  `Unwatch` and `StopWaiting` the order of `exec.Cmd.Wait` with its `WaitDelay`; `Failed`, `RunText` and
  `RunErr` what `osrun.Run` returns. A process that has exited and is not reaped still counts for `Kill`.
* `Classified` is `createdResponse` with `validateCreated`. `OutcomeIsTrue` is what `Engine` assumes of
  its three outcomes, `AnswerWhole` what `IssuePages` assumes of a page: every request goes through the
  same `Run`, whose result is the whole output or an error. `AnswerWhole` rests on the error of a pipe
  closed by `WaitDelay`, and `OutcomeIsTrue` on showing nothing of an output that was cut at its beginning.
* Output comes in pieces: a status line, the end of the headers, pieces of the body. Standard error and
  the repair of cut runes are left out.

### RepoLock, ProcessProofs

`lockConfig` takes three files with a non-blocking `flock`: of the repository (under the state home,
in lower case), the state directory, and the clone. Any of them may be refused at any time; the ones
taken are given back in the opposite order; a process that dies loses its locks to the kernel.
`RepoLock` lets a process ask with any configuration, and the proofs hold for all of them.

### Processes, MCProcesses

Where the configurations of `RepoLock` come from, and what the locks protect. A process starts as a run
or as a retry, with directories from a config file (`ReadConfig`) or derived from remote and branch
(`Discover`); they are resolved once, at the start (`ResolvePath`), checked (`Validated`), and locked.
Directories come to exist afterwards, made by `lockFile`, `open` and `prepare` of any process.

* A path is a sequence of names, and a link leads from a path to another. `Where` goes through the names as
  the kernel does, and so says where a path is found once the directories on it exist; it takes a link in one
  step, to `Lead`, of which `LinksAssumption` requires that it is where the link's target is found. That is how
  circles of links are excluded, which the kernel refuses and `resolvePath` gives up after 256 calls. A
  `Place` is a path without links: it leads to itself. `DirectoriesApart` compares the places of the directories
  in use, so that it would see two resolved names of one place.
* `Call` is one call of `resolvePath` in the place of the one before, with the names it still has to put to
  the result: a path that exists is resolved (`EvalSymlinks`), a link that leads nowhere yet is read, any other
  last name is left to the resolved parent. `MaxDepth` calls are all there is.
* `resolvePath` reads a *relative* dangling link in the name of its directory (`config.go` 119): reached through
  another link it takes `..` for the parent in the path and not for that in the file system, and the names after
  it are put to the result without another look. Where this finds the same place as the kernel, as with the pair
  of links of `locks`, nothing is lost; it need not, see section 7.
* `-scans` is put to the name of the clone and not resolved itself. `open` makes the clone and lets git say
  where its top is (`git.go` 88-94): `Prepare` goes on to worktrees only when that is the resolved path.
* `StateKeepsIdentity`: the state directory is a lock of its own and its file names its owner, so one
  process after the other in the same directory cannot continue the scan of another branch. `Retry` has no
  such check of its own; it uses `ReadState`'s.

### Worker, MCWorker

Connections, handlers and the goroutine of `Serve`. A run's context is its request's, not `Serve`'s; a
shutdown request closes the stop channel and drains without limit, a signal gives the handlers five
seconds and then closes. When the poll of `Shutdown` and its context are ready together either may win,
so `Interrupt` is not guarded by "somebody is busy". The bot's own runs return an empty result; the
`result` event is in the model because the server can write it.

### DashboardSession, MCDashboardSession

The key decoder, byte by byte, and the session around it. ESC followed by `[` or `O` begins a sequence, which
goes on to the next byte from `@` to `~` (`Rest`); so does Alt+`O`, which sends just these two bytes. Control
characters and digits end nothing: they are swallowed. The decoder keeps its state between reads, so the cut of
the input into reads makes a difference in two places only: a lone ESC, which a tick without input takes for the
key (`FlushEscape`), and an unfinished sequence of more than 32 bytes, which is given up at the end of a read
(`Kept`, with `Longest` for 32). Terminals are taken to filter control characters out of pasted text, and to send
the `200~` or `201~` of a marker in one piece.

* `torn` records that a paste marker was not read as one sequence: a pause fell behind its ESC, or its ESC became
  part of a sequence that was typed before. Then anything may follow (`PasteNeverStops` is violated in run
  `paste`); `OnlyTornPasteStops` says that nothing else makes pasted text stop the scan.
* `quits` records what was typed of quit keys. One typed between two sequences must be heard, and so must the
  one after a `q`, which ends whatever was begun; `Ctrl+C` ends nothing and may be swallowed any number of times.

### Dashboard, MCDashboard

What the session shows. The engine's `Report` brings the latest `Limit` proposals, oldest first, and is
made at the start (`Starting`), when findings are saved (`Discovered`), decided (`Decided`) and archived
(`Closed`); `AddActivity` is a log record; `Press` is `dashboard.key`, and a `Draw` cuts a scroll position
that went too far. Reports between two of these bring what the last one brought and change nothing.

* The selection counts from the newest proposal and the scroll position of the log from the last row, in
  lists that grow at that end and are cut at the other. `SelectionStays` says that what the user selected stays,
  as the code's comments want it. An opened proposal that falls out of the latest 200 is replaced by another:
  `SelectionStays` promises nothing for it.
* A record of the log takes one row or more, and a chunk of a transcript goes on with the last one
  (`Continue`). A view that is scrolled back is held against one row of each new record (`Held`) and against none
  of what goes on, so that everything else moves it towards the end. No comment or document promises
  otherwise; `ScrolledBackHolds` says how far it may move: never back, and never by more than the rows it is not
  held against (`Unheld`), as long as the limit of records takes nothing that is on the screen. The rows are
  those of a pane whose size does not change.
* `SummaryTellsNews` compares the summary with the saved proposals at the start (`start`, a ghost), and so
  covers the first report's being cut to the latest.
* "decided" stands for every final status but `stale`, and "pending" for `posting` as well, which the code's
  summary lists as a change of its own. Keys that repeat others
  (tab, paging, `G`) are left out.

### ReleasePublish, MCReleasePublish

`release_preflight.py publish`: check all destinations, stage the assets in a draft, upload the npm
packages in order and wait for each to be seen, look at everything again, make the draft public. Builds
of one commit are equal in content but not in bytes (the compressor differs), so a build is its
compressor. npm packages are compared by content, a draft's assets by bytes. One job at a time, as the
workflow's `concurrency` has it. The npm registry shows a package some time after it accepted it;
GitHub's release list shows what was written.

## 4. Runs: what is checked, on which instance

| run | instance | what it shows |
| --- | --- | --- |
| `publish` | 2 proposals, 2 attempts, 2 commits, 3 faults, fair | no proposal is filed twice; the state file and GitHub agree; at most one outcome is unknown; no undecided candidate is archived; attempts stay in budget; saved decisions are final; the ledger is implemented; an issue filed by a lost request is recorded and a decided scan is closed, without budget, unless only a running process's memory has it; a scan is not retried for ever unless its worktree is unusable |
| `review` | 2 proposals, chunks of 2 issues, 3 refreshes, 2 edits, 2 commits, 1 fault, all verdicts, dry runs | what is posted was called new against the present text of every issue of the last list, across restarts and checkpoints; the scanned commit was the tip after that list was read |
| `retries` | 1 proposal, 3 attempts, 1 fault, fair | **violation**: see section 7 |
| `batches` | parts of 3 runes, chunks of size 3 and at most 2 parts, five histories of up to 3 issues, 1 edit, two handshakes | agents are gone before their answers are judged, at most three prompts of a chunk; nothing may be filed unless every rune of every issue in its present version was in a prompt with an accepted receipt; chunks keep their bounds and have each issue once |
| `pages` | 5 issues (one a pull request), 3 comments, pages of 2, at most 2 pages, 4 changes; output of up to 5 pieces of which 3 are kept, 3 statuses, 3 bodies, one of which reads like a refusal | complete with all discussions when nothing was removed, the page limit is an error; a command without an error has returned all its output; refusals and successes that are reported have happened |
| `history` | 5 issues, 2 comments, pages of 2, at most 3 pages, 1 change | **violation**: see section 7 |
| `locks` | 2 processes, 2 homes, 2 spellings of a repository, 6 ways to call `bfb`, 3 links of which 2 lead nowhere yet | no clash ever runs; every process holds just its own locks; directories in use are apart; no state file is taken over |
| `links` | 1 way to call `bfb`, 3 links of which 1 leads nowhere yet | **violation**: see section 7 |
| `worker` | 2 runs, one of which hangs, 1 shutdown request, 1 progress event, fair | streams end with one terminal event; a nil return means drained; only clients cancel; a signal ends a drain |
| `keys` | 2 inputs out of 7 keys (a `q` that is held, Ctrl+C, an arrow, Alt+O and others) and a pasted `q` or nothing, sequences of up to 2 bytes, 1 to 3 proposals of which a report has the latest 2, a log of 2 records of 1 or 2 rows of which one row is seen, 3 rows logged, fair | pasted text stops the scan only when a marker was torn, a quit key between sequences always does; an open or browsed proposal stays, a scrolled-back log moves no more than it must; the summary has what changed; the session ends |
| `paste` | 2 inputs out of 5 keys and a pasted `q` or nothing | **violation**: see section 7 |
| `release` | 2 platforms and the launcher, 2 assets, 2 compressors, 3 faults, fair | nothing incomplete or mixed is public, the launcher comes last, a conflict stops everything, nothing is replaced, the version gets out |

The bounds named in the modules are `MaxFaults`, `MaxEdits`, `MaxHeads`, `MaxFindings`, `MaxChanges`,
`MaxInputs`, `MaxPaste`, `MaxProgress`, `MaxProposals`, `MaxLog`, and `Old` (the proposals saved
before). `PageSize`, `MaxPages`, `Limit`, `LogLimit`, `RecordRows`, `Longest`, `Capacity` and `MaxDepth` (20 calls of `resolvePath` instead of
256) are the code's own limits, made small.

Why these bounds are enough for the interesting cases to happen:

* **Two proposals** are what ordering and "one outcome unknown at a time" need; proposals interact only
  through the status of another one, never by threes. **Three faults** allow, in one behaviour, besides any
  number of lost and late answers (which no bound counts), a failed save, a crash or a second failed save, and a
  crash or a killed git after the restart. The budget of 2 attempts is gone in each of these ways, so that
  "without budget" is reached. The proofs remove these bounds for the safety properties of `publish`.
* In `review`, chunks of two with up to four issues (two filed by people, two by the bot) give several
  chunks, chunks that change when an issue is added, and edits of an attested issue before and after a
  restart; three refreshes let the snapshot be invalidated twice and give up.
* The histories of `batches` have no issue, an issue without text, texts of exactly one part, one rune
  more, and two parts, a last part that shares a chunk with the next issue, and more issues than a chunk
  takes; the one edit changes between any two of them, at any moment of the review, before and after a
  restart. Receipts list every way to be right and to be wrong about chunks of up to two issues.
* Pages of 2 with 5 issues reach a full last page and the page limit; four changes are enough to fill a
  gap that a removal opened. An answer of 3 pieces just fits the tail and one of 5 loses its head, so that
  what is kept begins with the text that reads like a refusal; every cut of the output and every order of
  `gh`'s end, its descendants' and the context's happens.
* The calls of `locks` share a state directory, a clone reached by two names, a state inside the clone that a
  link leads to, a repository spelled in two ways and one of two homes; a second process may run between a retry's two
  starts.
* In `keys` a report is full with the second proposal, so that the third moves the selected one and the first
  leaves; the log passes its limit by one record, and a record is wider than the pane is high. Two inputs select
  and open, or scroll back, before it moves, or make every pair of a sequence begun and what it takes in. A
  sequence is given up after 2 bytes, so that this too happens within two inputs.
* `Rids`, `Issues`, and byte sets are numbers or strings since their order matters; symmetry is used
  only for the two processes of `locks`, which nothing tells apart.

`CHECK_DEADLOCK FALSE` is set for `worker`, `keys` and `paste` only, where the process is meant to end.

Every property of a passing run has at least one mutant in `PROJECT.json`: a plausible bug in a mapped
definition (a guard dropped, an order swapped, a reset forgotten) under which TLC finds the property
violated in that same run. The mutant operators stand before the definitions they replace.

The configurations of `worker`, `keys`, `history` and `release` do not list the `TypeOK` of their modules,
which only documents the types; it holds on the same instances (add the line `INVARIANT TypeOK`). The type
invariants of `Engine` and `RepoLock`, on which the proofs rest, are part of `publish` and `locks`.

## 5. Fairness

* **Engine** (`publish`, `retries`): weak fairness of the engine as a whole (it is one goroutine, all of
  whose waits end: an attempt has a deadline, `run.go` 154, and a request to GitHub one of a minute), of
  `Start` (a supervisor, a cron job or the operator runs `bfb` again) and of `TimePasses` (the retry and
  poll deadlines come). Nothing is assumed of people, of GitHub's requests in flight, of pushes, or that
  a failure stops: these are bounded by `MaxFaults`, `MaxEdits` and `MaxHeads` instead, since under
  unending failures no progress can be promised.
* **Worker**: weak fairness of `Serve` and of each handler. A stuck run returns only when it is
  canceled; clients need not leave, the listener need not fail, no signal need come.
* **Dashboard**: ticks go on and read the keys, a *canceled* scan returns (all its waits select on its
  context), and the session leaves when it has. Without a cancellation the scan may run for ever; nothing is
  assumed of reports, log records and what the user does.
* **ReleasePublish**: the operator runs the job again after a failure, a running job goes on, and a
  published package is seen at last. Faults are bounded.

## 6. Proofs

TLAPS checks all of the following, for any number of proposals, findings, issues, commits, failures,
processes, directories, requests, platforms, keys and lines, from assumptions on the constants that the
modules name and TLC evaluates on every instance:

| assumption | module | why the code justifies it |
| --- | --- | --- |
| `ConstantsAssumption` | `Engine` | `config.go` refuses a budget, a limit or a chunk below 1; the bounds of the environment are numbers |
| `LockAssumption` | `RepoLock` | a repository is locked under a spelling of its own (lower case) |
| `OptionsAssumption`, `DirectoriesAssumption` | `Processes` | there is a way to call `bfb`; its directories are absolute paths, the root directory exists, the directories it may resolve are among those named; a clone's name with `-scans` is a name like others |
| `LinksAssumption` | `Processes` | a link leads to where its target is found in the end; links that lead in circles lead nowhere, and the kernel refuses them |
| `PagesAssumption`, `ClientAssumption` | `IssuePages`, `GitHubClient` | issues and comments are finitely many and in order of creation; a comment is on an issue; the output is made of pieces |
| `WorkerAssumption` | `Worker` | a request asks for a run or for a shutdown, never for both |
| `ReleaseAssumption` | `ReleasePublish` | finitely many platforms, and the launcher is not one of them |
| `ReviewAssumption` | `ReviewBatches` | the download brings issues in order of their numbers, each once (`github.go` 66-68, 93); a chunk takes something; a part's JSON has a rune at least; `initialize` and `session/new` come before a prompt |
| `SessionAssumption` | `DashboardSession` | a key is one byte or more, none of them the end of a paste marker; pasted text has no ESC; a sequence is given up after 2 bytes at least (32) |
| `DashboardAssumption` | `Dashboard` | limits and the rows of the pane are positive |

`OnlyTornPasteStopsCorrect` and `QuitHeardCorrect` have no hypothesis on what is typed, on when a terminal pauses, or
on how reads are cut: the cases in which the decoder is misled are in the properties (`torn`, and in `QuitHeard` a
key typed into an unfinished sequence), and section 7 says what comes of them.

`DirectoriesApartCorrect` has two hypotheses on the links: `LinksAgree`, that the target of a link, read as
`resolvePath` reads it, is found where the link leads; and that there is no link where worktrees go, since `-scans`
is not resolved. Links whose targets do not go up by `..`, absolute ones above all, always agree
(`DownwardLinksAgree`); so do those of `locks`, one of which goes up. Without the first hypothesis the property is false (section 7).

| theorem | module | says |
| --- | --- | --- |
| `TypeCorrect` | `EngineProofs` | `Spec => []TypeOK` |
| `Publication` | `EngineProofs` | `Spec => []PublicationInv`, the inductive invariant |
| `NoDuplicateIssueCorrect`, `LedgerMatchesGitHubCorrect`, `OneUnresolvedPostCorrect`, `CompletedSettledCorrect` | `EngineProofs` | the safety properties of `publish` |
| `DecisionsAreFinalCorrect` | `EngineProofs` | no step takes a saved decision back |
| `EngineImplementsLedger` | `EngineProofs` | `Spec => LedgerSpec` |
| `AttemptsWithinBudgetCorrect` | `EngineProofs` | no scan runs more attempts than its budget |
| `ReviewedBeforePostCorrect`, `PostAtHeadCorrect` | `EngineProofs` | the safety properties of `review` |
| `BatchesCorrect` | `ReviewBatchesProofs` | `Spec => []BatchesInv`, the invariant of a candidate's review |
| `SessionInvCorrect`, `WellBatchedCorrect`, `EveryRuneComparedCorrect` | `ReviewBatchesProofs` | the safety properties of `batches`, for histories, chunks and limits of any size |
| `LocksHeld`, `ClashesNeverRun` | `ProcessProofs` | the lock invariant, and mutual exclusion |
| `ProcessesTakeLocks`, `ProcessesExclude` | `ProcessProofs` | the command line implements the lock protocol, so its processes exclude each other too |
| `StateKeepsIdentityCorrect` | `ProcessProofs` | no step gives a state file to another branch |
| `DirectoriesApartCorrect` | `ProcessProofs` | the directories of running processes are apart, with paths, links and directories of any number and length |
| `CompleteWithoutRemovalCorrect` | `GitHubClientProofs` | what a download promises |
| `AnswerWholeCorrect`, `OutcomeIsTrueCorrect` | `GitHubClientProofs` | what a command returns is whole, what `create` reports has happened |
| `StreamsEndCorrect`, `NilMeansDrainedCorrect`, `OnlyClientsCancelCorrect` | `WorkerProofs` | the safety properties of `worker` |
| `FinalIsCompleteCorrect`, `LauncherLastCorrect`, `ConflictStopsCorrect`, `NothingReplacedCorrect` | `ReleaseProofs` | the safety properties of `release` |
| `DashboardIsSession` | `DashboardProofs` | `DashSpec => Spec` of `DashboardSession` |
| `OnlyTornPasteStopsCorrect`, `QuitHeardCorrect` | `DashboardProofs` | the decoder, for keys, sequences and pastes of any length |
| `SummaryTellsNewsCorrect`, `SelectionStaysCorrect`, `ScrolledBackHoldsCorrect` | `DashboardProofs` | what is shown, for lists and logs of any length and records of any width |

Each module proves an inductive invariant first, with one lemma for each action or group of actions and
one step for each conjunct it can disturb, and reads the properties off it. The invariants are defined
at the beginning of the modules with the proofs, but for `LockInv` and `SessionInv`, which runs list. TLC finds each
of them true on the instance of its component (with a module that extends the instance and the proofs, and
the invariant as an `INVARIANT`; the configurations list the properties that follow from it).

**Publication.** `NoDuplicateIssue` is not inductive: a state with an issue created, a candidate pending
in memory and `pc = "reread"` satisfies it and violates it two steps later. What is missing is the chain
of knowledge from GitHub back to the code that is about to post:

* `LedgerMatchesGitHub` - what GitHub has, or may still get, is `posting` or `submitted` on disk;
* `MemoryCoversDisk` - a running process knows at least what the disk knows, so a restart cannot forget;
* `PostsAreKnown` - hence a running process has it as `posting` or `submitted` too;
* `UnresolvedStopsWork` - and while anything is `posting` no place that could lead to a new POST is
  reached, except by the candidate being published itself;
* `PlaceOfCandidate` - the candidate being reviewed is pending in memory, and just before the request
  goes out its intent is on disk and nothing was sent for it;
* `AnswersAreTrue` - a refusal means that nothing was created, a confirmation or a marker that it was;
* `CompletedSettled` - archived candidates are decided, so closing a scan hides no `posting` one.

Disk and memory are compared through lemmas about `With`, `Finished`, `Stale` and the candidates of a
state, so that the action proofs need not expand them.

**Refinement.** Under the mapping only two kinds of steps are visible: a save, for which it suffices that
each proposal moves as `MayBecome` allows (`SaveMoves`), and the creation of an issue, which by the
invariant finds the intent on disk and no other issue (`IssueAppears`). Every other action leaves the
saved statuses and `created` alone. `DecisionsAreFinal` uses the same classification.

**Budget, tip, review.** `BudgetInv` adds to the property that disk *and* memory count at least the
attempts that ran, and that `Prepare` is reached only below the budget; without the disk, a crash after
a refund would be free. `HeadInv` carries the tip from the reading of the list (`snapHead`) over
`VerifySource` to the request. `ReviewInv` says of every saved or remembered checkpoint that it attests
reviews that took place (`CheckpointsAreTrue`), and of the list being worked on that each of its issues
was reviewed or is in a chunk still to do.

**Review of a candidate.** The first half of `ReviewBatchesProofs` says what `reviewChunks` does with any
history: each part of each issue goes into a chunk (`AddPartFills`), each chunk is `Good` - within its size
and number of parts unless it is one part alone, numbers rising - and each rune is in a part
(`PartsOfIssue`). These are inductions over the parts. The library's induction theorems are out of reach,
so the module `Iteration` derives induction from the least element of a set of numbers (`Count`) and shows that
a function defined step by step exists and takes these steps (`Stepwise`); `Iterates` shows with it that
the function in a library fold goes through the initial segments one by one. The second half is
`BatchesInv`: prompts are counted by passes (`PromptsCounted`), an answer that comes to be verified covers
the chunk at hand (`AnswerOfChunk`), each checkpoint attests text that was compared (`AttestedCompared`),
and `publish` is reached only with a checkpoint of every chunk of the list (`ListAttested`).

**Locks.** `LockInv` says that each process holds exactly the first locks of its own configuration, as
many as its place says. Two running processes hold all three of theirs; clashing configurations have one
of them in common, which has one holder. `Processes` maps to `RepoLock` step by step, its directories,
modes and identities being hidden; `StateOwned` adds that from `ReadState` to its end a process holds the
lock of its state directory and what is saved there is its own, so that a save by it is no takeover.

**Directories.** A configuration in use has resolved directories that `Validate` saw apart. What has to be shown
is that these are places (`PathsResolved`): then prefixes of paths are prefixes of places, and the comparison
of names says something about directories, whatever is created later. `Followed` and `Following` say that a
path is found by going on from where its beginning is found, `Cleaned` that `filepath.Clean` leaves a
path without `..` alone. `Calls` is what holds between two calls of `resolvePath`: its path with the names
still to be put to it meets no link after the path's own place. `CallGoesOn` shows that each of the three kinds of
calls keeps this, the link by `LinksAgree`, and `Resolves` follows by an induction over the calls (`Stepwise`).

**Downloads and commands.** `PagesInv` says what a listing under way owes (`NothingPassed`): while nothing
was removed, an issue that existed at the start is still to come, at the same place or a later one than
the next page begins with, or was listed. The lemmas place an issue by counting those before it
(`Place`), and compute its page by division. `ClientInv` follows the output from `gh` to the tail:
`KeptIsCopied`, `StatusTellsPost` (the first piece tells what GitHub did) and `ReturnedIsOver` (after
the return nobody writes or copies).

**Worker.** `HandlersConnected` relates each connection to its handler, and `NothingTerminalYet` says that
only the end of a handler writes a terminal event; with them "drained" means that every stream has ended.

**Release.** `JobInv` is what a job that goes on after a check may rely on though others wrote before it:
the record it read, the assets it compared, the packages it saw. `TodoInv` keeps the launcher last in what
is left, and `TakenInv` says that a taken version was seen by the check, so nothing was written.

**Dashboard.** `KeyboardInv` gives the form of everything that is still on the way, as long as no marker was
torn: nothing but typed bytes, or a paste of which some tail is left, with the state of the decoder that belongs to
each tail. Only so can the next byte be told typed or pasted. Once a marker was torn it says nothing, and both
properties hold. `ReportsInv` says that proposals keep their numbers and places in what is saved, so that what
a report has is a suffix, and each summary line compares two states of one proposal. `UiInv` bounds selection and
view by the list and the log; it has records begin at rising rows, from which the arithmetic of the view
(`Drift`) follows.

**Model-checked only.** All liveness properties: the prover has no support for reasoning from fairness
(`ENABLED`).

## 7. Where code and documentation disagree

* `retries`: README.md:170 bounds the retries of a failed scan by three attempts. If an agent edits a
  tracked file of the worktree, the attempt fails; the worktree is kept, `prepare` refuses it on every
  later poll (`run.go` 186-189), and that comes before `Tries` is incremented (`run.go` 191). The scan
  fails on every poll until the branch moves; `bfb retry` does not help since it resets only the budget. A
  `git worktree add` that is killed when its context ends (`git.go` 29, `osrun/run.go` 57-69) does the same
  without an agent, if it leaves the directory half-made: `prepare` finds it and refuses it.
* `history`: README.md:179 says that an incomplete history stops publication. When an issue on a page
  already read is deleted or transferred away, its successors move up, and the first one of the next page
  is never sent. The check for repeated numbers (`github.go` 66) sees the opposite shift only.
* `paste`: terminal.go:110 says that pasted text cannot act as shortcuts. If the ESC of a paste marker
  comes more than a tick before the rest, it is taken for the key (`terminal.go` 96), the marker is missed
  and the text is typed. If it is the *end* marker that is missed, the decoder stays in the paste and
  hears no key, Ctrl+C included. Alt+`O` or Alt+`[` before a paste has the same effect without any pause:
  `ESC O` stays pending (`terminal.go` 125) and takes the ESC and the `[` of the marker for its end.
* Ctrl+C after Alt+`O` or Alt+`[` (no run of its own): README.md:115 says "`q` or `Ctrl+C`: stop the bot". The
  unfinished sequence takes in every Ctrl+C, which is below `@`, and is not flushed by a tick, which knows a
  lone ESC only; `q` ends the sequence, and the next key is heard. `QuitHeard` states exactly which quit keys are
  heard.
* `links`: `config.go` 110-111 says that the target of a dangling link is resolved "so future directories cannot
  make previously separate paths overlap". A relative target is put to the *name* of the link's directory
  (`config.go` 119), which may itself be a link, and the names after it are not looked at again. Let `/l` lead to
  `/srv/b`, `/srv/b/x` to `../y`, which is not there yet, and `/y/z` to `/w`. A clone's directory `/l/x/z` becomes
  `/y/z`, which is `/w`, and not `/srv/y/z`; a state directory `/w/state` is accepted, although it is
  inside. Only when its first poll opens the clone does git give another name for its top, and `open` refuses
  it (`git.go` 92).
* Order of a release (no run of its own): README.md:357-359 says "The package job runs only after native publication
  succeeds and validates package contents and local installs before uploading. It does not wait for npm's public
  index to update." The job does the opposite: it stages the native assets in a draft, uploads the npm packages,
  waits for each to be visible before it uploads the next (`release_preflight.py` 285-293) and makes the draft
  public last (296-297), as RELEASING.md:18 says. `LauncherLast` and `FinalIsComplete` hold just because of this
  order; if README.md were right, `FinalIsComplete` would be false whenever a package fails after the native
  publication, and `LauncherLast` whenever the index is behind.

## 8. What is not modelled

* Rendering: layout, colours, a pane that changes its size, the counters and times on the screen; `console.go`; `report.go`, which
  formats the saved candidates. None of it changes what is saved or filed.
* Flags, strict decoding, the checks of single values in `Validate` and `ReadState`, the choice of remote,
  default branch and agent executable: sequential, done once, each ending in an error or a value.
* The single git commands, of which the engine sees the outcome; the choice of the effort option and the
  transcript in `agent.go`; the discovery receipt but for its outcome.
* A corrupt `state.json`: `ReadState` refuses it and nothing happens. (A foreign one is in `Processes`.)
* Two machines: the locks are local to one.
* A GitHub list that is behind its own writes is not told apart from one that failed: `Reconcile` then
  goes back to sleep without finding the marker.
* Building, packing, license checks and installers; the authorization calls of a release; and
  somebody else taking a version between a job's check and its upload: in the model a version is taken
  at the start or by the jobs only.

## 9. Running it

    tlc -workers 2 -config MCEngine_publish.cfg MCEngine      # likewise for every run of PROJECT.json
    tlapm EngineProofs.tla                                    # likewise for Iteration and the other *Proofs modules

`review` explores about five million states and takes a few minutes, `keys` and `publish` two or three; `locks` and
`batches` take up to a minute, the others seconds.
