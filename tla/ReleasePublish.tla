--------------------------- MODULE ReleasePublish ---------------------------
(***************************************************************************)
(* The publication of a version (scripts/release_preflight.py, publish): a *)
(* job that stages the native assets in a draft release on GitHub, uploads *)
(* the npm packages one after the other, and then makes the draft public.  *)
(* It may fail at every step and is run again from the same tag; it must   *)
(* go on where the earlier one stopped, although none of the destinations  *)
(* can be overwritten or taken back.                                       *)
(*                                                                         *)
(* Every job builds anew.  Builds of one commit have the same contents but *)
(* not the same bytes: they depend on the compressor (package_release.py), *)
(* which is what a build is here.  Jobs do not overlap                     *)
(* (publish-packages.yml, concurrency).  GitHub and the npm registry are   *)
(* external: an upload may fail half-way, and a package that was published *)
(* is seen some time later.                                                *)
(***************************************************************************)
EXTENDS Naturals, Sequences, FiniteSets, SequencesExt

CONSTANTS
  Platforms,    \* npm packages with a binary
  Launcher,     \* the npm package that depends on all of them
  Assets,       \* files of the GitHub release
  Compressors,  \* a build's bytes, for one commit
  None, Other, Broken,
  MaxFaults     \* bound on the jobs that die, uploads that fail, toolchain changes

ASSUME ReleaseAssumption ==
  /\ IsFiniteSet(Platforms) /\ Launcher \notin Platforms /\ Compressors # {}
  /\ {None, Other, Broken} \intersect Compressors = {} /\ None \notin {Other, Broken}
  /\ MaxFaults \in Nat

Packages == Platforms \union {Launcher}

VARIABLES
  npm,        \* what the registry has of each package
  visible,    \* the packages it shows
  release,    \* the release of the tag on GitHub
  asset,      \* its files
  toolchain,  \* the compressor a job builds with
  job,        \* the job: its step, and what it knows
  faults

vars == <<npm, visible, release, asset, toolchain, job, faults>>
remote == <<npm, visible, release, asset>>

NoJob == [at |-> "idle", bytes |-> None, record |-> "none", todo |-> <<>>, names |-> {}]

Init ==
  /\ npm \in [Packages -> {None, Other}]   \* a version may be taken already
  /\ visible = {p \in Packages : npm[p] = Other}
  /\ release = "none"
  /\ asset = [a \in Assets |-> None]
  /\ toolchain \in Compressors
  /\ job = NoJob
  /\ faults = 0

Step(at) == job' = [job EXCEPT !.at = at]
Fail == job' = NoJob

\* Mutant: the packages in the order of their names.
ByName(ps) == (IF Launcher \in ps THEN <<Launcher>> ELSE <<>>) \o SetToSeq(ps \ {Launcher})

\* NAMES: the platforms before the launcher.
InOrder(ps) == SetToSeq(ps \ {Launcher}) \o (IF Launcher \in ps THEN <<Launcher>> ELSE <<>>)

Names == {a \in Assets : asset[a] # None}

\* Mutant: a draft's assets are compared by content as well.
AnyAsset(bytes) == \A a \in Names : asset[a] \in Compressors

\* github_status: a draft has this build's bytes, a public release is whole and
\* from one build.
AssetsAgree(bytes) ==
  IF release = "published"
  THEN Names = Assets /\ \E b \in Compressors : \A a \in Assets : asset[a] = b
  ELSE \A a \in Names : asset[a] = bytes

\* npm_status: the contents of a package that is shown are this commit's.
PackagesAgree == \A p \in visible : npm[p] \in Compressors

\* The job is started and has built; it reads every destination.
Start ==
  /\ job.at = "idle"
  /\ job' = [NoJob EXCEPT !.at = "check", !.bytes = toolchain]
  /\ UNCHANGED <<remote, toolchain, faults>>

\* Mutant: the packages are checked when their turn comes.
CheckAssetsOnly ==
  /\ job.at = "check"
  /\ IF AssetsAgree(job.bytes)
     THEN job' = [job EXCEPT !.at = "authorize", !.record = release,
                             !.todo = InOrder(Packages \ visible), !.names = Names]
     ELSE Fail
  /\ UNCHANGED <<remote, toolchain, faults>>

\* Mutant: a package that is published already is a conflict.
RefuseExisting ==
  /\ job.at = "check"
  /\ IF ~AssetsAgree(job.bytes) \/ visible # {}
     THEN Fail
     ELSE job' = [job EXCEPT !.at = "authorize", !.record = release,
                             !.todo = InOrder(Packages), !.names = Names]
  /\ UNCHANGED <<remote, toolchain, faults>>

\* versions: a conflict anywhere ends the job.
Check ==
  /\ job.at = "check"
  /\ IF ~AssetsAgree(job.bytes) \/ ~PackagesAgree
     THEN Fail
     ELSE IF release = "published" /\ visible = Packages
     THEN Step("done")
     ELSE job' = [job EXCEPT !.at = "authorize", !.record = release,
                             !.todo = InOrder(Packages \ visible), !.names = Names]
  /\ UNCHANGED <<remote, toolchain, faults>>

\* Mutant: every job stages its assets afresh.
StageAfresh ==
  /\ job.at = "authorize"
  /\ release' = IF job.record = "published" THEN release ELSE "draft"
  /\ asset' = IF job.record = "draft" THEN [a \in Assets |-> None] ELSE asset
  /\ job' = [job EXCEPT !.at = IF job.record = "published" THEN "npm" ELSE "upload",
                        !.record = release', !.names = {}]
  /\ UNCHANGED <<npm, visible, toolchain, faults>>

\* authorization, and the draft when there is none.
Authorize ==
  /\ job.at = "authorize"
  /\ release' = IF job.record = "none" THEN "draft" ELSE release
  /\ job' = [job EXCEPT !.at = IF job.record = "published" THEN "npm" ELSE "upload",
                        !.record = release']
  /\ UNCHANGED <<npm, visible, asset, toolchain, faults>>

Upload(a) ==
  /\ job.at = "upload" /\ a \notin job.names
  /\ asset' = [asset EXCEPT ![a] = job.bytes]
  /\ job' = [job EXCEPT !.names = @ \union {a}]
  /\ UNCHANGED <<npm, visible, release, toolchain, faults>>

\* The upload breaks off and GitHub keeps an asset that cannot be used.
UploadFails(a) ==
  /\ job.at = "upload" /\ a \notin job.names /\ faults < MaxFaults
  /\ asset' = [asset EXCEPT ![a] = Broken]
  /\ faults' = faults + 1
  /\ Fail
  /\ UNCHANGED <<npm, visible, release, toolchain>>

\* What was uploaded is read again before anything is final.
Staged ==
  /\ job.at = "upload" /\ job.names = Assets
  /\ IF AssetsAgree(job.bytes) /\ Names = Assets THEN Step("npm") ELSE Fail
  /\ UNCHANGED <<remote, toolchain, faults>>

\* npm publish of the next package that is missing; npm takes a version once.
NpmPublish ==
  /\ job.at = "npm" /\ job.todo # <<>>
  /\ IF npm[Head(job.todo)] = None
     THEN /\ npm' = [npm EXCEPT ![Head(job.todo)] = job.bytes]
          /\ Step("poll")
     ELSE Fail /\ UNCHANGED npm
  /\ UNCHANGED <<visible, release, asset, toolchain, faults>>

\* The package is seen, and is what this job has built.
Seen ==
  /\ job.at = "poll" /\ Head(job.todo) \in visible
  /\ IF npm[Head(job.todo)] = job.bytes
     THEN job' = [job EXCEPT !.at = "npm", !.todo = Tail(@)]
     ELSE Fail
  /\ UNCHANGED <<remote, toolchain, faults>>

\* Five minutes pass without it: the tag is resumed later.
NotSeen ==
  /\ job.at = "poll" /\ Head(job.todo) \notin visible
  /\ Fail
  /\ UNCHANGED <<remote, toolchain, faults>>

\* npm_status of every package, required.
Verify ==
  /\ job.at = "npm" /\ job.todo = <<>>
  /\ IF visible = Packages /\ PackagesAgree
     THEN Step(IF job.record = "draft" THEN "finalize" ELSE "final")
     ELSE Fail
  /\ UNCHANGED <<remote, toolchain, faults>>

Finalize ==
  /\ job.at = "finalize"
  /\ release' = "published"
  /\ Step("final")
  /\ UNCHANGED <<npm, visible, asset, toolchain, faults>>

\* versions once more, with everything required.
Final ==
  /\ job.at = "final"
  /\ IF visible = Packages /\ PackagesAgree /\ AssetsAgree(job.bytes) THEN Step("done") ELSE Fail
  /\ UNCHANGED <<remote, toolchain, faults>>

\* The job is over; the release may be run again.
End ==
  /\ job.at = "done" /\ Fail
  /\ UNCHANGED <<remote, toolchain, faults>>

Job ==
  \/ Check \/ Authorize \/ Staged \/ NpmPublish \/ Seen \/ NotSeen \/ Verify \/ Finalize
  \/ Final \/ End
  \/ \E a \in Assets : Upload(a)

\* A failed request, a refused authorization, a cancelled or timed out job.
Dies ==
  /\ job.at \notin {"idle", "done"} /\ faults < MaxFaults
  /\ faults' = faults + 1
  /\ Fail
  /\ UNCHANGED <<remote, toolchain>>

\* The registry shows what it was given.
Appears(p) ==
  /\ npm[p] # None /\ p \notin visible
  /\ visible' = visible \union {p}
  /\ UNCHANGED <<npm, release, asset, toolchain, job, faults>>

\* The runner image is updated between two jobs.
Upgrade ==
  /\ faults < MaxFaults
  /\ toolchain' \in Compressors \ {toolchain}
  /\ faults' = faults + 1
  /\ UNCHANGED <<remote, job>>

Next ==
  \/ Start \/ Job \/ Dies \/ Upgrade
  \/ \E a \in Assets : UploadFails(a)
  \/ \E p \in Packages : Appears(p)

Spec == Init /\ [][Next]_vars

\* The operator starts the job again until the version is out; a package is seen
\* at last.
FairSpec ==
  /\ Spec
  /\ WF_vars(Start) /\ WF_vars(Job)
  /\ \A p \in Packages : WF_vars(Appears(p))

-----------------------------------------------------------------------------
(* Properties *)

JobState ==
  [at : {"idle", "check", "authorize", "upload", "npm", "poll", "finalize", "final", "done"},
   bytes : Compressors \union {None}, record : {"none", "draft", "published"},
   todo : Seq(Packages), names : SUBSET Assets]

TypeOK ==
  /\ npm \in [Packages -> Compressors \union {None, Other}]
  /\ visible \subseteq {p \in Packages : npm[p] # None}
  /\ release \in {"none", "draft", "published"}
  /\ asset \in [Assets -> Compressors \union {None, Broken}]
  /\ toolchain \in Compressors /\ faults \in 0..MaxFaults
  /\ job \in JobState

\* The release is public only when each npm package is published and seen, and its
\* assets are all from one build: release.json and checksums.txt of one job never
\* stand beside the archives of another, however often the job was resumed
\* (RELEASING.md:18: "Finalize the GitHub release only after every npm package is
\* verified"; README.md:357 has it the other way round).
FinalIsComplete ==
  release = "published" =>
    /\ \A p \in Packages : npm[p] \in Compressors /\ p \in visible
    /\ \E b \in Compressors : \A a \in Assets : asset[a] = b

\* Whoever can install the launcher can install the platform package it depends
\* on, at every moment and after every failure: each package is waited for before
\* the next (release_preflight.py:285-293), although README.md:359 says that the
\* job "does not wait for npm's public index to update".
LauncherLast == npm[Launcher] \in Compressors => Platforms \subseteq visible

\* When the version of one package is taken by something else nothing is uploaded
\* anywhere (release_preflight.py:268; RELEASING.md:99, "The job rechecks every version
\* before its first upload").
ConflictStops == [][(\E p \in Packages : npm[p] = Other) => UNCHANGED remote]_vars

\* What a job stages for the first time is never replaced by a later one.
NothingReplaced ==
  [][/\ \A p \in Packages : npm[p] # None => npm'[p] = npm[p]
     /\ \A a \in Assets : asset[a] # None => asset'[a] = asset[a]]_vars

\* A version nobody else has taken is published in the end, though jobs die,
\* unless the draft holds a broken asset or one of an older toolchain: those a
\* person must remove.
Published ==
  (\A p \in Packages : npm[p] # Other) ~>
    (release = "published" \/ \E a \in Names : asset[a] # toolchain)

=============================================================================
