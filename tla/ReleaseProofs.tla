---------------------------- MODULE ReleaseProofs ----------------------------
(***************************************************************************)
(* The safety of a release, for any platforms, assets and compressors and  *)
(* any number of faults: what is public is complete, the launcher comes    *)
(* last, nothing is replaced, and a conflict leaves everything alone.      *)
(*                                                                         *)
(* ReleaseInv is inductive.  Each of its parts speaks of what the running  *)
(* job knows, since a job is what connects its check of the destinations   *)
(* with what it does to them later; only one job runs at a time.           *)
(***************************************************************************)
EXTENDS ReleasePublish, FiniteSetTheorems, SequenceTheorems, TLAPS

-----------------------------------------------------------------------------
(* The inductive invariant behind the safety properties *)

\* A job knows the release it works on, and whose assets it has; it goes to npm
\* with a release that is public or holds this build, and finalizes it when it
\* has seen every package.
JobInv ==
  /\ job.at # "idle" => job.bytes \in Compressors
  /\ job.at \in {"authorize", "upload", "npm", "poll", "finalize"} => job.record = release
  /\ job.at \in {"authorize", "upload"} => job.names = Names
  /\ job.at = "upload" => release = "draft"
  /\ job.at \in {"npm", "poll", "finalize"} /\ release = "draft" => \A a \in Assets : asset[a] = job.bytes
  /\ job.at = "finalize" => release = "draft" /\ visible = Packages /\ PackagesAgree

\* Every package that is not seen is still to be uploaded, the launcher as the last.
TodoInv ==
  job.at \in {"authorize", "upload", "npm", "poll"} =>
    /\ Packages \ visible \subseteq Range(job.todo)
    /\ \A i \in DOMAIN job.todo : job.todo[i] = Launcher => i = Len(job.todo)
    /\ job.at = "poll" => job.todo # <<>>

\* A version that was taken is seen, and no job has got beyond its check.
TakenInv ==
  /\ \A p \in Packages : npm[p] = Other => p \in visible
  /\ (\E p \in Packages : npm[p] = Other) =>
       job.at \in {"idle", "check"} /\ \A p \in Packages : npm[p] \in {None, Other}

ReleaseInv ==
  TypeOK /\ JobInv /\ TodoInv /\ TakenInv /\ FinalIsComplete /\ LauncherLast

-----------------------------------------------------------------------------
(* The order of the packages *)

\* A finite set can be listed.
LEMMA Listing ==
  ASSUME NEW S, IsFiniteSet(S)
  PROVE  SetToSeq(S) \in Seq(S) /\ Range(SetToSeq(S)) = S
<1>1. Cardinality(S) \in Nat /\ ExistsBijection(1..Cardinality(S), S)
  BY FS_CardinalityType
<1>2. PICK g \in [1..Cardinality(S) -> S] : IsInjective(g)
  BY <1>1 DEF ExistsBijection, Bijection, Injection, IsInjective
<1>3. SetToSeq(S) \in [1..Cardinality(S) -> S] /\ IsInjective(SetToSeq(S))
  BY <1>2 DEF SetToSeq
<1> DEFINE f == SetToSeq(S)
<1> HIDE DEF f
<1>4. f \in Injection(1..Cardinality(S), S)
  BY <1>3 DEF f, Injection, IsInjective
<1>5. IsFiniteSet(1..Cardinality(S)) /\ Cardinality(1..Cardinality(S)) = Cardinality(S)
  BY <1>1, FS_Interval
<1>6. f \in Surjection(1..Cardinality(S), S)
  BY <1>4, <1>5, FS_Injection
<1>7. Range(f) = S
  BY <1>6 DEF Surjection, Range
<1>8. f \in Seq(S)
  BY <1>1, <1>3 DEF f
<1> QED
  BY <1>7, <1>8 DEF f

\* The elements of two sequences, one after the other.
LEMMA RangeConcat ==
  ASSUME NEW S, NEW s \in Seq(S), NEW t \in Seq(S)
  PROVE  Range(s \o t) = Range(s) \union Range(t)
<1>1. /\ Len(s) \in Nat /\ DOMAIN s = 1..Len(s)
      /\ Len(t) \in Nat /\ DOMAIN t = 1..Len(t)
  BY LenProperties
<1>2. /\ s \o t \in Seq(S) /\ Len(s \o t) = Len(s) + Len(t)
      /\ \A i \in 1..(Len(s) + Len(t)) :
           (s \o t)[i] = IF i <= Len(s) THEN s[i] ELSE t[i - Len(s)]
  BY ConcatProperties
<1> DEFINE u == s \o t
<1> HIDE DEF u
<1>3. DOMAIN u = 1..(Len(s) + Len(t))
  BY <1>2, LenProperties DEF u
<1>4. ASSUME NEW i \in DOMAIN u PROVE u[i] \in Range(s) \union Range(t)
  <2>1. CASE i <= Len(s)
    BY <1>1, <1>2, <1>3, <1>4, <2>1 DEF u, Range
  <2>2. CASE ~(i <= Len(s))
    <3>1. i - Len(s) \in DOMAIN t /\ u[i] = t[i - Len(s)]
      BY <1>1, <1>2, <1>3, <1>4, <2>2 DEF u
    <3> QED
      BY <3>1 DEF Range
  <2> QED
    BY <2>1, <2>2
<1>5. ASSUME NEW i \in DOMAIN s PROVE s[i] \in Range(u)
  <2>1. i \in DOMAIN u /\ u[i] = s[i]
    BY <1>1, <1>2, <1>3 DEF u
  <2> QED
    BY <2>1 DEF Range
<1>6. ASSUME NEW i \in DOMAIN t PROVE t[i] \in Range(u)
  <2>1. Len(s) + i \in DOMAIN u /\ u[Len(s) + i] = t[i]
    BY <1>1, <1>2, <1>3 DEF u
  <2> QED
    BY <2>1 DEF Range
<1> QED
  BY <1>4, <1>5, <1>6 DEF Range, u

\* All the packages that are missing are uploaded, the launcher as the last.
LEMMA LauncherIsLast ==
  ASSUME NEW ps \in SUBSET Packages
  PROVE  /\ InOrder(ps) \in Seq(Packages)
         /\ Range(InOrder(ps)) = ps
         /\ \A i \in DOMAIN InOrder(ps) : InOrder(ps)[i] = Launcher => i = Len(InOrder(ps))
<1> DEFINE P == ps \ {Launcher}
           a == SetToSeq(P)
           b == IF Launcher \in ps THEN <<Launcher>> ELSE <<>>
<1>1. P \subseteq Platforms /\ IsFiniteSet(P)
  BY ReleaseAssumption, FS_Subset DEF Packages
<1>2. a \in Seq(P) /\ Range(a) = P
  BY <1>1, Listing
<1>3. P \subseteq Packages /\ Launcher \in Packages
  BY DEF Packages
<1> HIDE DEF P
<1>4. a \in Seq(Packages)
  BY <1>2, <1>3
<1>5. b \in Seq(Packages) /\ Len(b) \in 0..1
  BY <1>3
<1>6. Range(b) = IF Launcher \in ps THEN {Launcher} ELSE {}
  BY DEF Range
<1>7. InOrder(ps) = a \o b
  BY DEF InOrder, P
<1> HIDE DEF a, b
<1>8. InOrder(ps) \in Seq(Packages)
  BY <1>4, <1>5, <1>7, ConcatProperties
<1>9. Range(InOrder(ps)) = ps
  <2>1. Range(a \o b) = Range(a) \union Range(b)
    BY <1>4, <1>5, RangeConcat
  <2> QED
    BY <1>2, <1>6, <1>7, <2>1 DEF P
<1>10. ASSUME NEW i \in DOMAIN InOrder(ps), InOrder(ps)[i] = Launcher
       PROVE  i = Len(InOrder(ps))
  <2>1. /\ Len(a) \in Nat /\ DOMAIN a = 1..Len(a) /\ Len(b) \in Nat
        /\ Len(a \o b) = Len(a) + Len(b)
        /\ \A j \in 1..(Len(a) + Len(b)) :
             (a \o b)[j] = IF j <= Len(a) THEN a[j] ELSE b[j - Len(a)]
    BY <1>4, <1>5, LenProperties, ConcatProperties
  <2>2. i \in 1..(Len(a) + Len(b))
    BY <1>7, <1>8, <1>10, <2>1, LenProperties
  <2>3. ~(i <= Len(a))
    <3> SUFFICES ASSUME i <= Len(a) PROVE FALSE
      OBVIOUS
    <3>1. i \in DOMAIN a /\ a[i] = Launcher
      BY <1>7, <1>10, <2>1, <2>2
    <3>2. Launcher \in P
      BY <1>2, <3>1 DEF Range
    <3> QED
      BY <3>2 DEF P
  <2> QED
    BY <1>5, <1>7, <2>1, <2>2, <2>3
<1> QED
  BY <1>8, <1>9, <1>10

\* What is left of a queue when its head was seen.
LEMMA QueueTail ==
  ASSUME NEW s \in Seq(Packages), s # <<>>
  PROVE  /\ Tail(s) \in Seq(Packages) /\ Len(Tail(s)) = Len(s) - 1 /\ Len(s) \in Nat \ {0}
         /\ Head(s) = s[1] /\ Head(s) \in Packages /\ 1 \in DOMAIN s
         /\ \A i \in DOMAIN Tail(s) : i + 1 \in DOMAIN s /\ Tail(s)[i] = s[i + 1]
         /\ Range(s) \subseteq Range(Tail(s)) \union {Head(s)}
<1>1. Len(s) \in Nat \ {0} /\ DOMAIN s = 1..Len(s)
  BY LenProperties, EmptySeq
<1>2. /\ Head(s) = s[1] /\ Head(s) \in Packages
      /\ Tail(s) \in Seq(Packages) /\ Len(Tail(s)) = Len(s) - 1
      /\ \A i \in 1..Len(Tail(s)) : Tail(s)[i] = s[i + 1]
  BY HeadTailProperties
<1> DEFINE t == Tail(s)
<1> HIDE DEF t
<1>3. DOMAIN t = 1..(Len(s) - 1)
  BY <1>1, <1>2, LenProperties DEF t
<1>4. \A i \in DOMAIN t : i + 1 \in DOMAIN s /\ t[i] = s[i + 1]
  BY <1>1, <1>2, <1>3 DEF t
<1>5. ASSUME NEW i \in DOMAIN s PROVE s[i] \in Range(t) \union {s[1]}
  <2>1. CASE i = 1
    BY <2>1
  <2>2. CASE i # 1
    <3>1. i - 1 \in DOMAIN t /\ t[i - 1] = s[i]
      <4>1. i - 1 \in DOMAIN t /\ (i - 1) + 1 = i
        BY <1>1, <1>3, <2>2
      <4> QED
        BY <1>4, <4>1
    <3> QED
      BY <3>1 DEF Range
  <2> QED
    BY <2>1, <2>2
<1> QED
  BY <1>1, <1>2, <1>4, <1>5 DEF Range, t

-----------------------------------------------------------------------------
(* The invariant holds and is kept *)

LEMMA ReleaseStart == Init => ReleaseInv
<1> SUFFICES ASSUME Init PROVE ReleaseInv
  OBVIOUS
<1> USE ReleaseAssumption DEF Init
<1>1. NoJob \in JobState
  BY EmptySeq DEF NoJob, JobState
<1>2. job.at = "idle"
  BY DEF NoJob, JobState
<1>3. TypeOK
  BY <1>1 DEF TypeOK, JobState
<1>4. JobInv /\ TodoInv
  BY <1>2 DEF JobInv, TodoInv
<1>5. TakenInv
  BY <1>2 DEF TakenInv
<1>6. FinalIsComplete /\ LauncherLast
  BY DEF FinalIsComplete, LauncherLast, Packages
<1> QED
  BY <1>3, <1>4, <1>5, <1>6 DEF ReleaseInv

\* A job may end at every moment: nothing that was promised needs it.
LEMMA JobEnds ==
  ASSUME ReleaseInv, job' = NoJob, UNCHANGED remote,
         toolchain' \in Compressors, faults' \in 0..MaxFaults
  PROVE  ReleaseInv'
<1> USE DEF remote
<1>1. /\ job' \in JobState
      /\ job'.at = "idle"
  BY EmptySeq DEF NoJob, JobState
<1>2. TypeOK'
  BY <1>1 DEF ReleaseInv, TypeOK, JobState
<1>3. JobInv' /\ TodoInv'
  BY <1>1 DEF JobInv, TodoInv
<1>4. TakenInv'
  BY <1>1 DEF ReleaseInv, TakenInv
<1>5. FinalIsComplete' /\ LauncherLast'
  BY DEF ReleaseInv, FinalIsComplete, LauncherLast
<1> QED
  BY <1>2, <1>3, <1>4, <1>5 DEF ReleaseInv

\* When the packages that are seen are this commit's, no version was taken.
LEMMA NoneTaken == TakenInv /\ PackagesAgree => \A p \in Packages : npm[p] # Other
  BY ReleaseAssumption DEF TakenInv, PackagesAgree

\* The steps of a job that read the destinations or only move on: the new step
\* and what it has to know.
LEMMA JobMoves ==
  ASSUME ReleaseInv, UNCHANGED remote, toolchain' = toolchain, faults' = faults,
         \/ /\ job' = [job EXCEPT !.at = job'.at]
            /\ \/ job.at = "upload" /\ job'.at = "npm" /\ \A a \in Assets : asset[a] = job.bytes
               \/ /\ job.at = "npm" /\ job'.at = "finalize"
                  /\ release = "draft" /\ visible = Packages /\ PackagesAgree
               \/ job.at # "idle" /\ job'.at \in {"final", "done"} /\ PackagesAgree
         \/ /\ job.at = "idle" /\ job' = [NoJob EXCEPT !.at = "check", !.bytes = toolchain]
  PROVE  ReleaseInv'
<1> USE DEF remote
<1>1. CASE job.at = "idle" /\ job' = [NoJob EXCEPT !.at = "check", !.bytes = toolchain]
  <2>1. /\ job' \in JobState
        /\ job'.at = "check" /\ job'.bytes \in Compressors
    BY <1>1, EmptySeq DEF ReleaseInv, TypeOK, JobState, NoJob
  <2>2. TypeOK'
    BY <2>1 DEF ReleaseInv, TypeOK, JobState
  <2>3. JobInv' /\ TodoInv'
    BY <2>1 DEF JobInv, TodoInv
  <2>4. TakenInv'
    BY <2>1 DEF ReleaseInv, TakenInv
  <2>5. FinalIsComplete' /\ LauncherLast'
    BY DEF ReleaseInv, FinalIsComplete, LauncherLast
  <2> QED
    BY <2>2, <2>3, <2>4, <2>5 DEF ReleaseInv
<1>2. CASE /\ job' = [job EXCEPT !.at = job'.at]
           /\ \/ job.at = "upload" /\ job'.at = "npm" /\ \A a \in Assets : asset[a] = job.bytes
              \/ /\ job.at = "npm" /\ job'.at = "finalize"
                 /\ release = "draft" /\ visible = Packages /\ PackagesAgree
              \/ job.at # "idle" /\ job'.at \in {"final", "done"} /\ PackagesAgree
  <2>1. job' = [job EXCEPT !.at = job'.at] /\ job.at # "idle"
        /\ job'.at \in {"npm", "finalize", "final", "done"}
    BY <1>2
  <2>2. /\ job'.bytes = job.bytes /\ job'.record = job.record
        /\ job'.todo = job.todo /\ job'.names = job.names
    BY <2>1 DEF ReleaseInv, TypeOK, JobState
  <2>3. TypeOK'
    BY <2>1 DEF ReleaseInv, TypeOK, JobState
  <2>4. JobInv'
    BY <1>2, <2>2 DEF ReleaseInv, JobInv, PackagesAgree, Names
  <2>5. TodoInv'
    BY <1>2, <2>2 DEF ReleaseInv, TodoInv
  <2>6. TakenInv'
    <3>1. \A p \in Packages : npm[p] # Other
      BY <1>2, NoneTaken DEF ReleaseInv, TakenInv
    <3> QED
      BY <3>1 DEF TakenInv
  <2>7. FinalIsComplete' /\ LauncherLast'
    BY DEF ReleaseInv, FinalIsComplete, LauncherLast
  <2> QED
    BY <2>3, <2>4, <2>5, <2>6, <2>7 DEF ReleaseInv
<1> QED
  BY <1>1, <1>2

\* The other steps of a job that change nothing but the job: what its check has
\* found, and a package that was seen.
LEMMA JobLearns ==
  ASSUME ReleaseInv, Check \/ Seen
  PROVE  ReleaseInv'
<1> USE DEF remote
<1>1. toolchain' \in Compressors /\ faults' \in 0..MaxFaults /\ UNCHANGED remote
      /\ toolchain' = toolchain /\ faults' = faults
  BY DEF Check, Seen, ReleaseInv, TypeOK, JobState
<1>2. CASE job' = NoJob
  BY <1>1, <1>2, JobEnds
<1>3. CASE Check /\ job' # NoJob
  <2>1. job.at = "check" /\ PackagesAgree
    BY <1>3 DEF Check, Fail
  <2>2. CASE Step("done")
    BY <1>1, <2>1, <2>2, JobMoves DEF Step, ReleaseInv, TypeOK, JobState
  <2>3. CASE job' = [job EXCEPT !.at = "authorize", !.record = release,
                             !.todo = InOrder(Packages \ visible), !.names = Names]
    <3>1. /\ InOrder(Packages \ visible) \in Seq(Packages)
          /\ Range(InOrder(Packages \ visible)) = Packages \ visible
          /\ \A i \in DOMAIN InOrder(Packages \ visible) :
               InOrder(Packages \ visible)[i] = Launcher => i = Len(InOrder(Packages \ visible))
      BY LauncherIsLast
    <3>2. /\ job'.at = "authorize" /\ job'.bytes = job.bytes /\ job'.record = release
          /\ job'.todo = InOrder(Packages \ visible) /\ job'.names = Names
      BY <2>3 DEF ReleaseInv, TypeOK, JobState
    <3>3. TypeOK'
      BY <1>1, <2>3, <3>1 DEF ReleaseInv, TypeOK, JobState, Names
    <3>4. JobInv'
      BY <1>1, <2>1, <3>2 DEF ReleaseInv, JobInv, Names
    <3>5. TodoInv'
      BY <1>1, <3>1, <3>2 DEF TodoInv
    <3>6. TakenInv'
      BY <1>1, <2>1, NoneTaken DEF ReleaseInv, TakenInv
    <3>7. FinalIsComplete' /\ LauncherLast'
      BY <1>1 DEF ReleaseInv, FinalIsComplete, LauncherLast
    <3> QED
      BY <3>3, <3>4, <3>5, <3>6, <3>7 DEF ReleaseInv
  <2> QED
    BY <1>3, <2>2, <2>3 DEF Check, Fail
<1>4. CASE Seen /\ job' # NoJob
  <2>1. /\ job.at = "poll" /\ Head(job.todo) \in visible
        /\ job' = [job EXCEPT !.at = "npm", !.todo = Tail(@)]
    BY <1>4 DEF Seen, Fail
  <2>2. job.todo \in Seq(Packages) /\ job.todo # <<>>
    BY <2>1 DEF ReleaseInv, TypeOK, JobState, TodoInv
  <2>3. /\ job'.at = "npm" /\ job'.bytes = job.bytes /\ job'.record = job.record
        /\ job'.todo = Tail(job.todo) /\ job'.names = job.names
    BY <2>1 DEF ReleaseInv, TypeOK, JobState
  <2>4. TypeOK'
    BY <1>1, <2>1, <2>2, QueueTail DEF ReleaseInv, TypeOK, JobState
  <2>5. JobInv'
    BY <1>1, <2>1, <2>3 DEF ReleaseInv, JobInv, PackagesAgree, Names
  <2>6. TodoInv'
    <3>1. Packages \ visible \subseteq Range(Tail(job.todo))
      BY <2>1, <2>2, QueueTail DEF ReleaseInv, TodoInv
    <3>2. ASSUME NEW i \in DOMAIN Tail(job.todo), Tail(job.todo)[i] = Launcher
          PROVE  i = Len(Tail(job.todo))
      <4>1. i + 1 = Len(job.todo)
        BY <2>1, <2>2, <3>2, QueueTail DEF ReleaseInv, TodoInv
      <4>2. i \in Nat /\ Len(Tail(job.todo)) = Len(job.todo) - 1
        BY <2>2, <3>2, QueueTail, LenProperties
      <4> QED
        BY <4>1, <4>2
    <3> QED
      BY <1>1, <2>3, <3>1, <3>2 DEF TodoInv
  <2>7. TakenInv'
    BY <1>1, <2>1 DEF ReleaseInv, TakenInv
  <2>8. FinalIsComplete' /\ LauncherLast'
    BY <1>1 DEF ReleaseInv, FinalIsComplete, LauncherLast
  <2> QED
    BY <2>4, <2>5, <2>6, <2>7, <2>8 DEF ReleaseInv
<1> QED
  BY <1>2, <1>3, <1>4

\* The release on GitHub: the draft, its assets, and its publication.
LEMMA JobStages ==
  ASSUME ReleaseInv, Authorize \/ Finalize \/ \E a \in Assets : Upload(a) \/ UploadFails(a)
  PROVE  ReleaseInv'
<1>1. CASE Authorize
  <2>1. /\ job.at = "authorize" /\ release' \in {"none", "draft", "published"}
        /\ release' = (IF job.record = "none" THEN "draft" ELSE release)
        /\ job' = [job EXCEPT !.at = IF job.record = "published" THEN "npm" ELSE "upload",
                              !.record = release']
        /\ UNCHANGED <<npm, visible, asset, toolchain, faults>>
    BY <1>1 DEF Authorize, ReleaseInv, TypeOK, JobState
  <2>2. job.record = release
    BY <2>1 DEF ReleaseInv, JobInv
  <2>3. /\ job'.bytes = job.bytes /\ job'.record = release' /\ job'.names = job.names
        /\ job'.todo = job.todo
        /\ \/ job'.at = "npm" /\ release' = "published" /\ release = "published"
           \/ job'.at = "upload" /\ release' = "draft" /\ release # "published"
    BY <2>1, <2>2 DEF ReleaseInv, TypeOK, JobState
  <2>4. TypeOK'
    BY <2>1, <2>3 DEF ReleaseInv, TypeOK, JobState
  <2>5. JobInv'
    BY <2>1, <2>3 DEF ReleaseInv, JobInv, Names
  <2>6. TodoInv'
    BY <2>1, <2>3 DEF ReleaseInv, TodoInv
  <2>7. TakenInv'
    BY <2>1 DEF ReleaseInv, TakenInv
  <2>8. FinalIsComplete' /\ LauncherLast'
    BY <2>1, <2>3 DEF ReleaseInv, FinalIsComplete, LauncherLast
  <2> QED
    BY <2>4, <2>5, <2>6, <2>7, <2>8 DEF ReleaseInv
<1>2. CASE Finalize
  <2>1. /\ job.at = "finalize" /\ release' = "published" /\ job' = [job EXCEPT !.at = "final"]
        /\ UNCHANGED <<npm, visible, asset, toolchain, faults>>
    BY <1>2 DEF Finalize, Step
  <2>2. /\ job.bytes \in Compressors /\ visible = Packages /\ PackagesAgree
        /\ \A a \in Assets : asset[a] = job.bytes
    BY <2>1 DEF ReleaseInv, JobInv
  <2>3. job'.at = "final" /\ job'.bytes = job.bytes
    BY <2>1 DEF ReleaseInv, TypeOK, JobState
  <2>4. TypeOK'
    BY <2>1 DEF ReleaseInv, TypeOK, JobState
  <2>5. JobInv' /\ TodoInv'
    BY <2>2, <2>3 DEF JobInv, TodoInv
  <2>6. TakenInv'
    BY <2>1 DEF ReleaseInv, TakenInv
  <2>7. FinalIsComplete'
    BY <2>1, <2>2 DEF FinalIsComplete, PackagesAgree
  <2>8. LauncherLast'
    BY <2>1 DEF ReleaseInv, LauncherLast
  <2> QED
    BY <2>4, <2>5, <2>6, <2>7, <2>8 DEF ReleaseInv
<1>3. CASE \E a \in Assets : Upload(a)
  <2>1. PICK a \in Assets :
          /\ job.at = "upload"
          /\ asset' = [asset EXCEPT ![a] = job.bytes]
          /\ job' = [job EXCEPT !.names = @ \union {a}]
          /\ UNCHANGED <<npm, visible, release, toolchain, faults>>
    BY <1>3 DEF Upload
  <2>2. job.bytes \in Compressors /\ release = "draft" /\ job.names = Names
    BY <2>1 DEF ReleaseInv, JobInv
  <2>3. /\ job'.at = "upload" /\ job'.bytes = job.bytes /\ job'.record = job.record
        /\ job'.todo = job.todo /\ job'.names = job.names \union {a}
    BY <2>1 DEF ReleaseInv, TypeOK, JobState
  <2>4. TypeOK'
    BY <2>1, <2>2 DEF ReleaseInv, TypeOK, JobState
  <2>5. Names' = Names \union {a}
    BY <2>1, <2>2, ReleaseAssumption DEF Names, ReleaseInv, TypeOK, JobState
  <2>6. JobInv'
    BY <2>1, <2>2, <2>3, <2>5 DEF ReleaseInv, JobInv
  <2>7. TodoInv'
    BY <2>1, <2>3 DEF ReleaseInv, TodoInv
  <2>8. TakenInv'
    BY <2>1 DEF ReleaseInv, TakenInv
  <2>9. FinalIsComplete' /\ LauncherLast'
    BY <2>1, <2>2 DEF ReleaseInv, FinalIsComplete, LauncherLast
  <2> QED
    BY <2>4, <2>6, <2>7, <2>8, <2>9 DEF ReleaseInv
<1>4. CASE \E a \in Assets : UploadFails(a)
  <2>1. PICK a \in Assets :
          /\ job.at = "upload" /\ faults < MaxFaults /\ faults' = faults + 1
          /\ asset' = [asset EXCEPT ![a] = Broken] /\ job' = NoJob
          /\ UNCHANGED <<npm, visible, release, toolchain>>
    BY <1>4 DEF UploadFails, Fail
  <2>2. release = "draft"
    BY <2>1 DEF ReleaseInv, JobInv
  <2>3. /\ job' \in JobState
        /\ job'.at = "idle"
    BY <2>1, EmptySeq DEF NoJob, JobState
  <2>4. faults' \in 0..MaxFaults
    BY <2>1, ReleaseAssumption DEF ReleaseInv, TypeOK, JobState
  <2>5. TypeOK'
    BY <2>1, <2>3, <2>4 DEF ReleaseInv, TypeOK, JobState
  <2>6. JobInv' /\ TodoInv'
    BY <2>3 DEF JobInv, TodoInv
  <2>7. TakenInv'
    BY <2>1, <2>3 DEF ReleaseInv, TakenInv
  <2>8. FinalIsComplete' /\ LauncherLast'
    BY <2>1, <2>2 DEF ReleaseInv, FinalIsComplete, LauncherLast
  <2> QED
    BY <2>5, <2>6, <2>7, <2>8 DEF ReleaseInv
<1> QED
  BY <1>1, <1>2, <1>3, <1>4

\* The registry: a package is published, and is seen later.
LEMMA Registry ==
  ASSUME ReleaseInv, NpmPublish \/ \E p \in Packages : Appears(p)
  PROVE  ReleaseInv'
<1>1. CASE NpmPublish /\ npm[Head(job.todo)] # None
  BY <1>1, JobEnds DEF NpmPublish, Fail, remote, ReleaseInv, TypeOK, JobState
<1>2. CASE NpmPublish /\ npm[Head(job.todo)] = None
  <2> DEFINE h == Head(job.todo)
  <2>1. /\ job.at = "npm" /\ job.todo # <<>> /\ npm[h] = None
        /\ npm' = [npm EXCEPT ![h] = job.bytes]
        /\ job' = [job EXCEPT !.at = "poll"]
        /\ UNCHANGED <<visible, release, asset, toolchain, faults>>
    BY <1>2 DEF NpmPublish, Step
  <2>2. job.todo \in Seq(Packages) /\ job.bytes \in Compressors
    BY <2>1 DEF ReleaseInv, TypeOK, JobState, JobInv
  <2>3. /\ h \in Packages /\ h = job.todo[1] /\ 1 \in DOMAIN job.todo
        /\ Len(Tail(job.todo)) = Len(job.todo) - 1 /\ Len(job.todo) \in Nat \ {0}
        /\ Range(job.todo) \subseteq Range(Tail(job.todo)) \union {h}
    BY <2>1, <2>2, QueueTail
  <2> HIDE DEF h
  <2>4. /\ job'.at = "poll" /\ job'.bytes = job.bytes /\ job'.record = job.record
        /\ job'.todo = job.todo /\ job'.names = job.names
    BY <2>1 DEF ReleaseInv, TypeOK, JobState
  <2>5. h \notin visible /\ \A p \in visible : npm'[p] = npm[p]
    BY <2>1, <2>3 DEF ReleaseInv, TypeOK, JobState
  <2>6. TypeOK'
    BY <2>1, <2>2, <2>3, ReleaseAssumption DEF ReleaseInv, TypeOK, JobState
  <2>7. JobInv'
    BY <2>1, <2>4 DEF ReleaseInv, JobInv, Names
  <2>8. TodoInv'
    BY <2>1, <2>4 DEF ReleaseInv, TodoInv
  <2>9. TakenInv'
    <3>1. \A p \in Packages : npm[p] # Other
      BY <2>1 DEF ReleaseInv, TakenInv
    <3>2. \A p \in Packages : npm'[p] # Other
      BY <2>1, <2>2, <2>3, <3>1, ReleaseAssumption DEF ReleaseInv, TypeOK, JobState
    <3> QED
      BY <3>2 DEF TakenInv
  <2>10. FinalIsComplete'
    <3>1. release # "published"
      BY <2>3, <2>5 DEF ReleaseInv, FinalIsComplete
    <3> QED
      BY <2>1, <3>1 DEF FinalIsComplete
  <2>11. LauncherLast'
    <3>1. CASE h = Launcher
      <4>1. Len(job.todo) = 1
        BY <2>1, <2>3, <3>1 DEF ReleaseInv, TodoInv
      <4>2. Range(job.todo) \subseteq {h}
        <5>1. \A i \in DOMAIN job.todo : i = 1
          BY <2>2, <4>1, LenProperties
        <5> QED
          BY <2>3, <5>1 DEF Range
      <4>3. Platforms \subseteq visible
        BY <2>1, <3>1, <4>2, ReleaseAssumption DEF ReleaseInv, TodoInv, Packages
      <4> QED
        BY <2>1, <4>3 DEF LauncherLast
    <3>2. CASE h # Launcher
      <4>1. npm'[Launcher] = npm[Launcher]
        BY <2>1, <3>2 DEF ReleaseInv, TypeOK, JobState, Packages
      <4> QED
        BY <2>1, <4>1 DEF ReleaseInv, LauncherLast
    <3> QED
      BY <3>1, <3>2
  <2> QED
    BY <2>6, <2>7, <2>8, <2>9, <2>10, <2>11 DEF ReleaseInv
<1>3. CASE \E p \in Packages : Appears(p)
  <2>1. PICK p \in Packages :
          /\ npm[p] # None /\ visible' = visible \union {p} /\ p \notin visible
          /\ UNCHANGED <<npm, release, asset, toolchain, job, faults>>
    BY <1>3 DEF Appears
  <2>2. TypeOK'
    BY <2>1 DEF ReleaseInv, TypeOK, JobState
  <2>3. JobInv'
    <3>1. job.at # "finalize"
      BY <2>1 DEF ReleaseInv, JobInv
    <3> QED
      BY <2>1, <3>1 DEF ReleaseInv, JobInv, Names
  <2>4. TodoInv'
    BY <2>1 DEF ReleaseInv, TodoInv
  <2>5. TakenInv'
    BY <2>1 DEF ReleaseInv, TakenInv
  <2>6. FinalIsComplete' /\ LauncherLast'
    BY <2>1 DEF ReleaseInv, FinalIsComplete, LauncherLast
  <2> QED
    BY <2>2, <2>3, <2>4, <2>5, <2>6 DEF ReleaseInv
<1> QED
  BY <1>1, <1>2, <1>3

LEMMA ReleaseStep == ReleaseInv /\ [Next]_vars => ReleaseInv'
<1> SUFFICES ASSUME ReleaseInv, [Next]_vars PROVE ReleaseInv'
  OBVIOUS
<1>0. /\ toolchain \in Compressors /\ faults \in 0..MaxFaults
      /\ faults < MaxFaults => faults + 1 \in 0..MaxFaults
  BY ReleaseAssumption DEF ReleaseInv, TypeOK, JobState
<1>1. CASE Check \/ Seen
  BY <1>1, JobLearns
<1>2. CASE Authorize \/ Finalize \/ \E a \in Assets : Upload(a) \/ UploadFails(a)
  BY <1>2, JobStages
<1>3. CASE NpmPublish \/ \E p \in Packages : Appears(p)
  BY <1>3, Registry
<1>4. CASE Start
  BY <1>4, JobMoves DEF Start
<1>5. CASE NotSeen \/ End \/ Dies
  BY <1>0, <1>5, JobEnds DEF NotSeen, End, Dies, Fail
<1>6. CASE (Staged \/ Verify \/ Final) /\ job' = NoJob
  BY <1>0, <1>6, JobEnds DEF Staged, Verify, Final
<1>7. CASE Staged /\ job' # NoJob
  <2>1. /\ job.at = "upload" /\ AssetsAgree(job.bytes) /\ Names = Assets
        /\ job' = [job EXCEPT !.at = "npm"]
        /\ UNCHANGED <<remote, toolchain, faults>>
    BY <1>7 DEF Staged, Step, Fail
  <2>2. \A a \in Assets : asset[a] = job.bytes
    BY <2>1 DEF ReleaseInv, JobInv, AssetsAgree
  <2>3. job'.at = "npm"
    BY <2>1 DEF ReleaseInv, TypeOK, JobState
  <2> QED
    BY <2>1, <2>2, <2>3, JobMoves
<1>8. CASE Verify /\ job' # NoJob
  <2>1. /\ job.at = "npm" /\ visible = Packages /\ PackagesAgree
        /\ job' = [job EXCEPT !.at = IF job.record = "draft" THEN "finalize" ELSE "final"]
        /\ UNCHANGED <<remote, toolchain, faults>>
    BY <1>8 DEF Verify, Step, Fail
  <2>2. job.record = release
    BY <2>1 DEF ReleaseInv, JobInv
  <2>3. job'.at = IF job.record = "draft" THEN "finalize" ELSE "final"
    BY <2>1 DEF ReleaseInv, TypeOK, JobState
  <2> QED
    BY <2>1, <2>2, <2>3, JobMoves
<1>9. CASE Final /\ job' # NoJob
  <2>1. /\ job.at = "final" /\ PackagesAgree /\ job' = [job EXCEPT !.at = "done"]
        /\ UNCHANGED <<remote, toolchain, faults>>
    BY <1>9 DEF Final, Step, Fail
  <2>2. job'.at = "done"
    BY <2>1 DEF ReleaseInv, TypeOK, JobState
  <2> QED
    BY <2>1, <2>2, JobMoves
<1>10. CASE Upgrade \/ UNCHANGED vars
  <2>1. /\ UNCHANGED <<npm, visible, release, asset, job>>
        /\ toolchain' \in Compressors /\ faults' \in 0..MaxFaults
    BY <1>0, <1>10 DEF Upgrade, vars, remote
  <2> QED
    BY <2>1 DEF ReleaseInv, TypeOK, JobState, JobInv, TodoInv, TakenInv, FinalIsComplete, LauncherLast,
                PackagesAgree, Names
<1> QED
  BY <1>1, <1>2, <1>3, <1>4, <1>5, <1>6, <1>7, <1>8, <1>9, <1>10 DEF Next, Job

-----------------------------------------------------------------------------
(* Theorems *)

\* ReleaseInv holds whenever jobs die, uploads break off and packages appear.
THEOREM ReleaseCorrect == Spec => []ReleaseInv
  BY ReleaseStart, ReleaseStep, PTL DEF Spec

\* A public release is complete: each npm package is published and seen, and the
\* assets are all from one build.
THEOREM FinalIsCompleteCorrect == Spec => []FinalIsComplete
<1>1. ReleaseInv => FinalIsComplete
  BY DEF ReleaseInv
<1> QED
  BY <1>1, ReleaseCorrect, PTL

\* Whoever sees the launcher can have the platform package it depends on.
THEOREM LauncherLastCorrect == Spec => []LauncherLast
<1>1. ReleaseInv => LauncherLast
  BY DEF ReleaseInv
<1> QED
  BY <1>1, ReleaseCorrect, PTL

\* When the version of a package was taken, no destination ever changes.
THEOREM ConflictStopsCorrect == Spec => ConflictStops
<1>1. ReleaseInv /\ [Next]_vars =>
        [(\E p \in Packages : npm[p] = Other) => UNCHANGED remote]_vars
  <2> SUFFICES ASSUME ReleaseInv, Next, \E p \in Packages : npm[p] = Other
               PROVE  UNCHANGED remote
    BY DEF remote, vars
  <2>1. /\ job.at \in {"idle", "check"}
        /\ \A p \in Packages : npm[p] = None \/ p \in visible
    BY DEF ReleaseInv, TakenInv
  <2>2. CASE \E p \in Packages : Appears(p)
    BY <2>1, <2>2 DEF Appears
  <2>3. CASE Start \/ Job \/ Dies \/ Upgrade \/ \E a \in Assets : UploadFails(a)
    BY <2>1, <2>3
    DEF Start, Job, Dies, Upgrade, UploadFails, Check, Authorize, Staged, NpmPublish, Seen,
        NotSeen, Verify, Finalize, Final, End, Upload
  <2> QED
    BY <2>2, <2>3 DEF Next
<1> QED
  BY <1>1, ReleaseCorrect, PTL DEF Spec, ConflictStops

\* No job replaces a package or an asset that an earlier one has uploaded.
THEOREM NothingReplacedCorrect == Spec => NothingReplaced
<1> DEFINE Kept == /\ \A p \in Packages : npm[p] # None => npm'[p] = npm[p]
                   /\ \A a \in Assets : asset[a] # None => asset'[a] = asset[a]
<1>1. ReleaseInv /\ [Next]_vars => [Kept]_vars
  <2> SUFFICES ASSUME ReleaseInv, Next PROVE Kept
    OBVIOUS
  <2>0. npm \in [Packages -> Compressors \union {None, Other}] /\ DOMAIN asset = Assets
    BY DEF ReleaseInv, TypeOK, JobState
  <2>1. CASE NpmPublish
    <3>1. \/ npm' = npm
          \/ /\ npm[Head(job.todo)] = None
             /\ npm' = [npm EXCEPT ![Head(job.todo)] = job.bytes]
      BY <2>1 DEF NpmPublish
    <3> QED
      BY <2>0, <2>1, <3>1 DEF NpmPublish
  <2>2. CASE \E a \in Assets : Upload(a) \/ UploadFails(a)
    <3>1. PICK a \in Assets : /\ job.at = "upload" /\ a \notin job.names /\ npm' = npm
                              /\ \E b : asset' = [asset EXCEPT ![a] = b]
      BY <2>2 DEF Upload, UploadFails
    <3>2. asset[a] = None
      BY <3>1 DEF ReleaseInv, JobInv, Names
    <3> QED
      BY <2>0, <3>1, <3>2
  <2>3. CASE UNCHANGED <<npm, asset>>
    BY <2>3
  <2> QED
    BY <2>1, <2>2, <2>3
    DEF Next, Start, Job, Dies, Upgrade, Check, Authorize, Staged, Seen, NotSeen, Verify,
        Finalize, Final, End, Appears, remote
<1> QED
  BY <1>1, ReleaseCorrect, PTL DEF Spec, NothingReplaced

=============================================================================
