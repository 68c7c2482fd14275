------------------------- MODULE GitHubClientProofs -------------------------
(***************************************************************************)
(* Theorems about the GitHub client for every tracker, page size, page     *)
(* limit and capacity, and without a bound on what people do: a download   *)
(* without removals is complete, and what a create request reports is what *)
(* GitHub did.  PagesInv and ClientInv are the inductive invariants.       *)
(***************************************************************************)
EXTENDS GitHubClient, FiniteSetTheorems, SequenceTheorems, TLAPS

-----------------------------------------------------------------------------
(* The inductive invariant behind CompleteWithoutRemoval *)

\* An item of a listing is on a page that is still to be read.
ToCome(S, i) == i \in S /\ Place(S, i) \div PageSize >= page - 1

\* While nothing is removed, what existed at the first request still exists and
\* has been sent or is on a page to come: additions only move items back.
NothingPassed ==
  /\ pc = "issues" /\ removed.issues = {} =>
       \A i \in start.issues : i \in tracker /\ (listed[i] > 0 \/ ToCome(tracker, i))
  /\ pc \in {"issues", "comments"} /\ removed = Nothing => start.comments \subseteq discussion
  /\ pc = "comments" /\ removed = Nothing =>
       \A c \in start.comments : c \in notes \/ ToCome(discussion, c)

\* What a listing that has ended owes: the issues since before the comments are read.
ListingsWhole ==
  /\ pc \in {"comments", "done"} /\ removed.issues = {} =>
       \A i \in start.issues : listed[i] > 0
  /\ pc = "done" /\ removed = Nothing => start.comments \subseteq notes

PagesInv == TypeOK /\ NothingPassed /\ ListingsWhole

-----------------------------------------------------------------------------
(* The inductive invariant behind AnswerWhole and OutcomeIsTrue *)

ClientTypeOK ==
  /\ post \in {"none", "created", "refused", "failed"}
  /\ answer \in Seq(Pieces) /\ sent \in 0..Len(answer) /\ copied \in 0..sent
  /\ gh \in {"none", "running", "exited", "reaped"} /\ ok \in BOOLEAN
  /\ holder \in {"none", "group", "other"}
  /\ watch \in {"none", "watching", "canceled", "done"}
  /\ kept \in Seq(Pieces) /\ truncated \in BOOLEAN /\ late \in BOOLEAN
  /\ outcome \in {"none", "unknown", "rejected", "issue"}

\* Between two create requests no command is there.
CommandFresh ==
  pc # "posting" => /\ answer = <<>> /\ ~ok /\ gh = "none" /\ kept = <<>> /\ ~truncated
                    /\ post = "none" /\ outcome = "none"

\* The status line gh prints is GitHub's, and says what GitHub has done.
StatusTellsPost ==
  IF post = "none"
  THEN answer = <<>>
  ELSE /\ Len(answer) >= 2
       /\ answer[1] = Refusal => post = "refused"
       /\ answer[1] = "201" => post = "created"

\* gh succeeds only with all of its answer printed.  Until something is cut
\* off, what is kept is what was copied, from the start.
KeptIsCopied ==
  /\ ok => gh \in {"exited", "reaped"} /\ answer # <<>> /\ sent = Len(answer)
  /\ ~truncated => kept = SubSeq(answer, 1, copied)

\* When create has returned, nothing writes to the pipe or reads it any more.
ReturnedIsOver ==
  outcome # "none" =>
    /\ gh = "reaped" /\ watch # "watching"
    /\ late \/ Drained
    /\ outcome = Classified(RunText, RunErr)

ClientInv ==
  ClientTypeOK /\ CommandFresh /\ StatusTellsPost /\ KeptIsCopied /\ ReturnedIsOver

-----------------------------------------------------------------------------
(* Places in a listing *)

\* Division by the page size, as the pages use it.
LEMMA PageOf ==
  ASSUME NEW a \in Nat, NEW b \in Nat, a <= b
  PROVE  /\ a \div PageSize \in Nat
         /\ a \div PageSize <= b \div PageSize
<1>1. PageSize \in Nat \ {0}
  BY PagesAssumption
<1> QED
  BY <1>1, SMT

LEMMA PageBounds ==
  ASSUME NEW k \in Nat
  PROVE  /\ k * PageSize \in Nat
         /\ \A r \in 0..(PageSize - 1) : (k * PageSize + r) \div PageSize = k
         /\ \A a \in Nat : a \div PageSize > k => a >= k * PageSize + PageSize
<1>1. PageSize \in Nat \ {0}
  BY PagesAssumption
<1>2. \A r \in 0..(PageSize - 1) : (k * PageSize + r) \div PageSize = k
  BY <1>1, SMT
<1>3. k * PageSize \in Nat
  BY <1>1, SMT
<1>4. ASSUME NEW a \in Nat, a \div PageSize > k
      PROVE  a >= k * PageSize + PageSize
  <2>1. a \div PageSize \in Nat /\ a \div PageSize >= k + 1
    BY <1>1, <1>4, SMT
  <2>2. (a \div PageSize) * PageSize <= a
    BY <1>1, SMT
  <2>3. (k + 1) * PageSize <= (a \div PageSize) * PageSize
    BY <1>1, <2>1, SMT
  <2>4. (k + 1) * PageSize = k * PageSize + PageSize
    BY <1>1, SMT
  <2> QED
    BY <1>1, <1>3, <2>1, <2>2, <2>3, <2>4, SMT
<1> QED
  BY <1>2, <1>3, <1>4

\* What is added to a listing moves nothing forward.
LEMMA PlaceGrows ==
  ASSUME NEW S, NEW T, S \subseteq T, IsFiniteSet(T), NEW i
  PROVE  Place(S, i) \in Nat /\ Place(T, i) \in Nat /\ Place(S, i) <= Place(T, i)
<1> DEFINE A == {j \in S : j < i}
           B == {j \in T : j < i}
<1>1. IsFiniteSet(B)
  BY FS_Subset
<1>2. A \in SUBSET B
  OBVIOUS
<1>3. IsFiniteSet(A) /\ Cardinality(A) <= Cardinality(B)
  BY <1>1, <1>2, FS_Subset
<1>4. Cardinality(A) \in Nat /\ Cardinality(B) \in Nat
  BY <1>1, <1>3, FS_CardinalityType
<1> QED
  BY <1>3, <1>4 DEF Place

\* Places number the items of a listing in order, without a gap.
LEMMA PlaceStrict ==
  ASSUME NEW S \in SUBSET Nat, IsFiniteSet(S), NEW i \in S, NEW b \in Nat, i < b
  PROVE  /\ Place(S, i) \in Nat
         /\ Place(S, i) < Place(S, b)
         /\ Place(S, b) <= Cardinality(S)
<1> DEFINE A == {j \in S : j < i}
           B == {j \in S : j < b}
<1>1. IsFiniteSet(B) /\ Cardinality(B) <= Cardinality(S)
  BY FS_Subset
<1>2. A \in SUBSET B /\ i \in B /\ i \notin A
  <2>1. i \in Nat /\ \A j \in S : j \in Nat
    OBVIOUS
  <2>2. \A j \in S : j < i => j < b
    BY <2>1
  <2>3. A \subseteq B
    BY <2>2
  <2>4. i \in B
    OBVIOUS
  <2>5. i \notin A
    <3>1. ~(i < i)
      BY <2>1
    <3> QED
      BY <3>1
  <2> QED
    BY <2>3, <2>4, <2>5
<1>3. IsFiniteSet(A) /\ Cardinality(A) <= Cardinality(B) /\ Cardinality(A) # Cardinality(B)
  BY <1>1, <1>2, FS_Subset
<1>4. Cardinality(A) \in Nat /\ Cardinality(B) \in Nat
  BY <1>1, <1>3, FS_CardinalityType
<1> QED
  BY <1>1, <1>3, <1>4 DEF Place

LEMMA PlaceInRange ==
  ASSUME NEW S \in SUBSET Nat, IsFiniteSet(S), NEW i \in S
  PROVE  Place(S, i) \in 0..(Cardinality(S) - 1)
<1>1. {j \in S : j < i} \in SUBSET S /\ i \notin {j \in S : j < i}
  BY DEF Place
<1> DEFINE A == {j \in S : j < i}
<1>2. IsFiniteSet(A) /\ Cardinality(A) <= Cardinality(S) /\ Cardinality(A) # Cardinality(S)
  BY <1>1, FS_Subset
<1>3. Cardinality(A) \in Nat /\ Cardinality(S) \in Nat
  BY <1>2, FS_CardinalityType
<1> QED
  BY <1>2, <1>3 DEF Place

LEMMA PlaceTaken ==
  ASSUME NEW S \in SUBSET Nat, IsFiniteSet(S), NEW n \in 0..(Cardinality(S) - 1)
  PROVE  \E i \in S : Place(S, i) = n
<1> DEFINE R == 0..(Cardinality(S) - 1)
           f == [i \in S |-> Place(S, i)]
<1>1. Cardinality(S) \in Nat
  BY FS_CardinalityType
<1>2. IsFiniteSet(R) /\ Cardinality(R) = Cardinality(S)
  BY <1>1, FS_Interval
<1>3. f \in [S -> R]
  BY PlaceInRange
<1>4. \A i, j \in S : i # j => f[i] # f[j]
  <2> SUFFICES ASSUME NEW i \in S, NEW j \in S, i < j PROVE f[i] # f[j]
    OBVIOUS
  <2>1. Place(S, i) < Place(S, j) /\ Place(S, i) \in Nat
    BY PlaceStrict
  <2>2. Place(S, j) \in Nat
    BY PlaceInRange
  <2> QED
    BY <2>1, <2>2
<1>5. f \in Injection(S, R)
  BY <1>3, <1>4 DEF Injection, IsInjective
<1>6. f \in Surjection(S, R)
  BY <1>2, <1>5, FS_Injection
<1> QED
  BY <1>6 DEF Surjection

\* A page that is followed by an item is full: a short page is the last one.
LEMMA FullPage ==
  ASSUME NEW S \in SUBSET Nat, IsFiniteSet(S), NEW i \in S, NEW k \in Nat \ {0},
         Place(S, i) \div PageSize >= k
  PROVE  ~Last(S, k)
<1>0. PageSize \in Nat \ {0}
  BY PagesAssumption
<1> DEFINE q  == (k - 1) * PageSize
           I  == q..(q + PageSize - 1)
           f  == [n \in I |-> CHOOSE j \in S : Place(S, j) = n]
<1>1. /\ q \in Nat
      /\ \A r \in 0..(PageSize - 1) : (q + r) \div PageSize = k - 1
      /\ \A a \in Nat : a \div PageSize > k - 1 => a >= q + PageSize
  BY PageBounds
<1> HIDE DEF q
<1>2. Place(S, i) \in 0..(Cardinality(S) - 1) /\ Cardinality(S) \in Nat
  BY PlaceInRange, FS_CardinalityType
<1>3. Place(S, i) \div PageSize \in Nat
  BY <1>2, PageOf
<1>4. Place(S, i) >= q + PageSize
  BY <1>1, <1>2, <1>3
<1>5. \A n \in I : n \in 0..(Cardinality(S) - 1)
  BY <1>0, <1>1, <1>2, <1>4
<1>6. \A n \in I : f[n] \in S /\ Place(S, f[n]) = n
  BY <1>5, PlaceTaken
<1>7. \A n \in I : n \div PageSize = k - 1
  <2> TAKE n \in I
  <2>1. n - q \in 0..(PageSize - 1) /\ q + (n - q) = n
    BY <1>0, <1>1
  <2> QED
    BY <1>1, <2>1
<1> HIDE DEF f
<1>8. \A n \in I : f[n] \in Page(S, k)
  BY <1>6, <1>7 DEF Page
<1>9. f \in Injection(I, Page(S, k))
  <2>1. f \in [I -> Page(S, k)]
    BY <1>8 DEF f
  <2>2. \A m, n \in I : f[m] = f[n] => m = n
    BY <1>6
  <2> QED
    BY <2>1, <2>2 DEF Injection, IsInjective
<1>10. IsFiniteSet(Page(S, k)) /\ Cardinality(Page(S, k)) \in Nat
  <2>1. Page(S, k) \in SUBSET S
    BY DEF Page
  <2>2. IsFiniteSet(Page(S, k))
    BY <2>1, FS_Subset
  <2> QED
    BY <2>2, FS_CardinalityType
<1>11. Cardinality(I) <= Cardinality(Page(S, k))
  BY <1>9, <1>10, FS_Injection
<1>12. Cardinality(I) = PageSize
  BY <1>0, <1>1, FS_Interval
<1> QED
  BY <1>0, <1>10, <1>11, <1>12 DEF Last

-----------------------------------------------------------------------------
(* The downloads *)

\* What exists in the tracker is a finite set of numbers.
LEMMA FiniteTracker ==
  ASSUME TypeOK
  PROVE  /\ tracker \in SUBSET Nat /\ IsFiniteSet(tracker)
         /\ discussion \in SUBSET Nat /\ IsFiniteSet(discussion)
  BY PagesAssumption, FS_Subset DEF TypeOK

\* An item to come is on the page asked for, or on a later one.
LEMMA OnPageOrLater ==
  ASSUME NEW S \in SUBSET Nat, IsFiniteSet(S), NEW i, ToCome(S, i), page \in Nat \ {0}
  PROVE  /\ i \in Page(S, page) \/ Place(S, i) \div PageSize >= page
         /\ Last(S, page) => i \in Page(S, page)
<1>1. i \in S /\ Place(S, i) \div PageSize >= page - 1
  BY DEF ToCome
<1>2. Place(S, i) \in Nat
  BY <1>1, PlaceGrows
<1>3. Place(S, i) \div PageSize \in Nat
  BY <1>2, PageOf
<1>4. i \in Page(S, page) \/ Place(S, i) \div PageSize >= page
  BY <1>1, <1>3 DEF Page
<1> QED
  BY <1>1, <1>4, FullPage

\* What appears keeps items to come where they are or moves them back.
LEMMA StillToCome ==
  ASSUME NEW S, NEW T, S \subseteq T, IsFiniteSet(T), NEW i, ToCome(S, i), page \in Nat
  PROVE  ToCome(T, i)
<1>1. Place(S, i) \in Nat /\ Place(T, i) \in Nat /\ Place(S, i) <= Place(T, i)
  BY PlaceGrows
<1>2. /\ Place(S, i) \div PageSize \in Nat /\ Place(T, i) \div PageSize \in Nat
      /\ Place(S, i) \div PageSize <= Place(T, i) \div PageSize
  BY <1>1, PageOf
<1> QED
  BY <1>2 DEF ToCome

LEMMA PagesInit == Init => PagesInv
  BY PagesAssumption DEF Init, PagesInv, TypeOK, Nothing, NothingPassed, ListingsWhole

\* The first request: everything that exists is on a page to come.
LEMMA PagesBegin ==
  ASSUME PagesInv, Begin
  PROVE  PagesInv'
<1> USE DEF Begin, github, client
<1>1. TypeOK'
  BY PagesAssumption DEF PagesInv, TypeOK, Nothing
<1>2. \A i \in tracker : Place(tracker, i) \div PageSize \in Nat
  BY FiniteTracker, PlaceGrows, PageOf DEF PagesInv
<1>3. \A i \in start'.issues : i \in tracker' /\ ToCome(tracker, i)'
  <2> SUFFICES ASSUME NEW i \in tracker PROVE ToCome(tracker, i)'
    OBVIOUS
  <2>1. Place(tracker, i)' = Place(tracker, i)
    BY DEF Place
  <2> QED
    BY <1>2, <2>1 DEF ToCome
<1>4. NothingPassed' /\ ListingsWhole'
  BY <1>3 DEF NothingPassed, ListingsWhole
<1> QED
  BY <1>1, <1>4 DEF PagesInv

\* A page of issues: what was to come is on it, or still to come.  The short
\* page ends the listing with everything sent, and repetitions fail it.
LEMMA PagesReadIssues ==
  ASSUME PagesInv, ReadIssues
  PROVE  PagesInv'
<1>0. /\ pc = "issues" /\ UNCHANGED <<tracker, discussion, start, removed, notes>>
      /\ page \in Nat \ {0} /\ TypeOK
  BY PagesAssumption DEF ReadIssues, Request, github, PagesInv, TypeOK
<1>1. \A i \in Issues : listed'[i] = IF i \in Page(tracker, page) THEN listed[i] + 1 ELSE listed[i]
  BY DEF ReadIssues
<1>2. TypeOK'
  <2>1. listed' \in [Issues -> Nat]
    BY DEF ReadIssues, PagesInv, TypeOK
  <2>2. /\ pc' \in {"comments", "failed", "issues"}
        /\ page' \in 1..MaxPages
    BY PagesAssumption DEF ReadIssues, More, PagesInv, TypeOK, Request
  <2> QED
    BY <2>1, <2>2 DEF ReadIssues, Request, github, PagesInv, TypeOK
<1>3. ASSUME removed.issues = {}, NEW i \in start.issues
      PROVE  /\ i \in tracker
             /\ \/ listed'[i] > 0
                \/ Place(tracker, i) \div PageSize >= page /\ ~Last(tracker, page)
  <2>1. i \in tracker /\ (listed[i] > 0 \/ ToCome(tracker, i)) /\ i \in Issues
    BY <1>0, <1>3 DEF PagesInv, NothingPassed, TypeOK
  <2>2. listed[i] \in Nat
    BY <2>1 DEF PagesInv, TypeOK
  <2>3. CASE listed[i] > 0
    BY <1>1, <2>1, <2>2, <2>3
  <2>4. CASE ToCome(tracker, i)
    BY <1>0, <1>1, <2>1, <2>2, <2>4, FiniteTracker, OnPageOrLater
  <2> QED
    BY <2>1, <2>3, <2>4
<1>4. removed = Nothing => start.comments \subseteq discussion
  BY <1>0 DEF PagesInv, NothingPassed
<1>5. removed = Nothing => removed.issues = {}
  BY DEF Nothing
<1>6. CASE pc' = "comments"
  <2>1. page' = 1 /\ Last(tracker, page)
    BY <1>0, <1>6 DEF ReadIssues, Ends
  <2>2. \A c \in discussion : ToCome(discussion, c)'
    <3> SUFFICES ASSUME NEW c \in discussion PROVE ToCome(discussion, c)'
      OBVIOUS
    <3>1. Place(discussion, c) \in Nat
      BY <1>0, FiniteTracker, PlaceGrows
    <3>2. Place(discussion, c) \div PageSize \in Nat
      BY <3>1, PageOf
    <3> QED
      BY <1>0, <2>1, <3>2 DEF ToCome, Place
  <2>3. NothingPassed'
    BY <1>0, <1>4, <1>6, <2>2 DEF NothingPassed
  <2>4. ListingsWhole'
    BY <1>0, <1>3, <1>6, <2>1 DEF ListingsWhole
  <2> QED
    BY <1>2, <2>3, <2>4 DEF PagesInv
<1>7. CASE pc' = "issues"
  <2>1. page' = page + 1
    BY <1>7 DEF ReadIssues
  <2>2. ASSUME removed.issues = {}, NEW i \in start.issues
        PROVE  i \in tracker /\ (listed'[i] > 0 \/ ToCome(tracker, i)')
    <3>1. page' - 1 = page /\ Place(tracker, i)' = Place(tracker, i)
      BY <1>0, <2>1 DEF Place
    <3> QED
      BY <1>0, <1>3, <2>2, <3>1 DEF ToCome
  <2> QED
    BY <1>0, <1>2, <1>4, <1>7, <2>2 DEF PagesInv, NothingPassed, ListingsWhole
<1>8. CASE pc' = "failed"
  BY <1>2, <1>8 DEF PagesInv, NothingPassed, ListingsWhole
<1> QED
  BY <1>6, <1>7, <1>8 DEF ReadIssues, Request

\* A page of comments, likewise.
LEMMA PagesReadComments ==
  ASSUME PagesInv, ReadComments
  PROVE  PagesInv'
<1>0. /\ pc = "comments" /\ UNCHANGED <<tracker, discussion, start, removed, listed>>
      /\ notes' = notes \union Page(discussion, page)
      /\ page \in Nat \ {0} /\ TypeOK
  BY PagesAssumption DEF ReadComments, Request, github, PagesInv, TypeOK
<1>1. TypeOK'
  <2>1. pc' \in {"comments", "failed", "done"} /\ page' \in 1..MaxPages
    BY PagesAssumption DEF ReadComments, More, PagesInv, TypeOK, Request
  <2>2. notes' \subseteq Comments
    BY <1>0 DEF TypeOK, Page
  <2> QED
    BY <2>1, <2>2 DEF ReadComments, Request, github, PagesInv, TypeOK
<1>2. removed.issues = {} => \A i \in start.issues : listed[i] > 0
  BY <1>0 DEF PagesInv, ListingsWhole
<1>3. ASSUME removed = Nothing, NEW c \in start.comments
      PROVE  /\ c \in discussion
             /\ \/ c \in notes'
                \/ Place(discussion, c) \div PageSize >= page /\ ~Last(discussion, page)
  <2>1. c \in discussion /\ (c \in notes \/ ToCome(discussion, c))
    BY <1>0, <1>3 DEF PagesInv, NothingPassed
  <2> QED
    BY <1>0, <2>1, FiniteTracker, OnPageOrLater
<1>4. CASE pc' = "done"
  <2>1. Last(discussion, page)
    BY <1>0, <1>4 DEF ReadComments, Ends
  <2> QED
    BY <1>0, <1>1, <1>2, <1>3, <1>4, <2>1 DEF PagesInv, NothingPassed, ListingsWhole
<1>5. CASE pc' = "comments"
  <2>1. page' = page + 1
    BY <1>0, <1>5 DEF ReadComments
  <2>2. ASSUME removed = Nothing, NEW c \in start.comments
        PROVE  c \in discussion /\ (c \in notes' \/ ToCome(discussion, c)')
    <3>1. page' - 1 = page /\ Place(discussion, c)' = Place(discussion, c)
      BY <1>0, <2>1 DEF Place
    <3> QED
      BY <1>0, <1>3, <2>2, <3>1 DEF ToCome
  <2> QED
    BY <1>0, <1>1, <1>2, <1>5, <2>2 DEF PagesInv, NothingPassed, ListingsWhole
<1>6. CASE pc' = "failed"
  BY <1>1, <1>6 DEF PagesInv, NothingPassed, ListingsWhole
<1> QED
  BY <1>0, <1>4, <1>5, <1>6 DEF ReadComments

\* What people add moves nothing forward; what they remove is remembered.
LEMMA PagesPeople ==
  ASSUME PagesInv, People
  PROVE  PagesInv'
<1>0. /\ TypeOK /\ page \in Nat
      /\ UNCHANGED <<pc, page, listed, notes, start>> /\ changes' \in 0..MaxChanges
  <2>1. Change
    BY DEF People, Appears, Disappears, Commented, CommentDeleted
  <2>2. TypeOK /\ page \in Nat /\ changes \in 0..MaxChanges
    BY PagesAssumption DEF PagesInv, TypeOK
  <2> QED
    BY <2>1, <2>2, PagesAssumption DEF Change, client
<1>1. ListingsWhole /\ NothingPassed
  BY DEF PagesInv
<1>2. CASE \E i \in Issues : Appears(i)
  <2>1. PICK i \in Issues : Appears(i)
    BY <1>2
  <2>2. /\ tracker' = tracker \union {i}
        /\ UNCHANGED <<discussion, gone, removed>>
    BY <2>1 DEF Appears
  <2>3. TypeOK'
    BY <1>0, <2>2 DEF TypeOK
  <2>4. IsFiniteSet(tracker')
    BY <2>3, PagesAssumption, FS_Subset DEF TypeOK
  <2>5. \A j : ToCome(tracker, j) => ToCome(tracker', j)
    BY <1>0, <2>2, <2>4, StillToCome
  <2>6. \A j : ToCome(tracker, j) => ToCome(tracker, j)'
    BY <1>0, <2>5 DEF ToCome, Place
  <2>7. \A c : ToCome(discussion, c) => ToCome(discussion, c)'
    BY <1>0, <2>2 DEF ToCome, Place
  <2>8. NothingPassed'
    BY <1>0, <1>1, <2>2, <2>6, <2>7 DEF NothingPassed
  <2> QED
    BY <1>0, <1>1, <2>2, <2>3, <2>8 DEF PagesInv, ListingsWhole
<1>3. CASE \E c \in Comments : Commented(c)
  <2>1. PICK c \in Comments : Commented(c)
    BY <1>3
  <2>2. /\ discussion' = discussion \union {c}
        /\ UNCHANGED <<tracker, gone, removed>>
    BY <2>1 DEF Commented
  <2>3. TypeOK'
    BY <1>0, <2>2 DEF TypeOK
  <2>4. IsFiniteSet(discussion')
    BY <2>3, PagesAssumption, FS_Subset DEF TypeOK
  <2>5. \A j : ToCome(discussion, j) => ToCome(discussion', j)
    BY <1>0, <2>2, <2>4, StillToCome
  <2>6. \A j : ToCome(discussion, j) => ToCome(discussion, j)'
    BY <1>0, <2>5 DEF ToCome, Place
  <2>7. \A j : ToCome(tracker, j) => ToCome(tracker, j)'
    BY <1>0, <2>2 DEF ToCome, Place
  <2>8. NothingPassed'
    BY <1>0, <1>1, <2>2, <2>6, <2>7 DEF NothingPassed
  <2> QED
    BY <1>0, <1>1, <2>2, <2>3, <2>8 DEF PagesInv, ListingsWhole
<1>4. CASE \E i \in Issues : Disappears(i)
  <2>1. PICK i \in Issues, with \in SUBSET Comments :
          /\ tracker' = tracker \ {i} /\ discussion' = discussion \ with
          /\ gone' = Without(gone, {i}, with)
          /\ removed' = Without(removed, {i}, with)
    BY <1>0, <1>4 DEF Disappears, TypeOK
  <2>2. TypeOK'
    BY <1>0, <2>1 DEF TypeOK, Without
  <2>3. removed'.issues # {} /\ removed' # Nothing
    BY <2>1 DEF Without, Nothing
  <2> QED
    BY <1>0, <1>1, <2>2, <2>3 DEF PagesInv, NothingPassed, ListingsWhole
<1>5. CASE \E c \in Comments : CommentDeleted(c)
  <2>1. PICK c \in Comments :
          /\ tracker' = tracker /\ discussion' = discussion \ {c}
          /\ gone' = Without(gone, {}, {c})
          /\ removed' = Without(removed, {}, {c})
    BY <1>5 DEF CommentDeleted
  <2>2. TypeOK'
    BY <1>0, <2>1 DEF TypeOK, Without
  <2>3. removed'.issues = removed.issues /\ removed' # Nothing
    BY <2>1 DEF Without, Nothing
  <2>4. \A j : ToCome(tracker, j) => ToCome(tracker, j)'
    BY <1>0, <2>1 DEF ToCome, Place
  <2>5. NothingPassed'
    BY <1>0, <1>1, <2>1, <2>3, <2>4 DEF NothingPassed
  <2> QED
    BY <1>0, <1>1, <2>2, <2>3, <2>5 DEF PagesInv, ListingsWhole
<1> QED
  BY <1>2, <1>3, <1>4, <1>5 DEF People

\* What else the client does: give up, or make a create request.
LEMMA PagesOther ==
  ASSUME PagesInv,
         \/ RequestFails
         \/ UNCHANGED vars
         \/ Post
         \/ Resume
         \/ Serve
  PROVE  PagesInv'
<1> USE DEF vars, github, client, Posting, Request
<1>0. TypeOK
  BY DEF PagesInv
<1>1. CASE RequestFails \/ Resume
  <2>1. /\ pc' \in {"failed", "idle"}
        /\ UNCHANGED <<tracker, discussion, gone, page, listed, notes, changes, start, removed>>
    BY <1>1 DEF RequestFails, Resume
  <2> QED
    BY <1>0, <2>1 DEF PagesInv, TypeOK, NothingPassed, ListingsWhole
<1>2. CASE UNCHANGED vars
  BY <1>2 DEF PagesInv, TypeOK, NothingPassed, ListingsWhole, ToCome, Place
<1>3. CASE Post
  <2>1. TypeOK'
    BY <1>0, <1>3, PagesAssumption DEF Post, TypeOK, Nothing
  <2> QED
    BY <1>3, <2>1 DEF Post, PagesInv, NothingPassed, ListingsWhole
<1>4. CASE Serve
  <2>1. /\ pc = "posting" /\ UNCHANGED <<pc, page, listed, notes, changes, start, removed>>
        /\ tracker' \subseteq Issues /\ UNCHANGED <<discussion, gone>>
    BY <1>0, <1>4 DEF Serve, TypeOK
  <2> QED
    BY <1>0, <2>1 DEF PagesInv, TypeOK, NothingPassed, ListingsWhole
<1> QED
  BY <1>1, <1>2, <1>3, <1>4

LEMMA PagesNext == PagesInv /\ [ClientNext]_clientVars => PagesInv'
<1> SUFFICES ASSUME PagesInv, [ClientNext]_clientVars PROVE PagesInv'
  OBVIOUS
<1>1. CASE Download \/ PeopleStep
  BY <1>1, PagesBegin, PagesReadIssues, PagesReadComments, PagesPeople, PagesOther
  DEF Download, PeopleStep
<1>2. CASE Post \/ Serve \/ Resume
  BY <1>2, PagesOther
<1>3. CASE \/ Return \/ GhWrites \/ GhExits \/ HolderEnds \/ Copy
           \/ Expire \/ Reap \/ Unwatch \/ StopWaiting
  <2>1. UNCHANGED vars
    BY <1>3 DEF Return, GhWrites, GhExits, HolderEnds, Copy, Expire, Reap, Unwatch,
                StopWaiting, Running, Posting, vars
  <2> QED
    BY <2>1, PagesOther
<1>4. CASE UNCHANGED clientVars
  <2>1. UNCHANGED vars
    BY <1>4 DEF clientVars
  <2> QED
    BY <2>1, PagesOther
<1> QED
  BY <1>1, <1>2, <1>3, <1>4 DEF ClientNext

\* PagesInv holds of the client, whatever people do between its requests.
THEOREM Pages == ClientSpec => []PagesInv
<1>1. ClientInit => PagesInv
  BY PagesInit DEF ClientInit
<1> QED
  BY <1>1, PagesNext, PTL DEF ClientSpec

\* A download without removals has every issue that existed when it began, and
\* without a deleted comment every comment, whatever was filed, transferred in
\* or commented meanwhile, for every page size and page limit.
THEOREM CompleteWithoutRemovalCorrect == ClientSpec => []CompleteWithoutRemoval
<1>1. PagesInv => CompleteWithoutRemoval
  <2> SUFFICES ASSUME PagesInv, pc = "done"
               PROVE  /\ removed.issues = {} => start.issues \ Pulls \subseteq History
                      /\ removed = Nothing =>
                           \A c \in start.comments : On[c] \in Pulls \/ c \in Discussion(On[c])
    BY DEF CompleteWithoutRemoval
  <2>1. start.issues \subseteq Issues
    BY DEF PagesInv, TypeOK
  <2> QED
    BY <2>1 DEF PagesInv, ListingsWhole, History, Discussion
<1> QED
  BY <1>1, Pages, PTL

-----------------------------------------------------------------------------
(* What a create request reports *)

\* Output that fits is kept whole.
LEMMA KeepAll ==
  ASSUME NEW s \in Seq(Pieces)
  PROVE  /\ KeepTail(s) \in Seq(Pieces)
         /\ ~Excess(s) => KeepTail(s) = s
<1>0. Capacity \in Nat \ {0} /\ Len(s) \in Nat
  BY ClientAssumption, LenProperties
<1> DEFINE m == Len(s) - AtMost(Capacity, Len(s)) + 1
<1>1. m \in 1..(Len(s) + 1)
  <2>1. AtMost(Capacity, Len(s)) \in 0..Len(s)
    BY <1>0 DEF AtMost
  <2> QED
    BY <1>0, <2>1
<1>2. KeepTail(s) = SubSeq(s, m, Len(s))
  BY DEF KeepTail
<1>3. ~Excess(s) => m = 1
  BY <1>0 DEF Excess, AtMost
<1> HIDE DEF m
<1>4. SubSeq(s, m, Len(s)) \in Seq(Pieces)
  BY <1>0, <1>1, SubSeqProperties
<1>5. SubSeq(s, 1, Len(s)) = s
  BY SubSeqFull
<1> QED
  BY <1>2, <1>3, <1>4, <1>5

\* Copying goes on where it stopped.
LEMMA CopiedOn ==
  ASSUME NEW s \in Seq(Pieces), NEW a \in Nat, NEW n \in Nat, a + n <= Len(s)
  PROVE  /\ SubSeq(s, a + 1, a + n) \in Seq(Pieces)
         /\ SubSeq(s, 1, a) \o SubSeq(s, a + 1, a + n) = SubSeq(s, 1, a + n)
<1>1. Len(s) \in Nat
  BY LenProperties
<1>2. SubSeq(s, a + 1, a + n) \in Seq(Pieces)
  BY <1>1, SubSeqProperties
<1>3. SubSeq(s, 1, a) \o SubSeq(s, a + 1, a + n) = SubSeq(s, 1, a + n)
  BY <1>1, ConcatAdjacentSubSeq
<1> QED
  BY <1>2, <1>3

\* Nothing printed, nothing copied, nothing kept.
LEMMA NothingPrinted ==
  ASSUME NEW s, NEW m, NEW n, NEW k, s = <<>>, m = 0, n = 0, k = <<>>
  PROVE  /\ s \in Seq(Pieces) /\ m \in 0..Len(s) /\ n \in 0..m /\ k \in Seq(Pieces)
         /\ k = SubSeq(s, 1, n)
<1>1. <<>> \in Seq(Pieces) /\ Len(<<>>) = 0
  BY EmptySeq
<1>2. SubSeq(<<>>, 1, 0) = <<>>
  BY SubSeqEmpty
<1> QED
  BY <1>1, <1>2

LEMMA ClientStart == ClientInit => ClientInv
<1> SUFFICES ASSUME ClientInit PROVE ClientInv
  OBVIOUS
<1> USE DEF ClientInit, Init
<1>1. /\ answer \in Seq(Pieces) /\ sent \in 0..Len(answer) /\ copied \in 0..sent
      /\ kept \in Seq(Pieces) /\ kept = SubSeq(answer, 1, copied)
  BY NothingPrinted
<1>2. ClientTypeOK
  BY <1>1 DEF ClientTypeOK
<1>3. CommandFresh /\ StatusTellsPost /\ ReturnedIsOver
  BY DEF CommandFresh, StatusTellsPost, ReturnedIsOver
<1>4. KeptIsCopied
  BY <1>1 DEF KeptIsCopied
<1> QED
  BY <1>2, <1>3, <1>4 DEF ClientInv

\* Downloads and people leave the create request alone; a request begins, and
\* the engine goes on from one, with everything as it was at first.
LEMMA ClientBetween ==
  ASSUME ClientInv, Download \/ PeopleStep \/ Post \/ Resume
  PROVE  ClientInv'
<1>1. CASE Download \/ PeopleStep
  <2>1. UNCHANGED createVars
    BY <1>1 DEF Download, PeopleStep
  <2>2. pc # "posting"
    BY <1>1 DEF Download, PeopleStep, Begin, ReadIssues, ReadComments, RequestFails, Request
  <2> QED
    BY <2>1, <2>2
    DEF createVars, command, ClientInv, ClientTypeOK, CommandFresh, StatusTellsPost,
        KeptIsCopied, ReturnedIsOver, Drained, RunText, RunErr, Failed
<1>2. CASE Post
  <2>1. pc # "posting" /\ pc' = "posting" /\ gh' = "running" /\ watch' = "watching"
    BY <1>2 DEF Post
  <2>2. UNCHANGED <<post, answer, sent, ok, holder, copied, kept, truncated, late, outcome>>
    BY <1>2 DEF Post
  <2> QED
    BY <2>1, <2>2
    DEF ClientInv, ClientTypeOK, CommandFresh, StatusTellsPost, KeptIsCopied, ReturnedIsOver
<1>3. CASE Resume
  <2> USE <1>3 DEF Resume
  <2>1. /\ answer' \in Seq(Pieces) /\ sent' \in 0..Len(answer') /\ copied' \in 0..sent'
        /\ kept' \in Seq(Pieces) /\ kept' = SubSeq(answer', 1, copied')
    BY NothingPrinted
  <2>2. ClientTypeOK'
    BY <2>1 DEF ClientTypeOK
  <2>3. CommandFresh' /\ StatusTellsPost' /\ ReturnedIsOver'
    BY DEF CommandFresh, StatusTellsPost, ReturnedIsOver
  <2>4. KeptIsCopied'
    BY <2>1 DEF KeptIsCopied
  <2> QED
    BY <2>2, <2>3, <2>4 DEF ClientInv
<1> QED
  BY <1>1, <1>2, <1>3

\* GitHub serves the request once, whether or not somebody still listens.
LEMMA ClientServe ==
  ASSUME ClientInv, Serve
  PROVE  ClientInv'
<1>1. PICK status \in Status, body \in Bodies :
        /\ answer' = <<status, EndOfHeaders>> \o body
        /\ \/ status = Refusal /\ post' = "refused"
           \/ status = "502" /\ post' = "failed"
           \/ status # Refusal /\ post' = "created"
  BY DEF Serve
<1>2. /\ pc = "posting" /\ pc' = pc /\ post = "none"
      /\ UNCHANGED <<sent, gh, ok, holder, watch, copied, kept, truncated, late, outcome>>
  BY DEF Serve, Posting, client
<1>3. answer = <<>> /\ Len(answer) = 0 /\ sent = 0 /\ copied = 0 /\ ~ok
  BY <1>2, EmptySeq DEF ClientInv, StatusTellsPost, ClientTypeOK, KeptIsCopied
<1>4. /\ answer' \in Seq(Pieces) /\ Len(answer') >= 2 /\ answer'[1] = status
  <2>0. body \in Seq(Pieces) /\ status \in Pieces /\ EndOfHeaders \in Pieces
    BY ClientAssumption
  <2>1. body \in Seq(Pieces) /\ <<status, EndOfHeaders>> \in Seq(Pieces)
    BY <2>0
  <2>2. Len(body) \in Nat
    BY <2>1, LenProperties
  <2> QED
    BY <1>1, <2>1, <2>2, ConcatProperties
<1>5. SubSeq(answer, 1, copied) = <<>> /\ SubSeq(answer', 1, copied') = <<>>
  BY <1>2, <1>3, SubSeqEmpty
<1>6. ClientTypeOK'
  BY <1>1, <1>2, <1>3, <1>4 DEF ClientInv, ClientTypeOK
<1>7. StatusTellsPost'
  BY <1>1, <1>4 DEF StatusTellsPost, Refusal
<1> QED
  BY <1>2, <1>3, <1>5, <1>6, <1>7
  DEF ClientInv, CommandFresh, KeptIsCopied, ReturnedIsOver, Drained, RunText, RunErr, Failed

\* The copying goroutine: until something is cut off, what it keeps is what it
\* has copied.
LEMMA ClientCopy ==
  ASSUME ClientInv, Copy
  PROVE  ClientInv'
<1>1. PICK n \in 1..(sent - copied) :
        LET p == SubSeq(answer, copied + 1, copied + n)
        IN  /\ copied' = copied + n
            /\ kept' = KeepTail(kept \o KeepTail(p))
            /\ truncated' = (truncated \/ Excess(p) \/ Excess(kept \o KeepTail(p)))
  BY DEF Copy
<1> DEFINE p == SubSeq(answer, copied + 1, copied + n)
           q == kept \o KeepTail(p)
<1>2. /\ pc = "posting" /\ ~late
      /\ UNCHANGED <<pc, post, answer, sent, gh, ok, holder, watch, late, outcome>>
  BY DEF Copy, Running, Posting, client, github
<1>3. /\ answer \in Seq(Pieces) /\ kept \in Seq(Pieces)
      /\ Len(answer) \in Nat /\ sent \in 0..Len(answer) /\ copied \in 0..sent
  BY LenProperties DEF ClientInv, ClientTypeOK
<1>4. copied \in Nat /\ n \in Nat /\ copied + n <= Len(answer) /\ copied + n \in 0..sent
  BY <1>1, <1>3
<1>5. /\ p \in Seq(Pieces)
      /\ SubSeq(answer, 1, copied) \o p = SubSeq(answer, 1, copied + n)
  BY <1>3, <1>4, CopiedOn
<1>6. kept' = KeepTail(q) /\ truncated' = (truncated \/ Excess(p) \/ Excess(q))
  BY <1>1
<1> HIDE DEF p
<1>7. KeepTail(p) \in Seq(Pieces) /\ (~Excess(p) => KeepTail(p) = p)
  BY <1>5, KeepAll
<1>8. q \in Seq(Pieces)
  BY <1>3, <1>7, ConcatProperties
<1> HIDE DEF q
<1>9. KeepTail(q) \in Seq(Pieces) /\ (~Excess(q) => KeepTail(q) = q)
  BY <1>8, KeepAll
<1>10. ~truncated' => kept' = SubSeq(answer, 1, copied')
  BY <1>1, <1>5, <1>6, <1>7, <1>9 DEF q, ClientInv, KeptIsCopied
<1>11. truncated' \in BOOLEAN
  BY <1>6 DEF ClientInv, ClientTypeOK, Excess
<1>12. ClientTypeOK'
  BY <1>1, <1>2, <1>4, <1>6, <1>9, <1>11 DEF ClientInv, ClientTypeOK
<1>13. outcome = "none"
  BY <1>1, <1>2, <1>3 DEF ClientInv, ReturnedIsOver, Drained
<1> QED
  BY <1>2, <1>10, <1>12, <1>13
  DEF ClientInv, CommandFresh, StatusTellsPost, KeptIsCopied, ReturnedIsOver

\* The process, its group, the context and the wait for them.
LEMMA ClientProcess ==
  ASSUME ClientInv,
         GhWrites \/ GhExits \/ HolderEnds \/ Expire \/ Reap \/ Unwatch \/ StopWaiting
  PROVE  ClientInv'
<1>1. /\ pc = "posting"
      /\ UNCHANGED <<pc, post, outcome, answer, copied, kept, truncated>>
  BY DEF GhWrites, GhExits, HolderEnds, Expire, Reap, Unwatch, StopWaiting, Running, Posting,
         client, github
<1>2. Len(answer) \in Nat
  BY LenProperties DEF ClientInv, ClientTypeOK
<1>3. CASE GhWrites
  <2>1. /\ gh = "running" /\ sent < Len(answer) /\ sent' = sent + 1
        /\ holder' \in {holder} \union {"group", "other"}
        /\ UNCHANGED <<gh, ok, watch, late>>
    BY <1>3 DEF GhWrites
  <2>2. ~ok /\ outcome = "none"
    BY <2>1 DEF ClientInv, KeptIsCopied, ReturnedIsOver
  <2>3. sent' \in 0..Len(answer) /\ copied \in 0..sent'
    BY <1>2, <2>1 DEF ClientInv, ClientTypeOK
  <2>4. ClientTypeOK'
    BY <1>1, <2>1, <2>3 DEF ClientInv, ClientTypeOK
  <2> QED
    BY <1>1, <2>1, <2>2, <2>4
    DEF ClientInv, CommandFresh, StatusTellsPost, KeptIsCopied, ReturnedIsOver
<1>4. CASE GhExits
  <2>1. /\ gh = "running" /\ gh' = "exited"
        /\ ok' \in {FALSE, answer # <<>> /\ sent = Len(answer) /\ answer[1] = "201"}
        /\ UNCHANGED <<sent, holder, watch, late>>
    BY <1>4 DEF GhExits
  <2>2. outcome = "none"
    BY <2>1 DEF ClientInv, ReturnedIsOver
  <2>3. ok' \in BOOLEAN /\ (ok' => answer # <<>> /\ sent = Len(answer))
    BY <2>1
  <2> QED
    BY <1>1, <2>1, <2>2, <2>3
    DEF ClientInv, ClientTypeOK, CommandFresh, StatusTellsPost, KeptIsCopied, ReturnedIsOver
<1>5. CASE HolderEnds
  <2>1. holder # "none" /\ holder' = "none" /\ UNCHANGED <<sent, gh, ok, watch, late>>
    BY <1>5 DEF HolderEnds
  <2> QED
    BY <1>1, <2>1
    DEF ClientInv, ClientTypeOK, CommandFresh, StatusTellsPost, KeptIsCopied, ReturnedIsOver,
        Drained, RunText, RunErr, Failed
<1>6. CASE Expire
  <2>1. /\ watch = "watching" /\ watch' \in {"canceled", "done"}
        /\ \/ gh = "running" /\ gh' = "exited" /\ ok' = FALSE
           \/ gh # "running" /\ UNCHANGED <<gh, ok>>
        /\ holder' \in {"none", holder}
        /\ UNCHANGED <<sent, late>>
    BY <1>6 DEF Expire
  <2>2. outcome = "none"
    BY <2>1 DEF ClientInv, ReturnedIsOver
  <2>3. ClientTypeOK'
    BY <1>1, <2>1 DEF ClientInv, ClientTypeOK
  <2>4. KeptIsCopied'
    BY <1>1, <2>1 DEF ClientInv, KeptIsCopied
  <2> QED
    BY <1>1, <2>2, <2>3, <2>4
    DEF ClientInv, CommandFresh, StatusTellsPost, ReturnedIsOver
<1>7. CASE Reap \/ Unwatch
  <2>1. /\ \/ gh = "exited" /\ gh' = "reaped" /\ watch' = watch
           \/ gh' = gh /\ watch = "watching" /\ watch' = "done"
        /\ UNCHANGED <<sent, ok, holder, late>>
    BY <1>7 DEF Reap, Unwatch
  <2>2. outcome = "none"
    BY <2>1 DEF ClientInv, ReturnedIsOver
  <2> QED
    BY <1>1, <2>1, <2>2
    DEF ClientInv, ClientTypeOK, CommandFresh, StatusTellsPost, KeptIsCopied, ReturnedIsOver
<1>8. CASE StopWaiting
  <2>1. ~Drained /\ ~late /\ late' = TRUE /\ UNCHANGED <<sent, gh, ok, holder, watch>>
    BY <1>8 DEF StopWaiting
  <2>2. outcome = "none"
    BY <2>1 DEF ClientInv, ReturnedIsOver
  <2> QED
    BY <1>1, <2>1, <2>2
    DEF ClientInv, ClientTypeOK, CommandFresh, StatusTellsPost, KeptIsCopied, ReturnedIsOver
<1> QED
  BY <1>3, <1>4, <1>5, <1>6, <1>7, <1>8

LEMMA ClientReturn ==
  ASSUME ClientInv, Return
  PROVE  ClientInv'
<1>1. /\ pc = "posting" /\ gh = "reaped" /\ watch # "watching" /\ (Drained \/ late)
      /\ outcome' = Classified(RunText, RunErr)
      /\ UNCHANGED <<pc, post, answer, sent, gh, ok, holder, watch, copied, kept, truncated, late>>
  BY DEF Return, Posting, command, client
<1>2. outcome' \in {"none", "unknown", "rejected", "issue"}
  BY <1>1 DEF Classified, HasHead
<1> QED
  BY <1>1, <1>2
  DEF ClientInv, ClientTypeOK, CommandFresh, StatusTellsPost, KeptIsCopied, ReturnedIsOver,
      Drained, RunText, RunErr, Failed

LEMMA ClientStep == ClientInv /\ [ClientNext]_clientVars => ClientInv'
<1> SUFFICES ASSUME ClientInv, [ClientNext]_clientVars PROVE ClientInv'
  OBVIOUS
<1>1. CASE ClientNext
  BY <1>1, ClientBetween, ClientServe, ClientCopy, ClientProcess, ClientReturn DEF ClientNext
<1>2. CASE UNCHANGED clientVars
  BY <1>2
  DEF clientVars, vars, client, createVars, command, ClientInv, ClientTypeOK, CommandFresh,
      StatusTellsPost, KeptIsCopied, ReturnedIsOver, Drained, RunText, RunErr, Failed
<1> QED
  BY <1>1, <1>2

\* ClientInv holds however gh, its descendants, its context and GitHub interleave.
THEOREM Client == ClientSpec => []ClientInv
  BY ClientStart, ClientStep, PTL DEF ClientSpec

\* What Run returns without an error is the whole output of the command.
THEOREM AnswerWholeCorrect == ClientSpec => []AnswerWhole
<1>1. ClientInv => AnswerWhole
  <2> SUFFICES ASSUME ClientInv, outcome # "none", ~RunErr PROVE RunText = answer
    BY DEF AnswerWhole
  <2>1. ok /\ ~late /\ ~truncated
    BY DEF RunErr, Failed
  <2>2. copied = Len(answer)
    BY <2>1 DEF ClientInv, KeptIsCopied, ReturnedIsOver, Drained
  <2>3. kept = answer
    BY <2>1, <2>2, SubSeqFull DEF ClientInv, ClientTypeOK, KeptIsCopied
  <2> QED
    BY <2>1, <2>3 DEF RunText
<1> QED
  BY <1>1, Client, PTL

\* create never reports a refusal, which lets the engine send the request
\* again, or an issue but when GitHub has refused or created it.
THEOREM OutcomeIsTrueCorrect == ClientSpec => []OutcomeIsTrue
<1>1. ClientInv => OutcomeIsTrue
  <2> SUFFICES ASSUME ClientInv, outcome \in {"rejected", "issue"}
               PROVE  /\ outcome = "rejected" => post = "refused"
                      /\ outcome = "issue" => post = "created"
    BY DEF OutcomeIsTrue
  <2>1. HasHead(RunText) /\ outcome = Classified(RunText, RunErr)
    BY DEF ClientInv, ReturnedIsOver, Classified
  <2>2. /\ outcome = "rejected" => RunText[1] = Refusal
        /\ outcome = "issue" => RunText[1] = "201"
    BY <2>1 DEF Classified
  <2>3. ~truncated /\ RunText = kept /\ Len(kept) >= 2
    BY <2>1, EmptySeq DEF RunText, HasHead
  <2>4. kept = SubSeq(answer, 1, copied) /\ answer \in Seq(Pieces)
    BY <2>3 DEF ClientInv, KeptIsCopied, ClientTypeOK
  <2>5. Len(answer) \in Nat /\ copied \in 0..Len(answer)
    BY <2>4, LenProperties DEF ClientInv, ClientTypeOK
  <2>6. copied >= 1 /\ kept[1] = answer[1]
    <3>1. \A i \in 1..copied : answer[i] \in Pieces
      BY <2>4, <2>5, ElementOfSeq
    <3>2. /\ Len(kept) = IF 1 <= copied THEN copied ELSE 0
          /\ \A i \in 1..copied : kept[i] = answer[1 + i - 1]
      BY <2>4, <2>5, <3>1, SubSeqProperties
    <3> QED
      BY <2>3, <2>5, <3>2
  <2>7. post # "none"
    BY <2>5, <2>6, EmptySeq DEF ClientInv, StatusTellsPost
  <2> QED
    BY <2>2, <2>3, <2>6, <2>7 DEF ClientInv, StatusTellsPost
<1> QED
  BY <1>1, Client, PTL

=============================================================================
