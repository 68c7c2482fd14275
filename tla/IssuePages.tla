----------------------------- MODULE IssuePages -----------------------------
(***************************************************************************)
(* How githubClient.issues (github.go) downloads the complete history of a *)
(* repository: first every page of issues and pull requests, oldest first, *)
(* then every page of comments, one request each, while people go on using *)
(* the tracker.  Nothing holds the tracker still between two requests.     *)
(*                                                                         *)
(* Issues and comments are numbered in the order of their creation times,  *)
(* the order of the pages.  Most appear at the end of that order; an issue *)
(* transferred from another repository keeps its creation time, and those  *)
(* of its comments, and appears anywhere.  Deleting an issue, transferring *)
(* it away or deleting a comment moves everything after it one place       *)
(* forward, across page boundaries.                                        *)
(*                                                                         *)
(* Engine uses a finished download as one snapshot of the tracker; this    *)
(* module says what that snapshot is worth.                                *)
(***************************************************************************)
EXTENDS Integers, FiniteSets

CONSTANTS
  Issues,     \* what may exist in the tracker, in order of creation
  Pulls,      \* the pull requests among them
  Comments,   \* comments that may exist, in order of creation
  On,         \* the issue a comment is on
  PageSize,   \* 100 in the code
  MaxPages,   \* 10000 in the code
  MaxChanges  \* bound: things people do

ASSUME PagesAssumption ==
  /\ Issues \subseteq Nat /\ IsFiniteSet(Issues)
  /\ Pulls \subseteq Issues
  /\ Comments \subseteq Nat /\ IsFiniteSet(Comments)
  /\ On \in [Comments -> Issues]
  /\ PageSize \in Nat \ {0}
  /\ MaxPages \in Nat \ {0}
  /\ MaxChanges \in Nat

VARIABLES
  tracker, discussion,  \* the issues and comments that exist now
  gone,                 \* the issues and comments that have been removed
  pc, page,             \* where the download is
  listed, notes,        \* how often it has been sent each issue; the comments sent
  changes,              \* bound
  start, removed        \* ghosts: what existed at the first request; what went since

github == <<tracker, discussion, gone>>
client == <<pc, page, listed, notes>>
vars == <<github, client, changes, start, removed>>

Nothing == [issues |-> {}, comments |-> {}]

-----------------------------------------------------------------------------

\* How many items a listing in order of creation has before i; its page k.
Place(S, i) == Cardinality({j \in S : j < i})
Page(S, k) == {i \in S : Place(S, i) \div PageSize = k - 1}

Last(S, k) == Cardinality(Page(S, k)) < PageSize

Init ==
  /\ tracker \in SUBSET Issues
  /\ discussion = {} /\ gone = Nothing
  /\ pc = "idle" /\ page = 1
  /\ listed = [i \in Issues |-> 0] /\ notes = {}
  /\ changes = 0
  /\ start = Nothing /\ removed = Nothing

\* The first request of a download.
Begin ==
  /\ pc \in {"idle", "done", "failed"}
  /\ pc' = "issues" /\ page' = 1
  /\ listed' = [i \in Issues |-> 0] /\ notes' = {}
  /\ start' = [issues |-> tracker, comments |-> discussion]
  /\ removed' = Nothing
  /\ UNCHANGED <<github, changes>>

Request(phase) == pc = phase /\ UNCHANGED <<github, changes, start, removed>>

\* Mutant: the page limit ends the listing as a short page does.
LimitEnds(S) == Last(S, page) \/ page = MaxPages

\* A short page is the last one; a full one is followed by another, but for the
\* last page that may be asked for.
Ends(S) == Last(S, page)
More(S) == ~Ends(S) /\ page < MaxPages

\* An issue (not a pull request) was sent twice.
Repeated(got) == \E i \in Issues \ Pulls : got[i] > 1

\* The next page of issues.  When the last one is in, pull requests are put
\* aside and a repeated issue fails the download.
ReadIssues ==
  /\ Request("issues")
  /\ listed' = [i \in Issues |-> IF i \in Page(tracker, page) THEN listed[i] + 1 ELSE listed[i]]
  /\ \/ Ends(tracker) /\ ~Repeated(listed') /\ pc' = "comments" /\ page' = 1
     \/ Ends(tracker) /\ Repeated(listed') /\ pc' = "failed" /\ UNCHANGED page
     \/ More(tracker) /\ page' = page + 1 /\ UNCHANGED pc
     \/ ~Ends(tracker) /\ ~More(tracker) /\ pc' = "failed" /\ UNCHANGED page
  /\ UNCHANGED notes

\* The next page of comments of the whole repository.
ReadComments ==
  /\ Request("comments")
  /\ notes' = notes \union Page(discussion, page)
  /\ \/ Ends(discussion) /\ pc' = "done" /\ UNCHANGED page
     \/ More(discussion) /\ page' = page + 1 /\ UNCHANGED pc
     \/ ~Ends(discussion) /\ ~More(discussion) /\ pc' = "failed" /\ UNCHANGED page
  /\ UNCHANGED listed

\* A request fails, or its answer is not an array of well-formed items.
RequestFails ==
  /\ Request(pc) /\ pc \in {"issues", "comments"}
  /\ pc' = "failed"
  /\ UNCHANGED <<page, listed, notes>>

\* The result: issues without pull requests, each with the comments sent for it.
History == {i \in Issues \ Pulls : listed[i] > 0}
Discussion(i) == {c \in notes : On[c] = i}

-----------------------------------------------------------------------------
(* People use the tracker *)

Change ==
  changes < MaxChanges /\ changes' = changes + 1 /\ UNCHANGED <<client, start>>

\* Filed, opened, or transferred from elsewhere with its old creation time.
Appears(i) ==
  /\ Change
  /\ i \in Issues \ (tracker \union gone.issues)
  /\ tracker' = tracker \union {i}
  /\ UNCHANGED <<discussion, gone, removed>>

Commented(c) ==
  /\ Change
  /\ c \in Comments \ (discussion \union gone.comments)
  /\ On[c] \in tracker
  /\ discussion' = discussion \union {c}
  /\ UNCHANGED <<tracker, gone, removed>>

Without(r, I, C) == [issues |-> r.issues \union I, comments |-> r.comments \union C]

\* Deleted or transferred away, with its comments.
Disappears(i) ==
  /\ Change
  /\ i \in tracker
  /\ LET with == {c \in discussion : On[c] = i}
     IN  /\ tracker' = tracker \ {i}
         /\ discussion' = discussion \ with
         /\ gone' = Without(gone, {i}, with)
         /\ removed' = Without(removed, {i}, with)

CommentDeleted(c) ==
  /\ Change
  /\ c \in discussion
  /\ discussion' = discussion \ {c}
  /\ gone' = Without(gone, {}, {c})
  /\ removed' = Without(removed, {}, {c})
  /\ UNCHANGED tracker

People ==
  \/ \E i \in Issues : Appears(i) \/ Disappears(i)
  \/ \E c \in Comments : Commented(c) \/ CommentDeleted(c)

Next == Begin \/ ReadIssues \/ ReadComments \/ RequestFails \/ People

Spec == Init /\ [][Next]_vars

-----------------------------------------------------------------------------
(* Properties *)

\* "posting" is GitHubClient's.
TypeOK ==
  /\ tracker \subseteq Issues /\ discussion \subseteq Comments
  /\ gone \in [issues : SUBSET Issues, comments : SUBSET Comments]
  /\ pc \in {"idle", "issues", "comments", "done", "failed", "posting"}
  /\ page \in 1..MaxPages
  /\ listed \in [Issues -> Nat]
  /\ notes \subseteq Comments
  /\ changes \in 0..MaxChanges
  /\ start \in [issues : SUBSET Issues, comments : SUBSET Comments]
  /\ removed \in [issues : SUBSET Issues, comments : SUBSET Comments]

\* A download during which no issue was removed has every issue that existed
\* when it began, however many were filed or transferred in meanwhile, and
\* however full the last page or close the page limit (issues, pages).  When no
\* comment was removed either, it has every comment that existed then, though
\* comments are read long after.
CompleteWithoutRemoval ==
  pc = "done" =>
    /\ removed.issues = {} => start.issues \ Pulls \subseteq History
    /\ removed = Nothing => \A c \in start.comments : On[c] \in Pulls \/ c \in Discussion(On[c])

\* README.md:179: "Incomplete history, malformed review responses, and uncertain
\* comparisons stop publication."  A download that succeeds has every issue
\* that existed all the time.  (Violated: an issue removed from a page already
\* read moves the first issue of the next page to where it is never asked for.)
CompleteHistory == pc = "done" => (start.issues \ Pulls) \ removed.issues \subseteq History

=============================================================================
