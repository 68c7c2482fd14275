--------------------------- MODULE MCGitHubClient ---------------------------
(***************************************************************************)
(* Instances of GitHubClient for TLC: values of its constants.             *)
(***************************************************************************)
EXTENDS GitHubClient

FiveIssues == 1..5
OnePull    == {2}
ThreeComments == {1, 2, 3}
OnIssues   == [c \in ThreeComments |-> IF c = 2 THEN 1 ELSE 3]

SomePieces == Status \union {EndOfHeaders, "issue", "other"}

\* The issue, something else, and an issue whose text reads like a refusal.
ThreeBodies == {<<"issue">>, <<"other">>, <<"403", "headers", "issue">>}

=============================================================================
