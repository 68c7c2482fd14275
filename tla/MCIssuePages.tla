---------------------------- MODULE MCIssuePages ----------------------------
(***************************************************************************)
(* Instances of IssuePages for TLC: values of its constants.               *)
(***************************************************************************)
EXTENDS IssuePages

FiveIssues == 1..5
OnePull    == {2}
TwoComments == {1, 2}
OnIssue    == [c \in TwoComments |-> c + 2]

=============================================================================
