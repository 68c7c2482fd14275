CONSTANTS
  Issues <- FiveIssues
  Pulls <- OnePull
  Comments <- TwoComments
  On <- OnIssue
  PageSize = 2
  MaxPages = 3
  MaxChanges = 1
SPECIFICATION Spec
INVARIANT CompleteHistory
