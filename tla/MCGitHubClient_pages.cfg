CONSTANTS
  Issues <- FiveIssues
  Pulls <- OnePull
  Comments <- ThreeComments
  On <- OnIssues
  PageSize = 2
  MaxPages = 2
  MaxChanges = 4
  Capacity = 3
  Pieces <- SomePieces
  Bodies <- ThreeBodies
SPECIFICATION ClientSpec
INVARIANT CompleteWithoutRemoval
INVARIANT AnswerWhole
INVARIANT OutcomeIsTrue
