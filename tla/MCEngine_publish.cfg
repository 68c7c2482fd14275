CONSTANTS
  Rids <- TwoRids
  Verdicts <- Duplicates
  Modes <- LiveModes
  Attempts = 2
  Refreshes = 2
  ChunkSize = 1
  MaxFindings = 2
  MaxHeads = 2
  MaxEdits = 0
  MaxFaults = 3
SPECIFICATION FairSpec
INVARIANT TypeOK
INVARIANT NoDuplicateIssue
INVARIANT LedgerMatchesGitHub
INVARIANT OneUnresolvedPost
INVARIANT CompletedSettled
INVARIANT AttemptsWithinBudget
PROPERTY DecisionsAreFinal
PROPERTY LedgerSpec
PROPERTY FiledIsRecorded
PROPERTY SettledScanCloses
PROPERTY ScanEnds
