CONSTANTS
  Rids <- TwoRids
  Verdicts <- AllVerdicts
  Modes <- DaemonModes
  Attempts = 2
  Refreshes = 3
  ChunkSize = 2
  MaxFindings = 2
  MaxHeads = 2
  MaxEdits = 2
  MaxFaults = 1
SPECIFICATION Spec
INVARIANT ReviewedBeforePost
INVARIANT PostAtHead
