CONSTANTS
  Rids <- OneRid
  Verdicts <- Duplicates
  Modes <- Daemon
  Attempts = 3
  Refreshes = 2
  ChunkSize = 1
  MaxFindings = 1
  MaxHeads = 1
  MaxEdits = 0
  MaxFaults = 1
SPECIFICATION FairSpec
PROPERTY RetriesEnd
