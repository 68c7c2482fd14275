CONSTANTS
  Histories <- FiveHistories
  Limit = 3
  MaxParts = 2
  Wrapping = 1
  Handshakes = 2
  Checked <- Lists
  MaxEdits = 1
SPECIFICATION Spec
INVARIANT SessionInv
INVARIANT EveryRuneCompared
INVARIANT WellBatched
