CONSTANTS
  Keys <- KeysTyped
  MaxInputs = 2
  Pasted = {"q"}
  MaxPaste = 1
  Longest = 2
  Limit = 2
  LogLimit = 2
  RecordRows = 2
  Rows = 1
  TextRows = 2
  Old = {1}
  MaxProposals = 3
  MaxLog = 3
SPECIFICATION DashFairSpec
INVARIANT OnlyTornPasteStops
INVARIANT QuitHeard
INVARIANT SummaryTellsNews
PROPERTY SelectionStays
PROPERTY ScrolledBackHolds
PROPERTY SessionEnds
CHECK_DEADLOCK FALSE
