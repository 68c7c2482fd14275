CONSTANTS
  r1 = r1
  r2 = r2
  q1 = q1
  Runs <- TwoRuns
  Posts <- OnePost
  Stuck <- OneStuck
  MaxProgress = 1
SPECIFICATION FairSpec
INVARIANT StreamsEnd
INVARIANT NilMeansDrained
INVARIANT OnlyClientsCancel
PROPERTY SignalEnds
PROPERTY ShutdownEnds
CHECK_DEADLOCK FALSE
