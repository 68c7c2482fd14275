CONSTANTS
  p1 = p1
  p2 = p2
  lower = lower
  upper = upper
  NoProc = NoProc
  Procs <- TwoProcs
  Homes <- TwoHomes
  Repos <- Spellings
  Key <- LowerCase
  States <- CrossStates
  Clones <- CrossClones
  Options <- StateInside
  Links <- CrossLinks
  Lead <- CrossLeads
  Existing <- CrossExist
  Tracked <- CrossLeaves
  MaxDepth = 20
SPECIFICATION ProcSpec
INVARIANT DirectoriesApart
