CONSTANTS
  p1 = p1
  p2 = p2
  lower = lower
  upper = upper
  NoProc = NoProc
  Procs <- TwoProcs
  Homes <- TwoHomes
  Repos <- Spellings
  Key <- LowerCase
  States <- StatePlaces
  Clones <- ClonePlaces
  Options <- Ways
  Links <- ThreeLinks
  Lead <- ThreeLeads
  Existing <- Exist
  Tracked <- Leaves
  MaxDepth = 20
SPECIFICATION ProcSpec
SYMMETRY Symmetry
INVARIANT LockInv
INVARIANT Exclusion
INVARIANT DirectoriesApart
PROPERTY StateKeepsIdentity
