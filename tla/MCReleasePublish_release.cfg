CONSTANTS
  linux = linux
  darwin = darwin
  archive = archive
  manifest = manifest
  old = old
  new = new
  None = None
  Other = Other
  Broken = Broken
  Launcher = launcher
  Platforms <- TwoPlatforms
  Assets <- TwoAssets
  Compressors <- TwoCompressors
  MaxFaults = 3
SPECIFICATION FairSpec
INVARIANT FinalIsComplete
INVARIANT LauncherLast
PROPERTY ConflictStops
PROPERTY NothingReplaced
PROPERTY Published
