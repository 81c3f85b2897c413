SPECIFICATION FairAllSpec
CONSTANTS
  Parts = {"database"}
  Procs = {p1, p2}
  Workers = {w1}
  Newcomers = {w2}
  OldFiles <- Files
  MaxFaults = 1
  MaxEvents = 5
  Transfers = {}
  Ports = {}
  None = None
  MaxExportFaults = 1
  MaxRestarts = 1
  Hosts = {}
  Empty = none
  Interval = 2
  Cutoff = 6
  MaxInFlight = 2
  MaxAddressMoves = 1
  MaxLosses = 1
  MaxCrashes = 1
  MaxRemovals = 1
  Required <- RequiredTools
  Optional <- OptionalTools
  Fallback <- System
  Dirs = {"home", "usr", "tmp"}
  TempDirs = {"tmp"}
  Shells <- ShellPaths
  Placements <- OnePlacement
  Setups = {}
  Loads = {}
  MaxMoves = 1
INVARIANTS DatabaseConsistent
PROPERTIES InteractiveKept EventuallyConnects
