\* A heartbeat every tick and a cutoff of two (in the code: one and three minutes).
SPECIFICATION FairAllSpec
CONSTANTS
  Parts = {"registry"}
  Procs = {}
  Workers = {}
  Newcomers = {}
  OldFiles <- NoFile
  MaxFaults = 0
  MaxEvents = 0
  Transfers = {}
  Ports = {}
  None = None
  MaxExportFaults = 1
  MaxRestarts = 1
  Hosts = {h1}
  Empty = none
  Interval = 1
  Cutoff = 2
  MaxInFlight = 2
  MaxAddressMoves = 1
  MaxLosses = 1
  MaxCrashes = 1
  MaxRemovals = 1
  Required <- RequiredTools
  Optional <- OptionalTools
  Fallback <- System
  Dirs = {"home", "usr", "tmp"}
  TempDirs = {"tmp"}
  Shells <- ShellPaths
  Placements <- OnePlacement
  Setups = {}
  Loads = {}
  MaxMoves = 1
PROPERTIES NothingTakenAway TableIsCurrent
