SPECIFICATION FairAllSpec
CONSTANTS
  Parts = {"exports", "manifest"}
  Procs = {}
  Workers = {}
  Newcomers = {}
  OldFiles <- NoFile
  MaxFaults = 0
  MaxEvents = 0
  Transfers = {t1, t2}
  Ports = {p1}
  None = None
  MaxExportFaults = 1
  MaxRestarts = 1
  Hosts = {}
  Empty = none
  Interval = 2
  Cutoff = 6
  MaxInFlight = 2
  MaxAddressMoves = 1
  MaxLosses = 1
  MaxCrashes = 1
  MaxRemovals = 1
  Required <- RequiredTools
  Optional <- OptionalTools
  Fallback <- System
  Dirs = {"home", "usr", "tmp"}
  TempDirs = {"tmp"}
  Shells <- ShellPaths
  Placements <- OnePlacement
  Setups = {s1, s2}
  Loads = {r1}
  MaxMoves = 1
INVARIANTS MachinesConsistent
PROPERTIES NothingTakenAway ExportsEnd
