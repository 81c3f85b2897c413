\* A tunnel and a marimo session, two requests that delete, one fault.
SPECIFICATION FairSpec
CONSTANTS
  Tunnels = {a, m}
  Marimo = {m}
  Ports = {1, 2}
  Deletes = {d1, d2}
  MaxFaults = 1
CHECK_DEADLOCK FALSE
INVARIANTS NothingUnowned RemovedStaysRemoved FailedLeavesNothing
PROPERTIES Settles
