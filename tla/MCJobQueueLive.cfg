CONSTANTS
    w1 = w1
    w2 = w2
    Workers = {w1}
    GpuCount <- OneGpu
    JobIds = {1, 2}
    ImmediateIds = {}
    Needs = {1}
    Positions = {}
    IdleReports <- FirstIdle
    Handlers = {h1}
    Refreshers = {r1}
    Reconciler = reconciler
    NoTask = NoTask
    LateDelivery = FALSE
    MaxFaults = 1
    MaxClock = 0
SPECIFICATION FairSpec
INVARIANTS QueueOrdered
PROPERTIES StartingResolves ExitNoticed PendingServed
