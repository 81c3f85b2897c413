CONSTANTS
    w1 = w1
    w2 = w2
    Workers = {w1, w2}
    GpuCount <- TwoEach
    JobIds = {1, 2}
    ImmediateIds = {}
    Needs = {1}
    Positions = {1}
    IdleReports <- BothIdle
    Handlers = {h1}
    Refreshers = {r1}
    Reconciler = reconciler
    NoTask = NoTask
    LateDelivery = FALSE
    MaxFaults = 1
    MaxClock = 0
SPECIFICATION Spec
INVARIANTS GpuExclusive LiveIsReserved
PROPERTIES RunsOnce ImplementsReservation
