CONSTANTS
    w1 = w1
    w2 = w2
    Workers = {w1}
    GpuCount <- TwoGpus
    JobIds = {1, 2}
    ImmediateIds = {2}
    Needs = {1}
    Positions = {}
    IdleReports <- BothIdle
    Handlers = {h1}
    Refreshers = {r1}
    Reconciler = reconciler
    NoTask = NoTask
    LateDelivery = TRUE
    MaxFaults = 2
    MaxClock = 1
SPECIFICATION Spec
PROPERTIES TerminalStable
