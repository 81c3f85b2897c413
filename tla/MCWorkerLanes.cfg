\* One lane with one slot, four calls: an owner, two that wait and a newcomer.
CONSTANTS
    Keys = {k1}
    Calls = {c1, c2, c3, c4}
    MaxConcurrent = 1
    MaxQueue = 2
    CancelCleanup = TRUE
    LateErrors = TRUE
SPECIFICATION FairSpec
CHECK_DEADLOCK FALSE
INVARIANTS SlotsConserved NoLostWakeup
PROPERTIES NoOvertaking OrphansAreExplained CallReturns
