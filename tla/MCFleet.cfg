SPECIFICATION Spec
CONSTANTS
    m1 = m1
    m2 = m2
    t1 = t1
    t2 = t2
    Pms = {m1, m2}
    Tasks = {t1, t2}
    Names = {1}
    NoOne = NoOne
    Pools <- TwoPools
    MaxFaults = 1
CHECK_DEADLOCK FALSE
INVARIANTS ProjectConsistent HolderCanMove
PROPERTIES WorkPreserved
