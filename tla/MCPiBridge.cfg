SPECIFICATION FairSpec
CONSTANTS
    Commands = {1}
    Messages = {1}
    Kinds <- TwoKinds
    MaxIncarnation = 2
    Reported = {"working", "blocked", "stopped"}
    MaxLosses = 1
    MaxCalls = 2
CHECK_DEADLOCK FALSE
INVARIANTS SessionConsistent
PROPERTIES OnlyAnAnswerUnblocks DeliversCommands CommandsArrive
