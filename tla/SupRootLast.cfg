SPECIFICATION Spec
CONSTANTS
    MaxLaunch = 3
    MaxKills = 0
    MaxCount = 2
    MaxSignals = 0
    NumLetters = 2
    EventCap = 1
    Rounds = 2
    Retries = 2
    Cmds = {"new", "join"}
    Faults = {}
INVARIANTS
    RootLast
CHECK_DEADLOCK FALSE
