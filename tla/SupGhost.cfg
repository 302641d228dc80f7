SPECIFICATION Spec
CONSTANTS
    MaxLaunch = 3
    MaxKills = 1
    MaxCount = 2
    MaxSignals = 0
    NumLetters = 2
    EventCap = 1
    Rounds = 2
    Retries = 2
    Cmds = {"new", "runjoin"}
    Faults = {}
INVARIANTS
    NoGhost
CHECK_DEADLOCK FALSE
