SPECIFICATION FairSpec
CONSTANTS
    MaxLaunch = 3
    MaxKills = 1
    MaxCount = 2
    MaxSignals = 0
    NumLetters = 1
    EventCap = 1
    Rounds = 2
    Retries = 2
    Cmds = {"new", "join", "killone", "forward"}
    Faults = {}
PROPERTIES
    PromptReturns
    PodDrains
CHECK_DEADLOCK FALSE
