SPECIFICATION Spec
CONSTANTS
    MaxLaunch = 3
    MaxKills = 1
    MaxCount = 2
    MaxSignals = 1
    NumLetters = 1
    EventCap = 1
    Rounds = 2
    Retries = 2
    Cmds = {"run", "runjoin"}
    Faults = {"fork", "net", "userns", "initdies"}
INVARIANTS
    NoUseAfterClose
    JoinsOwnPod
    NetworkAccountedFor
    PodNetPending
    LeakedOnlyIfShared
CHECK_DEADLOCK FALSE
