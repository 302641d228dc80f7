SPECIFICATION Spec
CONSTANTS
    SETPCAP = SETPCAP
    Cap = {SYS_ADMIN, NET_ADMIN, SETPCAP}
    Allow = {SYS_ADMIN}
    MaxLaunch = 1
    MaxBytes = 0
    Writers = {}
INVARIANTS
    WhitelistKept
CHECK_DEADLOCK FALSE
