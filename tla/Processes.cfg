SPECIFICATION FairSpec
CONSTANTS
    Cap = {SYS_ADMIN, NET_ADMIN, SETPCAP}
    SETPCAP = SETPCAP
    Allow = {SYS_ADMIN}
    MaxLaunch = 2
    MaxBytes = 2
    Writers = {1}
INVARIANTS
    TypeOK
    FailsOnlyIfDisturbed
    AllowedAtExec
    LinesWhole
    ShownToTheEnd
    ExitMissesStrays
PROPERTIES
    CaptureCompletes
    ExitEndsAll
CHECK_DEADLOCK FALSE
