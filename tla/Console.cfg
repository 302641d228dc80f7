SPECIFICATION FairSpec
CONSTANTS
    ID = {a1, a2}
    Roots = {a1}
    None = None
    MaxLaunch = 2
    MaxCmds = 1
    LogCap = 1
INVARIANTS
    TypeOK
    EntersChecked
    CurrentHasReader
PROPERTIES
    HandlerReleases
    CommandEnds
CHECK_DEADLOCK FALSE
