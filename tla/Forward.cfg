SPECIFICATION FairSpec
CONSTANTS
    Session = {s1, s2}
    Pod = {a, b}
    Port = {p80, p443}
    MaxStarts = 3
    Nil = Nil
INVARIANTS
    TypeOK
    LostOnlyByRace
    ListedUnderLivePod
PROPERTIES
    GoneFreesPort
CHECK_DEADLOCK FALSE
