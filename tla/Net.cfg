SPECIFICATION Spec
CONSTANTS
    First = 10
    Limit = 12
    Nets = {n1, n2, n3}
    NoIP = NoIP
INVARIANTS
    TypeOK
    DistinctAddresses
    UsedIsHeld
PROPERTIES
    ImplementsPool
CHECK_DEADLOCK FALSE
