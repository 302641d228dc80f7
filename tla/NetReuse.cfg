SPECIFICATION Spec
CONSTANTS
    First = 10
    Limit = 12
    Nets = {n1, n2, n3}
    NoIP = NoIP
INVARIANTS
    ReleasedIsReusable
CHECK_DEADLOCK FALSE
