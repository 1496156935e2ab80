SPECIFICATION MCSpec
CONSTANTS
    c1 = c1
    c2 = c2
    Clients = {c1, c2}
    Closing = {c2}
    Timely = {c2}
    Silent = {c1}
    MaxLoops <- MCMaxLoops
    Free = Free
INVARIANTS
    TypeOK
    ClosedForAReason
PROPERTIES
    SilentClosed
CHECK_DEADLOCK FALSE
