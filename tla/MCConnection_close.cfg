SPECIFICATION Spec
CONSTANTS
    Clients = {c1, c2}
    Closing = {c1}
    Pinging = {}
    Channels = {ch1, ch2}
    Methods <- MCOverlap
    MaxCalls = 2
    Broadcasts = {}
    Free = Free
SYMMETRY MCSymmetry
INVARIANTS
    TypeOK
    ZombieOnlyIfLate
    Covered
PROPERTIES
    OthersUntouched
CHECK_DEADLOCK FALSE
