SPECIFICATION Spec
CONSTANTS
    Clients = {c1}
    Closing = {c1}
    Pinging = {}
    Channels = {ch1}
    Methods <- MCTrades
    MaxCalls = 1
    Broadcasts = {}
    Free = Free
INVARIANTS
    ClosedUnsubscribed
CHECK_DEADLOCK FALSE
