SPECIFICATION FairSpec
CONSTANTS
    Clients = {c1, c2}
    Closing = {c1}
    Pinging = {c1}
    Channels = {ch1}
    Methods <- MCTrades
    MaxCalls = 1
    Broadcasts = {b1}
    Free = Free
PROPERTIES
    Streamed
CHECK_DEADLOCK FALSE
