SPECIFICATION MCInTurnSpec
CONSTANTS
    i1 = i1
    i2 = i2
    o1 = o1
    o2 = o2
    o3 = o3
    Insts = {i1}
    Series <- MCSeries
    Prices = {1}
    Orders = {o1, o2}
    Order <- MCSamePrice
    Resting = {}
    Events = {"rest"}
    MaxMsgs = 2
    Subs = {}
    Intervals = {}
    Replies = {TRUE}
    Lags = {1}
    None = None
INVARIANTS
    LastChangeKept
PROPERTIES
    HundredOrdered
    HundredCatchesUp
CHECK_DEADLOCK FALSE
