SPECIFICATION MCOneSpec
CONSTANTS
    i1 = i1
    i2 = i2
    o1 = o1
    o2 = o2
    o3 = o3
    Insts = {i1, i2}
    Series <- MCSeries
    Prices = {1, 2}
    Orders = {o1, o2, o3}
    Order <- MCThree
    Resting = {o1, o2}
    Events = {"rest", "trade", "cancel", "amend", "cancel_all"}
    MaxMsgs = 1
    Subs = {s1}
    Intervals = {"raw", "agg2", "100ms"}
    Replies = {TRUE}
    Lags = {1}
    None = None
INVARIANTS
    TypeOK
    NoChangeMissed
CHECK_DEADLOCK FALSE
