SPECIFICATION Spec
CONSTANTS
    i1 = i1
    i2 = i2
    o1 = o1
    o2 = o2
    o3 = o3
    Insts = {i1}
    Series <- MCSeries
    Prices = {1, 2}
    Orders = {o1, o2}
    Order <- MCSamePrice
    Resting = {o1, o2}
    Events = {"amend"}
    MaxMsgs = 1
    Subs = {s1}
    Intervals = {"raw"}
    Replies = {TRUE}
    Lags = {1}
    None = None
INVARIANTS
    DeletesAreGone
CHECK_DEADLOCK FALSE
