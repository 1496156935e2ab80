SPECIFICATION MCSpec
CONSTANTS
    o1 = o1
    o2 = o2
    u1 = u1
    u2 = u2
    Feeds = {"changes", "trades", "market", "orders", "ticker"}
    Insts = {i1}
    Users = {u1, u2}
    Everyone = Everyone
    Orders = {o1, o2}
    Owner <- MCOwner
    InstOf <- MCInstOf
    MaxMsgs = 2
    Replies = {TRUE, FALSE}
INVARIANTS
    TypeOK
    StoredUntilSent
    NoTwice
    OwnFeed
    TradesComeAlong
PROPERTIES
    AllTold
    TicksCatchUp
CHECK_DEADLOCK FALSE
