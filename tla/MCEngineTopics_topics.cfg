SPECIFICATION MCSpec
CONSTANTS
    i1 = i1
    i2 = i2
    u1 = u1
    u2 = u2
    s1 = s1
    s2 = s2
    c1 = c1
    Topics = {"V", "A", "X", "AD", "order", "log", "quotes", "asked"}
    Insts = {i1, i2}
    Series <- MCSeries
    Users = {u1, u2}
    Events <- MCEvents
    MaxMsgs = 3
    Sessions = {s1, s2}
    Nobody = Nobody
    NoInst = NoInst
    MaxRequests = 4
    Subs = {c1}
    Clients = {u1}
    Expired = {i2}
    Public = Public
    Replies = {TRUE, FALSE}
    MaxAsked = 1
INVARIANTS
    TypesOK
    LoggedOutUnsubscribed
    UsersOfTheSession
    UpToDate
    LogKept
    QuoteSettles
    PrivateViewOnlyInitially
PROPERTIES
    QuotesAreFresh
CHECK_DEADLOCK FALSE
