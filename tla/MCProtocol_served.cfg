SPECIFICATION MCServed
CONSTANTS
    r1 = r1
    r2 = r2
    c1 = c1
    c2 = c2
    i1 = i1
    Requests = {r1, r2}
    Clients = {c1, c2}
    ClientOf <- MCClientOf
    Closing = {c1}
    Ids = {i1}
    Users = {u1}
    NoUser = NoUser
    Handlers <- MCAll
    NoKey = NoKey
    Absent = Absent
    Zero = Zero
PROPERTIES
    WsAnswered
    KeyReleased
    HttpReleased
CHECK_DEADLOCK FALSE
