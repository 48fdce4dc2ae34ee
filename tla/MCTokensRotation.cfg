SPECIFICATION Spec
CONSTANTS
    r1 = r1
    r2 = r2
    p1 = p1
    p2 = p2
    u1 = u1
    Users = {u1}
    Pairs = {p1, p2}
    Requests = {r1, r2}
    NoToken = NoToken
    NoPair = NoPair
    Ticks = 2
    AccessLife = 2
    RefreshLife = 3
    RevocationLife = 3
    MaxTime = 2
    MaxArrivals = 3
PROPERTIES
    NeverReused
CHECK_DEADLOCK FALSE
