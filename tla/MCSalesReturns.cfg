SPECIFICATION Spec
CONSTANTS
    Customers = {c1}
    Invoices = {v1}
    Returns = {t1, t2}
    Requests = {r1, r2}
    Ops = {"sale", "return", "approve"}
    Amounts = {1}
    Openings = {0}
    Limits = {0}
    Walking = walking
    NoKey = noKey
    NoRow = noRow
    MaxArrivals = 5
INVARIANTS
    ReturnsWithinSold
CHECK_DEADLOCK FALSE
