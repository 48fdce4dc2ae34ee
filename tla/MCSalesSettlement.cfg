SPECIFICATION Spec
CONSTANTS
    Customers = {c1}
    Invoices = {v1}
    Returns = {t1}
    Requests = {r1}
    Ops = {"sale", "return", "approve", "refund"}
    Amounts = {1, 2}
    Openings = {0}
    Limits = {0}
    Walking = walking
    NoKey = noKey
    NoRow = noRow
    MaxArrivals = 5
INVARIANTS
    RefundsUpdateReturn
CHECK_DEADLOCK FALSE
