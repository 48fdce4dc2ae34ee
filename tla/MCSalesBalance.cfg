SPECIFICATION Spec
CONSTANTS
    Customers = {c1}
    Invoices = {v1, v2}
    Returns = {t1}
    Requests = {r1, r2}
    Ops = {"sale", "customerPay"}
    Amounts = {1, 2}
    Openings = {0, 2}
    Limits = {0}
    Walking = walking
    NoKey = noKey
    NoRow = noRow
    MaxArrivals = 4
PROPERTIES
    SalesRaiseBalance
CHECK_DEADLOCK FALSE
