SPECIFICATION Spec
CONSTANTS
    Customers = {c1}
    Invoices = {v1}
    Returns = {t1}
    Requests = {r1, r2}
    Ops = {"sale", "update", "void", "pay", "return", "approve", "reject", "refund", "customerPay", "updateCustomer", "deleteCustomer"}
    Amounts = {1, 2}
    Openings = {1}
    Limits = {2}
    Walking = walking
    NoKey = noKey
    NoRow = noRow
    MaxArrivals = 5
INVARIANTS
    TypeOK
PROPERTIES
    PaymentsApplyOnce
    LockedBalanceMoves
    DeadStaysDead
SYMMETRY MCSymmetry
CHECK_DEADLOCK FALSE
