SPECIFICATION Spec
CONSTANTS
    r1 = r1
    r2 = r2
    t1 = t1
    t2 = t2
    s1 = s1
    p1 = p1
    Requests = {r1, r2}
    Suppliers = {s1}
    Purchases = {p1}
    Returns = {t1, t2}
    Ops = {"purchase", "update", "void", "pay", "return", "approve", "reject", "refund", "supplierPay", "updateSupplier", "deleteSupplier"}
    Amounts = {1}
    Totals = {1, 2}
    Penalties = {0, 1}
    Openings = {1}
    NoKey = NoKey
    NoRow = NoRow
    MaxArrivals = 5
SYMMETRY Interchangeable
INVARIANTS
    TypeOK
    OnlyVoidsDeadlock
PROPERTIES
    MoneyMovesBalance
    LastApprovalMarks
    DeadStaysDead
CHECK_DEADLOCK FALSE
