SPECIFICATION Spec
CONSTANTS
    r1 = r1
    r2 = r2
    t1 = t1
    t2 = t2
    s1 = s1
    p1 = p1
    Requests = {r1, r2}
    Suppliers = {s1}
    Purchases = {p1}
    Returns = {t1, t2}
    Ops = {"purchase", "pay", "supplierPay", "deleteSupplier"}
    Amounts = {1}
    Totals = {1, 2}
    Penalties = {0, 1}
    Openings = {1}
    NoKey = NoKey
    NoRow = NoRow
    MaxArrivals = 5
SYMMETRY Interchangeable
INVARIANT PaymentsRecorded
CHECK_DEADLOCK FALSE
