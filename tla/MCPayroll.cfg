SPECIFICATION PayrollSpec
CONSTANTS
    r1 = r1
    r2 = r2
    s1 = s1
    o1 = o1
    l1 = l1
    l2 = l2
    c1 = c1
    c2 = c2
    k1 = k1
    k2 = k2
    a1 = a1
    a2 = a2
    p1 = p1
    p2 = p2
    Requests = {r1, r2}
    Staff = {s1}
    Orders = {o1}
    Labors = {l1, l2}
    Costs = {c1}
    Outputs = {k1, k2}
    Advances = {a1, a2}
    Payments = {p1, p2}
    Months = {1}
    Extras = {0}
    Earnings = {1500}
    Overheads = {1}
    Loans = {1}
    Salaries = {1, 3}
    Ops = {"start", "complete", "cancel", "labor", "cost", "updateStaff", "deactivate", "advance", "disburse"}
    NoKey = NoKey
    NoRow = NoRow
    MaxArrivals = 5
SYMMETRY Interchangeable
INVARIANTS
    PayrollTypeOK
    AdvancesTakenBack
    PaymentsAllocated
    PaidWorkIsDone
PROPERTIES
    OverpaidOnlyByRace
    StatusAndCostsApart
CHECK_DEADLOCK FALSE
