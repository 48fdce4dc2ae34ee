SPECIFICATION Spec
CONSTANTS
    q1 = q1
    q2 = q2
    alice = alice
    bob = bob
    super = super
    clerk = clerk
    Requests = {q1, q2}
    Users = {alice, bob}
    RoleIds = {super, clerk}
    SuperAdmin = super
    Admin = alice
    Ops = {"assign"}
    NoKey = NoKey
    NoRow = NoRow
    MaxArrivals = 3
    FirstVersion = 0
    Faults = {}
INVARIANTS SuperAdminRemains
CHECK_DEADLOCK FALSE
