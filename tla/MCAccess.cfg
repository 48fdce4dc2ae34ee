SPECIFICATION Spec
CONSTANTS
    q1 = q1
    q2 = q2
    alice = alice
    bob = bob
    super = super
    clerk = clerk
    Requests = {q1, q2}
    Users = {alice, bob}
    RoleIds = {super, clerk}
    SuperAdmin = super
    Admin = alice
    Ops = {"createRole", "updateRole", "deleteRole", "assign", "createUser", "status", "deleteUser", "check"}
    NoKey = NoKey
    NoRow = NoRow
    MaxArrivals = 3
    FirstVersion = 0
    Faults = {"read", "write", "expire", "incr"}
INVARIANTS TypeOK CacheAgrees RolesInUseStay
PROPERTIES GrantsAreJustified LastSuperAdminOnlyByRace
SYMMETRY Sym
CHECK_DEADLOCK FALSE
