SPECIFICATION Spec
CONSTANTS
    t1 = t1
    t2 = t2
    a1 = a1
    a2 = a2
    u1 = u1
    k1 = k1
    Tenants = {t1, t2}
    Users = {a1, a2, u1}
    Keys = {k1}
    Sessions = {x1, x2, x3}
    Ops = {o1, o2}
    TenantOf <- MCTenantOf
    Passwords = {p1, p2}
    Admins = {a1}
    Operators = {u1}
    MaxDeaths = 1
INVARIANTS
    TypeOK
    SuspensionsHold
    RevokedForCause
SYMMETRY Symmetry
CHECK_DEADLOCK FALSE
