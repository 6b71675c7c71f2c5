\* One tenant, an approval that may be made out to it or to nobody; two
\* requests in flight; a clock that sees a period end.
CONSTANTS
    Tenants = {t1}
    NoTenant = NoTenant
    Approvals = {a1}
    NoHeader = NoHeader
    Requests = {r1, r2}
    RequestLimit = 2
    WorkflowLimit = 1
    Window = 1
    Production = TRUE
    MaxTime = 1
    MaxArrivals = 3
SYMMETRY RequestSlots
SPECIFICATION Spec
INVARIANTS
    TypeOK
    NoEarlyDenial
    QuotaHoldsAlone
    RunsAreReleased
