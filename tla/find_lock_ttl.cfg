\* A run may outlive the TTL of its lock.
CONSTANTS
    j1 = j1
    j2 = j2
    i1 = i1
    t1 = t1
    NoJob = NoJob
    Platform = Platform
    Jobs = {j1, j2}
    Incidents = {i1}
    IncidentOf <- SameIncident
    Tenants = {}
    TenantOf <- NoTenants
    Workers = {w1, w2}
    Handlers = {h1}
    Requests = {"submit"}
    MaxRetries = 2
    NodeCount = 1
    ReviewNode = 1
    ReportNode = 1
    RunsFitTTL = FALSE
    MaxFaults = 0
    MaxCrashes = 0
    MaxRecoveries = 0
SPECIFICATION Spec
INVARIANT MutualExclusion
