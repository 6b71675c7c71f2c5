\* One process may die.
CONSTANTS
    j1 = j1
    j2 = j2
    i1 = i1
    t1 = t1
    NoJob = NoJob
    Platform = Platform
    Jobs = {j1}
    Incidents = {i1}
    IncidentOf <- OneJob
    Tenants = {}
    TenantOf <- NoTenants
    Workers = {w1, w2}
    Handlers = {h1}
    Requests = {"submit"}
    MaxRetries = 2
    NodeCount = 1
    ReviewNode = 1
    ReportNode = 1
    RunsFitTTL = TRUE
    MaxFaults = 0
    MaxCrashes = 1
    MaxRecoveries = 0
SPECIFICATION FairSpec
PROPERTY DurableSubmission
