\* Two humans decide one job.
CONSTANTS
    j1 = j1
    j2 = j2
    i1 = i1
    t1 = t1
    NoJob = NoJob
    Platform = Platform
    Jobs = {j1}
    Incidents = {i1}
    IncidentOf <- OneJob
    Tenants = {t1}
    TenantOf <- OneTenant
    Workers = {w1, w2}
    Handlers = {h1, h2}
    Requests = {"submit", "approve", "reject"}
    MaxRetries = 2
    NodeCount = 1
    ReviewNode = 1
    ReportNode = 1
    RunsFitTTL = TRUE
    MaxFaults = 0
    MaxCrashes = 0
    MaxRecoveries = 0
SYMMETRY Processes
SPECIFICATION Spec
INVARIANT DecisionStands
