\* One job, every kind of API request, two at once, a call that raises, a death.
CONSTANTS
    j1 = j1
    j2 = j2
    i1 = i1
    t1 = t1
    NoJob = NoJob
    Platform = Platform
    Jobs = {j1}
    Incidents = {i1}
    IncidentOf <- OneJob
    Tenants = {}
    TenantOf <- NoTenants
    Workers = {w1, w2}
    Handlers = {h1, h2}
    Requests = {"submit", "recover", "approve", "reject", "decide", "run"}
    MaxRetries = 2
    NodeCount = 1
    ReviewNode = 1
    ReportNode = 1
    RunsFitTTL = TRUE
    MaxFaults = 1
    MaxCrashes = 1
    MaxRecoveries = 1
SYMMETRY Processes
SPECIFICATION Spec
INVARIANTS TypeOK MutualExclusion NoJobStranded AttemptsBudget DeadLetterExhausted DeadLetterRecorded
