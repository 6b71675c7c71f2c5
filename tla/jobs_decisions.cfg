\* Three humans who decide one job, at once too, and others who decide its run
\* alone; locks expire under their holders, and two processes die.
CONSTANTS
    j1 = j1
    j2 = j2
    i1 = i1
    t1 = t1
    NoJob = NoJob
    Platform = Platform
    Jobs = {j1}
    Incidents = {i1}
    IncidentOf <- OneJob
    Tenants = {t1}
    TenantOf <- OneTenant
    Workers = {w1, w2}
    Handlers = {h1, h2, h3}
    Requests = {"submit", "approve", "reject", "decide"}
    MaxRetries = 3
    NodeCount = 2
    ReviewNode = 1
    ReportNode = 2
    RunsFitTTL = FALSE
    MaxFaults = 0
    MaxCrashes = 2
    MaxRecoveries = 0
SYMMETRY Processes
SPECIFICATION Spec
INVARIANT DecisionsRecorded
