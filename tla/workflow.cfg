\* One incident, a first run and one that resumes it.
CONSTANT MaxRuns = 2
SPECIFICATION Spec
INVARIANTS
    TypeOK
    NodesInOrder
    RetriesFollowErrors
    StatusAgrees
    ReportIsCurrent
    HighRiskAsksHuman
    RunsAsAssumed
