\* One client (keys are independent), three requests between their commands at
\* a time, windows of two seconds of two ticks each, two deaths.
CONSTANTS
    Clients = {c1}
    Requests = {r1, r2, r3}
    Limit = 2
    WindowSeconds = 2
    TicksPerSecond = 2
    MaxDeaths = 2
SPECIFICATION FairSpec
INVARIANTS TypeOK RateHolds RetryAfterFits
PROPERTIES CallersAreAdmitted ImplementsWindows
