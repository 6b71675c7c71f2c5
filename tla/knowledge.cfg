SPECIFICATION FairSpec
CONSTANTS
    s1 = s1
    i1 = i1
    i2 = i2
    k1 = k1
    api1 = api1
    api2 = api2
    Seeds = {s1}
    Ingests = {i1, i2}
    Searches = {k1}
    Processes = {api1, api2}
    ProcessOf <- TwoIngests
    Topics = {{}, {i1}}
    MaxFailures = 1
    MaxBusy = 2
INVARIANTS
    TypeOK
    RecordsKept
    IndexIsOneVersion
    FindsWhatMatches
PROPERTY
    IndexComesBack
