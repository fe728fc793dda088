SPECIFICATION FairSpec
CONSTANTS
    a1 = a1
    a2 = a2
    j1 = j1
    j2 = j2
    Agents = {a1, a2}
    Jobs = {j1, j2}
    NoAgent = NoAgent
    NoAccount = NoAccount
    NoJob = NoJob
    Rank <- MCRank
    Supported <- MCSupported
    MaxJobs = 2
    WindowFactor = 5
    MaxRetries = 1
    Workloads <- MCWorkloads
INVARIANTS TypeOK ExecutedOnce LocalRunsEnd
PROPERTIES CooldownKept RunningIdsTrue AbandonedClaimsEnd
