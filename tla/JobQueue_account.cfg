SPECIFICATION FairSpec
CONSTANTS
    a1 = a1
    a2 = a2
    j1 = j1
    j2 = j2
    acc = acc
    Agents = {a1, a2}
    Jobs = {j1}
    Accounts = {acc}
    NoAgent = NoAgent
    NoAccount = NoAccount
    Rank <- MCRank1
    Supported <- MCSupported1
    AccountOf <- MCAccountOf1
    MaxJobs = 1
    WindowFactor = 5
    MaxRetries = 2
    MaxResumes = 1
    Administered = {a1, a2}
INVARIANTS
    RetryBudgetKept
PROPERTIES
    AccountWorkAuthorised
    DeadAgentsClaimsEnd
    RunsEnd
