SPECIFICATION Spec
CONSTANTS
    a1 = a1
    a2 = a2
    j1 = j1
    j2 = j2
    acc = acc
    Agents = {a1, a2}
    Jobs = {j1, j2}
    Accounts = {}
    NoAgent = NoAgent
    NoAccount = NoAccount
    Rank <- MCRank
    Supported <- MCSupported
    AccountOf <- MCNoAccountOf
    MaxJobs = 1
    WindowFactor = 5
    MaxRetries = 1
    MaxResumes = 0
    Administered = {}
INVARIANTS
    TypeOK
    ActiveJobsOwned
    ActiveJobsRecoverable
    AgentBatchBounded
PROPERTIES
    CallbacksFenced
    LiveClaimKept
    LifecycleKept
SYMMETRY MCAgentSymmetry
