SPECIFICATION FairSpec
CONSTANTS
    j1 = j1
    j2 = j2
    j3 = j3
    Jobs = {j1, j2, j3}
    Unseen = {j1}
    Refused = {j2}
    Limit = 3
    NoReport = NoReport
    MaxReports = 2
    MaxCrashes = 1
INVARIANTS TypeOK NothingLost SentIsReceived
PROPERTY QueueDrains
