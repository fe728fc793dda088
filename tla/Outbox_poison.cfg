SPECIFICATION FairSpec
CONSTANTS
    j1 = j1
    j2 = j2
    j3 = j3
    Jobs = {j1, j2, j3}
    Unseen = {j1, j2}
    Refused = {}
    Limit = 2
    NoReport = NoReport
    MaxReports = 1
    MaxCrashes = 0
PROPERTY QueueDrains
