SPECIFICATION FairSpec
CONSTANTS
    r1 = r1
    r2 = r2
    j1 = j1
    j2 = j2
    j3 = j3
    Runs = {r1, r2}
    Jobs = {j1, j2, j3}
    RunOf <- MCTwoRuns
INVARIANTS
    TypeOK
PROPERTIES
    NoEarlyVerdict
    RunsClose
    RunsReopen
