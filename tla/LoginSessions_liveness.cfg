SPECIFICATION FairSpec
CONSTANTS
    a1 = a1
    a2 = a2
    x1 = x1
    x2 = x2
    e1 = e1
    Accounts = {x1}
    Agents = {a1, a2}
    NoAgent = NoAgent
    EmployeeOf <- OneEmployee
    NoEmployee = NoEmployee
    Capable = {a1, a2}
    PortCount = 1
    NoPort = NoPort
    Seed <- SameSeed
    MaxLogins = 1
    r1 = r1
    r2 = r2
    Requests = {r1, r2}
    BridgeReports = {"ready", "manual_verify_required", "unavailable"}
INVARIANT TypeOK
PROPERTIES ClaimedByItsAgent  LoginsEnd
