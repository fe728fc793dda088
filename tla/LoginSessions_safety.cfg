SPECIFICATION Spec
CONSTANTS
    a1 = a1
    a2 = a2
    x1 = x1
    x2 = x2
    e1 = e1
    Accounts = {x1, x2}
    Agents = {}
    NoAgent = NoAgent
    EmployeeOf <- OneEmployee
    NoEmployee = NoEmployee
    Capable = {}
    PortCount = 3
    NoPort = NoPort
    Seed <- SameSeed
    MaxLogins = 2
    r1 = r1
    r2 = r2
    Requests = {r1, r2}
    BridgeReports = {"expired"}
SYMMETRY Alike
PROPERTY PortsPrivate
