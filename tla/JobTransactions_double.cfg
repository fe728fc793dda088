SPECIFICATION Spec
CONSTANTS
    a1 = a1
    a2 = a2
    s1 = s1
    s2 = s2
    j1 = j1
    j2 = j2
    Sessions = {s1, s2}
    Agents = {a1, a2}
    Jobs = {j1}
    NoAgent = NoAgent
    MaxJobs = 1
    MaxRetries = 2
    MaxCount = 2
SYMMETRY Symmetry
INVARIANT NoDoubleExecution
