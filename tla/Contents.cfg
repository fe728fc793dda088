SPECIFICATION Spec
CONSTANTS
    c1 = c1
    q1 = q1
    q2 = q2
    u1 = u1
    u2 = u2
    Content = {c1}
    Requests = {q1, q2}
    Users = {u1, u2}
    NoUser = NoUser
    MaxItems = 2
    MaxDetails = 2
SYMMETRY Symmetry
INVARIANT TypeOK
PROPERTIES ManualChoiceHolds AssignmentHolds OneDetailJob
