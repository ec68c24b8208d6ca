SPECIFICATION MCSpec
CONSTANTS
    Requests = {r1}
    Rows = {o1, o2}
    Users = {u1, u2}
    Sessions = {s1, s2}
    Ceilings = {1, 2}
    Horizon = 1
    Null = Null
    Gone = Gone
    Scenarios <- Everything
SYMMETRY Interchangeable
INVARIANTS
    ApprovalsInv
    OneOverrideSerially
PROPERTIES
    ImplementsDecision
    ApprovedIsGranted
CHECK_DEADLOCK FALSE
