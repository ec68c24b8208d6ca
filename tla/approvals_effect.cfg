SPECIFICATION MCSpec
CONSTANTS
    Requests = {r1}
    Rows = {o1, o2}
    Users = {u1, u2}
    Sessions = {s1}
    Ceilings = {1, 2}
    Horizon = 1
    Null = Null
    Gone = Gone
    Scenarios <- FeaturesSerially
PROPERTIES
    ApprovedTakesEffect
CHECK_DEADLOCK FALSE
