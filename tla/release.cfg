SPECIFICATION MCSpec
CONSTANTS
    t1 = t1
    t2 = t2
    e1 = e1
    i1 = i1
    i2 = i2
    f1 = f1
    None = None
    Sessions = {s1, s2}
    Tasks = {t1, t2}
    Evidences = {e1}
    Inspections = {i1, i2}
    Findings = {f1}
    Users = {u1, u2}
    TaskOf <- Attached
    Required <- RequiredItems
    OpeningOrders <- FewOrders
    OpeningRows <- FewRows
    Scenarios = {"concurrent", "serial"}
INVARIANTS
    ReleaseInv
    ClosedTasksComplete
PROPERTIES
    ClosedWhenReady
    IndependentInspector
CHECK_DEADLOCK FALSE
