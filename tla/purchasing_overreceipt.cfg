SPECIFICATION MCSpec
CONSTANTS
    r1 = r1
    r2 = r2
    p1 = p1
    p2 = p2
    Requests = {r1, r2}
    NoRequest = NoRequest
    LineNumbers = {1, 2}
    PartRequests <- PartRequest
    Sessions = {s1, s2}
    Orders = {p1, p2}
    Layouts <- NoLayouts
    Receipts <- FewReceipts
    OpeningRequests <- Ordered
    OpeningOrders <- SentWithPart
    Scenarios = {"concurrent"}
    Rounds = 1
INVARIANTS
    NoOverReceipt
CHECK_DEADLOCK FALSE
