SPECIFICATION MCSpec
CONSTANTS
    r1 = r1
    r2 = r2
    p1 = p1
    p2 = p2
    Requests = {r1, r2}
    NoRequest = NoRequest
    LineNumbers = {1, 2}
    PartRequests <- PartRequest
    Sessions = {s1, s2, s3}
    Orders = {p1, p2}
    Layouts <- OneOrTwice
    Receipts <- MixedReceipts
    OpeningRequests <- ApprovedOrOrdered
    OpeningOrders <- SentOrNone
    Scenarios = {"concurrent", "serial", "smooth"}
    Rounds = 3
SYMMETRY Symmetric
INVARIANTS
    PurchasingInv
    StockMatchesLines
    NoOverReceiptSerially
    RequestBoughtOnce
    StatusMatchesLines
PROPERTIES
    DeliveredWhileReceivable
CHECK_DEADLOCK FALSE
