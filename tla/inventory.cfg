SPECIFICATION MCSpec
CONSTANTS
    NoRequest = NoRequest
    Requests = {r1, r2, r3}
    NumSlots = 2
    Movements <- AllMovements
    PartPatches <- PartBodies
    NeedPatches <- NeedBodies
    Required = {1, 2}
    OpeningParts <- FewStocks
    OpeningNeeds <- FewNeeds
    Scenarios = {"concurrent", "serial", "receipts"}
SYMMETRY Symmetric
INVARIANTS LedgerAccountsForPart StaysCovered NoStatusLeftStale NoReceiptLost
PROPERTIES ImplementsStockLedger FulfilmentBounded SettledIsFinalSerially
CHECK_DEADLOCK FALSE
