SPECIFICATION MCSpec
CONSTANTS
    NoRequest = NoRequest
    Requests = {r1, r2}
    NumSlots = 2
    Movements <- ReceiptMovements
    PartPatches <- NoPatches
    NeedPatches <- NoPatches
    Required = {}
    OpeningParts <- FewStocks
    OpeningNeeds <- AllShort
    Scenarios = {"concurrent"}
PROPERTIES SettledIsFinal
CHECK_DEADLOCK FALSE
