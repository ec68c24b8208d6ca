SPECIFICATION ClientSpec
CONSTANTS
    NoRequest = NoRequest
    Requests = {r1, r2}
    NumSlots = 2
    Movements <- AllMovements
    PartPatches <- PartBodies
    NeedPatches <- NeedBodies
    Required = {1}
    OpeningParts <- FewStocks
    OpeningNeeds <- OneShort
    Scenarios = {"concurrent"}
    Screens <- AllScreens
    Rows = {1, 2}
    Inputs = {1, 2}
    First = 1
    LoadSlots = {1, 2}
    CallSlots = {1, 2}
    MaxMoves = 2
    Nothing = Nothing
INVARIANTS InventoryInv ScreenTypeOK ShownAnswersInput SavedIsShown OneAtATime DialogWaits
PROPERTIES EveryRequestEnds WaitsEnd
CHECK_DEADLOCK FALSE
