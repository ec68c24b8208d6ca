SPECIFICATION MCSpec
CONSTANTS
    reg1 = reg1
    reg2 = reg2
    flights = flights
    fleet = fleet
    Regs = {reg1, reg2}
    Jobs = {flights, fleet}
    Requests = {r1, r2}
    DomainOf <- Domain
    FileOf <- File
    MaxAssets = 1
    NoJob = NoJob
    Scenarios = {"jobs", "endpoints", "serial"}
SYMMETRY Interchangeable
INVARIANTS
    ImportsInv
    PreviewIsKept
PROPERTIES
    FinishedIsFinal
    CeilingKeptSerially
CHECK_DEADLOCK FALSE
