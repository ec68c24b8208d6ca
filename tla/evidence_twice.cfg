SPECIFICATION MCSpec
CONSTANTS
    Files = {f1}
    Deleters = {d1, d2}
    NoFile = NoFile
    Scenarios = {"prompt"}
INVARIANTS
    DeletedOnce
