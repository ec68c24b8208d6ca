SPECIFICATION MCSpec
CONSTANTS
    Files = {f1, f2}
    Deleters = {d1, d2}
    NoFile = NoFile
    Scenarios = {"lingering", "prompt", "serial"}
SYMMETRY Symmetric
INVARIANTS
    EvidenceFilesInv
    DeletionIsReal
    StoredObjectsKept
    RepairsAuthorized
    DeletedIsGone
    DeletedOnceSerially
PROPERTIES
    LifecycleRespected
