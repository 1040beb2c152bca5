SPECIFICATION Spec
CONSTANTS
    Units <- OneJob
    Keys <- OneJobKeys
    IdKeys = {}
    Fingerprints = {v1, v2}
    TargetIds = {1, 2, 3}
    RunIds = {1, 2}
    Blank = Blank
    NoRow = NoRow
    BatchSize = 2
    CheckpointBatch = 2
    ManualUnits = {}
    SkippedUnits = {}
    InternalUnits = {}
    DeclarativeUnits = {}
    DependentUnits = {}
    PreExisting <- Nothing
    ReconcileUnits = {}
    WarnedUnits = {}
    UniqueUnits = {}
    RunSettings <- FullRuns
    MaxCrashes = 1
    MaxInterrupts = 0
    MaxApiFailures = 1
    MaxHandEdits = 0
    AnswersMayBeLost = FALSE
    ListingMayFail = FALSE
    DiskMayFail = FALSE
    ReimportFirst = TRUE
INVARIANTS
    FailedRowsStayMoved
