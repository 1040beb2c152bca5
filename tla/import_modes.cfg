SPECIFICATION Spec
CONSTANTS
    Units <- OneJob
    Keys <- OneJobKeys
    IdKeys = {}
    Fingerprints = {v1}
    TargetIds = {1, 2}
    RunIds = {1, 2}
    Blank = Blank
    NoRow = NoRow
    BatchSize = 2
    CheckpointBatch = 2
    ManualUnits = {}
    SkippedUnits = {}
    InternalUnits = {}
    DeclarativeUnits = {}
    DependentUnits = {}
    PreExisting <- Nothing
    ReconcileUnits = {}
    WarnedUnits = {}
    UniqueUnits = {}
    RunSettings <- MixedRuns
    MaxCrashes = 1
    MaxInterrupts = 1
    MaxApiFailures = 1
    MaxHandEdits = 0
    AnswersMayBeLost = TRUE
    ListingMayFail = FALSE
    DiskMayFail = TRUE
    ReimportFirst = TRUE
INVARIANTS
    DeferredWorkIsVisible
PROPERTIES
    
    RunTerminates
