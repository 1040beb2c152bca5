SPECIFICATION Spec
CONSTANTS
    Units <- TwoJobs
    Keys <- TwoJobKeys
    IdKeys = {}
    Fingerprints = {v1, v2}
    TargetIds = {1, 2, 3}
    RunIds = {1, 2}
    Blank = Blank
    NoRow = NoRow
    BatchSize = 2
    CheckpointBatch = 2
    ManualUnits = {}
    SkippedUnits = {}
    InternalUnits = {}
    DeclarativeUnits = {}
    DependentUnits = {}
    PreExisting <- Nothing
    ReconcileUnits = {}
    WarnedUnits = {}
    UniqueUnits <- TwoJobs
    RunSettings <- FullRetryAndForcedRuns
    MaxCrashes = 0
    MaxInterrupts = 0
    MaxApiFailures = 2
    MaxHandEdits = 0
    AnswersMayBeLost = FALSE
    ListingMayFail = TRUE
    DiskMayFail = FALSE
    ReimportFirst = FALSE
INVARIANTS
    FingerprintsAreHonest
    CompletedRunMigrates
