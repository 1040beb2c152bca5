SPECIFICATION Spec
CONSTANTS
    Units <- AppliedUnits
    Keys <- AppliedKeys
    IdKeys = {}
    Fingerprints = {v1}
    TargetIds = {1, 2, 3, 4, 5}
    RunIds = {1, 2}
    Blank = Blank
    NoRow = NoRow
    BatchSize = 2
    CheckpointBatch = 2
    ManualUnits = {}
    SkippedUnits <- OneInternal
    InternalUnits <- OneInternal
    DeclarativeUnits <- OneMembers
    DependentUnits <- OnePublish
    PreExisting <- MembersFirst
    ReconcileUnits <- OnePublish
    WarnedUnits <- OnePublish
    UniqueUnits = {}
    RunSettings <- FullRuns
    MaxCrashes = 0
    MaxInterrupts = 0
    MaxApiFailures = 1
    MaxHandEdits = 1
    AnswersMayBeLost = FALSE
    ListingMayFail = TRUE
    DiskMayFail = FALSE
    ReimportFirst = TRUE
INVARIANTS
    DeclarativeWorkIsDone
    NoObjectIsNotDone
