SPECIFICATION MCSpec
CONSTANTS
    Keys = {k1, k2}
    IdKeys = {g1}
    Fingerprints = {f1}
    TargetIds = {t1}
    RunIds = {1}
    Blank = Blank
    NoRow = NoRow
    BatchSize = 2
    MaxPending = 2
    RecordedActions = {"created"}
INVARIANTS
    StoreTypeOK
    PendingCoversTheGap
    BoundedLoss
PROPERTIES
    SavedUnlessFlagged
    StateMapSpec
    IdentityMapSpec
