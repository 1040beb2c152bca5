SPECIFICATION Spec
CONSTANTS
    Units <- MCUnits
    Type <- MCType
    Refs <- MCRefs
    Parent <- MCParent
    Settings <- MCSettings
    Usual <- Healthy
    MaxEdits = 1
    MaxRemovals = 1
    MaxDeletions = 1
    MaxFaults = 2
    MaxKills = 1
    MaxRuns = 2
    MaxTrouble = 2
CHECK_DEADLOCK FALSE
INVARIANTS
    ImportRunTypeOK
    ReferencesAreExact
    CleanRunsResolveEverything
    
    NothingStartsUnchecked
PROPERTIES
    EventuallyMigrated
