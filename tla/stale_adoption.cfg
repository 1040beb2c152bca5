SPECIFICATION Spec
CONSTANTS
    Units <- MCUnits
    Type <- MCType
    Refs <- MCRefs
    Parent <- MCParent
    Settings <- WholeOnly
    Usual <- Healthy
    MaxEdits = 1
    MaxRemovals = 0
    MaxDeletions = 0
    MaxFaults = 0
    MaxKills = 1
    MaxRuns = 2
    MaxTrouble = 3
CHECK_DEADLOCK FALSE
INVARIANT
    AdoptedObjectsAreCurrent
