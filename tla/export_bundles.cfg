SPECIFICATION Spec
CONSTANTS
    Items <- MCItems
    Worlds <- MCWorlds
    Stems <- MCStems
    ToggledTypes = {"global_init_script"}
    Batch = 1
    Workers = 2
    Edited = {"a"}
    MaxRuns = 2
    MaxJobs = 3
    MaxVersion = 2
    MaxCrashes = 1
    MaxFaults = 1
    DisturbForced = FALSE
    NoFile = NoFile
    Torn = Torn
    None = None
CHECK_DEADLOCK FALSE
INVARIANTS
    ExportTypeOK
    AcceptedBundleIsWhole
    AdvertisedWorkIsInTheBundle
    OneProcessKeepsNamesApart
    ForcedExportIsFresh
PROPERTIES
    ExportTerminates
