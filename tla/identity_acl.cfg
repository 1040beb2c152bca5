SPECIFICATION Spec
CONSTANTS
    Users <- MCUsers
    SPs <- MCSPs
    Groups <- MCGroups
    Admins = "admins"
    Objects = {"job"}
    Worlds <- MCWorlds
    MaxBundles = 2
    MaxRuns = 3
    MaxIds = 2
    MaxFaults = 1
    MaxCrashes = 1
    MaxPeople = 1
    MaxTrouble = 2
    Deletable = {"job"}
    Racing = {"ann"}
    None = None
CHECK_DEADLOCK FALSE
INVARIANTS
    AccessTypeOK
    ShadowsAreNeitherMadeNorUsed
    MembersDoNotDependOnOrder
    AdminsStayAdmins
    MissingAccessIsReported
    HealedObjectsHaveTheirGrants
