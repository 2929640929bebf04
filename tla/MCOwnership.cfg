SPECIFICATION Spec
CONSTANTS
    DCs = {"dc1"}
    HostList <- MCHostList
    Threshold = 3
    BaseCooldown = 1
    MaxCooldown = 4
    Horizon = 0
    MaxFails = 0
    Words <- MCWords
    ZoneList <- MCZoneList
    DomainFilter = {}
    AxfrEnabled = TRUE
    Threads = {t1, t2}
    DryRun = FALSE
    Owners = {"X", "Y"}
    Requests <- MCRequests
    AdminRecords <- MCAdminRecords
    InitialZone <- MCInitialZone
    Faults = {"late"}
    MaxRequests = 3
    MaxEdits = 1
    MaxLate = 1
    MaxCancels = 0
    MaxCrashes = 0
SYMMETRY ThreadSymmetry
INVARIANTS
    SingleOwner
PROPERTIES
    ForeignWritesRejected
    ImplementsRegistry
