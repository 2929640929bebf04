SPECIFICATION Spec
CONSTANTS
    DCs = {"dc1", "dc2"}
    HostList <- MCHostList
    Threshold = 2
    BaseCooldown = 1
    MaxCooldown = 2
    Horizon = 1
    MaxFails = 0
    Words <- MCWords
    ZoneList <- MCZoneList
    DomainFilter = {}
    AxfrEnabled = TRUE
    Threads = {t1, t2}
    DryRun = FALSE
    Owners = {"X"}
    Requests <- MCRequests
    AdminRecords = {}
    InitialZone <- MCInitialZone
    Faults = {"axfr", "unsent", "lost", "unsigned", "REFUSED"}
    MaxRequests = 2
    MaxEdits = 0
    MaxLate = 0
    MaxCancels = 0
    MaxCrashes = 1
SYMMETRY ThreadSymmetry
INVARIANTS
    TypeOK
    LocksHeldExactly
    AckedMeansApplied
    AnswerMatchesCache
