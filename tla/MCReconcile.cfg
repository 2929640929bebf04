SPECIFICATION ReconcileSpec
CONSTANTS
    DCs = {"dc1"}
    HostList <- MCHostList
    Threshold = 1
    BaseCooldown = 1
    MaxCooldown = 1
    Horizon = 2
    MaxFails = 0
    Words <- MCWords
    ZoneList <- BothZones
    DomainFilter = {}
    AxfrEnabled = TRUE
    Threads = {"X"}
    DryRun = FALSE
    Owners = {"X"}
    Requests = {}
    AdminRecords = {}
    InitialZone <- BothContent
    Faults = {"axfr", "lost", "late", "unsent"}
    MaxRequests = 0
    MaxEdits = 0
    MaxLate = 1
    MaxCancels = 0
    MaxCrashes = 1
    Goals <- StayGoals
    MaxChanges = 1
    MaxFaults = 2
PROPERTIES
    Converges
