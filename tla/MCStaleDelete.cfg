SPECIFICATION ReconcileSpec
CONSTANTS
    DCs = {"dc1"}
    HostList <- MCHostList
    Threshold = 1
    BaseCooldown = 1
    MaxCooldown = 1
    Horizon = 1
    MaxFails = 0
    Words <- MCWords
    ZoneList <- BothZones
    DomainFilter = {}
    AxfrEnabled = TRUE
    Threads = {"X"}
    DryRun = FALSE
    Owners = {"X"}
    Requests = {}
    AdminRecords = {}
    InitialZone <- BothContent
    Faults = {"late"}
    MaxRequests = 0
    MaxEdits = 0
    MaxLate = 1
    MaxCancels = 0
    MaxCrashes = 0
    Goals <- LeaveGoals
    MaxChanges = 1
    MaxFaults = 1
PROPERTIES
    MarkerMaintained
