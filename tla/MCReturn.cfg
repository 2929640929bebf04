SPECIFICATION Spec
CONSTANTS
    DCs = {"dc1", "dc2"}
    HostList <- MCHostList
    Threshold = 1
    BaseCooldown = 1
    MaxCooldown = 2
    Horizon = 1
    MaxFails = 0
    Words <- MCWords
    ZoneList <- MCOneZone
    DomainFilter = {}
    AxfrEnabled = TRUE
    Threads = {t1, t2}
    DryRun = FALSE
    Owners = {"X"}
    Requests <- MCOneRequest
    AdminRecords = {}
    InitialZone <- MCOneInitialZone
    Faults = {"axfr", "unsent"}
    MaxRequests = 2
    MaxEdits = 0
    MaxLate = 0
    MaxCancels = 1
    MaxCrashes = 0
PROPERTIES
    RequestsReturn
