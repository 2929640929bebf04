SPECIFICATION BridgeSpec
CONSTANTS
    Words <- MCWords
    ZoneList <- MCZoneList
    DomainFilter <- MCDomainFilter
    AxfrEnabled = TRUE
    Contents <- MCContents
    Endpoints <- MCEndpoints
    OldEndpoints <- MCOldEndpoints
INVARIANTS
    CreateIsListed
    DeleteUndoesCreate
    OthersUntouched
    OnlyOwnedUpdated
    MarkerInZone
    MarkerRoundTrip
