SPECIFICATION BreakerSpec
CONSTANTS
    DCs = {dc1, dc2}
    Threshold = 2
    BaseCooldown = 1
    MaxCooldown = 5
    Horizon = 13
    MaxFails = 3
INVARIANTS
    BreakerTypeOK
    CircuitMatchesStreak
    ExclusionBounded
PROPERTIES
    BackoffSchedule
    ExclusionEnds
