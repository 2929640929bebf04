SPECIFICATION ProcessSpec
CONSTANTS
    Envs <- MCEnvs
    Interval = 0
    DefaultInterval = 16
    RetryBackoff = 2
    FirstGrants <- MCFirstGrants
    Grants <- MCGrants
    MaxKinit = 2
    MaxUp = 8
INVARIANTS
    KrbTypeOK
    NeverSilentlyStale
    RecoversInTime
    CleanEndOnlyOnSignal
PROPERTIES
    KinitsApart
    KeepsServing
    SignalStops
