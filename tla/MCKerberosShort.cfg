SPECIFICATION ProcessSpec
CONSTANTS
    Envs <- MCEnvs
    Interval = 0
    DefaultInterval = 16
    RetryBackoff = 2
    FirstGrants <- ShortGrants
    Grants <- MCGrants
    MaxKinit = 2
    MaxUp = 8
INVARIANTS
    NeverSilentlyStale
