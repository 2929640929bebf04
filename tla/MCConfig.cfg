SPECIFICATION ConfigSpec
CONSTANTS
    Envs <- MCEnvs
CHECK_DEADLOCK FALSE
INVARIANTS
    NoSettingIgnored
    CredentialOfMode
