SPECIFICATION TransferSpec
CONSTANTS
    Words <- MCWords
    Modes = {"gss-tsig", "hmac-tsig", "insecure"}
    Servers = {"AD", "keyed", "open"}
    Bodies <- MCBodies
INVARIANTS
    TransferTypeOK
    AllOrNothing
    CleanTransferSucceeds
PROPERTIES
    TransferEnds
