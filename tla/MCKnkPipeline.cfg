SPECIFICATION Spec
CONSTANTS
    Horizon = 5
    MaxBack = 1
    Config <- MC_Config
    NaN = NaN
    Node = {"n1", "n2"}
    Key = {"k1", "k2"}
    NoKey = NoKey
    Nonce = {"x", "y"}
    Submission <- MC_Submission
    NoRequest = NoRequest
    MaxDrift = 6
    ExpBound = 0
    Skew = 1
    NonceExpiry = 4
INVARIANTS
    TypeOK
    AcceptedOnce
    LiveTokenRemembered
    CacheIsExact
PROPERTIES
    NonceRefusedOnlyAfterUse
    GrantIsSound
    ImplementsLedger
