SPECIFICATION ServerSpec
CONSTANTS
    Horizon = 2
    MaxBack = 1
    Config <- MC_Config
    NaN = NaN
    Node = {"n1"}
    Key = {"k1"}
    NoKey = NoKey
    Nonce = {"x"}
    Submission <- MC_Submission
    NoRequest = NoRequest
    MaxDrift = 2
    ExpBound = 0
    Skew = 0
    NonceExpiry = 2
    Client = {"c1"}
    MaxRequests = 2
    Window = 2
    Call = {"original", "retry", "copy"}
    Caller <- MC_Caller
    Body <- MC_Body
INVARIANTS
    ServerTypeOK
    ReplayMeansDecided
    RateBound
PROPERTIES
    LedgerBetweenRestarts
    ReplaysAreBrief
    EveryReadyCallIsAnswered
