SPECIFICATION Spec
CONSTANTS
    Horizon = 4
    MaxBack = 1
    Query <- MC_Query
    Jti = {"x", "y"}
    MaxWindow = 2
    MaxRestarts = 1
INVARIANTS
    TypeOK
    SettledOncePerEpoch
    ReplaysAreBrief
PROPERTY
    ReplayIsGenuine
