SPECIFICATION ControllerSpec
CONSTANTS
    Session = {"s1", "s2", "s3", "s4"}
    Timeout = 2
    MaxSessions = 2
    Openers = 2
INVARIANTS
    ControllerTypeOK
    DriftIsSwallowed
    SessionsBounded
