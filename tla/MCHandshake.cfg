SPECIFICATION Spec
CONSTANTS
    NodeId = {"n1", "n2"}
    Session = {"s1", "s2"}
    Reason = {"r1", "r2"}
    None = "none"
INVARIANTS
    TypeOK
    MirrorUntilReset
    AuditFieldsAgreed
    BothFieldsFollowPhase
PROPERTIES
    PdpImplementsLifecycle
    AcImplementsAllButReset
