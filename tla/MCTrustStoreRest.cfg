SPECIFICATION Spec
CONSTANTS
    Thread = {"t1", "t2"}
    Node = {"n1"}
    Key = {"k1", "k2"}
    NoKey = "no_key"
    NoCall = NoCall
INVARIANT
    MapsAgreeAtRest
