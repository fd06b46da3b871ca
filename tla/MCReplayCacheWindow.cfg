SPECIFICATION Spec
CONSTANTS
    Nonce = {"a", "b", "c"}
    MaxEntries = 2
    Expiry = 2
    Horizon = 6
    MaxLog = 6
INVARIANT
    RememberedForExpiry
