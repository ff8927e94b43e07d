SPECIFICATION Spec
CONSTANTS
    o1 = o1
    o2 = o2
    o3 = o3
    w1 = w1
    w2 = w2
    Ops = {o1, o2}
    Workers = {w1, w2}
    Reader = Reader
    NoOp = NoOp
    Bytes <- MCBytes
    MaxPending = 2
    MaxRetainedBytes = 8
    MaxReservedBytes = 8
    Kinds = {"search", "saslbind"}
    MaxConcurrentOperations = 2
    Events = {}
SYMMETRY MCSymmetry
INVARIANTS
    AtMostOneFinalResponse
