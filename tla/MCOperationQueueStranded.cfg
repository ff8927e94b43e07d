SPECIFICATION QueueSpec
CONSTANTS
    o1 = o1
    o2 = o2
    o3 = o3
    o4 = o4
    w1 = w1
    w2 = w2
    w3 = w3
    Ops = {o1, o2, o3, o4}
    Workers = {w1, w2, w3}
    Reader = Reader
    NoOp = NoOp
    Bytes <- MCBytes
    MaxPending = 3
    MaxRetainedBytes = 8
    MaxReservedBytes = 8
SYMMETRY WorkerSymmetry
INVARIANTS
    NoStrandedHead
