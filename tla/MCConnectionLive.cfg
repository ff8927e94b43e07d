SPECIFICATION FairSpec
CONSTANTS
    o1 = o1
    o2 = o2
    o3 = o3
    w1 = w1
    w2 = w2
    Ops = {o1, o2}
    Workers = {w1}
    Reader = Reader
    NoOp = NoOp
    Bytes <- MCBytes
    MaxPending = 1
    MaxRetainedBytes = 8
    MaxReservedBytes = 8
    Kinds = {"persist", "search", "write", "bind"}
    MaxConcurrentOperations = 1
    Events = {"drain"}
INVARIANTS
    DrainAnswersEverything
PROPERTIES
    DrainTerminates
    ReaderNeverHangs
