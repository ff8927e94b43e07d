SPECIFICATION Spec
CONSTANTS
    o1 = o1
    o2 = o2
    o3 = o3
    w1 = w1
    w2 = w2
    Ops = {o1, o2, o3}
    Workers = {w1}
    Reader = Reader
    NoOp = NoOp
    Bytes <- MCBytesOneTooLarge
    MaxPending = 2
    MaxRetainedBytes = 8
    MaxReservedBytes = 8
    Kinds = {"metasearch", "write", "proxywrite", "bind"}
    MaxConcurrentOperations = 1
    Events = {"lost"}
SYMMETRY MCSmallSymmetry
INVARIANTS
    TypeOK
    CancelMeansNoEffect
    AtMostOneFinalResponse
    AbandonedLeavesNoTrace
    CommittedIsReported
    TooLateIsAnswered
PROPERTIES
    KeepsContract
