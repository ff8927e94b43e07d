SPECIFICATION Spec
CONSTANTS
    SynchronizedWrites = TRUE
    SyncReachesFile = TRUE
    MaxTransactions = 3
CHECK_DEADLOCK FALSE
INVARIANT
    PowerLossKeepsAcknowledged
