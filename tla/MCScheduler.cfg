SPECIFICATION Spec
CONSTANTS
    b1 = b1
    b2 = b2
    b3 = b3
    b4 = b4
    r1 = r1
    r2 = r2
    r3 = r3
    r4 = r4
    x1 = x1
    c1 = c1
    c2 = c2
    None = None
    Clients = {c1, c2}
    Backends = {b1, b2, b3, b4}
    Connections = {r1, r2, r3, r4, x1}
    TierBackends <- MCTierBackends
    TierPolicy <- MCTierPolicy
    Members <- MCMembers
    Owner <- MCOwner
    PoolOf <- MCPoolOf
    Weight <- MCWeight
    BackendMax <- MCBackendMax
    ConnectionMax <- MCConnectionMax
    Requests <- MCRequests
SYMMETRY ClientSymmetry
INVARIANTS
    TypeOK
    PendingIsExact
    LimitsHold
    NoMissedWakeup
    RoundRobinFair
PROPERTY
    SelectionRespectsTiers
