SPECIFICATION FairSpec
CONSTANTS
    k1 = k1
    k2 = k2
    SIDs = {0}
    LogSize = 1
    Nodes = {1, 2}
    Links <- Pair
    Providers = {1}
    ServerID <- PairServerID
    Clients = {k1}
    Home <- AtProvider
    UUIDs = {1, 2}
    Loaded = {1}
    Matching = {"in", "out"}
    Modes = {"refreshOnly", "refreshAndPersist"}
    ChannelSize = 1
    MaxStream = 1
    MaxTime = 4
    MaxFaults = 2
CHECK_DEADLOCK FALSE
INVARIANTS
    TypeOK
    CookieMeansContent
    LogAnswersForItsWindow
    PersistMissesNothing
PROPERTY
    Converges
