SPECIFICATION FairSpec
CONSTANTS
    k1 = k1
    k2 = k2
    SIDs = {0}
    LogSize = 1
    Nodes = {1, 2}
    Links <- Pair
    Providers = {1}
    ServerID <- PairServerID
    Clients = {k1, k2}
    Home <- AtProvider
    UUIDs = {1, 2}
    Loaded = {}
    Matching = {"in"}
    Modes = {"refreshAndPersist"}
    ChannelSize = 1
    MaxStream = 1
    MaxTime = 2
    MaxFaults = 0
CHECK_DEADLOCK FALSE
PROPERTY
    Converges
