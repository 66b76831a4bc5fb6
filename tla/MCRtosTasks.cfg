SPECIFICATION FairSpec
CONSTANTS
    MaxRetries = 2
INVARIANTS
    TypeOK
    ContextsAreFreed
PROPERTIES
    HealthySessionStays
    WifiAliveFollowsStation
    Reconnects
    RestsWithoutWifi
