SPECIFICATION DeviceFairSpec
CONSTANTS
    DeviceCount = 2
    AdminArgs <- MCAdminArgs
    PollLimit = 2
    Networks = {home, other}
    Factory = factory
    NotSetUp = notSetUp
    Null = null
INVARIANTS
    DeviceTypeOK
    LastRequestIsKept
    ReportedSceneIsOnAir
    SwitchesReachTheirScenes
PROPERTIES
    ImplementsMailbox
    LastRequestGetsSent
    WifiInTimeServesAlexa
