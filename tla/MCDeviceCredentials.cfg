SPECIFICATION DeviceSpec
CONSTANTS
    DeviceCount = 2
    AdminArgs <- MCAdminArgs
    PollLimit = 2
    Networks = {home, other}
    Factory = factory
    NotSetUp = notSetUp
    Null = null
INVARIANTS
    TriesStoredCredentials
