SPECIFICATION FairSpec
CONSTANTS
    DeviceCount = 3
    Controllers = {alexa, other}
    Nobody = nobody
    Tries = 3
    MaxLosses = 1
INVARIANTS
    TypeOK
    AnnouncedInTurn
    GivesUpAfterTries
    EveryDeviceIsHeardOf
PROPERTIES
    FetchedDevicesAreQuiet
    SearchFindsAll
