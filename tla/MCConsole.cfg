SPECIFICATION FairSpec
CONSTANTS
    SearchCount = 2
    Calls = {c1}
    Address = address
    Null = null
INVARIANTS
    TypeOK
    NothingLeftBehind
    
PROPERTIES
    NothingWaitsForEver
\* An app that has crashed stops.
CHECK_DEADLOCK FALSE
