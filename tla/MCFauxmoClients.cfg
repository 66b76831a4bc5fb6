SPECIFICATION FairSpec
CONSTANTS
    Clients = {c1, c2, c3}
    SlotCount = 2
    NoClient = none
    Stray = stray
INVARIANTS
    TypeOK
    ConnectedKeepSlots
    HangsUpWhenDone
PROPERTIES
    RefusedOnlyWhenFull
    SlotsComeFree
CHECK_DEADLOCK FALSE
