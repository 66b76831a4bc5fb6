SPECIFICATION Spec
CONSTANTS
    RecordCount = 2
    RecordSize = 3
    SectorSize = 8
    InputTexts <- SomeTexts
    SavedTexts <- NonEmptyTexts
    Leftovers = {0, 1}
INVARIANTS
    TypeOK
PROPERTIES
    ImplementsTexts
