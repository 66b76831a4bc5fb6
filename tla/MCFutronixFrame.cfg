SPECIFICATION Spec
CONSTANTS
    Codes <- MCCodes
    LoopCounter = "int"
INVARIANTS
    TypeOK
    FramesCarryCommand
    RepetitionsAgree
\* sendFutronix returns.
CHECK_DEADLOCK FALSE
