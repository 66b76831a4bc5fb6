SPECIFICATION Spec
CONSTANTS
    Codes <- MCCodes
    LoopCounter = "uint8_t"
INVARIANTS
    CommandHasSixBits
