SPECIFICATION FairSpec
CONSTANTS
    MaxScenes = 2
    Texts = {t1, t2}
    Blank = blank
    Erased = erased
    MagicWord = magic
    DefaultSsid = mina
    DefaultPasswd = HappyTime
    SceneArgs <- MCSceneArgs
INVARIANTS
    TypeOK
    MagicWordMarksWholeStore
    MemoryAgreesWithFlash
PROPERTIES
    ImplementsStore
    SetUpLastsUntilRequestOrTornWrite
    ClearingSetupForgetsNames
    StartsUp
