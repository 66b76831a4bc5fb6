SPECIFICATION Spec
CONSTANTS
    MaxScenes = 2
    Texts = {t1, t2}
    Blank = blank
    Erased = erased
    MagicWord = magic
    DefaultSsid = mina
    DefaultPasswd = HappyTime
    SceneArgs <- MCSceneArgs
PROPERTIES
    ClearingNamesKeepsCredentials
