SPECIFICATION Spec
CONSTANTS
    Version = {v1}
    NoVersion = NoVersion
    Binary = {b1, b2}
    Config = {on}
    RunnableConfig = {on}
    NoConfig = NoConfig
    Calls = {"setNeedUpdate", "restartApp",
             "markSuccess", "resetToPackagedBundle", "syncNativeConfig"}
    MaxGeneration = 1
    MaxQueue = 1
    StateWritesMayFail = FALSE
    CacheWritesMayFail = FALSE
    FilesMayVanish = FALSE
INVARIANTS
    TypeOK
    LaunchVersionKept
    SupersededStaysOut
    CacheIsFresh
    BreadcrumbMeansInterrupted
PROPERTIES
    RolledBackStaysOut
