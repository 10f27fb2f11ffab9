SPECIFICATION ObservedSpec
CONSTANTS
    Version = {v1}
    NoVersion = NoVersion
    Binary = {b1}
    Config = {on}
    RunnableConfig = {on}
    NoConfig = NoConfig
    Calls = {"setNeedUpdate"}
    MaxGeneration = 0
    MaxQueue = 1
    StateWritesMayFail = FALSE
    CacheWritesMayFail = FALSE
    FilesMayVanish = FALSE
PROPERTIES
    RolledBackNeverReinstalled
