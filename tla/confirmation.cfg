SPECIFICATION Spec
CONSTANTS
    Version = {v1, v2}
    NoVersion = NoVersion
    Binary = {b1}
    Config = {on}
    RunnableConfig = {on}
    NoConfig = NoConfig
    Calls = {"setNeedUpdate", "markSuccess"}
    MaxGeneration = 0
    MaxQueue = 1
    StateWritesMayFail = FALSE
    CacheWritesMayFail = FALSE
    FilesMayVanish = FALSE
SYMMETRY Symmetry
PROPERTIES
    OnlyTheRunningVersionIsConfirmed
