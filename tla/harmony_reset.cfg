\* The cleanup of a reset deletes a version activated before it started.
SPECIFICATION MCSpec
CHECK_DEADLOCK FALSE
CONSTANTS
    Version = {v, w}
    NoVersion = NoVersion
    Binary = {b1, b2}
    v = v
    w = w
    b1 = b1
    Call = {p, q}
    Nothing = Nothing
    MaxOps = 2
    MaxTasks = 1
    MaxDeaths = 1
    MaxVerifyAttempts = 2
    Url = {m, n}
    Length = 2
    MaxEntity = 2
    MaxRuns = 2
    Setting = {A, Off}
    Runnable = {A}
    NoSetting = NoSetting
    Host = {h}
    MaxWorldChanges = 2
    MaxAttempts = 2
    MaxProcesses = 1
    MaxBoots = 4
    Job = {patch, copy, hash, icon}
    NoJob = NoJob
    Digest = hash
    File = {bundle, image}
    FileOf <- MCFileOf
    patch = patch
    copy = copy
    hash = hash
    icon = icon
    bundle = bundle
    image = image
    MaxArrivals = 4
    MaxInstances = 3
PROPERTIES
    EveryCleanupSparesActive
