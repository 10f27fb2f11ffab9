\* One round over every reply, with a crash hold, a reset or a new
\* configuration at any point of it.
SPECIFICATION Spec
CHECK_DEADLOCK FALSE
CONSTANTS
    a = a
    aSlash = aSlash
    b = b
    c = c
    NoUrl = NoUrl
    Url = {a, aSlash, b, c}
    Cleartext = {c}
    Base <- MCBase
    MaxQueryRequests = 3
    NativeConfig <- MCNativeConfig
    Response <- MCResponse
    RemoteList <- MCRemoteList
    Deadline = {2, 4}
    QueryIdle = 1
    QueryCall = 2
    DownloadPhase = 2
    MaxClock = 6
    MaxGeneration = 1
INVARIANTS
    TypeOK
    RoundIsBounded
    StaysOnHttps
    SpoiledStrategyIsLeft
PROPERTIES
    LandsInItsOwnWorld
    KeepsItsPromise
