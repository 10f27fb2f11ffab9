\* A download that a reset overtook leaves the hash of a version that is gone.
SPECIFICATION MCSpec
CHECK_DEADLOCK FALSE
CONSTANTS
    Hash = {v}
    NoHash = NoHash
    Caller = {p, q}
    NoCaller = NoCaller
    MaxCalls = 5
    Plan <- MCPlan
    m = m
    n = n
    x = x
    Redirect = r
    MaxRetries = 1
    Asker = {p, q}
    Question = {x, y}
    CheckConfig = {A}
    NoCheckConfig = NoCheckConfig
    MaxChecks = 3
    MaxOptions = 1
    Config = {A, B}
    NoConfig = NoConfig
    WritesMayFail = TRUE
    MaxChanges = 7
    Configured <- MCConfigured
    Listed <- MCListed
    IsHttps <- MCIsHttps
    MaxRequests = 4
    Thrown = {e}
    MaxInstalls = 4
    MaxThrows = 2
    Release = {v, w, u}
    Usable = {v, w}
    NoVersionYet = NoVersionYet
    MaxEvents = 3
    ProviderCall = {p, q}
    MaxErrors = 2
    Offer <- MCOffer
    PartialOffer <- MCPartialOffer
    Rollout = {0, 50, 101}
    Device <- MCDevice
    Paths <- MCPaths
    Extra <- MCExtra
INVARIANTS
    DownloadedIsNotStale
