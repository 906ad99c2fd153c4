CONSTANTS
    Fetches = {f1, f2}
    Names = {n1}
    Bodies = {b1, b2}
    Blocks = 2
    Hole = Hole
    NoHash = NoHash
    None = None
    MaxCrashes = 1
    Deploys = {d1, d2}
    Past = {d2}
    Bridge = bridge
    Browsers = {p1}
    Slots = {1, 2}
    BufferSize = 1
    EventsSize = 1
    MaxHistory = 1
    Idle = Idle
    MaxJoins = 1
    MaxLost = 1
    Servers = {lobbyServer}
    Paths <- MCPaths
    ConfigDir <- MCConfigDir
    Slash = "/"
    Reachable = {lobbyServer}
    Consumer = consumer
    Jenkins = {jenkins}
    NoServer = NoServer
    NoPath = NoPath
    MaxCommits = 2
    Manifests <- MCManifests
    NoManifest = NoManifest
    Observing = observing
    Handling = handling
    MaxEdits = 2
    MaxTroubles = 2
SPECIFICATION Spec
INVARIANTS
    CacheTypeOK HashedBuildGenuine SettledFileWhole
    BoardTypeOK NoSendOnClosed EndedIsInHistory
    SyncTypeOK SyncedMeansLoaded
    ProxyTypeOK EveryServerReachable FileOfOneManifest
PROPERTIES
    DeploysReport PagesConverge
    ProxyFileSettles
CHECK_DEADLOCK FALSE
