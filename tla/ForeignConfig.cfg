CONSTANTS
    Servers = {lobbyServer}
    Paths <- LookalikePaths
    ConfigDir <- MCConfigDir
    Slash = "/"
    Reachable = {lobbyServer}
    Consumer = consumer
    Jenkins = {jenkins}
    NoServer = NoServer
    NoPath = NoPath
    MaxCommits = 1
SPECIFICATION SyncSpec
INVARIANT OwnFilesOnly
CHECK_DEADLOCK FALSE
