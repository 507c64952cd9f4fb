CONSTANTS
    Ids = {i1}
    Handlers = {h1}
    MaxSessions = 1
    EventCap = 1
    ShellEnabled = FALSE
    MaxBuilt = 1
    MaxTurns = 1
    Collector = Collector
    NoId = NoId
    NoHandler = NoHandler
SPECIFICATION FairSpec
PROPERTIES TurnEndReleases
CHECK_DEADLOCK FALSE
