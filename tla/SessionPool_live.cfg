CONSTANTS
    Ids = {i1}
    Handlers = {h1, h2}
    MaxSessions = 1
    EventCap = 1
    ShellEnabled = TRUE
    MaxBuilt = 1
    MaxTurns = 1
    Collector = Collector
    NoId = NoId
    NoHandler = NoHandler
SPECIFICATION FairSpec
PROPERTIES ShutdownClosesAll
CHECK_DEADLOCK FALSE
