CONSTANTS
    Ids = {i1, i2}
    Handlers = {h1, h2}
    MaxSessions = 1
    EventCap = 1
    ShellEnabled = TRUE
    MaxBuilt = 2
    MaxTurns = 2
    Collector = Collector
    NoId = NoId
    NoHandler = NoHandler
SPECIFICATION Spec
SYMMETRY Symmetry
PROPERTIES VictimsIdle
CHECK_DEADLOCK FALSE
