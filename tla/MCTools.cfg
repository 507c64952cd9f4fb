SPECIFICATION Spec
CONSTANTS
    Callers = {"c1", "c2"}
    PipeCap = 1
    OutCap = 1
    MaxFrames = 3
    Cancels = TRUE
    Server = {"huge", "note", "dies", "late"}
    Posts = {1, 2, 3}
    MaxStreamed = 2
    Sids = {"s1", "s2"}
    InitGivesId = TRUE
    Backend = "local"
    Forks = TRUE
    OutputCap = 2
    MaxOutput = 4
    Old = "old"
    New = "new"
    Other = "other"
    MaxEditFileBytes = 3
    MaxLen = 4
    Docker = TRUE
    MaxDepth = 2
    Levels = 3
    Capacity = 1
    MaxDelegations = 2
    MaxSaid = 2
    Code = {"f", "g"}
    Docs = {}
    UrlsA = {"u1", "u2", "u3"}
    UrlsB = {}
    Apis = {"u2"}
    Queries = {"q"}
    Pages = {"p", "r"}
    Kinds = {"blocked", "timeout", "not_found"}
    WebTools = {"fetch", "search", "shell"}
    WebCap = 8
    WebWarnThreshold = 3
    WebHaltThreshold = 8
    WebMaxSteps = 6
    FileTools = {"read", "write", "find"}
    FileCap = 5
    FileWarnThreshold = 2
    FileHaltThreshold = 3
    FileMaxSteps = 8
    MaxTurns = 1
    MaxCalls = 5
    Skips = FALSE
    Recovers = FALSE
    Compacts = FALSE
    PageElems = 4
    MaxSteps = 4
    FewElems = 3
    AllResponses = {"r1", "r2", "r3"}
    Sites = {"s1", "s2"}
    MaxPages = 2
    Slots = 2
    MaxEntries = 1
    Navigates = TRUE
    FewResponses = {"r1", "r2"}
    FewEntries = 2
    ReportDepth = 1
    ReportLevels = 2
    ReportRoom = 4
    ReportCalls = 2
    ReportSaid = 3
    StreamCalls = 2
    MaxArgs = 2
    MaxText = 1
    StreamRoom = 1
    Clients = {"a", "b"}
    Streamers = {"b"}
    Quitters = {"a"}
    MaxDeltas = 1
    ChatRoom = 2
    ChatTurns = 2
    FewRounds = 1
    MoreRoom = 3
    FewTurns = 1
    ChatRounds = 2
INVARIANTS
    OwnReply
    ShellReported
    SubagentsContained
    
    GuardsTruthful
    
    RefHits
PROPERTIES
    EditIsExact
    GivenStays
