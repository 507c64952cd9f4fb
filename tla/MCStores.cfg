SPECIFICATION Spec
CONSTANTS
    MaxEvents = 4
    Opens = 3
    Connects = 3
    Buffer = 2
    PageLimit = 2
    FewOpens = 2
    FewConnects = 2
    Rewrites = 1
    DirObjects = 3
    DirMessages = 4
    UserTexts = {"a", "b"}
    Retention = TRUE
    MaxTurns = 2
    FewObjects = 2
    FewMessages = 2
    EditCrashes = 1
    FewTexts = {"a"}
    MaxCreated = 2
    MaxSchedules = 2
    Intervals = {1}
    RetryDelay = 1
    Horizon = 1
    MaxEdits = 1
    MemoryStores = {"s1", "s2"}
    MemoryTopics = {"general"}
    Entries = {3, 4, 6}
    MemoryLocks = 1
    Core = "core"
    General = "general"
    Migrations = TRUE
    Deaths = TRUE
    CharLimit = 12
    MaxTopics = 1
    OneStore = "s1"
    AllTopics = {"core", "general", "work"}
    FewEntries = {4, 5}
    LockFiles = 4
    KeyReaders = {"r1"}
    Ensurers = {"e1", "e2"}
    MaxKeys = 2
    LoopLines = 7
    LoopFeeds = 3
    DraftLines = 4
    HttpLines = 6
    HttpFeeds = 2
INVARIANTS
    ConversationKept
    CompactionKeeps
    EventsInOrder
    FilesAgree
    MemoryKept
    KeyKept
    
    DerivedAgrees
PROPERTIES
    LoadRecovers
    
    CopiesHonest
    PlanAdvances
