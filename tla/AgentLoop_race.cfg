SPECIFICATION Spec
CONSTANTS
    MaxBatch = 2
    Steps = 2
    MaxToolCalls = 2
    MaxRetries = 1
    MaxGuards = 1
    MaxShrinks = 1
    WriteFaults = FALSE
    CompactionCuts = FALSE
INVARIANT RequestsPaired
