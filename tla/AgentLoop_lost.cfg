SPECIFICATION Spec
CONSTANTS
    MaxBatch = 2
    Steps = 1
    MaxToolCalls = 2
    MaxRetries = 1
    MaxGuards = 1
    MaxShrinks = 1
    WriteFaults = TRUE
    CompactionCuts = FALSE
INVARIANT LostReplyIsLoud
