SPECIFICATION FairSpec
CONSTANTS
    MaxBatch = 2
    Steps = 2
    MaxToolCalls = 3
    MaxRetries = 1
    MaxGuards = 1
    MaxShrinks = 1
    WriteFaults = TRUE
    CompactionCuts = TRUE
INVARIANTS TypeOK TurnKeepsPairing WorkBounded
PROPERTIES CalibrationStopsTools ImplementsTurn TurnEnds
