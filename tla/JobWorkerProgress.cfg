SPECIFICATION FairSpec
CONSTANTS
    w1 = w1
    w2 = w2
    Workers = {w1, w2}
    Jobs = {j1, j2}
    ExitCodes <- MCExitCodes
    DefaultId = DefaultId
    EmptyId = EmptyId
    None = None
    IdOption <- MCAutoIds
    Faults = {"reset", "malformed"}
    Signals = TRUE
PROPERTIES EveryJobReported ShutdownCompletes LedgerSpec
CHECK_DEADLOCK FALSE
