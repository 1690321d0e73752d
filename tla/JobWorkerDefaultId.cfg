SPECIFICATION Spec
CONSTANTS
    w1 = w1
    w2 = w2
    Workers = {w1, w2}
    Jobs = {j1, j2}
    ExitCodes <- MCExitCodes
    DefaultId = DefaultId
    EmptyId = EmptyId
    None = None
    IdOption <- MCDefaultIds
    Faults = {}
    Signals = FALSE
INVARIANT ClaimHeldWhileRunning
