SPECIFICATION Spec
CONSTANTS
    w1 = w1
    w2 = w2
    Workers = {w1, w2}
    Jobs = {j1, j2}
    ExitCodes <- MCExitCodes
    DefaultId = DefaultId
    EmptyId = EmptyId
    None = None
    IdOption <- MCAutoIds
    Faults = {"refused", "reset", "silence", "error_reply", "malformed", "kill9"}
    Signals = TRUE
SYMMETRY MCSymmetry
INVARIANTS JobInv AtMostOnce ReportsOwnRun CleanExitLosesNoJob TalliesMatch ClaimTracksRun
CHECK_DEADLOCK FALSE
