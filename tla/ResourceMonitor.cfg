SPECIFICATION FairSpec
CONSTANTS
    Users = {u1, u2}
    Monitor = Monitor
    MaxTicks = 1
    Word = 4
    HistoryMax = 1
    Memory <- MCMemory
    Limits <- MCLimits
INVARIANTS MonitorInv TicksReportedOnce VerdictsAgree
PROPERTY StopReturns
CHECK_DEADLOCK FALSE
