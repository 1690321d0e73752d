SPECIFICATION FairSpec
CONSTANTS
    Callers = {c1, c2}
    Controller = Controller
    Monitor = Monitor
    Ids = {i1}
    None = None
    Intervals <- MCIntervals
    MaxCalls = 2
    MaxStarts = 2
INVARIANTS HealthInv QuickShutdown
PROPERTIES StopReturns EveryCheckRuns
CHECK_DEADLOCK FALSE
