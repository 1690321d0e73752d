SPECIFICATION Spec
CONSTANTS
    Capacities = {0, 2}
    Words <- MCWords
    Port16 = 4
    Restarts32 = 6
    Num64 = 8
    Threads = {t1, t2}
    EventTypes = {STARTED, CRASHED}
    Lines <- MCLines
    Args <- MCArgs
    None = None
    Codes = {0, 1}
    MaxArgs = 3
    MaxJobs = 2
    MaxLines = 1
    MaxEvents = 2
INVARIANTS TelemetryInv OptionsAsMeant LogKept QueriesAgree MetricsAgree
CONSTRAINT MCBound
SYMMETRY MCSymmetry
CHECK_DEADLOCK FALSE
