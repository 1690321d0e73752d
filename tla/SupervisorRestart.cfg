SPECIFICATION Spec
CONSTANTS
    c1 = c1
    c2 = c2
    n1 = n1
    Callers = {c1}
    Names = {n1}
    Watchdog = Watchdog
    None = None
    Ops <- MCOpsStartOnly
    MaxCalls = 2
    MaxPids = 2
    Configs <- MCOnFailure
    Statuses <- MCExits
    StopTimeouts = TRUE
    RunTimeouts = FALSE
INVARIANT Survives
CHECK_DEADLOCK FALSE
