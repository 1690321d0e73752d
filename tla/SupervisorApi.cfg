SPECIFICATION Spec
CONSTANTS
    c1 = c1
    c2 = c2
    n1 = n1
    Callers = {c1, c2}
    Names = {n1}
    Watchdog = Watchdog
    None = None
    Ops <- MCOpsApi
    MaxCalls = 3
    MaxPids = 3
    Configs <- MCConfigs
    Statuses <- MCExits
    StopTimeouts = TRUE
    RunTimeouts = TRUE
INVARIANTS SupervisorInv OneChild ExitHandled OnlyKnownAborts
CHECK_DEADLOCK FALSE
