SPECIFICATION FairSpec
CONSTANTS
    c1 = c1
    c2 = c2
    n1 = n1
    Callers = {c1, c2}
    Names = {n1}
    Watchdog = Watchdog
    None = None
    Ops <- MCOpsControl
    MaxCalls = 3
    MaxPids = 2
    Configs <- MCNever
    Statuses <- MCClean
    StopTimeouts = TRUE
    RunTimeouts = TRUE
PROPERTIES CallsReturn ZombieReaped
CHECK_DEADLOCK FALSE
