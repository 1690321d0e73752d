SPECIFICATION FairSpec
CONSTANTS
    Users = {u1, u2}
    Health = Health
    Ids = {i1, i2}
    None = None
    MaxMonitors = 2
INVARIANTS ManagerInv NothingDangles
PROPERTY CallsReturn
CHECK_DEADLOCK FALSE
