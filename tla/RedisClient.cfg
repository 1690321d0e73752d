SPECIFICATION MCSpec
CONSTANTS
    Requests <- MCRequests
    Bodies <- MCBodies
    MaxFrame = 4
    MaxSends = 3
    MaxConnects = 2
    MaxLen = 5
    MaxCell = 6
INVARIANTS ClientInv OwnReply ParseCorrect
PROPERTY SendReturns
CHECK_DEADLOCK FALSE
