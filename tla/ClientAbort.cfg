SPECIFICATION FairSpec
CONSTANTS
    r = r
    w = w
    NoOp = NoOp
    Ops = {r, w}
    Kind <- ReadAndCast
    MaxSlots = 2
    IdModulus = 8
    FirstId = 5
    MaxInFlight = 2
    MaxRetries = 0
    Transports = {"tcp"}
    Aborters = {"coordinator"}
PROPERTIES
    CancelledOperationsFinish
CHECK_DEADLOCK FALSE
