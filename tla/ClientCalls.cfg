SPECIFICATION Spec
CONSTANTS
    r = r
    w = w
    NoOp = NoOp
    Ops = {r, w}
    Kind <- ReadAndWrite
    MaxSlots = 2
    IdModulus = 8
    FirstId = 5
    MaxInFlight = 2
    MaxRetries = 1
    Transports = {"tcp", "rtu"}
    Aborters = {}
INVARIANTS
    TypeOK
    OwnResponse
    EligibleMeansSilent
    MutationSentOnce
    SlotOrResult
    SlotFound
    DeadlineArmed
CHECK_DEADLOCK FALSE
