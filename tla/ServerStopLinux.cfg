\* stop() where closing the listener does not wake accept.
SPECIFICATION LeavingSpec
CONSTANTS
    Clients = {c1}
    Workers = {w1}
    NoClient = NoClient
    Backlog = 1
    CloseWakesAccept = FALSE
    StopFrom <- OnceArmed
    MayThrow = FALSE
    MaxRequests = 1
PROPERTY StopReturns
CHECK_DEADLOCK FALSE
