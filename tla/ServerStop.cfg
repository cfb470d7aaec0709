\* stop() of a running server where closing a socket wakes accept (Windows).
SPECIFICATION LeavingSpec
CONSTANTS
    Clients = {c1, c2}
    Workers = {w1}
    NoClient = NoClient
    Backlog = 2
    CloseWakesAccept = TRUE
    StopFrom <- OnceArmed
    MayThrow = FALSE
    MaxRequests = 1
INVARIANT SocketClosedOnce
PROPERTIES StopSticks NoAcceptAfterStop StopReturns RequestsAnswered
CHECK_DEADLOCK FALSE
