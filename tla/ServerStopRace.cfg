\* stop() while start() is still setting up.
SPECIFICATION Spec
CONSTANTS
    Clients = {c1}
    Workers = {w1}
    NoClient = NoClient
    Backlog = 1
    CloseWakesAccept = TRUE
    StopFrom <- AnyTime
    MayThrow = FALSE
    MaxRequests = 1
PROPERTY StopSticks
CHECK_DEADLOCK FALSE
