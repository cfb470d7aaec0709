\* Safety on Linux, stop() at any moment, exceptions included.
SPECIFICATION Spec
CONSTANTS
    Clients = {c1, c2, c3}
    Workers = {w1, w2}
    NoClient = NoClient
    Backlog = 2
    CloseWakesAccept = FALSE
    StopFrom <- AnyTime
    MayThrow = TRUE
    MaxRequests = 2
SYMMETRY Symmetry
INVARIANTS TypeOK ConnectionsConserved RequestsConserved NoHandlerOutlivesStart ListenerOwned
CHECK_DEADLOCK FALSE
