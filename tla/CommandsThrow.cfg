\* An address that is no address.
SPECIFICATION Spec
CONSTANTS
    Threads = {t1}
    Requests <- ToolRequests
    Stoi <- MCStoi
    Stod <- MCStod
    NaN = NaN
    Malformed = {"bad"}
    Free = Free
INVARIANT CommandAnswered
\* A process that std::terminate ended takes no further step.
CHECK_DEADLOCK FALSE
