\* Two threads, every form of request.
SPECIFICATION FairSpec
CONSTANTS
    Threads = {t1, t2}
    Requests <- AllRequests
    Stoi <- MCStoi
    Stod <- MCStod
    NaN = NaN
    Malformed = {"bad"}
    Free = Free
INVARIANTS TypeOK ListIsSnapshot ArmedIsOn BrightnessInRange TemperatureInRange
PROPERTIES ImplementsRegistry EveryCommandReturns
\* A process that std::terminate ended takes no further step.
CHECK_DEADLOCK FALSE
