\* A temperature that is no number.
SPECIFICATION Spec
CONSTANTS
    Threads = {t1}
    Requests <- ThermostatRequests
    Stoi <- MCStoi
    Stod <- StodWithNaN
    NaN = NaN
    Malformed = {"bad"}
    Free = Free
INVARIANT TemperatureInRange
\* A process that std::terminate ended takes no further step.
CHECK_DEADLOCK FALSE
