\* Two threads that ask, while entries are added, removed and flushed.
SPECIFICATION Spec
CONSTANTS
    Threads = {t1, t2}
    Addresses <- TwoLights
    Macs <- SomeMacs
    Limits <- SomeLimits
    AgeCap = 2
    NoAddress = NoAddress
SYMMETRY Symmetry
INVARIANTS TypeOK StaticSurvives AnswersStand
