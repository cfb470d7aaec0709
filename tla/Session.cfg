\* Messages of two units, a buffer that holds one and a half.
SPECIFICATION FairSpec
CONSTANTS
    RequestSize = 2
    AnswerSize = 2
    Buffer = 3
    MaxCommands = 3
INVARIANTS TypeOK AnswerComing AnswersPaired
PROPERTIES AnswersInOrder CommandReturns
CHECK_DEADLOCK FALSE
