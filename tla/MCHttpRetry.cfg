SPECIFICATION FairSpec
CONSTANTS
    MaxRetries = 5
    BackoffBase = 2
    Transport = Transport
    Codes <- MCCodes
INVARIANTS TypeOK FinalNotRetried GivesUpLast PausesBetween AnswersHold
PROPERTIES CallSpec CallEnds
CHECK_DEADLOCK FALSE
