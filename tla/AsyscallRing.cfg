CONSTANTS
    Threads = {t1, t2}
    Queue = 3
    MaxCalls = 4
SPECIFICATION FairSpec
INVARIANTS
    AnswersRight
PROPERTIES
    NobodyWaitsForever
CHECK_DEADLOCK FALSE
