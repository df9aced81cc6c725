CONSTANTS
    Threads = {t1, t2}
    MaxCalls = 3
    WideCalls = {3}
SPECIFICATION FairSpec
INVARIANTS
    NoNullPointer
    LeftMeansUnused
    ArgumentsWrittenAlone
    AnswerRightOnce
    TakenInOrder
    StopDrains
PROPERTIES
    ServiceSpec
    EveryCallAnswered
    ThreadsExit
CHECK_DEADLOCK FALSE
