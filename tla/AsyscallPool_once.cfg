CONSTANTS
    Threads = {t1, t2}
    MaxCalls = 2
    WideCalls = {}
SPECIFICATION Spec
INVARIANTS
    ExecutedOnce
CHECK_DEADLOCK FALSE
