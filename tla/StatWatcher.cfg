CONSTANTS
    MaxWatchers = 2
    MaxListeners = 2
    MaxCalls = 2
    MaxVersion = 3
SPECIFICATION Spec
INVARIANTS
    IntervalsReachable
    ChangesRight
CHECK_DEADLOCK FALSE
