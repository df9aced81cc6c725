CONSTANTS
    MaxTask = 3
    MaxTime = 2
    Delays <- FiveDelays
    Requests <- SomeRequests
    Cancels = {"pointed"}
SPECIFICATION Spec
INVARIANTS
    NothingLost
CHECK_DEADLOCK FALSE
