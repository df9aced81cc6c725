CONSTANTS
    MaxTask = 4
    MaxTime = 1
    Delays <- FiveDelays
    Requests <- FewRequests
    Cancels = {"simple", "batched"}
SPECIFICATION Spec
INVARIANTS
    NothingLost
    StructureOK
PROPERTIES
    KeepsPromise
    CancelledNeverRuns
CHECK_DEADLOCK FALSE
