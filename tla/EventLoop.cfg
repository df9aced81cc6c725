CONSTANTS
    imm = imm
    two = two
    bg1 = bg1
    bg2 = bg2
    wait1 = wait1
    NoTask = NoTask
    Timer <- Timers
    RefTask = {imm, two}
    UnrefTask = {bg1, bg2}
    PollTask = {wait1}
    Intervals = {imm}
    Handles = {two}
    MaxMicro = 2
    MaxTime = 3
SPECIFICATION FairSpec
INVARIANTS
    
    NothingDropped
    MicrotasksFirst
    StopsWhenIdle
    NoOversleep
PROPERTIES
    BatchInOrder
    UsesRefQueueRight
    EveryRefTaskRuns
CHECK_DEADLOCK FALSE
