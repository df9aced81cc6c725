CONSTANTS
    o1 = o1
    o2 = o2
    s1 = s1
    Program = Program
    Nobody = Nobody
    Operations = {o1, o2}
    Streams = {s1}
    MaxFd = 3
    Size = 2
    End = 1
    MaxActors = 2
SPECIFICATION FairSpec
INVARIANTS
    OwnDescriptors
    RightBytes
    NothingLeaks
    AnsweredOnce
PROPERTIES
    AllAnswered
CHECK_DEADLOCK FALSE
