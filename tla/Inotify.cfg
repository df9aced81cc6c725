CONSTANTS
    pa = pa
    pb = pb
    pc = pc
    f = f
    g = g
    NoPath = NoPath
    Paths = {pa, pb, pc}
    Inodes = {f, g}
    Inode <- Leads
    MaxWd = 2
    MaxStarts = 2
    MaxCount = 3
    MaxEvents = 2
    BufEvents = 2
SPECIFICATION FairSpec
INVARIANTS
    EventsNamed
    NoStrayRead
PROPERTIES
    EventsRead
CHECK_DEADLOCK FALSE
