SPECIFICATION FairSpec
CONSTANTS
  MaxSockets = 3
  MaxFd = 2
  MaxEvents = 2
  MaxDatagrams = 2
INVARIANTS SocksFindOpen OwnDatagrams BoundKeepsLoop
PROPERTIES StopIsFinal EveryDatagramRead
CHECK_DEADLOCK FALSE
