SPECIFICATION Spec
CONSTANTS
  Worker = {w1, w2}
  Other = {watcher, monitor}
  Client = {c1, c2}
  Endpoints <- MCEndpoints
  MaxFd = 6
  MaxCache = 1
CHECK_DEADLOCK FALSE
INVARIANT WorkersInv
INVARIANT NothingLeaks
PROPERTY Served
