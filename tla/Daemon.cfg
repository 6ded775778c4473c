SPECIFICATION Spec
CONSTANTS
  Inst = {i1, i2}
  Commands <- MCCommands
  Faulty = {"open", "fork", "setsid", "write", "chown", "setgid", "setuid", "bind", "monitor"}
CHECK_DEADLOCK FALSE
INVARIANT DaemonInv
INVARIANT FailureTold
PROPERTY ParentEnds
