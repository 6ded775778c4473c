SPECIFICATION Spec
CONSTANTS
  N = 2
  Worker = {w1, w2}
  Weight <- MCWeight
  Threshold <- MCThreshold
  Probes <- MCLagProbes
  Garbage = {0}
  IntHalf = 4
  LagMod = 64
  HiUnit = 32
  MaxArrivals = 2
  Signals = {"hup", "term"}
CHECK_DEADLOCK FALSE
SYMMETRY Workers
INVARIANT ContextInv
INVARIANT ClientsCounted
INVARIANT ScanIsSnapshot
INVARIANT PickSound
