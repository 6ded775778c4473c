SPECIFICATION FairSpec
CONSTANTS
  N = 2
  Worker = {w1}
  Weight <- MCWeight1
  Threshold <- MCThreshold
  Probes <- MCTwoProbes
  Garbage = {0}
  IntHalf = 4
  LagMod = 64
  HiUnit = 32
  MaxArrivals = 2
  Signals = {"hup"}
CHECK_DEADLOCK FALSE
PROPERTY LocksGranted
PROPERTY KeepsPublishing
