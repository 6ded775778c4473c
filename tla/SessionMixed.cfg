SPECIFICATION Spec
CONSTANTS
  Mixes <- MCMixed
  MaxReqs = 4
  Mortal = {"reader"}
CHECK_DEADLOCK FALSE
INVARIANT RefusalMasked
INVARIANT WritesInOrder
