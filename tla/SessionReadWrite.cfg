SPECIFICATION Spec
CONSTANTS
  Mixes <- MCReadWrite
  MaxReqs = 2
  Mortal = {}
CHECK_DEADLOCK FALSE
INVARIANT OwnAnswer
