SPECIFICATION FairSpec
CONSTANTS
  Mixes <- MCBegin
  MaxReqs = 2
  Mortal = {}
CHECK_DEADLOCK FALSE
PROPERTY Answered
