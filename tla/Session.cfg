SPECIFICATION FairSpec
CONSTANTS
  Mixes <- MCTame
  MaxReqs = 3
  Mortal = {"client", "reader", "writer"}
CHECK_DEADLOCK FALSE
INVARIANT SessionInv
PROPERTY LooksLikeOneNode
PROPERTY Answered
