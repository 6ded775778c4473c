SPECIFICATION Spec
CONSTANTS
  Lines <- MCLines
  MaxLines = 3
  Users <- MCUsers
  Block = 4
  Field = 2
  LoMod = 8
  HiMod = 2
  HashLen = 3
  Salt <- MCSalt
  Salt2 <- MCSalt2
  Secrets <- MCSecrets
  Text <- MCText
CHECK_DEADLOCK FALSE
INVARIANT LexerInv
INVARIANT Faithful
INVARIANT Accounted
INVARIANT AdmitsOwner
INVARIANT ProvesSame
PROPERTY ComputesDigest
PROPERTY ReadEnds
