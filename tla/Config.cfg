SPECIFICATION FairSpec
CONSTANTS
  Words <- MCWords
  Preambles <- MCPreambles
  MaxWords = 3
  MaxReloads = 1
  Half = 128
CHECK_DEADLOCK FALSE
INVARIANT TypeOK
INVARIANT EmitSafe
INVARIANT FreedOnce
INVARIANT Faithful
PROPERTY ParseEnds
