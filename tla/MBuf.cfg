SPECIFICATION Spec
CONSTANTS
  Cap = 6
  Hdr = 2
  LenMod = 16
  Last <- MCLast
  Starts <- MCStarts
  MsgEnd <- MCMsgEnd
  Untyped <- MCUntyped
  Final <- MCFinal
  Refusals <- MCRefusals
  CodeAt = 4
CHECK_DEADLOCK FALSE
INVARIANT TypeOK
INVARIANT Bounded
INVARIANT ReplayExact
INVARIANT Contiguous
INVARIANT Framed
INVARIANT WholeMessage
INVARIANT ResendWrites
