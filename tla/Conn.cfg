SPECIFICATION FairSpec
CONSTANTS
  User = {"alice", "bob", "x"}
  Known = {"alice"}
  Brief = {"x"}
  Fits = 1
  MaxMsgs = 3
  Mortal = {"client", "writer"}
  Split = TRUE
  Notices = TRUE
CHECK_DEADLOCK FALSE
INVARIANT ConnInv
INVARIANT HandOver
PROPERTY ClientHears
PROPERTY HandshakeEnds
