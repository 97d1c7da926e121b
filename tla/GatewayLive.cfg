\* Two connections of one device and one of another, one permit short.
CONSTANTS
  Conns = {1, 2, 4}
  Imeis = {7, 8}
  Frames <- ConstFramesBound
  LoginsOf <- ConstLoginsOwn
  MaxConnections = 2
  MaxFrames = 2
  MaxCommands = 0
  Faults = {"reply"}
SPECIFICATION FairSpec
INVARIANTS EndIsAnnounced
PROPERTIES SlotReclaimed
CHECK_DEADLOCK FALSE
