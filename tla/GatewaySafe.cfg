\* Two connections of one device, every frame, every failure, a command.
CONSTANTS
  Conns = {1, 2}
  Imeis = {7, 8}
  Frames <- ConstFramesAll
  LoginsOf <- ConstLoginsOwn
  MaxConnections = 2
  MaxFrames = 3
  MaxCommands = 1
  Faults = {"crash", "redis", "reply", "foreign"}
SPECIFICATION Spec
INVARIANTS TypeOK RegistryIsExact AckedIsPublished StoryInOrder
CHECK_DEADLOCK FALSE
