CONSTANTS
  w1 = w1
  w2 = w2
  Workers <- OneWorker
  Imeis <- MCImeis
  Messages <- FourMessages
  Unparseable = Unparseable
  ReadCount = 2
  MaxRetries = 3
  StreamMaxLen = 2
  Uninitialised = {}
  MaxPublished = 3
  Faults = {"crash", "redis", "db", "dbReply", "expiry"}
SPECIFICATION Spec
INVARIANTS TypeOK CacheIsSound DeviceIsNewest
CHECK_DEADLOCK FALSE
