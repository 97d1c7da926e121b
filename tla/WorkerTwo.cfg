CONSTANTS
  w1 = w1
  w2 = w2
  Workers <- TwoWorkers
  Imeis <- MCImeis
  Messages <- TwoMessages
  Unparseable = Unparseable
  ReadCount = 2
  MaxRetries = 3
  StreamMaxLen = 2
  Uninitialised = {}
  MaxPublished = 3
  Faults = {"crash", "redis", "db", "dbReply"}
SPECIFICATION Spec
SYMMETRY WorkerSymmetry
INVARIANTS AckedIsAccounted OneEffectPerKey OneOwner
PROPERTIES DeliveredAtMostOnce
CHECK_DEADLOCK FALSE
