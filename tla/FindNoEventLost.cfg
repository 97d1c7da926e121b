CONSTANTS
  w1 = w1
  w2 = w2
  Workers <- OneWorker
  Imeis <- MCImeis
  Messages <- TwoMessages
  Unparseable = Unparseable
  ReadCount = 2
  MaxRetries = 3
  StreamMaxLen = 10
  Uninitialised = {}
  MaxPublished = 2
  Faults = {"crash"}
SPECIFICATION FairSpec
PROPERTIES NoEventLostByRestart
CHECK_DEADLOCK FALSE
