CONSTANTS
  w1 = w1
  w2 = w2
  Workers <- TwoWorkers
  Imeis <- MCImeis
  Messages <- FourMessages
  Unparseable = Unparseable
  ReadCount = 2
  MaxRetries = 3
  StreamMaxLen = 10
  Uninitialised = {w2}
  MaxPublished = 3
  Faults = {"db"}
SPECIFICATION FairSpec
INVARIANTS DlqHadNoEffect
PROPERTIES EveryEntryAccounted
CHECK_DEADLOCK FALSE
