\* Two commands of one device, one that is retried, and one that cannot be encoded.
CONSTANTS
  Commands = {"reboot", "status", "unknown"}
  DeviceOf <- ConstDeviceOf
  Retries <- ConstRetries
  Encodable = {"reboot", "status"}
  Polls = 2
SPECIFICATION FairSpec
INVARIANTS TypeOK TriesBounded
PROPERTIES OutcomeStands AckReported EveryDispatchEnds
CHECK_DEADLOCK FALSE
