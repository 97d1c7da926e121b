\* One request at a time, every operation.
CONSTANTS
  Trackers = {t1, t2}
  Vehicles = {v1, v2}
  t1 = t1
  t2 = t2
  v1 = v1
  v2 = v2
  Requests = {1}
  Creators = {1}
  CreateStatuses = {"NEW", "IN_STOCK"}
  ManualStatuses = {"IN_STOCK", "LOST"}
  InstallationTypes = {"PRIMARY", "BAIT"}
  MaxInstallations = 2
SPECIFICATION Spec
SYMMETRY Symmetry
INVARIANTS StockIsConsistent
PROPERTIES KeepsCustody
CHECK_DEADLOCK FALSE
