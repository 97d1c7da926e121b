\* Two requests that both create an installation.
CONSTANTS
  Trackers = {t1}
  Vehicles = {v1, v2}
  t1 = t1
  v1 = v1
  v2 = v2
  Requests = {1, 2}
  Creators = {1, 2}
  CreateStatuses = {"NEW"}
  ManualStatuses = {"IN_STOCK"}
  InstallationTypes = {"PRIMARY", "BAIT"}
  MaxInstallations = 2
SPECIFICATION Spec
INVARIANTS OneActivePerTracker
CHECK_DEADLOCK FALSE
