SPECIFICATION Spec
CONSTANTS
  MaxConfigures = 3
  MaxRunning = 1
  Admins = {a1}
  MaxEdits = 0
  Urls <- MCUrls
  ValidUrls <- MCValidUrls
  Keys <- MCKeys
  Covers <- MCCovers
  HostConfigs <- MCHostConfigs
  Bodies <- MCBodies
INVARIANTS FulfilledOnce
CHECK_DEADLOCK FALSE
