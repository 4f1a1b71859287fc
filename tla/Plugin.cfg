SPECIFICATION FairSpec
CONSTANTS
  MaxConfigures = 3
  MaxRunning = 1
  Admins = {a1}
  MaxEdits = 1
  Urls <- MCUrls
  ValidUrls <- MCValidUrls
  Keys <- MCKeys
  Covers <- MCCovers
  HostConfigs <- MCHostConfigs
  Bodies <- MCBodies
INVARIANTS TypeOK PointersAreOpen OneGenerationInForce InForceIsStored StoredUrlIsValid SettledIsTracked OncePerGeneration
PROPERTIES  ServedAcrossReconfigure
CHECK_DEADLOCK FALSE
