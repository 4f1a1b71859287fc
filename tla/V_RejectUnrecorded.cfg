SPECIFICATION Spec
CONSTANTS
  j1 = j1
  j2 = j2
  h1 = h1
  h2 = h2
  Requests = {1}
  JobIds = {j1, j2}
  Handlers = {h1, h2}
  NoJob = nojob
  NoRequest = norequest
  NoMetadata = {1}
  BatchLimit = 2
  MaxDisturbances = 1
  Disturbances = {"db"}
  UpstreamStatuses = {"searching", "completed", "failed"}
SYMMETRY SymJobsHandlers
INVARIANTS NoLostRequest
