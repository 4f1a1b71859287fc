SPECIFICATION FairSpec
CONSTANTS
  j1 = j1
  j2 = j2
  h1 = h1
  h2 = h2
  Requests = {1, 2}
  JobIds = {j1, j2}
  Handlers = {h1}
  NoJob = nojob
  NoRequest = norequest
  NoMetadata = {}
  BatchLimit = 1
  MaxDisturbances = 1
  Disturbances = {"duplicate", "crash", "publish", "upstream", "ratelimit", "timeout"}
  UpstreamStatuses = {"searching", "completed"}
INVARIANTS LossesAreCounted
PROPERTIES CompletedIsNoticed FulfilledOnce
