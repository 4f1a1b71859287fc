SPECIFICATION FairSpec
CONSTANTS
  j1 = j1
  j2 = j2
  h1 = h1
  h2 = h2
  Requests = {1}
  JobIds = {j1, j2}
  Handlers = {h1}
  NoJob = nojob
  NoRequest = norequest
  NoMetadata = {}
  BatchLimit = 2
  MaxDisturbances = 2
  Disturbances = {"db", "publish", "duplicate", "crash", "upstream", "late", "ratelimit", "timeout"}
  UpstreamStatuses = {"searching", "completed", "failed"}
PROPERTIES EventuallySettled PollErrorsAreTransient
