SPECIFICATION Spec
CONSTANTS
  j1 = j1
  j2 = j2
  h1 = h1
  h2 = h2
  Requests = {1, 2, 3}
  JobIds = {j1, j2}
  Handlers = {h1}
  NoJob = nojob
  NoRequest = norequest
  NoMetadata = {3}
  BatchLimit = 2
  MaxDisturbances = 1
  Disturbances = {"db", "duplicate", "upstream", "late", "ratelimit", "retry", "markfailed", "noid"}
  UpstreamStatuses = {"completed", "gone"}
SYMMETRY SymJobs
INVARIANTS OneLossEach ImportedIsAnnounced SilencesAreCounted
PROPERTIES ParkedMeansQuiet
