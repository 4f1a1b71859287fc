SPECIFICATION Spec
CONSTANTS
  j1 = j1
  j2 = j2
  h1 = h1
  h2 = h2
  Requests = {1}
  JobIds = {j1, j2}
  Handlers = {h1, h2}
  NoJob = nojob
  NoRequest = norequest
  NoMetadata = {}
  BatchLimit = 2
  MaxDisturbances = 3
  Disturbances = {"db", "publish", "duplicate", "crash", "upstream", "late", "ratelimit", "timeout", "retry", "markfailed"}
  UpstreamStatuses = {"searching", "completed", "paused"}
SYMMETRY SymJobsHandlers
INVARIANTS TypeOK NoLostRequest AcknowledgedIsTracked FulfilmentIsGenuine AcknowledgedRowHasJob
PROPERTIES TerminalIsFinal TickNeverRegresses ImplementsLedger
