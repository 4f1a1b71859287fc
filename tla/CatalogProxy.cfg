SPECIFICATION Spec
CONSTANTS
  Hosts = {home, cdn, mirror}
  Home = home
  MaxRequests = 4
  LimitParams <- MCLimitParams
  MaxCatalogLimit = 2
  FittingLimit = 2
INVARIANTS TypeOK KeyStaysHome HealthyIsServed 
CHECK_DEADLOCK FALSE
