SPECIFICATION Spec
CONSTANTS
  MaxRows = 5
  MaxChanges = 2
  LimitParams <- MCLimitParams
  DefaultLimit = 2
  MaxLimit = 3
INVARIANTS TypeOK  
CHECK_DEADLOCK FALSE
