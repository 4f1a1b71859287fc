CONSTANTS
    Second = 4
    Half = 32768
    Headers <- MCHeaders
    Steps <- MCSteps
    Horizon = 4000
SPECIFICATION Spec
INVARIANTS TypeOK NeverPinned
 
CHECK_DEADLOCK FALSE
