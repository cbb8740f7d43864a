\* A station that calls again after its link went down.
SPECIFICATION Spec
CONSTANTS
  MaxCalls = 2
  MaxHangups = 1
  MaxAir = 1
  MaxRetries = 0
INVARIANTS
  ActiveIsListed
CHECK_DEADLOCK FALSE
