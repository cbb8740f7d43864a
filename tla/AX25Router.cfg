\* Two calls, two hang-ups or disappearances, one retry.
SPECIFICATION FairSpec
CONSTANTS
  MaxCalls = 2
  MaxHangups = 2
  MaxAir = 2
  MaxRetries = 1
INVARIANTS
  TypeOK
  ServedWhileConnected
  CancelledIsDown
  EndedIsReleased
PROPERTIES
  GoodbyeEnds
\* The station may fall silent with nothing left to do.
CHECK_DEADLOCK FALSE
