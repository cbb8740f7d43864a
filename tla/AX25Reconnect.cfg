\* Two calls, the second while frames of the first are on the path; two chunks.
SPECIFICATION Spec
CONSTANTS
  Mod = 3
  Window = 2
  MaxRetries = 1
  Station = {A, B}
  Callers = {A}
  MaxAir = 2
  MaxConnects = 2
  MaxDisconnects = 0
  MaxWrites = 2
  MaxRNR = 0
INVARIANTS
  InOrderDelivery
\* The bounds on calls are spent and both ends are quiet: the link may stop.
CHECK_DEADLOCK FALSE
