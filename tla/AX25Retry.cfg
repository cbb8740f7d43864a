\* The retry count of a link that makes progress.
SPECIFICATION Spec
CONSTANTS
  Mod = 3
  Window = 2
  MaxRetries = 1
  Station = {A, B}
  Callers = {A}
  MaxAir = 2
  MaxConnects = 1
  MaxDisconnects = 0
  MaxWrites = 2
  MaxRNR = 0
PROPERTIES
  FailsOnlyAfterSilence
\* The bounds on calls are spent and both ends are quiet: the link may stop.
CHECK_DEADLOCK FALSE
