\* The keep-alive poll of an idle link whose peer is gone.
SPECIFICATION FairSpec
CONSTANTS
  Mod = 3
  Window = 2
  MaxRetries = 1
  Station = {A, B}
  Callers = {A}
  MaxAir = 2
  MaxConnects = 1
  MaxDisconnects = 1
  MaxWrites = 1
  MaxRNR = 0
PROPERTIES
  GonePeerNoticed
\* The bounds on calls are spent and both ends are quiet: the link may stop.
CHECK_DEADLOCK FALSE
