\* Liveness: nothing is assumed of the radio, only that due timers run.
SPECIFICATION FairSpec
CONSTANTS
  Mod = 3
  Window = 2
  MaxRetries = 1
  Station = {A, B}
  Callers = {A}
  MaxAir = 2
  MaxConnects = 1
  MaxDisconnects = 1
  MaxWrites = 1
  MaxRNR = 1
INVARIANTS
  NoSilentStall
  TeardownComplete
PROPERTIES
  ArrivesOrFails
  CallsAndReleasesEnd
\* The bounds on calls are spent and both ends are quiet: the link may stop.
CHECK_DEADLOCK FALSE
