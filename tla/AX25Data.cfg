\* One call, three chunks either way: the window closes and the numbers wrap.
SPECIFICATION Spec
CONSTANTS
  Mod = 3
  Window = 2
  MaxRetries = 1
  Station = {A, B}
  Callers = {A}
  MaxAir = 2
  MaxConnects = 1
  MaxDisconnects = 0
  MaxWrites = 3
  MaxRNR = 0
INVARIANTS
  TypeOK
  NothingForgottenEarly
  WindowIsHeld
PROPERTIES
  ImplementsReliableLink
\* The bounds on calls are spent and both ends are quiet: the link may stop.
CHECK_DEADLOCK FALSE
