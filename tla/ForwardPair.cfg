\* Two boards that both run this program; nothing breaks.
SPECIFICATION Spec
CONSTANTS
  CallerMail = {1}
  CalledMail = {}
  TooBig = {}
  Peers = {{}}
  MaxSessions = 1
  MaxFaults = 0
INVARIANTS
  UnbrokenDelivers
\* The sessions allowed are over: the boards may stop.
CHECK_DEADLOCK FALSE
