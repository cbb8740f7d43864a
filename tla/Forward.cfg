\* A board and a foreign one, either calling: four messages, one on both boards, one too big.
SPECIFICATION FairSpec
CONSTANTS
  CallerMail = {1, 2}
  CalledMail = {2, 3, 4}
  TooBig = {3}
  Peers = {{"caller"}, {"called"}}
  MaxSessions = 2
  MaxFaults = 2
INVARIANTS
  TypeOK
  MarkedWasGranted
  NoneSentTwice
  UnbrokenDelivers
PROPERTIES
  SessionEnds
\* The sessions allowed are over: the boards may stop.
CHECK_DEADLOCK FALSE
