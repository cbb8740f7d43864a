\* Two processes, two users, one neighbour: three commands or sessions with a crash.
SPECIFICATION FairSpec
CONSTANTS
  Node = "NODE"
  Users = {"OP", "U"}
  Sysop = "OP"
  Neighbours = {"NBR"}
  Drafts = {"away"}
  RemoteMail = {1}
  PersonalDays = 1
  BulletinDays = 1
  NtsDays = 1
  KilledDays = 0
  BidSpace = 2
  BidDays = 3
  MaxId = 3
  MaxClock = 1
  MaxTasks = 2
  MaxCrashes = 1
INVARIANTS
  TypeOK
  BidsAreUnique
  NumbersKeepTheirMessage
  PathTellsTruth
PROPERTIES
  KilledStaysKilled
  OfferedOnce
  EventLoopReturns
\* The tasks allowed are over, or a search for a BID goes on for ever.
CHECK_DEADLOCK FALSE
