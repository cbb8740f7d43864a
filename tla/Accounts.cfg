\* Two terminals and two web sessions; the operator and a user, on a node that
\* requires passwords and on an open one.
SPECIFICATION Spec
CONSTANTS
  Calls = {"OP", "U"}
  Operator = "OP"
  Known = {"OP", "U"}
  Passwords = {"a", "b"}
  First = "a"
  Names = {1}
  Terminals = {"s1", "s2"}
  Tokens = {1}
  Ttl = 1
  Modes = {TRUE, FALSE}
  MaxChanges = 2
  MaxFaults = 1
INVARIANTS
  TypeOK
  PrivilegeWasGranted
  SavedUnlessOvertaken
  EveryAccountHasPassword
PROPERTIES
  NoLiveSessionLost
\* The changes allowed are over and everybody has left.
CHECK_DEADLOCK FALSE
